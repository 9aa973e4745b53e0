-------------------------------- MODULE Sessions --------------------------------
(***************************************************************************)
(* The server's sessions: their table, the tracker of wrong cookies, the   *)
(* streams of one session and the work that connects and closes them.  A   *)
(* session's own state and the store's are guarded by different locks and  *)
(* share only the session's end, which "streams" has as a step that may    *)
(* come at any time.  They are run side by side: "part" says which of them *)
(* moves in a behaviour; "table" is StreamTable with any callers, with     *)
(* more streams than "streams" uses.                                       *)
(***************************************************************************)
EXTENDS SessionTable, CookieTracker, StreamConnect

VARIABLE part

vars == <<storeVars, trackerVars, connectVars, part>>

Init == /\ StoreInit /\ TrackerInit /\ ConnectInit
        /\ part \in {"store", "cookies", "table", "streams"}

Next ==
  \/ part = "store" /\ StoreNext /\ UNCHANGED <<trackerVars, connectVars, part>>
  \/ part = "cookies" /\ TrackerNext /\ UNCHANGED <<storeVars, connectVars, part>>
  \/ /\ part = "table" /\ TableNext
     /\ UNCHANGED <<procVars, events, storeVars, trackerVars, part>>
  \/ part = "streams" /\ ConnectNext /\ UNCHANGED <<storeVars, trackerVars, part>>

(* The goroutines of a session are never blocked for good: a dial has a     *)
(* timeout, an ARQ that hears nothing an inactivity limit.                  *)
Spec == /\ Init /\ [][Next]_vars
        /\ WF_vars(part = "streams" /\ GoesOn /\ UNCHANGED <<storeVars, trackerVars, part>>)
=============================================================================
