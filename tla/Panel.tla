-------------------------------- MODULE Panel --------------------------------
(***************************************************************************)
(* The panel: what it does to the server (Supervisor) and who may tell it  *)
(* to (PanelAuth).  A request that needs a session looks it up once, in    *)
(* requireAuth, before its handler starts, and nothing else is shared by   *)
(* the two parts: no step of one reads or writes the other's state.  They  *)
(* are therefore run side by side and not interleaved: "part" says which   *)
(* of them moves in a behaviour.                                           *)
(***************************************************************************)
EXTENDS Supervisor, PanelAuth

VARIABLE part

vars == <<supVars, authVars, part>>

Init == SupInit /\ AuthInit /\ part \in {"server", "auth"}

Next ==
  \/ part = "server" /\ SupNext /\ UNCHANGED <<authVars, part>>
  \/ part = "auth" /\ AuthNext /\ UNCHANGED <<supVars, part>>

Spec == Init /\ [][Next]_vars /\ SupFairness
=============================================================================
