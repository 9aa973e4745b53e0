------------------------------ MODULE Supervisor ------------------------------
(***************************************************************************)
(* How a change reaches the server: the panel writes keyring.json, then    *)
(* starts, signals or stops the one server process, restarts it when it    *)
(* dies, and compares what the server says it has loaded with what it      *)
(* wrote (cmd/zanoza-panel/process.go; on the server's side                *)
(* masterdns/cmd/server/main.go, keyring.go and ReloadKeyring).            *)
(*                                                                         *)
(* Every write of keyring.json has a number; written[w] is what it put     *)
(* there, 0 stands for no write.  Time is not counted: a sleep or a        *)
(* timeout may end whenever it has begun.                                  *)
(***************************************************************************)
EXTENDS PanelConfig, Sequences

CONSTANTS
  MaxRestarts,  (* restarts within the crash window before giving up        *)
  MaxFaults     (* bound: crashes, failed starts, failed writes, timeouts   *)

VARIABLES
  applyMu,     (* the thread that holds m.applyMu, or None                  *)
  written,     (* history: generation and list of each write of keyring.json *)
  keyring,     (* the write that keyring.json holds                         *)
  marker,      (* the write keyring.json.applied names                      *)
  haveConfig,  (* server_config.toml exists                                 *)
  desired,     (* the write published as desired, and m.desiredGen          *)
  up,          (* m.desiredUp                                               *)
  restarts,    (* m.restarts                                                *)
  timers,      (* goroutines of scheduleAutoRestart that sleep              *)
  applyErr,    (* m.lastApplyErr is set                                     *)
  child,       (* the server process                                        *)
  faults       (* bound: faults so far                                      *)

disk == <<written, keyring, marker, haveConfig>>
manager == <<desired, up, restarts, timers, applyErr>>
supVars == <<configVars, applyMu, disk, manager, child, faults>>

(* "at" is where the process stands: it boots and opens keyring.json, has   *)
(* told what it loaded, handles signals, has opened the file again, was     *)
(* asked to end, is dead and not reaped; m.cmd is nil only at "none".       *)
NoChild == [at |-> "none", opened |-> 0, ring |-> 0, hup |-> FALSE]

Booting == {"boot", "opened", "told"}
Alive == Booting \union {"up", "reopened", "ending"}
Managed == child.at # "none"

SupInit ==
  /\ ConfigInit
  /\ applyMu = None
  /\ written = <<>> /\ keyring = 0 /\ marker = 0 /\ haveConfig = FALSE
  /\ desired = [write |-> 0, gen |-> 0]
  /\ up = FALSE /\ restarts = 0 /\ timers = 0 /\ applyErr = FALSE
  /\ child = NoChild
  /\ faults = 0

Fault == faults < MaxFaults /\ faults' = faults + 1

(* A method of the manager ends and the thread with it. *)
Finish(t) == applyMu' = None /\ thread' = [thread EXCEPT ![t] = Idle]

Fail(t) == Finish(t) /\ applyErr' = TRUE

------------------------------------------------------------------------------
(* apply and restart, step by step under applyMu. *)

LockApply(t) ==
  /\ thread[t].at = "snapped" /\ applyMu = None
  /\ applyMu' = t
  /\ Goto(t, IF thread[t].goal = "restart" THEN "stop" ELSE "write")
  /\ UNCHANGED <<file, live, commitMu, requests, disk, manager, child, faults>>

(* writeKeyring, its first file: the generation is the next one, and is     *)
(* remembered only at the end.                                              *)
WriteKeyringFile(t) ==
  /\ thread[t].at = "write"
  /\ \/ /\ written' = Append(written, [gen |-> desired.gen + 1, list |-> thread[t].list])
        /\ keyring' = Len(written')
        /\ Goto(t, "ensure")
        /\ UNCHANGED <<applyMu, applyErr, faults>>
     \/ Fault /\ Fail(t) /\ UNCHANGED <<written, keyring>>
  /\ UNCHANGED <<file, live, commitMu, requests, marker, haveConfig, desired, up, restarts,
                 timers, child>>

(* An existing server_config.toml is left alone; writing it may fail.       *)
(* Then the write is published as the desired one.                          *)
EnsureAndPublish(t) ==
  /\ thread[t].at = "ensure"
  /\ \/ /\ haveConfig' = TRUE
        /\ desired' = [write |-> keyring, gen |-> written[keyring].gen]
        /\ applyErr' = FALSE
        /\ Goto(t, IF thread[t].goal = "restart" THEN "start"
                   ELSE IF thread[t].list = {} THEN "stop" ELSE "look")
        /\ UNCHANGED <<applyMu, faults>>
     \/ ~haveConfig /\ Fault /\ Fail(t) /\ UNCHANGED <<haveConfig, desired>>
  /\ UNCHANGED <<file, live, commitMu, requests, written, keyring, marker, up, restarts,
                 timers, child>>

(* apply looks under m.mu whether the server runs, and acts without it. *)
LookForChild(t) ==
  /\ thread[t].at = "look"
  /\ up' = TRUE
  /\ Goto(t, IF Managed THEN "signal" ELSE "start")
  /\ UNCHANGED <<file, live, commitMu, requests, applyMu, disk, desired, restarts, timers,
                 applyErr, child, faults>>

(* Variant: SIGHUP is ignored until there is a handler. *)
IgnoreEarlyHup == UNCHANGED child

EarlyHup == child' = [child EXCEPT !.at = "dead"]

(* SIGHUP ends a process that has not installed its handler; the handler's  *)
(* channel holds one signal; a dead one takes it or is gone already.        *)
Signal(t) ==
  /\ \/ /\ thread[t].at = "signal" /\ child.at \in Booting
        /\ EarlyHup
        /\ Finish(t) /\ UNCHANGED applyErr
     \/ /\ thread[t].at = "signal" /\ child.at \in {"up", "reopened"}
        /\ child' = [child EXCEPT !.hup = TRUE]
        /\ Finish(t) /\ UNCHANGED applyErr
     \/ /\ thread[t].at = "signal" /\ child.at \in {"ending", "dead"}
        /\ Finish(t) /\ UNCHANGED <<child, applyErr>>
     \/ /\ thread[t].at = "gone" \/ (thread[t].at = "signal" /\ child.at = "dead")
        /\ Fail(t) /\ UNCHANGED child
  /\ UNCHANGED <<file, live, commitMu, requests, disk, desired, up, restarts, timers, faults>>

(* startLocked: the binary may be missing, or refuse to start. *)
Launch == child' = [NoChild EXCEPT !.at = "boot"] /\ up' = TRUE /\ applyErr' = FALSE

Start(t) ==
  /\ thread[t].at = "start"
  /\ \/ Managed /\ Finish(t) /\ UNCHANGED <<child, up, applyErr, faults>>
     \/ ~Managed /\ Launch /\ Finish(t) /\ UNCHANGED faults
     \/ ~Managed /\ Fault /\ Fail(t) /\ UNCHANGED <<child, up>>
  /\ UNCHANGED <<file, live, commitMu, requests, disk, desired, restarts, timers>>

------------------------------------------------------------------------------
(* stop *)

Stop(t) ==
  /\ thread[t].at = "stop"
  /\ up' = FALSE
  /\ Goto(t, IF Managed THEN "kill" ELSE "stopped")
  /\ UNCHANGED <<file, live, commitMu, requests, applyMu, disk, desired, restarts, timers,
                 applyErr, child, faults>>

(* SIGTERM, then a wait for reap.  A process that Wait has collected cannot *)
(* be signalled: while reap has not closed "done" that is an error.         *)
Terminate(t) ==
  /\ thread[t].at = "kill"
  /\ \/ /\ child' = [child EXCEPT !.at = CASE child.at \in Booting -> "dead"
                                           [] child.at = "dead" -> "dead"
                                           [] OTHER -> "ending"]
        /\ Goto(t, "wait")
        /\ UNCHANGED <<applyMu, applyErr>>
     \/ child.at = "dead" /\ Fail(t) /\ UNCHANGED child
  /\ UNCHANGED <<file, live, commitMu, requests, disk, desired, up, restarts, timers, faults>>

(* After the grace time the process is killed, and waited for once more. *)
KillTimeout(t) ==
  /\ thread[t].at = "wait" /\ child.at \in {"ending", "dead"} /\ Fault
  /\ child' = [child EXCEPT !.at = "dead"]
  /\ \/ Goto(t, "wait") /\ UNCHANGED <<applyMu, applyErr>>
     \/ Fail(t)
  /\ UNCHANGED <<file, live, commitMu, requests, disk, desired, up, restarts, timers>>

AfterStop(t) ==
  /\ thread[t].at = "stopped"
  /\ IF thread[t].goal = "restart" /\ thread[t].list # {}
     THEN Goto(t, "write") /\ UNCHANGED applyMu
     ELSE Finish(t)
  /\ UNCHANGED <<file, live, commitMu, requests, disk, manager, child, faults>>

------------------------------------------------------------------------------
(* reap and the automatic restart. *)

(* One more restart, in this crash window or as the first of a new one.  The *)
(* counter goes no further than one past the limit: it is only compared.    *)
CountRestart(giveUp, goOn) ==
  \E before \in {0, restarts} :
    /\ restarts' = IF before > MaxRestarts THEN before ELSE before + 1
    /\ IF restarts' > MaxRestarts
       THEN up' = FALSE /\ applyErr' = TRUE /\ giveUp
       ELSE UNCHANGED <<up, applyErr>> /\ goOn

(* Variant: "done" is never closed. *)
NotifyNobody == UNCHANGED thread

(* A thread that waits for "done" goes on; one that was about to signal     *)
(* the process finds nobody.                                                *)
Notify ==
  thread' = [t \in Threads |->
    CASE thread[t].at \in {"kill", "wait"} -> [thread[t] EXCEPT !.at = "stopped"]
      [] thread[t].at = "signal" -> [thread[t] EXCEPT !.at = "gone"]
      [] OTHER -> thread[t]]

reap ==
  /\ child.at = "dead"
  /\ child' = NoChild
  /\ Notify
  /\ IF up
     THEN CountRestart(UNCHANGED timers, timers' = timers + 1)
     ELSE UNCHANGED <<up, restarts, timers, applyErr>>
  /\ UNCHANGED <<file, live, commitMu, requests, applyMu, disk, desired, faults>>

AutoRestart ==
  /\ timers > 0
  /\ \/ /\ ~up \/ Managed
        /\ timers' = timers - 1
        /\ UNCHANGED <<up, restarts, applyErr, child, faults>>
     \/ /\ up /\ ~Managed
        /\ Launch /\ timers' = timers - 1
        /\ UNCHANGED <<restarts, faults>>
     \/ /\ up /\ ~Managed /\ Fault
        /\ CountRestart(timers' = timers - 1, UNCHANGED timers)
        /\ UNCHANGED child
  /\ UNCHANGED <<configVars, applyMu, disk, desired>>

------------------------------------------------------------------------------
(* The server process. *)

(* What the server finds in the write it opened: a file replaced meanwhile  *)
(* is refused, and a list it may not serve.                                 *)
Loads == child.opened = keyring /\ FromEntries(written[keyring].list)

OpenKeyring ==
  /\ child.at \in {"boot", "up"}
  /\ child.at = "up" => child.hup
  /\ child' = [child EXCEPT !.at = IF @ = "boot" THEN "opened" ELSE "reopened",
                            !.opened = keyring, !.hup = FALSE]
  /\ UNCHANGED <<configVars, applyMu, disk, manager, faults>>

(* The marker may fail to be written, which is logged. *)
WriteApplied == marker' = child.opened \/ UNCHANGED marker

(* At the start nothing to serve is fatal as well. *)
FirstLoad ==
  /\ child.at = "opened"
  /\ \/ /\ Loads /\ WriteApplied
        /\ child' = [child EXCEPT !.at = IF written[keyring].list = {} THEN "dead" ELSE "told",
                                  !.ring = child.opened]
     \/ ~Loads /\ child' = [child EXCEPT !.at = "dead"] /\ UNCHANGED marker
  /\ UNCHANGED <<configVars, applyMu, written, keyring, haveConfig, manager, faults>>

InstallHandler ==
  /\ child.at = "told"
  /\ child' = [child EXCEPT !.at = "up"]
  /\ UNCHANGED <<configVars, applyMu, disk, manager, faults>>

ReloadKeyring ==
  /\ child.at = "reopened"
  /\ \/ Loads /\ WriteApplied /\ child' = [child EXCEPT !.at = "up", !.ring = child.opened]
     \/ ~Loads /\ child' = [child EXCEPT !.at = "up"] /\ UNCHANGED marker
  /\ UNCHANGED <<configVars, applyMu, written, keyring, haveConfig, manager, faults>>

(* The process ends because it was asked to, or by itself. *)
Exit ==
  /\ child.at \in Alive
  /\ \/ child.at = "ending" /\ UNCHANGED faults
     \/ child.at # "ending" /\ Fault
  /\ child' = [child EXCEPT !.at = "dead"]
  /\ UNCHANGED <<configVars, applyMu, disk, manager>>

------------------------------------------------------------------------------
(* The panel ends and is started again; the service's processes end with    *)
(* it.  Its configuration must pass the checks.                             *)

(* Variant: generations start over with the panel. *)
NoWatermark == 0

(* The marker counts only if it names the bytes of keyring.json, and then   *)
(* its generation is the same.                                              *)
readGenerationWatermark == IF keyring = 0 THEN 0 ELSE written[keyring].gen

PanelRestart ==
  /\ Fault
  /\ canonicalizeAndValidateInstances(file)
  /\ live' = Canonical(file)
  /\ commitMu' = None /\ applyMu' = None
  /\ thread' = [t \in Threads |-> IF t = Main /\ live' # {}
                                  THEN [at |-> "committed", goal |-> "boot", list |-> {}]
                                  ELSE Idle]
  /\ desired' = [write |-> 0, gen |-> readGenerationWatermark]
  /\ up' = FALSE /\ restarts' = 0 /\ timers' = 0 /\ applyErr' = FALSE
  /\ child' = NoChild
  /\ UNCHANGED <<file, requests, disk>>

ThreadStep(t) ==
  \/ ConfigStep(t) /\ UNCHANGED <<applyMu, disk, manager, child, faults>>
  \/ LockApply(t) \/ WriteKeyringFile(t) \/ EnsureAndPublish(t) \/ LookForChild(t)
  \/ Signal(t) \/ Start(t) \/ Stop(t) \/ Terminate(t) \/ KillTimeout(t) \/ AfterStop(t)

ChildStep == OpenKeyring \/ FirstLoad \/ InstallHandler \/ ReloadKeyring \/ Exit

SupNext ==
  \/ \E t \in Threads : ThreadStep(t)
  \/ EditFile /\ UNCHANGED <<applyMu, disk, manager, child, faults>>
  \/ reap \/ AutoRestart \/ ChildStep \/ PanelRestart

------------------------------------------------------------------------------
(* What state() tells the user: the running server has named exactly the    *)
(* bytes that the panel wants it to serve.                                  *)
Acknowledged ==
  /\ Managed /\ desired.write # 0 /\ marker # 0
  /\ written[marker] = written[desired.write]
  /\ written[marker].gen = desired.gen

(* "Acknowledged" is said only of a load of the very write that is desired: *)
(* neither an older write of the same list nor one from before the panel    *)
(* was started again counts (process.go state, readGenerationWatermark).    *)
AckAfterLoad == Acknowledged => marker = desired.write

(* Whatever the panel accepts, the server it feeds accepts as well: no      *)
(* keyring is ever written that the server refuses to load (validateInstance *)
(* in the panel, FromEntries in the server).                                *)
KeyringLoadable == \A w \in 1 .. Len(written) : FromEntries(written[w].list)

(* No update is lost between the panel's threads, the timers that restart   *)
(* the server and the signals: when no method of the manager is under way,  *)
(* a server that has no signal left to handle serves what keyring.json      *)
(* holds (apply, start, scheduleAutoRestart, ReloadKeyring).                *)
InSync ==
  applyMu = None /\ child.at = "up" /\ ~child.hup => child.ring = keyring

(* Goroutines of the panel and the server run on; signals, crashes, edits   *)
(* and requests need not come.                                              *)
SupFairness ==
  /\ \A t \in Threads : WF_supVars(thread[t].at # "idle" /\ ThreadStep(t))
  /\ WF_supVars(reap)
  /\ WF_supVars(AutoRestart)
  /\ WF_supVars(child.at \in {"boot", "opened", "told", "up", "reopened"}
                 /\ (OpenKeyring \/ FirstLoad \/ InstallHandler \/ ReloadKeyring))
  /\ WF_supVars(child.at = "ending" /\ Exit)

(* A method that waits for the process to end under applyMu comes to an end *)
(* (stop, stopWithTimeout and reap): later changes are not held up for ever. *)
ApplyEnds == (applyMu # None) ~> (applyMu = None)

(* What the comment on publishReload says: a SIGHUP does not bring back a   *)
(* stale snapshot, so that once every request is through, the live list is  *)
(* the one in config.json (config.go loadExistingConfig, publishReload).    *)
NoStaleReload == (\A t \in Threads : thread[t].at = "idle") => live = file
=============================================================================
