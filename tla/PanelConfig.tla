----------------------------- MODULE PanelConfig -----------------------------
(***************************************************************************)
(* The panel's configuration: the live list of instances, config.json, and *)
(* the threads that change them (cmd/zanoza-panel/config.go and the        *)
(* handlers of main.go).  A thread that has changed the list goes on to    *)
(* bring the server up to date, which is module Supervisor.                *)
(*                                                                         *)
(* An HTTP request is served by a client's thread.  The thread Main is the *)
(* one that starts the panel and then waits for SIGHUP, which reloads      *)
(* config.json.                                                            *)
(***************************************************************************)
EXTENDS InstanceRules

CONSTANTS
  Clients,      (* threads that serve HTTP requests                         *)
  Main, None,
  Ids,          (* names newInstanceID may give                             *)
  Offered,      (* what a client may ask to be stored, without the id       *)
  Edits,        (* lists an administrator may write into config.json        *)
  MaxRequests   (* bound: requests, signals and edits                       *)

VARIABLES
  file,        (* the instances in config.json                              *)
  live,        (* c.Instances                                               *)
  commitMu,    (* the thread that holds c.commitMu, or None                 *)
  thread,      (* where each thread stands, and the list it carries         *)
  requests     (* bound: requests, signals and edits so far                 *)

configVars == <<file, live, commitMu, thread, requests>>

Threads == Clients \union {Main}

ASSUME ThreadsAssumption == None \notin Threads

Idle == [at |-> "idle", goal |-> "none", list |-> {}]

(* The listener is opened when the thread that starts the panel is through. *)
Serving == thread[Main].goal # "boot"

Goto(t, place) == thread' = [thread EXCEPT ![t].at = place]

ConfigInit ==
  /\ file = {} /\ live = {} /\ commitMu = None
  /\ thread = [t \in Threads |-> Idle]
  /\ requests = 0

Ask(t) ==
  /\ thread[t].at = "idle" /\ Serving
  /\ requests < MaxRequests
  /\ requests' = requests + 1

(* commit, up to its write: a request takes the lock, changes a copy of the *)
(* live list, and has the copy validated and written.  A change that is     *)
(* refused or cannot be written leaves no trace.                            *)
CommitWrite(t, list, goal) ==
  /\ commitMu = None
  /\ canonicalizeAndValidateInstances(list)
  /\ commitMu' = t
  /\ file' = Canonical(list)
  /\ thread' = [thread EXCEPT ![t] = [at |-> "written", goal |-> goal, list |-> Canonical(list)]]
  /\ UNCHANGED live

WithId(id, in) ==
  [id |-> id, dom |-> in.dom, key |-> in.key, plain |-> in.plain, method |-> in.method]

ASSUME EditsAssumption ==
  \A list \in Edits : IsFiniteSet(list) /\ \A in \in list : in = WithId(in.id, in)

handleInstancesCollection(t) ==
  \E id \in Ids, in \in Offered :
    /\ \A old \in live : old.id # id
    /\ Ask(t)
    /\ validateInstance(live, canonicalDomain(WithId(id, in)))
    /\ CommitWrite(t, live \union {canonicalDomain(WithId(id, in))}, "apply")

handleInstancePut(t) ==
  \E old \in live, in \in Offered :
    LET new == canonicalDomain(WithId(old.id, in))
    IN /\ Ask(t)
       /\ validateInstance(live, new)
       /\ CommitWrite(t, (live \ {old}) \union {new}, "apply")

handleInstanceDelete(t) ==
  \E old \in live : Ask(t) /\ CommitWrite(t, live \ {old}, "apply")

(* A new name for the panel: the list is written again as it is. *)
handleSettings(t) == Ask(t) /\ CommitWrite(t, live, "none")

(* commit, its last part: what was written becomes live. *)
CommitPublish(t) ==
  /\ thread[t].at = "written"
  /\ live' = thread[t].list
  /\ commitMu' = None
  /\ thread' = [thread EXCEPT ![t] =
       IF thread[t].goal = "apply" THEN [@ EXCEPT !.at = "committed", !.list = {}] ELSE Idle]
  /\ UNCHANGED <<file, requests>>

(* Requests that change nothing and bring the server up to date. *)
Request(t, goal) ==
  /\ Ask(t)
  /\ thread' = [thread EXCEPT ![t] = [at |-> "committed", goal |-> goal, list |-> {}]]
  /\ UNCHANGED <<file, live, commitMu>>

handleReload(t) == Request(t, "apply")
handleServerRestart(t) == Request(t, "restart")

(* SIGHUP: config.json is read and checked before any lock is taken; a file *)
(* that fails the checks is left aside.                                     *)
loadExistingConfig ==
  /\ Ask(Main)
  /\ canonicalizeAndValidateInstances(file)
  /\ thread' = [thread EXCEPT ![Main] =
       [at |-> "read", goal |-> "apply", list |-> Canonical(file)]]
  /\ UNCHANGED <<file, live, commitMu>>

publishReload ==
  /\ thread[Main].at = "read" /\ commitMu = None
  /\ live' = thread[Main].list
  /\ thread' = [thread EXCEPT ![Main].at = "committed", ![Main].list = {}]
  /\ UNCHANGED <<file, commitMu, requests>>

(* An administrator writes config.json while the panel runs. *)
EditFile ==
  /\ requests < MaxRequests
  /\ requests' = requests + 1
  /\ file' \in Edits
  /\ UNCHANGED <<live, commitMu, thread>>

(* The list that will be applied is copied before applyMu is asked for. *)
snapshot(t) ==
  /\ thread[t].at = "committed"
  /\ thread' = [thread EXCEPT ![t].at = "snapped", ![t].list = live]
  /\ UNCHANGED <<file, live, commitMu, requests>>

ConfigStep(t) ==
  \/ t \in Clients /\ ( \/ handleInstancesCollection(t) \/ handleInstancePut(t)
                        \/ handleInstanceDelete(t) \/ handleSettings(t)
                        \/ handleReload(t) \/ handleServerRestart(t) )
  \/ t = Main /\ (loadExistingConfig \/ publishReload)
  \/ CommitPublish(t) \/ snapshot(t)
=============================================================================
