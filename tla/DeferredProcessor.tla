-------------------------- MODULE DeferredProcessor --------------------------
(***************************************************************************)
(* The pool of workers that runs what a packet of a client must wait for:  *)
(* DNS queries sent upstream and the dials of SYN packets                  *)
(* (masterdns/internal/udpserver/deferred_session.go).                     *)
(*                                                                         *)
(* A task belongs to a lane, a stream of a session.  A lane is bound to a  *)
(* worker while it has tasks, which keeps them in order; removing the lane *)
(* drops its queued tasks, cancels the running one and leaves a mark for a *)
(* task that a worker has taken from its channel and not begun.            *)
(*                                                                         *)
(* Every method runs under p.mu and is one step.  A worker takes a task    *)
(* from its channel without the mutex, so an idle worker may also take one *)
(* in the middle of a compaction: the parameter "taken" says which.        *)
(***************************************************************************)
EXTENDS Integers, FiniteSetsExt, SequencesExt

CONSTANTS
  Lanes,        (* pairs of a session and a stream                          *)
  WorkerCount,
  QueueLimit,   (* capacity of a worker's channel                           *)
  SessionCap,   (* tasks a session may have pending                         *)
  MaxTasks      (* bound: accepted tasks                                    *)

ASSUME PoolAssumption ==
  WorkerCount \in Nat \ {0} /\ QueueLimit \in Nat /\ SessionCap \in Nat

VARIABLES
  jobs,            (* the channel of each worker: tasks in order            *)
  pending,         (* tasks counted for each worker                         *)
  laneWorker,      (* lane -> the worker it is bound to                     *)
  lanePending,
  sessionPending,
  cancelled,       (* lanes marked as removed                               *)
  running,         (* lane -> the task whose cancel function is recorded    *)
  nextWorker,
  worker,          (* what each worker is doing, and with which task        *)
  laneOf,          (* the lane of every accepted task, in order             *)
  dead,            (* tasks whose context is cancelled                      *)
  started,         (* history: tasks whose function was called              *)
  detached,        (* history: tasks whose lane was removed before they end *)
  removed,         (* history: those of them that had not begun             *)
  revived          (* history: those of them whose lane was used again      *)

bookkeeping == <<pending, laneWorker, lanePending, sessionPending, nextWorker>>
marks == <<cancelled, running>>
history == <<started, detached, removed, revived>>
vars == <<jobs, bookkeeping, marks, worker, laneOf, dead, history>>

Workers == 0 .. WorkerCount - 1
Tasks == 1 .. Len(laneOf)
Sessions == {lane[1] : lane \in Lanes}

Idle == [at |-> "idle", task |-> 0]

Queued(t) == \E w \in Workers : t \in ToSet(jobs[w])
Held(t) == \E w \in Workers : worker[w].task = t
Unbegun(t) == Queued(t) \/ \E w \in Workers : worker[w] = [at |-> "popped", task |-> t]

Init ==
  /\ jobs = [w \in Workers |-> <<>>]
  /\ pending = [w \in Workers |-> 0]
  /\ laneWorker = [lane \in {} |-> 0]
  /\ lanePending = [lane \in Lanes |-> 0]
  /\ sessionPending = [s \in Sessions |-> 0]
  /\ cancelled = {} /\ running = [lane \in {} |-> 0]
  /\ nextWorker = 0
  /\ worker = [w \in Workers |-> Idle]
  /\ laneOf = <<>> /\ dead = {}
  /\ started = {} /\ detached = {} /\ removed = {} /\ revived = {}

------------------------------------------------------------------------------
(* Enqueue. *)

(* The first of the least loaded workers, looking from nextWorker on. *)
LeastLoaded ==
  CHOOSE w \in Workers : \A v \in Workers :
    \/ pending[w] < pending[v]
    \/ /\ pending[w] = pending[v]
       /\ (w - nextWorker) % WorkerCount <= (v - nextWorker) % WorkerCount

(* Variant for the checks: one task more than the cap is let in. *)
CanAcceptOneMore(s) == sessionPending[s] <= SessionCap

CanAcceptSession(s) == sessionPending[s] < SessionCap

HasRoom(w) == Len(jobs[w]) < QueueLimit

(* A full channel refuses the task and everything is rolled back. *)
TryEnqueue(w, lane) ==
  IF HasRoom(w)
  THEN LET t == Len(laneOf) + 1
       IN /\ jobs' = [jobs EXCEPT ![w] = Append(@, t)]
          /\ laneOf' = Append(laneOf, lane)
          /\ pending' = [pending EXCEPT ![w] = @ + 1]
          /\ lanePending' = [lanePending EXCEPT ![lane] = @ + 1]
          /\ sessionPending' = [sessionPending EXCEPT ![lane[1]] = @ + 1]
          /\ laneWorker' = [l \in DOMAIN laneWorker \union {lane} |->
                              IF l = lane THEN w ELSE laneWorker[l]]
  ELSE UNCHANGED <<jobs, laneOf, pending, lanePending, sessionPending, laneWorker>>

(* The mark of a removed lane is lifted even if the task is then refused. *)
Enqueue(lane) ==
  /\ Len(laneOf) < MaxTasks
  /\ cancelled' = cancelled \ {lane}
  /\ revived' = revived \union {t \in removed : laneOf[t] = lane}
  /\ IF CanAcceptSession(lane[1])
     THEN IF lane \in DOMAIN laneWorker
          THEN TryEnqueue(laneWorker[lane], lane) /\ UNCHANGED nextWorker
          ELSE /\ TryEnqueue(LeastLoaded, lane)
               /\ nextWorker' = (LeastLoaded + 1) % WorkerCount
     ELSE UNCHANGED <<jobs, laneOf, bookkeeping>>
  /\ UNCHANGED <<running, worker, dead, started, detached, removed>>

------------------------------------------------------------------------------
(* RemoveLane, RemoveSession and FinalizeLane. *)

(* What idle workers may take while the channels are drained and refilled. *)
Takings ==
  {taken \in [Workers -> 0 .. QueueLimit] :
     \A w \in Workers :
       taken[w] # 0 => worker[w] = Idle /\ taken[w] <= Len(jobs[w])}

Left(w, taken) == IF taken[w] = 0 THEN jobs[w] ELSE RemoveAt(jobs[w], taken[w])

Dropped(w, taken, lanes) == {t \in ToSet(Left(w, taken)) : laneOf[t] \in lanes}

(* Variant: the tasks that are not meant are not put back. *)
KeptNothing(w, taken, lanes) == <<>>

Keep(tasks, lanes) ==
  LET keep[n \in 0 .. Len(tasks)] ==
        IF n = 0 THEN <<>>
        ELSE IF laneOf[tasks[n]] \in lanes THEN keep[n - 1] ELSE Append(keep[n - 1], tasks[n])
  IN keep[Len(tasks)]

Kept(w, taken, lanes) == Keep(Left(w, taken), lanes)

(* Variant: a dropped task keeps counting against its session. *)
SessionShareKept(s, gone) == 0

SessionShare(s, gone) == Cardinality({t \in gone : laneOf[t][1] = s})

(* Tasks of marked lanes are dropped along the way, whichever lane is meant. *)
Compact(taken, meant) ==
  LET lanes == meant \union cancelled
      gone  == UNION {Dropped(w, taken, lanes) : w \in Workers}
  IN /\ jobs' = [w \in Workers |-> Kept(w, taken, lanes)]
     /\ worker' = [w \in Workers |->
                     IF taken[w] = 0 THEN worker[w]
                     ELSE [at |-> "popped", task |-> jobs[w][taken[w]]]]
     /\ pending' = [w \in Workers |-> pending[w] - Cardinality(Dropped(w, taken, lanes))]
     /\ lanePending' = [lane \in Lanes |->
                          lanePending[lane] - Cardinality({t \in gone : laneOf[t] = lane})]
     /\ sessionPending' = [s \in Sessions |-> sessionPending[s] - SessionShare(s, gone)]

Unbound(lanes) == laneWorker' = Restrict(laneWorker, DOMAIN laneWorker \ lanes)

Cancel(lanes) ==
  /\ dead' = dead \union {running[lane] : lane \in DOMAIN running \intersect lanes}
  /\ running' = Restrict(running, DOMAIN running \ lanes)

Recorded(lanes) ==
  LET tasks == {t \in Tasks : laneOf[t] \in lanes}
  IN /\ detached' = detached \union {t \in tasks : Queued(t) \/ Held(t)}
     /\ removed' = removed \union {t \in tasks : Unbegun(t)}
     /\ UNCHANGED <<started, revived>>

RemoveLane(lane, taken) ==
  /\ Cancel({lane})
  /\ Unbound({lane})
  /\ cancelled' = cancelled \union {lane}
  /\ Compact(taken, {lane})
  /\ Recorded({lane})
  /\ UNCHANGED <<nextWorker, laneOf>>

(* Only the lanes that are bound to a worker are marked. *)
RemoveSession(s, taken) ==
  LET lanes == {lane \in Lanes : lane[1] = s}
  IN /\ Cancel(lanes)
     /\ Unbound(lanes)
     /\ cancelled' = cancelled \union (lanes \intersect DOMAIN laneWorker)
     /\ Compact(taken, lanes)
     /\ Recorded(lanes)
     /\ UNCHANGED <<nextWorker, laneOf>>

(* A running task gives up its lane when it has done its work. *)
FinalizeLane(w, taken) ==
  LET lane == laneOf[worker[w].task]
  IN /\ worker[w].at = "running"
     /\ Unbound({lane})
     /\ cancelled' = cancelled \union {lane}
     /\ Compact(taken, {lane})
     /\ Recorded({lane})
     /\ UNCHANGED <<nextWorker, laneOf, running, dead>>

------------------------------------------------------------------------------
(* A worker (runDeferredWorker). *)

WorkerPop(w) ==
  /\ worker[w] = Idle
  /\ jobs[w] # <<>>
  /\ worker' = [worker EXCEPT ![w] = [at |-> "popped", task |-> Head(jobs[w])]]
  /\ jobs' = [jobs EXCEPT ![w] = Tail(@)]
  /\ UNCHANGED <<bookkeeping, marks, laneOf, dead, history>>

(* Variant: the worker ends with the task it must not run. *)
WorkerBeginOrEnd(w) ==
  LET t == worker[w].task
      lane == laneOf[t]
  IN /\ worker[w].at = "popped"
     /\ IF lane \in cancelled
        THEN /\ worker' = [worker EXCEPT ![w].at = "gone"]
             /\ dead' = dead \union {t}
             /\ UNCHANGED <<running, started>>
        ELSE /\ worker' = [worker EXCEPT ![w].at = "running"]
             /\ running' = [l \in DOMAIN running \union {lane} |->
                              IF l = lane THEN t ELSE running[l]]
             /\ started' = started \union {t}
             /\ UNCHANGED dead
     /\ UNCHANGED <<jobs, bookkeeping, cancelled, laneOf, detached, removed, revived>>

(* beginTaskContext: a marked lane gives the task a cancelled context, and  *)
(* its function is not called.  A cancel function recorded for the lane     *)
(* before is overwritten.                                                   *)
WorkerBegin(w) ==
  LET t == worker[w].task
      lane == laneOf[t]
  IN /\ worker[w].at = "popped"
     /\ IF lane \in cancelled
        THEN /\ worker' = [worker EXCEPT ![w].at = "skipping"]
             /\ dead' = dead \union {t}
             /\ UNCHANGED <<running, started>>
        ELSE /\ worker' = [worker EXCEPT ![w].at = "running"]
             /\ running' = [l \in DOMAIN running \union {lane} |->
                              IF l = lane THEN t ELSE running[l]]
             /\ started' = started \union {t}
             /\ UNCHANGED dead
     /\ UNCHANGED <<jobs, bookkeeping, cancelled, laneOf, detached, removed, revived>>

(* The function returns (or panics), or was not called at all. *)
WorkerReturn(w) ==
  /\ worker[w].at \in {"running", "skipping"}
  /\ worker' = [worker EXCEPT ![w].at = "ending"]
  /\ dead' = dead \union {worker[w].task}
  /\ pending' = [pending EXCEPT ![w] = @ - 1]
  /\ UNCHANGED <<jobs, laneWorker, lanePending, sessionPending, nextWorker, marks, laneOf, history>>

(* Variant: the binding of the lane goes although it has more tasks. *)
BoundAfterAlways(w, lane) == Restrict(laneWorker, DOMAIN laneWorker \ {lane})

(* The binding of a lane goes with the last of its tasks. *)
BoundAfter(w, lane) ==
  IF lanePending[lane] = 1 /\ lane \in DOMAIN laneWorker /\ laneWorker[lane] = w
  THEN Restrict(laneWorker, DOMAIN laneWorker \ {lane})
  ELSE laneWorker

(* Variant: the mark of a removed lane is lifted by any task that ends. *)
MarkedAfterAny(lane) == cancelled \ {lane}

(* So does the mark. *)
MarkedAfter(lane) == IF lanePending[lane] = 1 THEN cancelled \ {lane} ELSE cancelled

(* finishLane cancels whatever task is recorded for the lane. *)
WorkerFinish(w) ==
  LET lane == laneOf[worker[w].task]
  IN /\ worker[w].at = "ending"
     /\ worker' = [worker EXCEPT ![w] = Idle]
     /\ lanePending' = [lanePending EXCEPT ![lane] = @ - 1]
     /\ sessionPending' = [sessionPending EXCEPT ![lane[1]] = @ - 1]
     /\ laneWorker' = BoundAfter(w, lane)
     /\ cancelled' = MarkedAfter(lane)
     /\ Cancel({lane})
     /\ UNCHANGED <<jobs, pending, nextWorker, laneOf, history>>

WorkerStep(w) == WorkerPop(w) \/ WorkerBegin(w) \/ WorkerReturn(w) \/ WorkerFinish(w)

Next ==
  \/ \E lane \in Lanes : Enqueue(lane)
  \/ \E taken \in Takings :
       \/ \E lane \in Lanes : RemoveLane(lane, taken)
       \/ \E s \in Sessions : RemoveSession(s, taken)
       \/ \E w \in Workers : FinalizeLane(w, taken)
  \/ \E w \in Workers : WorkerStep(w)

Spec == Init /\ [][Next]_vars /\ \A w \in Workers : WF_vars(WorkerStep(w))

------------------------------------------------------------------------------
InSystem == {t \in Tasks : Queued(t) \/ Held(t)}

(* The three kinds of counters agree with the tasks there really are, and  *)
(* no removal, refusal or cancelled start leaves one behind: a session     *)
(* whose counter drifts up is refused for good, one whose counter drifts   *)
(* down escapes its cap.                                                   *)
CountsExact ==
  /\ \A lane \in Lanes :
       lanePending[lane] = Cardinality({t \in InSystem : laneOf[t] = lane})
  /\ \A s \in Sessions :
       sessionPending[s] = Cardinality({t \in InSystem : laneOf[t][1] = s})
  /\ \A w \in Workers :
       pending[w] = Len(jobs[w])
                    + IF worker[w].at \in {"popped", "running", "skipping"} THEN 1 ELSE 0

(* No session occupies more of the pool than its cap, over all its lanes   *)
(* and whatever was removed meanwhile.                                     *)
SessionWithinCap ==
  \A s \in Sessions : Cardinality({t \in InSystem : laneOf[t][1] = s}) <= SessionCap

(* A task whose lane is removed after a worker took it and before it began *)
(* is not run, whatever other tasks of the lane end meanwhile, unless the  *)
(* lane was used again.                                                    *)
RemovedStaysRemoved == removed \intersect started \subseteq revived

(* A task whose lane is removed before it begins is never run              *)
(* (stream_syn_test.go: "cancelled deferred task should not run after      *)
(* dequeue").                                                              *)
RemovedNeverRuns == removed \intersect started = {}

(* Two tasks of one lane run at the same time only if the lane was removed *)
(* while the earlier of them was under way: a lane with tasks is never     *)
(* handed to a second worker (stream_syn_test.go: "third task ran          *)
(* concurrently with the lane's second task").                             *)
LaneIsSerial ==
  \A v, w \in Workers :
    LET t == worker[v].task
        u == worker[w].task
    IN /\ worker[v].at = "running" /\ worker[w].at = "running"
       /\ t < u /\ laneOf[t] = laneOf[u]
       => t \in detached

(* Nothing that was accepted is lost: a task that has left the pool has    *)
(* been run or its lane was removed.                                       *)
AcceptedRuns == Tasks \ InSystem \subseteq started \union removed

(* Every accepted task leaves the pool, however often lanes are removed    *)
(* and workers skip tasks.                                                 *)
PoolDrains == \A t \in 1 .. MaxTasks : t \in InSystem ~> t \notin InSystem
=============================================================================
