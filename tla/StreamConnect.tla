---------------------------- MODULE StreamConnect ----------------------------
(***************************************************************************)
(* Opening and closing the streams of one session: the handlers of SYN and *)
(* RST, the tasks that connect upstream, the ends of a stream (its ARQ,    *)
(* the peer, the sweep of terminal streams, the end of the session)        *)
(* (server_postsession.go, server_deferred.go, session.go and              *)
(* stream_server.go in masterdns/internal/udpserver).                      *)
(*                                                                         *)
(* The pool that runs the tasks is module DeferredProcessor.  Here it is a *)
(* number of queued tasks per lane and workers that take them; a lane's    *)
(* tasks run one at a time while the lane is bound.  A SYN and its         *)
(* repetitions are one packet, named by the stream's number.               *)
(*                                                                         *)
(* A step ends where another goroutine can make a difference: tests that   *)
(* come one after the other, and what they decide, are one step when what  *)
(* happens between them could as well happen before or after.              *)
(***************************************************************************)
EXTENDS StreamTable

CONSTANTS
  SynIds,              (* subset of Ids: the streams packets arrive for        *)
  Workers, Handlers,
  MaxQueued,           (* tasks the pool keeps for a lane                      *)
  MaxConns, MaxEvents  (* bounds: connections dialled, what comes from outside *)

ASSUME StreamsAssumption == SynIds \subseteq Ids

VARIABLES
  deferredInflight,    (* set of ids: packets that are marked                  *)
  queued,              (* id -> tasks in the pool's channels                   *)
  task,                (* worker -> its task                                   *)
  handler,             (* handler -> the packet it handles                     *)
  sweep,               (* the stream cleanupTerminalStreams is at              *)
  closer,              (* cleanupClosedSession                                 *)
  open,                (* of the connections dialled: is it open?              *)
  events               (* bound: packets and timers so far                     *)

procVars == <<deferredInflight, queued, task, handler, sweep, closer, open>>
connectVars == <<tableVars, procVars, events>>

Idle == [at |-> "idle", id |-> 0, s |-> None, conn |-> None, cancelled |-> FALSE, bound |-> FALSE]
NoPacket == [at |-> "idle", id |-> 0, s |-> None]

ConnectInit ==
  /\ TableInit
  /\ deferredInflight = {} /\ queued = [id \in Ids |-> 0]
  /\ task = [w \in Workers |-> Idle] /\ handler = [h \in Handlers |-> NoPacket]
  /\ sweep = NoPacket
  /\ closer = [at |-> "idle", todo |-> {}]
  /\ open = <<>> /\ events = 0

Shut(conns) == open' = [c \in DOMAIN open |-> open[c] /\ c \notin conns]

(* clearDeferredPacketsForStream: the marks go, RemoveLane takes what is    *)
(* queued and cancels what runs.                                            *)
CancelTasks(ids, t) ==
  [w \in DOMAIN t |-> IF t[w].id \in ids THEN [t[w] EXCEPT !.cancelled = TRUE, !.bound = FALSE]
                      ELSE t[w]]
clearDeferredPacketsForStream(id) ==
  /\ deferredInflight' = deferredInflight \ {id}
  /\ queued' = [queued EXCEPT ![id] = 0]
  /\ task' = CancelTasks({id}, task)

------------------------------------------------------------------------------
(* The end of a stream. *)

(* Variant: the owner is not told. *)
CloseSilently(s) == stream' = [stream EXCEPT ![s].arqClosed = TRUE]

(* finalizeClose; the owner is told, and whoever is first goes on to        *)
(* finalise the stream.                                                     *)
CloseARQ(s) ==
  stream' = [stream EXCEPT ![s].arqClosed = TRUE,
                           ![s].final = IF @ = "no" THEN "cleanup" ELSE @]

(* Its own end: both sides finished, reset, silent too long.                *)
ARQEnds(s) ==
  /\ s \in DOMAIN stream /\ ~stream[s].arqClosed
  /\ CloseARQ(s)
  /\ UNCHANGED <<closed, Streams, ActiveStreams, tombVars, procVars>>

cleanupResources(s) ==
  /\ stream[s].final = "cleanup"
  /\ stream' = [stream EXCEPT ![s].gone = TRUE, ![s].conn = None, ![s].final = "remove"]
  /\ Shut({stream[s].conn})
  /\ UNCHANGED <<closed, Streams, ActiveStreams, tombVars, deferredInflight, queued, task,
                 handler, sweep, closer>>

(* onStreamClosed: out of the table, then the tombstone and the artifacts.  *)
onStreamClosed(s) ==
  /\ \/ /\ stream[s].final = "remove"
        /\ removeStream(stream[s].id)
        /\ stream' = [stream EXCEPT ![s].final = "note"]
        /\ UNCHANGED <<tombVars, deferredInflight, queued, task>>
     \/ /\ stream[s].final = "note"
        /\ noteStreamClosed(stream[s].id)
        /\ clearDeferredPacketsForStream(stream[s].id)
        /\ stream' = [stream EXCEPT ![s].final = "done"]
        /\ UNCHANGED <<Streams, ActiveStreams>>
  /\ UNCHANGED <<closed, handler, sweep, closer, open>>

finalizeAfterARQClose(s) ==
  s \in DOMAIN stream /\ (cleanupResources(s) \/ onStreamClosed(s)) /\ UNCHANGED events

(* Nobody acknowledges anything once the session is over: retries and the   *)
(* inactivity limit end the ARQ.                                            *)
GivesUp(s) == closed /\ ARQEnds(s) /\ UNCHANGED events

------------------------------------------------------------------------------
(* A task: wrappedRun, then processDeferredStreamSyn or                     *)
(* processDeferredSOCKS5Syn.                                                *)

At(w, step) == task[w].at = step
Goto(w, step) == task' = [task EXCEPT ![w].at = step]

shouldExecuteDeferredPacket(id) ==
  /\ ~closed /\ ~isRecentlyClosed(id)
  /\ Streams[id] # None => ~stream[Streams[id]].arqClosed /\ ~stream[Streams[id]].gone

(* A worker takes a task (the first idle one: they are alike): is it still  *)
(* wanted?  A SOCKS5 task whose fragments are not all there ends as well.   *)
Begin(w) ==
  /\ At(w, "idle") /\ \A v \in Workers : At(v, "idle") => w <= v
  /\ \E id \in Ids :
       /\ queued[id] > 0 /\ ~\E v \in Workers : task[v].id = id /\ task[v].bound
       /\ queued' = [queued EXCEPT ![id] = @ - 1]
       /\ \E step \in {"create", "finish"} :
            /\ step = "create" => id \in deferredInflight /\ shouldExecuteDeferredPacket(id)
            /\ task' = [task EXCEPT ![w] = [Idle EXCEPT !.at = step, !.id = id, !.bound = TRUE]]
  /\ UNCHANGED <<tableVars, deferredInflight, handler, sweep, closer, open>>

(* The stream is found or made.  One that is connected already gets an      *)
(* answer and no second connection.                                         *)
Create(w) ==
  LET s == getOrCreateStream(task[w].id)
  IN /\ At(w, "create")
     /\ Created(task[w].id, s)
     /\ task' = [task EXCEPT ![w].s = s,
                             ![w].at = IF s = None THEN "clear"
                                       ELSE IF stream'[s].conn # None THEN "clear" ELSE "dial"]
     /\ UNCHANGED <<deferredInflight, queued, handler, sweep, closer, open>>

(* Not wanted any more, or dialled.  A dial ends by its own timeout or when *)
(* the task is cancelled, and it may succeed nevertheless.                  *)
Dial(w) ==
  /\ At(w, "dial")
  /\ \/ ~shouldExecuteDeferredPacket(task[w].id) /\ Goto(w, "finish") /\ UNCHANGED open
     \/ Goto(w, IF task[w].cancelled THEN "finish" ELSE "clear") /\ UNCHANGED open
     \/ /\ Len(open) < MaxConns
        /\ open' = Append(open, TRUE)
        /\ task' = [task EXCEPT ![w].conn = Len(open) + 1, ![w].at = "dialled"]
  /\ UNCHANGED <<tableVars, deferredInflight, queued, handler, sweep, closer>>

(* Variant: the stream may have ended while the dial went on. *)
OnlyUnconnected(s) == stream[s].conn = None

(* attachUpstreamConn's conditions.                                         *)
Attachable(s) == ~stream[s].gone /\ ~stream[s].arqClosed /\ stream[s].conn = None

(* The connection is handed to the stream, or closed.                       *)
attachUpstreamConn(w) ==
  LET s == task[w].s
      attached == ~task[w].cancelled /\ ~closed /\ Attachable(s)
  IN /\ At(w, "dialled")
     /\ IF attached
        THEN /\ stream' = [stream EXCEPT ![s].conn = task[w].conn]
             /\ Goto(w, "attached") /\ UNCHANGED open
        ELSE /\ Goto(w, IF task[w].cancelled THEN "finish" ELSE "clear")
             /\ Shut({task[w].conn}) /\ UNCHANGED stream
     /\ UNCHANGED <<closed, Streams, ActiveStreams, tombVars, deferredInflight, queued,
                    handler, sweep, closer>>

(* Stale after all: the task closes its connection, which the stream keeps. *)
(* Otherwise the ARQ gets it and the client is told.                        *)
Attached(w) ==
  /\ At(w, "attached")
  /\ Goto(w, "clear")
  /\ IF shouldExecuteDeferredPacket(task[w].id) THEN UNCHANGED open ELSE Shut({task[w].conn})
  /\ UNCHANGED <<tableVars, deferredInflight, queued, handler, sweep, closer>>

(* finalizeDeferredPacketsForStream: FinalizeLane does not cancel.          *)
Clear(w) ==
  LET id == task[w].id
  IN /\ At(w, "clear")
     /\ deferredInflight' = deferredInflight \ {id}
     /\ queued' = [queued EXCEPT ![id] = 0]
     /\ task' = [v \in Workers |->
                   IF v = w THEN [Idle EXCEPT !.at = "finish", !.id = id]
                   ELSE [task[v] EXCEPT !.bound = @ /\ task[v].id # id]]
     /\ UNCHANGED <<tableVars, handler, sweep, closer, open>>

finishDeferredPacket(w) ==
  /\ At(w, "finish")
  /\ deferredInflight' = deferredInflight \ {task[w].id}
  /\ task' = [task EXCEPT ![w] = Idle]
  /\ UNCHANGED <<tableVars, queued, handler, sweep, closer, open>>

TaskStep(w) ==
  /\ \/ Create(w) \/ Dial(w) \/ attachUpstreamConn(w) \/ Attached(w)
     \/ Clear(w) \/ finishDeferredPacket(w)
  /\ UNCHANGED events

------------------------------------------------------------------------------
(* Handlers. *)

Handling(h, step) == handler[h].at = step
Next_(h, step) == handler' = [handler EXCEPT ![h].at = step]
Done(h) == handler' = [handler EXCEPT ![h] = NoPacket]

(* preprocessInboundPacket: a SYN of a stream that was closed lately is     *)
(* refused.                                                                 *)
SynArrives(h) ==
  /\ Handling(h, "idle") /\ ~closed
  /\ \E id \in SynIds :
       /\ Streams[id] # None \/ ~isRecentlyClosed(id)
       /\ handler' = [handler EXCEPT ![h] = [at |-> "syn", id |-> id, s |-> None]]
  /\ UNCHANGED <<tableVars, deferredInflight, queued, task, sweep, closer, open>>

(* A stream that is connected answers at once (and so does a target that is *)
(* blocked).                                                                *)
tryHandleImmediate(h, id) ==
  /\ Streams[id] # None /\ stream[Streams[id]].conn # None
  /\ clearDeferredPacketsForStream(id) /\ Next_(h, "ack")

rejectNewStreamBecauseLimit(h, id) ==
  /\ ~canCreateAdditionalStreamLocked(id)
  /\ Next_(h, "ack") /\ UNCHANGED <<deferredInflight, queued, task>>

(* handleStreamSynRequest and handleSOCKS5SynRequest: refused, answered,    *)
(* known already, or a task.                                                *)
handleStreamSynRequest(h) ==
  LET id == handler[h].id
      s == Streams[id]
  IN /\ Handling(h, "syn")
     /\ \/ closed /\ Done(h) /\ UNCHANGED <<deferredInflight, queued, task>>
        \/ ~closed /\ rejectNewStreamBecauseLimit(h, id)
        \/ ~closed /\ tryHandleImmediate(h, id)
        \/ /\ ~closed /\ canCreateAdditionalStreamLocked(id)
           /\ s # None => stream[s].conn = None
           /\ IF id \in deferredInflight THEN Next_(h, "ack") ELSE Next_(h, "enqueue")
           /\ deferredInflight' = deferredInflight \union {id}
           /\ UNCHANGED <<queued, task>>
     /\ UNCHANGED <<tableVars, sweep, closer, open>>

(* The pool may be full.                                                    *)
dispatchDeferredSessionPacketTracked(h) ==
  LET id == handler[h].id
  IN /\ Handling(h, "enqueue")
     /\ \/ /\ queued[id] < MaxQueued
           /\ queued' = [queued EXCEPT ![id] = @ + 1]
           /\ Next_(h, "ack") /\ UNCHANGED deferredInflight
        \/ /\ deferredInflight' = deferredInflight \ {id}
           /\ Done(h) /\ UNCHANGED queued
     /\ UNCHANGED <<tableVars, task, sweep, closer, open>>

(* queueImmediateControlAck makes the stream if it is not there.            *)
queueImmediateControlAck(h) ==
  /\ Handling(h, "ack")
  /\ Created(handler[h].id, getOrCreateStream(handler[h].id))
  /\ Done(h)
  /\ UNCHANGED <<deferredInflight, queued, task, sweep, closer, open>>

RstArrives(h) ==
  /\ Handling(h, "idle") /\ ~closed
  /\ \E id \in SynIds :
       handler' = [handler EXCEPT ![h] =
                     [at |-> IF Streams[id] = None THEN "note" ELSE "reset", id |-> id, s |-> Streams[id]]]
  /\ UNCHANGED <<tableVars, deferredInflight, queued, task, sweep, closer, open>>

(* handleStreamRSTRequest: of a stream there is, and of one there is not.   *)
handleStreamRSTRequest(h) ==
  LET id == handler[h].id
      s == handler[h].s
  IN /\ \/ /\ Handling(h, "reset")
           /\ deactivateStream(id) /\ clearDeferredPacketsForStream(id)
           /\ IF stream[s].arqClosed THEN Done(h) ELSE Next_(h, "abort")
           /\ UNCHANGED <<Streams, stream, tombVars, open>>
        \/ /\ Handling(h, "abort")
           /\ CloseARQ(s) /\ Done(h)
           /\ UNCHANGED <<Streams, ActiveStreams, tombVars, deferredInflight, queued, task, open>>
        \/ /\ Handling(h, "note")
           /\ noteStreamClosed(id) /\ Next_(h, "forget")
           /\ UNCHANGED <<Streams, ActiveStreams, stream, deferredInflight, queued, task, open>>
        \/ /\ Handling(h, "forget")
           /\ clearDeferredPacketsForStream(id) /\ Done(h)
           /\ UNCHANGED <<Streams, ActiveStreams, stream, tombVars, open>>
     /\ UNCHANGED <<closed, sweep, closer>>

(* handleStreamCloseReadRequest and handleStreamCloseWriteRequest, as far   *)
(* as they concern the table and the tasks.                                 *)
PeerCloses ==
  /\ ~closed
  /\ \E id \in InTable : clearDeferredPacketsForStream(id)
  /\ UNCHANGED <<tableVars, handler, sweep, closer, open>>

(* consumeInboundStreamAck of the last packet of a stream.                  *)
consumeInboundStreamAck ==
  /\ ~closed
  /\ \E id \in InTable :
       /\ stream[Streams[id]].arqClosed
       /\ deactivateStream(id) /\ clearDeferredPacketsForStream(id)
       /\ stream' = [stream EXCEPT ![Streams[id]].gone = TRUE]
  /\ UNCHANGED <<closed, Streams, tombVars, handler, sweep, closer, open>>

------------------------------------------------------------------------------
(* cleanupTerminalStreams: a stream that was closed long ago and is still   *)
(* there is aborted, finalised and taken out of the table.                  *)
SweepTerminalStreams ==
  /\ sweep.at = "idle" /\ ~closed
  /\ \E id \in InTable :
       /\ stream[Streams[id]].gone \/ stream[Streams[id]].arqClosed
       /\ sweep' = [at |-> "abort", id |-> id, s |-> Streams[id]]
  /\ UNCHANGED <<tableVars, deferredInflight, queued, task, handler, closer, open>>

CloseStream(s) ==
  /\ stream' = [stream EXCEPT ![s].gone = TRUE, ![s].conn = None,
                              ![s].final = IF @ = "no" THEN "cleanup" ELSE @]
  /\ Shut({stream[s].conn})

cleanupTerminalStreams ==
  LET s == sweep.s
  IN /\ \/ /\ sweep.at = "abort"
           /\ CloseStream(s)
           /\ sweep' = [sweep EXCEPT !.at = "finalise"]
           /\ UNCHANGED <<Streams, ActiveStreams, tombVars>>
        \/ /\ sweep.at = "finalise" /\ stream[s].final = "done"
           /\ removeStream(sweep.id) /\ sweep' = [sweep EXCEPT !.at = "note"]
           /\ UNCHANGED <<stream, tombVars, open>>
        \/ /\ sweep.at = "note"
           /\ noteStreamClosed(sweep.id) /\ sweep' = NoPacket
           /\ UNCHANGED <<Streams, ActiveStreams, stream, open>>
     /\ UNCHANGED <<closed, deferredInflight, queued, task, handler, closer>>

(* The session ends (SESSION_CLOSE, or it was idle too long): marked first, *)
(* then cleanupClosedSession with closeAllStreams.                          *)
SessionEnds ==
  /\ ~closed /\ closed' = TRUE
  /\ closer' = [closer EXCEPT !.at = "snapshot"]
  /\ UNCHANGED <<Streams, ActiveStreams, stream, tombVars, deferredInflight, queued, task,
                 handler, sweep, open>>

(* Each of the streams there were is aborted and finalised. *)
closeAllStreams(s) ==
  IF ~stream[s].arqClosed
  THEN CloseARQ(s) /\ UNCHANGED closer
  ELSE /\ stream[s].final = "done" /\ UNCHANGED stream
       /\ closer' = [closer EXCEPT !.todo = @ \ {s}]

cleanupDeferredSessionState ==
  queued' = [id \in Ids |-> 0] /\ task' = CancelTasks(Ids, task)

cleanupClosedSession ==
  /\ \/ /\ closer.at = "snapshot"
        /\ deferredInflight' = {}
        /\ closer' = [at |-> "streams", todo |-> {Streams[id] : id \in InTable}]
        /\ UNCHANGED <<Streams, ActiveStreams, stream, queued, task>>
     \/ /\ \E s \in closer.todo : closeAllStreams(s)
        /\ UNCHANGED <<Streams, ActiveStreams, deferredInflight, queued, task>>
     \/ /\ closer.at = "streams" /\ closer.todo = {}
        /\ Streams' = [id \in Ids |-> None] /\ ActiveStreams' = {}
        /\ cleanupDeferredSessionState
        /\ closer' = [closer EXCEPT !.at = "done"]
        /\ UNCHANGED <<stream, deferredInflight>>
  /\ UNCHANGED <<closed, tombVars, handler, sweep, open, events>>

(* Of a session that is idle and not over yet only the tasks are taken.     *)
cleanupIdleDeferredSession ==
  /\ ~closed
  /\ deferredInflight' = {} /\ cleanupDeferredSessionState
  /\ UNCHANGED <<tableVars, handler, sweep, closer, open>>

------------------------------------------------------------------------------
HandlerStep(h) ==
  \/ handleStreamSynRequest(h) \/ dispatchDeferredSessionPacketTracked(h)
  \/ queueImmediateControlAck(h) \/ handleStreamRSTRequest(h)

(* What comes from the client and from the timers.                          *)
Event ==
  \/ \E h \in Handlers : SynArrives(h) \/ RstArrives(h)
  \/ PeerCloses \/ consumeInboundStreamAck \/ cleanupIdleDeferredSession
  \/ SweepTerminalStreams
  \/ ~closed /\ \E s \in 1 .. MaxStreams : ARQEnds(s)
  \/ Age /\ UNCHANGED procVars

(* What happens without the client: a goroutine that can go on does, a dial *)
(* ends by its timeout, and so does an ARQ nobody answers.                  *)
GoesOn ==
  \/ \E w \in Workers : TaskStep(w)
  \/ \E s \in 1 .. MaxStreams : GivesUp(s) \/ finalizeAfterARQClose(s)
  \/ cleanupClosedSession

ConnectNext ==
  \/ Event /\ events < MaxEvents /\ events' = events + 1
  \/ /\ \/ \E w \in Workers : Begin(w)
        \/ \E h \in Handlers : HandlerStep(h)
        \/ cleanupTerminalStreams \/ SessionEnds
     /\ UNCHANGED events
  \/ GoesOn

------------------------------------------------------------------------------
(* An upstream connection that is open belongs to somebody who will close   *)
(* it: to the task that dialled it, or to a stream that has not been        *)
(* cleaned up (attachUpstreamConn, cleanupResources).                       *)
UpstreamOwned ==
  \A c \in DOMAIN open : open[c] =>
    \/ \E w \in Workers : task[w].conn = c /\ task[w].at = "dialled"
    \/ \E s \in DOMAIN stream : stream[s].conn = c /\ stream[s].final \in {"no", "cleanup"}

(* When a session is over all its upstream connections are closed sooner or *)
(* later, also those being dialled (cleanupClosedSession, processDeferred-  *)
(* StreamSyn).                                                              *)
NothingLeftOpen == closed ~> \A c \in DOMAIN open : ~open[c]
=============================================================================
