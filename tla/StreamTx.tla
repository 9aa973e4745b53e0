------------------------------ MODULE StreamTx ------------------------------
(***************************************************************************)
(* The sending side of one stream of the server: how a chunk gets from the *)
(* send buffer of the ARQ (masterdns/internal/arq/arq.go) through the      *)
(* transmit queue of the stream (udpserver/stream_server.go) into a DNS    *)
(* answer (udpserver/server_session.go).                                   *)
(*                                                                         *)
(* Two mutexes are involved, the ARQ's a.mu over sndBuf and the stream's   *)
(* txQueueMu over the queue; only RST and CLOSE_WRITE of the peer are      *)
(* handled under both.                                                     *)
(* A step of this module is what happens under one of them.  The processes *)
(* are the reader (ioLoop), the retransmission timer, the handlers of an   *)
(* incoming NACK and of an incoming ACK, the workers that answer DNS       *)
(* queries, and whoever resets or closes the stream.                       *)
(*                                                                         *)
(* Time is abstract: the retransmission timeout of a dispatched chunk may  *)
(* or may not have passed.  Control packets share the queue but not the    *)
(* send buffer and are left out; so are RTT samples and NACK intervals.    *)
(***************************************************************************)
EXTENDS Integers, FiniteSets

CONSTANTS
  Workers,      (* goroutines answering DNS queries of the session          *)
  Limit,        (* window of the send buffer                                *)
  FrontBudget,  (* retransmissions of one round that are sent as RESEND     *)
  MaxRetries,   (* retries after which the stream is reset; in the code the *)
                (* age of the packet must have reached its limit as well    *)
  MaxChunks,    (* bound: chunks the application writes                     *)
  MaxNacks      (* bound: NACKs that are honoured                           *)

VARIABLES
  sndBuf,         (* chunk -> is it dispatched, how often was it retried    *)
  reset,          (* an RST was sent or received                            *)
  closed,
  stopLocalRead,
  txQueue,        (* a queue value of MultiLevelQueue                       *)
  txClosed,
  nextChunk,      (* the chunk the reader reads next                        *)
  reader,         (* where the reader is                                    *)
  jobs,           (* chunks the timer still has to push in this round       *)
  urgent,         (* those of them it pushes as RESEND                      *)
  settling,       (* the chunk it has pushed but not yet marked, or 0       *)
  nackFor,        (* the chunk the NACK handler is about to push, or 0      *)
  ackFor,         (* the chunk whose copies the ACK handler removes, or 0   *)
  worker,         (* where each worker is, and the packet it holds          *)
  clearing,       (* the closer has yet to clear the queue                  *)
  nacks,          (* history: NACKs honoured                                *)
  noted,          (* history: dequeues of each chunk, told to the ARQ       *)
  answered        (* history: the chunks put into an answer                 *)

ASSUME ChunksAssumption == MaxChunks \in Nat

vars == <<sndBuf, reset, closed, stopLocalRead, txQueue, txClosed, nextChunk, reader,
          jobs, urgent, settling, nackFor, ackFor, worker, clearing,
          nacks, noted, answered>>

arq     == <<sndBuf, reset, closed, stopLocalRead>>
queue   == <<txQueue, txClosed>>
timer   == <<jobs, urgent, settling>>
handler == <<nackFor, ackFor, nacks>>
history == <<noted, answered>>

Chunks == 1 .. MaxChunks

PacketKey == [kind : {"data", "resend"}, sn : Chunks]
Data(sn) == [kind |-> "data", sn |-> sn]
Resend(sn) == [kind |-> "resend", sn |-> sn]

Queue == INSTANCE MultiLevelQueue
  WITH Keys <- PacketKey, Items <- PacketKey, q <- txQueue

Idle == [at |-> "idle", sn |-> 0, kind |-> "none"]

Init ==
  /\ sndBuf = [sn \in {} |-> 0]
  /\ reset = FALSE /\ closed = FALSE /\ stopLocalRead = FALSE
  /\ txQueue = Queue!Empty /\ txClosed = FALSE
  /\ nextChunk = 1 /\ reader = "idle"
  /\ jobs = {} /\ urgent = {} /\ settling = 0
  /\ nackFor = 0 /\ ackFor = 0
  /\ worker = [w \in Workers |-> Idle]
  /\ clearing = FALSE
  /\ nacks = 0 /\ noted = [sn \in Chunks |-> 0] /\ answered = {}

------------------------------------------------------------------------------
(* PushTXPacket and ClearTXQueue. *)

DefaultPacketPriority(kind) == IF kind = "resend" THEN 1 ELSE 3

Queued(sn) == Queue!Has(txQueue, Data(sn)) \/ Queue!Has(txQueue, Resend(sn))

(* Variant for the checks: the closed flag of the queue is not looked at. *)
AcceptsWhenClosed(key) ==
  /\ ~ Queue!Has(txQueue, Resend(key.sn))
  /\ key.kind = "data" => ~ Queue!Has(txQueue, Data(key.sn))

Accepts(key) ==
  /\ ~ txClosed
  /\ ~ Queue!Has(txQueue, Resend(key.sn))
  /\ key.kind = "data" => ~ Queue!Has(txQueue, Data(key.sn))

(* Variant: a RESEND is queued beside the copy that is waiting already. *)
EnqueuedBeside(key) ==
  Queue!Pushed(txQueue, DefaultPacketPriority(key.kind), key, key)

(* A RESEND takes the place of a copy that is still waiting. *)
Enqueued(key) ==
  LET pushed == Queue!Pushed(txQueue, DefaultPacketPriority(key.kind), key, key)
  IN IF key.kind = "resend" /\ Queue!Has(pushed, Data(key.sn))
     THEN Queue!WithoutKey(pushed, Data(key.sn))
     ELSE pushed

(* RemoveQueuedData, for one chunk and for all the chunks of a set. *)
WithoutCopies(m, sn) ==
  LET Drop(n, key) == IF Queue!Has(n, key) THEN Queue!WithoutKey(n, key) ELSE n
  IN Drop(Drop(m, Data(sn)), Resend(sn))

WithoutAllCopies(m, sns) ==
  LET without[sn \in 0 .. MaxChunks] ==
        IF sn = 0 THEN m
        ELSE IF sn \in sns THEN WithoutCopies(without[sn - 1], sn) ELSE without[sn - 1]
  IN without[MaxChunks]

ClearTXQueue ==
  /\ txClosed' = TRUE
  /\ txQueue' = Queue!Empty

------------------------------------------------------------------------------
(* The reader. *)

ReaderCheck ==
  /\ reader = "idle"
  /\ nextChunk \in Chunks
  /\ Cardinality(DOMAIN sndBuf) < Limit
  /\ ~ closed /\ ~ stopLocalRead
  /\ reader' = "reading"
  /\ UNCHANGED <<arq, queue, nextChunk, timer, handler, worker, clearing, history>>

ReaderReturn ==
  /\ reader = "reading"
  /\ reader' = "idle"
  /\ UNCHANGED <<arq, queue, nextChunk, timer, handler, worker, clearing, history>>

(* The read returns data some time later; the flags are not looked at again. *)
ReaderInsert ==
  /\ reader = "reading"
  /\ sndBuf' = [sn \in DOMAIN sndBuf \union {nextChunk} |->
                  IF sn = nextChunk
                  THEN [dispatched |-> FALSE, retries |-> 0]
                  ELSE sndBuf[sn]]
  /\ reader' = "pushing"
  /\ UNCHANGED <<reset, closed, stopLocalRead, queue, nextChunk, timer, handler,
                 worker, clearing, history>>

ReaderPush ==
  /\ reader = "pushing"
  /\ IF Accepts(Data(nextChunk))
     THEN /\ txQueue' = Enqueued(Data(nextChunk))
          /\ reader' = "idle"
          /\ nextChunk' = nextChunk + 1
     ELSE /\ reader' = "refused"
          /\ UNCHANGED <<txQueue, nextChunk>>
  /\ UNCHANGED <<arq, txClosed, timer, handler, worker, clearing, history>>

(* A refused chunk is left to the timer, as if it had been sent long ago. *)
ReaderRefused ==
  /\ reader = "refused"
  /\ sndBuf' = IF nextChunk \in DOMAIN sndBuf
               THEN [sndBuf EXCEPT ![nextChunk].dispatched = TRUE]
               ELSE sndBuf
  /\ reader' = "idle"
  /\ nextChunk' = nextChunk + 1
  /\ UNCHANGED <<reset, closed, stopLocalRead, queue, timer, handler, worker,
                 clearing, history>>

------------------------------------------------------------------------------
(* The timer (checkRetransmits). *)

Exhausted == \E sn \in DOMAIN sndBuf : sndBuf[sn].retries >= MaxRetries

(* What the ARQ does to itself when an RST is sent. *)
ResetSent ==
  /\ ~ closed /\ ~ reset
  /\ reset' = TRUE /\ stopLocalRead' = TRUE
  /\ sndBuf' = [sn \in {} |-> 0]
  /\ UNCHANGED <<closed, queue, nextChunk, reader, timer, handler, worker, clearing, history>>

TimerGiveUp ==
  /\ jobs = {} /\ settling = 0
  /\ Exhausted
  /\ ResetSent

(* Variant: the timeout runs from the creation of the chunk, queued or not. *)
TimerCollectQueued(due) ==
  /\ jobs = {} /\ settling = 0
  /\ ~ closed /\ ~ Exhausted
  /\ due \subseteq DOMAIN sndBuf
  /\ jobs' = due
  /\ urgent' = {sn \in due : Cardinality({t \in due : t < sn}) < FrontBudget}
  /\ UNCHANGED <<arq, queue, nextChunk, reader, settling, handler, worker, clearing, history>>

(* A round starts with the chunks whose timeout has passed.  The oldest    *)
(* ones are urgent.                                                        *)
TimerCollect(due) ==
  /\ jobs = {} /\ settling = 0
  /\ ~ closed /\ ~ Exhausted
  /\ due \subseteq {sn \in DOMAIN sndBuf : sndBuf[sn].dispatched}
  /\ jobs' = due
  /\ urgent' = {sn \in due : Cardinality({t \in due : t < sn}) < FrontBudget}
  /\ UNCHANGED <<arq, queue, nextChunk, reader, settling, handler, worker, clearing, history>>

TimerPush(sn) ==
  LET key == IF sn \in urgent THEN Resend(sn) ELSE Data(sn)
  IN /\ sn \in jobs /\ settling = 0
     /\ jobs' = jobs \ {sn}
     /\ IF Accepts(key)
        THEN txQueue' = Enqueued(key) /\ settling' = sn
        ELSE UNCHANGED <<txQueue, settling>>
     /\ UNCHANGED <<arq, txClosed, nextChunk, reader, urgent, handler, worker,
                    clearing, history>>

TimerSettle ==
  /\ settling # 0
  /\ sndBuf' = IF settling \in DOMAIN sndBuf
               THEN [sndBuf EXCEPT ![settling] =
                       [dispatched |-> FALSE, retries |-> @.retries + 1]]
               ELSE sndBuf
  /\ settling' = 0
  /\ UNCHANGED <<reset, closed, stopLocalRead, queue, nextChunk, reader, jobs, urgent,
                 handler, worker, clearing, history>>

------------------------------------------------------------------------------
(* The handlers of a NACK and of an ACK of the peer.  It reports a chunk   *)
(* missing when it has received a later one, and acknowledges what it got. *)

NackReceive(sn) ==
  /\ nackFor = 0 /\ nacks < MaxNacks
  /\ \E t \in answered : t > sn
  /\ ~ closed /\ ~ reset
  /\ sn \in DOMAIN sndBuf
  /\ nackFor' = sn
  /\ nacks' = nacks + 1
  /\ UNCHANGED <<arq, queue, nextChunk, reader, timer, ackFor, worker, clearing, history>>

NackPush ==
  /\ nackFor # 0
  /\ txQueue' = IF Accepts(Resend(nackFor)) THEN Enqueued(Resend(nackFor)) ELSE txQueue
  /\ nackFor' = 0
  /\ UNCHANGED <<arq, txClosed, nextChunk, reader, timer, ackFor, nacks, worker,
                 clearing, history>>

AckReceive(sn) ==
  /\ ackFor = 0
  /\ sn \in answered \intersect DOMAIN sndBuf
  /\ sndBuf' = [t \in DOMAIN sndBuf \ {sn} |-> sndBuf[t]]
  /\ ackFor' = sn
  /\ UNCHANGED <<reset, closed, stopLocalRead, queue, nextChunk, reader, timer,
                 nackFor, nacks, worker, clearing, history>>

AckRemove ==
  /\ ackFor # 0
  /\ txQueue' = WithoutCopies(txQueue, ackFor)
  /\ ackFor' = 0
  /\ UNCHANGED <<arq, txClosed, nextChunk, reader, timer, nackFor, nacks, worker,
                 clearing, history>>

------------------------------------------------------------------------------
(* A worker that answers a DNS query (dequeueSessionResponse). *)

Moved(w, at, sn, kind) == worker' = [worker EXCEPT ![w] = [at |-> at, sn |-> sn, kind |-> kind]]

(* A worker that finds the ARQ closed clears the queue itself. *)
WorkerClear(w) ==
  /\ worker[w] = Idle
  /\ txQueue.fastSize # 0
  /\ closed
  /\ ClearTXQueue
  /\ UNCHANGED <<arq, nextChunk, reader, timer, handler, worker, clearing, history>>

WorkerLook(w) ==
  /\ worker[w] = Idle
  /\ txQueue.fastSize # 0
  /\ ~ closed
  /\ Moved(w, "popping", 0, "none")
  /\ UNCHANGED <<arq, queue, nextChunk, reader, timer, handler, clearing, history>>

WorkerPop(w) ==
  /\ worker[w].at = "popping"
  /\ IF Queue!Live(txQueue) = {}
     THEN /\ worker' = [worker EXCEPT ![w] = Idle]
          /\ UNCHANGED txQueue
     ELSE LET key == Queue!NextKey(txQueue)
          IN /\ txQueue' = Queue!Popped(txQueue)
             /\ Moved(w, "noting", key.sn, key.kind)
  /\ UNCHANGED <<arq, txClosed, nextChunk, reader, timer, handler, clearing, history>>

(* Variant: the timer is started by the dequeue of a RESEND only. *)
WorkerNoteResendOnly(w) ==
  LET sn == worker[w].sn
  IN /\ worker[w].at = "noting"
     /\ sndBuf' = IF worker[w].kind = "resend" /\ sn \in DOMAIN sndBuf
                  THEN [sndBuf EXCEPT ![sn].dispatched = TRUE]
                  ELSE sndBuf
     /\ noted' = [noted EXCEPT ![sn] = @ + 1]
     /\ Moved(w, "checking", sn, worker[w].kind)
     /\ UNCHANGED <<reset, closed, stopLocalRead, queue, nextChunk, reader, timer, handler,
                    clearing, answered>>

(* NoteTXPacketDequeued: the retransmission timeout starts to run. *)
WorkerNote(w) ==
  LET sn == worker[w].sn
  IN /\ worker[w].at = "noting"
     /\ sndBuf' = IF sn \in DOMAIN sndBuf
                  THEN [sndBuf EXCEPT ![sn].dispatched = TRUE]
                  ELSE sndBuf
     /\ noted' = [noted EXCEPT ![sn] = @ + 1]
     /\ Moved(w, "checking", sn, worker[w].kind)
     /\ UNCHANGED <<reset, closed, stopLocalRead, queue, nextChunk, reader, timer, handler,
                    clearing, answered>>

(* A chunk that has been acknowledged meanwhile is dropped. *)
WorkerCheck(w) ==
  /\ worker[w].at = "checking"
  /\ answered' = IF worker[w].sn \in DOMAIN sndBuf
                 THEN answered \union {worker[w].sn}
                 ELSE answered
  /\ worker' = [worker EXCEPT ![w] = Idle]
  /\ UNCHANGED <<arq, queue, nextChunk, reader, timer, handler, clearing, noted>>

------------------------------------------------------------------------------
(* The end of the stream. *)

(* An RST of the peer removes the queued copies with the send buffer. *)
ResetReceived ==
  /\ ~ reset
  /\ reset' = TRUE /\ stopLocalRead' = TRUE
  /\ txQueue' = WithoutAllCopies(txQueue, DOMAIN sndBuf)
  /\ sndBuf' = [sn \in {} |-> 0]
  /\ UNCHANGED <<closed, txClosed, nextChunk, reader, timer, handler, worker, clearing, history>>

(* The peer takes no more data: what is under way is forgotten. *)
CloseWriteReceived ==
  /\ stopLocalRead' = TRUE
  /\ txQueue' = WithoutAllCopies(txQueue, DOMAIN sndBuf)
  /\ sndBuf' = [sn \in {} |-> 0]
  /\ UNCHANGED <<reset, closed, txClosed, nextChunk, reader, timer, handler, worker,
                 clearing, history>>

(* A half close or a deferred close ends the reading. *)
StopRead ==
  /\ ~ closed /\ ~ stopLocalRead
  /\ stopLocalRead' = TRUE
  /\ UNCHANGED <<sndBuf, reset, closed, queue, nextChunk, reader, timer, handler, worker,
                 clearing, history>>

(* finalizeClose marks the ARQ closed; the queue is cleared a little later, *)
(* when the callback of the stream has been reached.                        *)
Finalize ==
  /\ ~ closed
  /\ closed' = TRUE
  /\ sndBuf' = [sn \in {} |-> 0]
  /\ clearing' = TRUE
  /\ UNCHANGED <<reset, stopLocalRead, queue, nextChunk, reader, timer, handler, worker, history>>

CloserClear ==
  /\ clearing
  /\ ClearTXQueue
  /\ clearing' = FALSE
  /\ UNCHANGED <<arq, nextChunk, reader, timer, handler, worker, history>>

Next ==
  \/ ReaderCheck \/ ReaderReturn \/ ReaderInsert \/ ReaderPush \/ ReaderRefused
  \/ TimerGiveUp
  \/ \E due \in SUBSET Chunks : TimerCollect(due)
  \/ \E sn \in Chunks : TimerPush(sn) \/ NackReceive(sn) \/ AckReceive(sn)
  \/ TimerSettle \/ NackPush \/ AckRemove
  \/ \E w \in Workers : \/ WorkerClear(w) \/ WorkerLook(w) \/ WorkerPop(w)
                        \/ WorkerNote(w) \/ WorkerCheck(w)
  \/ ResetSent \/ ResetReceived \/ CloseWriteReceived \/ StopRead \/ Finalize \/ CloserClear

Spec == Init /\ [][Next]_vars

------------------------------------------------------------------------------
(* The reader, the timer and the NACK handler all queue copies of a chunk, *)
(* without knowing of each other: at most one copy of it is waiting.       *)
OneCopy ==
  \A sn \in Chunks : ~ (Queue!Has(txQueue, Data(sn)) /\ Queue!Has(txQueue, Resend(sn)))

(* Once the queue of a stream has been cleared nothing lands in it again,  *)
(* whoever was on the way to a push: its pooled packets would be lost.     *)
ClosedQueueEmpty == txClosed => txQueue = Queue!Empty

(* Waiting in the queue never costs a chunk one of its retries: a round is *)
(* counted only for a chunk that left the queue since the last one, so     *)
(* slow polling alone cannot exhaust them and reset the stream.            *)
RetriesFollowDequeues ==
  \A sn \in DOMAIN sndBuf : sndBuf[sn].retries <= noted[sn]

Handled(sn) ==
  \/ Queued(sn)
  \/ reader \in {"pushing", "refused"} /\ sn = nextChunk
  \/ nackFor = sn
  \/ \E w \in Workers : worker[w].at = "noting" /\ worker[w].sn = sn

Running == ~ closed /\ ~ reset /\ ~ txClosed

(* The first copy of a chunk is never lost inside the program: until a     *)
(* dequeue has started its timer a copy waits or is in somebody's hands.   *)
FirstCopy ==
  Running => \A sn \in DOMAIN sndBuf :
    sndBuf[sn].retries = 0 /\ ~ sndBuf[sn].dispatched => Handled(sn)

(* Every chunk that is not acknowledged is on the way or has a running     *)
(* timer that will send it again (arq_test.go expects a retransmission     *)
(* once the timer started by the dequeue has elapsed).                     *)
EveryChunkRecoverable ==
  Running => \A sn \in DOMAIN sndBuf : sndBuf[sn].dispatched \/ Handled(sn)
=============================================================================
