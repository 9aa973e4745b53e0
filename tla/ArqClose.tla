------------------------------- MODULE ArqClose -------------------------------
(***************************************************************************)
(* How a stream ends (masterdns/internal/arq/arq.go and the handlers of    *)
(* udpserver/server_postsession.go).  Two ARQs, the server's and the       *)
(* client's, carry some chunks each way and then close the stream with     *)
(* CLOSE_READ (I have sent everything), CLOSE_WRITE (I can take no more)   *)
(* and RST.  A message stays in the net once it was sent and may arrive    *)
(* at any time, again or never, so that loss, reordering, duplicates and   *)
(* retransmissions need no actions of their own.                           *)
(*                                                                         *)
(* The state of an end is a record, and the functions of arq.go that work  *)
(* on it are operators from records to records.  A step is a handler with  *)
(* everything it calls.  Three decisions that the code takes under a.mu    *)
(* and acts upon later are states of their own: the reader in Read, the    *)
(* writer that found nothing to write, and finalizeClose once the          *)
(* handshake is complete ("finishing").                                    *)
(*                                                                         *)
(* The client's handlers are not part of the repository; it has the same   *)
(* ARQ, with IsClient set, and is taken to drain before it obeys an RST.   *)
(* Deadlines are abstract: a timer that is armed may fire at any time.     *)
(***************************************************************************)
EXTENDS Integers, FiniteSets

CONSTANTS
  Loads,     (* bound: how many chunks the application of each end writes   *)
  Faults     (* what may fail: some of "read", "write" and "owner"          *)

Ends == {"client", "server"}
Peer(e) == IF e = "client" THEN "server" ELSE "client"

ASSUME LoadsAssumption == Loads \subseteq [Ends -> Nat]

VARIABLES
  chunks,    (* what the applications have to say: one of Loads             *)
  arq,       (* the ARQ of each end                                         *)
  net,       (* every message queued for the other end or sent to it so far *)
  outcome    (* history: why each end closed                                *)

vars == <<chunks, arq, net, outcome>>

Terminals == {"closeRead", "closeWrite", "rst"}
AckOf(kind) == CASE kind = "closeRead" -> "closeReadAck"
                 [] kind = "closeWrite" -> "closeWriteAck"
                 [] kind = "rst" -> "rstAck"

Message(to, kind, n) == [to |-> to, kind |-> kind, n |-> n]

NewARQ(e) ==
  [isClient  |-> e = "client",
   reader    |-> "reading",   (* ioLoop: reading or ended                   *)
   written   |-> 0,           (* chunks read from the local application     *)
   sndBuf    |-> {},
   rxChan    |-> {},          (* received, not yet processed                *)
   rcvBuf    |-> {},
   rcvd      |-> 0,           (* chunks taken from rcvBuf: rcvNxt - 1       *)
   delivered |-> 0,           (* chunks written to the local application    *)
   writer    |-> "idle",      (* writeLoop: idle, empty, writing or ended   *)
   sent      |-> {}, received |-> {}, acked |-> {},   (* terminal packets   *)
   waiting   |-> "none",      (* waitingAckFor                              *)
   overdue   |-> FALSE,       (* ackWaitDeadline passed, and nothing came   *)
   deferred  |-> "none",      (* deferredPacket                             *)
   control   |-> {},          (* controlSndBuf                              *)
   stopLocalRead |-> FALSE, localWriterBroken |-> FALSE, localWriteClosed |-> FALSE,
   finishing |-> "none",      (* finalizeClose decided on, not yet reached  *)
   closed    |-> FALSE]

Init ==
  /\ chunks \in Loads
  /\ arq = [e \in Ends |-> NewARQ(e)]
  /\ net = {}
  /\ outcome = [e \in Ends |-> "none"]

------------------------------------------------------------------------------
(* The functions of arq.go, as operators on the state of one end. *)

Resetting(s) == "rst" \in s.sent \union s.received

clearAllQueues(s) == [s EXCEPT !.sndBuf = {}, !.rcvBuf = {}, !.control = {}]

(* The context is cancelled and the connection closed: the loops end.      *)
finalizeClose(s) ==
  [clearAllQueues(s) EXCEPT !.closed = TRUE, !.waiting = "none", !.overdue = FALSE,
                            !.deferred = "none", !.finishing = "none", !.rxChan = {},
                            !.reader = "ended", !.writer = "ended"]

LocalWritePending(s) == s.writer = "writing"
InboundEmpty(s) == s.rcvBuf = {} /\ s.rxChan = {}

(* Variant for the checks: data that is still being received is ignored. *)
HandshakeCompleteUndrained(s) ==
  /\ ~ s.closed
  /\ "closeRead" \in s.received
  /\ \/ "closeRead" \in s.acked
     \/ ("closeRead" \in s.sent /\ s.waiting # "closeRead")
  /\ IF s.localWriterBroken
     THEN "closeWrite" \in s.acked \union s.received
     ELSE "closeWrite" \in s.sent => "closeWrite" \in s.acked

(* Variant: that the peer has seen CLOSE_READ is not waited for. *)
HandshakeCompleteUnacked(s) ==
  /\ ~ s.closed
  /\ "closeRead" \in s.sent \intersect s.received
  /\ s.localWriterBroken \/ (InboundEmpty(s) /\ ~ LocalWritePending(s))
  /\ IF s.localWriterBroken
     THEN "closeWrite" \in s.acked \union s.received
     ELSE "closeWrite" \in s.sent => "closeWrite" \in s.acked

HandshakeComplete(s) ==
  /\ ~ s.closed
  /\ "closeRead" \in s.received
  /\ s.localWriterBroken \/ (InboundEmpty(s) /\ ~ LocalWritePending(s))
  /\ \/ "closeRead" \in s.acked
     \/ ("closeRead" \in s.sent /\ s.waiting # "closeRead")
  /\ IF s.localWriterBroken
     THEN "closeWrite" \in s.acked \union s.received
     ELSE "closeWrite" \in s.sent => "closeWrite" \in s.acked

LocalDisconnectComplete(s) ==
  /\ s.isClient /\ ~ s.closed
  /\ s.localWriterBroken
  /\ {"closeRead", "closeWrite"} \subseteq s.acked /\ "closeRead" \in s.sent
  /\ s.sndBuf = {} /\ InboundEmpty(s) /\ ~ LocalWritePending(s)
  /\ s.waiting = "none" /\ s.deferred = "none"

tryFinalizeRemoteEOF(s) ==
  CASE HandshakeComplete(s) -> [s EXCEPT !.finishing = "handshake"]
    [] ~ HandshakeComplete(s) /\ LocalDisconnectComplete(s) ->
         [s EXCEPT !.finishing = "disconnect"]
    [] OTHER -> s

Refused(s, kind) == Resetting(s) \/ (kind # "rst" /\ kind \in s.sent)

(* emitTerminalPacketWithTTL, MarkXSent and SendControlPacketWithTTL. *)
emitTerminal(s, kind) ==
  LET stopped == [s EXCEPT !.stopLocalRead = TRUE, !.deferred = "none"]
      marked  == [stopped EXCEPT !.sent = @ \union {kind}, !.waiting = kind, !.overdue = FALSE]
  IN CASE s.closed -> s
       [] ~ s.closed /\ (s.waiting = kind \/ Refused(s, kind)) -> stopped
       [] OTHER ->
            CASE kind = "closeRead" ->
                   tryFinalizeRemoteEOF([marked EXCEPT !.control = @ \union {kind}])
              [] kind = "closeWrite" ->
                   [marked EXCEPT !.localWriterBroken = TRUE, !.localWriteClosed = TRUE,
                                  !.rcvBuf = {}, !.control = @ \union {kind}]
              [] kind = "rst" ->
                   [clearAllQueues(marked) EXCEPT !.control = {kind}]

AlreadyResetting(s) == Resetting(s) \/ "rst" \in {s.waiting, s.deferred}

(* Close, without waiting for the data that is under way. *)
closeNow(s, kind) ==
  IF kind = "rst" /\ (s.closed \/ AlreadyResetting(s)) THEN s ELSE emitTerminal(s, kind)

(* Variant: the terminal packet goes out while data is unacknowledged. *)
settleTerminalDrainEarly(s) ==
  IF s.closed \/ s.deferred = "none" THEN s
  ELSE closeNow([s EXCEPT !.deferred = "none"], s.deferred)

settleTerminalDrain(s) ==
  IF s.closed \/ s.deferred = "none" \/ s.sndBuf # {} THEN s
  ELSE closeNow([s EXCEPT !.deferred = "none"], s.deferred)

drainExpired(s) == closeNow([s EXCEPT !.deferred = "none"], "rst")

deferTerminalPacket(s, kind) ==
  IF s.closed THEN s
  ELSE settleTerminalDrain([s EXCEPT !.stopLocalRead = TRUE, !.deferred = kind])

(* Close with AfterDrain. *)
closeAfterDrain(s, kind) ==
  IF kind = "rst" /\ (s.closed \/ AlreadyResetting(s)) THEN s ELSE deferTerminalPacket(s, kind)

isGracefulCloseInProgress(s) ==
  \/ s.closed
  \/ {s.waiting, s.deferred} \intersect {"closeRead", "closeWrite"} # {}
  \/ (s.sent \union s.received) \intersect {"closeRead", "closeWrite"} # {}

(* An end whose writer is broken tells its peer once. *)
rejectInbound(s) ==
  IF s.localWriterBroken /\ "closeWrite" \notin s.sent /\ s.waiting # "closeWrite"
     /\ ~ s.closed /\ ~ Resetting(s)
  THEN closeNow(s, "closeWrite")
  ELSE s

Contiguous(s) ==
  LET Run(k) == (s.rcvd + 1) .. (s.rcvd + k) \subseteq s.rcvBuf
  IN CHOOSE k \in 0 .. Cardinality(s.rcvBuf) :
       Run(k) /\ \A j \in 0 .. Cardinality(s.rcvBuf) : Run(j) => j <= k

(* Variant: data of one's own that the peer will never acknowledge delays  *)
(* the end, too.                                                           *)
ResetDrainedBothWays(s) ==
  /\ "rst" \in s.received /\ ~ s.closed /\ s.sndBuf = {}
  /\ Contiguous(s) = 0 /\ s.rxChan = {} /\ ~ LocalWritePending(s)

(* Can the reset of the peer be obeyed (tryFinalizePeerResetDrain)? *)
ResetDrained(s) ==
  /\ "rst" \in s.received /\ ~ s.closed
  /\ Contiguous(s) = 0 /\ s.rxChan = {} /\ ~ LocalWritePending(s)

tryFinalizePeerResetDrain(s) ==
  IF ResetDrained(s) THEN [s EXCEPT !.finishing = "reset"] ELSE s

------------------------------------------------------------------------------
(* A step of end e takes its ARQ from s to t and sends the messages in     *)
(* more, and the terminal packets that are newly tracked.                  *)

Step(e, t, more) ==
  /\ arq' = [arq EXCEPT ![e] = t]
  /\ net' = net \union more
              \union {Message(Peer(e), kind, 0) : kind \in t.control \ arq[e].control}
  /\ UNCHANGED <<chunks, outcome>>

Local(e, t) == Step(e, t, {})

Closes(e, t, why, more) ==
  /\ arq' = [arq EXCEPT ![e] = finalizeClose(t)]
  /\ net' = net \union more
  /\ outcome' = [outcome EXCEPT ![e] = IF arq[e].closed THEN @ ELSE why]
  /\ UNCHANGED chunks

(* finalizeClose, reached after the decision to call it. *)
Finalize(e) ==
  /\ arq[e].finishing # "none"
  /\ Closes(e, arq[e], arq[e].finishing, {})

------------------------------------------------------------------------------
(* ioLoop.  It looks at the flags before every Read, and that is before    *)
(* the previous one returned: Read may return data long after they change. *)

ReadData(s) == [s EXCEPT !.written = @ + 1, !.sndBuf = @ \union {s.written + 1}]
LookAtFlags(s) == [s EXCEPT !.reader = IF s.stopLocalRead THEN "ended" ELSE "reading"]
EndReading(s) == [s EXCEPT !.reader = "ended"]

Reading(e) == arq[e].reader = "reading" /\ ~ arq[e].closed
NewData(e) == {Message(Peer(e), "data", arq[e].written + 1)}

ReaderReads(e) ==
  /\ Reading(e) /\ arq[e].written < chunks[e]
  /\ Step(e, LookAtFlags(ReadData(arq[e])), NewData(e))

ReaderTimesOut(e) ==
  /\ Reading(e) /\ arq[e].stopLocalRead
  /\ Local(e, LookAtFlags(arq[e]))

ReaderEOF(e) ==
  /\ Reading(e)
  /\ Local(e, closeAfterDrain(EndReading(arq[e]), "closeRead"))

(* A connection that was closed under the reader is no error during a      *)
(* graceful close; any other error resets the stream.                      *)
ReaderFails(e) ==
  /\ "read" \in Faults /\ Reading(e)
  /\ \/ /\ isGracefulCloseInProgress(arq[e])
        /\ Local(e, EndReading(arq[e]))
     \/ Local(e, closeNow(EndReading(arq[e]), "rst"))

(* Data and the end of it, or an error, at once: CLOSE_READ or RST waits   *)
(* until the data is acknowledged.                                         *)
ReaderReadsLast(e, kind) ==
  /\ kind = "rst" => "read" \in Faults
  /\ Reading(e) /\ arq[e].written < chunks[e]
  /\ Step(e, closeAfterDrain(EndReading(ReadData(arq[e])), kind), NewData(e))

------------------------------------------------------------------------------
(* rxLoop and writeLoop. *)

Process(e, n) ==
  LET s == [arq[e] EXCEPT !.rxChan = @ \ {n}]
  IN /\ n \in arq[e].rxChan
     /\ IF s.localWriterBroken \/ "closeWrite" \in s.sent \union s.acked
        THEN Local(e, rejectInbound(s))
        ELSE Step(e, [s EXCEPT !.rcvBuf = IF n > s.rcvd THEN @ \union {n} ELSE @],
                  {Message(Peer(e), "dataAck", n)})

WriterTakes(e) ==
  LET s == arq[e]
      k == Contiguous(s)
  IN /\ s.writer = "idle" /\ ~ s.closed
     /\ Local(e, [s EXCEPT !.rcvd = @ + k,
                           !.rcvBuf = @ \ ((s.rcvd + 1) .. (s.rcvd + k)),
                           !.writer = IF k > 0 THEN "writing" ELSE "empty"])

(* With nothing to write the loop looks at the flags under a second lock.  *)
WriterLooks(e) ==
  LET s == [arq[e] EXCEPT !.writer = "idle"]
      eof == [s EXCEPT !.localWriteClosed =
                @ \/ ("closeRead" \in s.received /\ s.rxChan = {})]
  IN /\ arq[e].writer = "empty" /\ ~ s.closed
     /\ Local(e, IF ResetDrained(eof) THEN tryFinalizePeerResetDrain(eof)
                                      ELSE tryFinalizeRemoteEOF(eof))

WriterWrites(e) ==
  LET s == [arq[e] EXCEPT !.writer = "idle", !.delivered = arq[e].rcvd]
  IN /\ LocalWritePending(arq[e]) /\ ~ s.closed /\ ~ s.localWriteClosed
     /\ Local(e, IF ResetDrained(s) THEN tryFinalizePeerResetDrain(s)
                                    ELSE tryFinalizeRemoteEOF(s))

(* The write fails for good, or the write side was shut down before.       *)
WriterFails(e) ==
  LET s == [arq[e] EXCEPT !.writer = "ended", !.localWriterBroken = TRUE, !.rcvBuf = {}]
  IN /\ LocalWritePending(arq[e])
     /\ "write" \in Faults \/ s.localWriteClosed
     /\ Local(e, closeNow(s, "closeWrite"))

------------------------------------------------------------------------------
(* The handlers of the packets of the peer.  An end that has closed has    *)
(* no stream any more: the session answers for it.                         *)

(* Once both ends are closed nobody cares for an answer (a bound). *)
Arrived(e, kind, n) ==
  /\ Message(e, kind, n) \in net
  /\ ~ (arq[e].closed /\ arq[Peer(e)].closed)
Answer(e, kind) == {Message(Peer(e), AckOf(kind), 0)}

(* While a reset of its own waits for the drain the state of an end is     *)
(* already that of a reset, unless a CLOSE_READ has changed it since.      *)
ReceiveData(e, n) ==
  LET s == arq[e]
      lost == s.closed \/ Resetting(s)
  IN /\ Arrived(e, "data", n)
     /\ \/ /\ lost \/ s.deferred = "rst"
           /\ Step(e, s, {Message(Peer(e), "rst", 0)})
        \/ /\ ~ lost
           /\ Local(e, IF s.localWriterBroken THEN rejectInbound(s)
                       ELSE [s EXCEPT !.rxChan = @ \union {n}])

ReceiveAck(e, n) ==
  LET t == [arq[e] EXCEPT !.sndBuf = @ \ {n}]
  IN /\ Arrived(e, "dataAck", n) /\ n \in arq[e].sndBuf
     /\ Local(e, settleTerminalDrain(IF "closeRead" \in t.received
                                     THEN tryFinalizeRemoteEOF(t) ELSE t))

MarkCloseReadReceived(e) ==
  LET s == arq[e]
      t == [s EXCEPT !.received = @ \union {"closeRead"}]
  IN /\ Arrived(e, "closeRead", 0)
     /\ Step(e, IF s.closed THEN s ELSE tryFinalizeRemoteEOF(t), Answer(e, "closeRead"))

MarkCloseWriteReceived(e) ==
  LET s == arq[e]
      t == [s EXCEPT !.received = @ \union {"closeWrite"},
                     !.stopLocalRead = TRUE, !.sndBuf = {}]
  IN /\ Arrived(e, "closeWrite", 0)
     /\ Step(e, IF s.closed THEN s ELSE tryFinalizeRemoteEOF(settleTerminalDrain(t)),
             Answer(e, "closeWrite"))

(* The server closes at once, the client when it has written what it got.  *)
MarkRstReceived(e) ==
  LET s == arq[e]
      t == [s EXCEPT !.received = @ \union {"rst"}, !.stopLocalRead = TRUE,
                     !.sndBuf = {}, !.control = {}]
  IN /\ Arrived(e, "rst", 0)
     /\ CASE s.closed -> Step(e, s, Answer(e, "rst"))
          [] ~ s.closed /\ s.isClient -> Step(e, t, Answer(e, "rst"))
          [] ~ s.closed /\ ~ s.isClient -> Closes(e, t, "reset", Answer(e, "rst"))

(* ReceiveControlAck, for a terminal packet that is tracked or awaited. *)
Expected(s, kind) == ~ s.closed /\ kind \in s.control \union {s.waiting}

(* Variant: nothing at all is retransmitted any more. *)
AckedForgets(s, kind) ==
  [s EXCEPT !.control = {}, !.acked = @ \union {kind},
            !.waiting = IF s.waiting = kind THEN "none" ELSE @,
            !.overdue = @ /\ s.waiting # kind]

Acked(s, kind) ==
  [s EXCEPT !.control = @ \ {kind}, !.acked = @ \union {kind},
            !.waiting = IF s.waiting = kind THEN "none" ELSE @,
            !.overdue = @ /\ s.waiting # kind]

(* maybeInitiateClientCloseReadAfterWriterBreak *)
initiateCloseRead(s) ==
  CASE ~ s.isClient \/ Resetting(s) \/ "closeRead" \in s.sent \union s.received -> s
    [] OTHER -> IF s.sndBuf # {} \/ LocalWritePending(s)
                THEN closeAfterDrain(s, "closeRead") ELSE closeNow(s, "closeRead")

ReceiveControlAck(e, kind) ==
  LET t == Acked(arq[e], kind)
      broken == [t EXCEPT !.localWriterBroken = TRUE, !.localWriteClosed = TRUE]
  IN /\ Arrived(e, AckOf(kind), 0) /\ Expected(arq[e], kind)
     /\ CASE kind = "closeRead" -> Local(e, tryFinalizeRemoteEOF(t))
          [] kind = "closeWrite" ->
               Local(e, tryFinalizeRemoteEOF(initiateCloseRead(broken)))
          [] kind = "rst" -> Closes(e, t, "reset", {})

------------------------------------------------------------------------------
(* retransmitLoop.  A tick takes the first of these that applies: a drain  *)
(* that is under way, an acknowledgement that is overdue, the peer's       *)
(* reset, the client's grace period, inactivity.                           *)

TimerSettles(e) ==
  LET s == arq[e]
  IN /\ ~ s.closed /\ s.deferred # "none"
     /\ Local(e, IF s.sndBuf = {} THEN settleTerminalDrain(s) ELSE drainExpired(s))

(* A stream that is resetting is not reset again: the wait stays overdue.  *)
AckWaitExpires(e) ==
  LET s == arq[e]
  IN /\ ~ s.closed /\ s.deferred = "none"
     /\ \/ /\ s.waiting = "rst"
           /\ Closes(e, s, "reset", {})
        \/ /\ s.waiting \in {"closeRead", "closeWrite"}
           /\ Local(e, [closeNow(s, "rst") EXCEPT !.overdue = Resetting(s)])

TimerObeysReset(e) ==
  LET s == arq[e]
  IN /\ s.deferred = "none" /\ ~ s.overdue /\ ResetDrained(s)
     /\ Closes(e, s, "reset", {})

(* Some time after its own EOF a client stops receiving as well. *)
GraceElapses(e) ==
  LET s == arq[e]
  IN /\ s.isClient /\ ~ s.closed /\ s.deferred = "none" /\ ~ s.overdue
     /\ ~ Resetting(s)
     /\ "closeRead" \in s.sent \intersect s.acked
     /\ "closeWrite" \notin s.sent \union s.acked \union s.received
     /\ s.waiting # "closeWrite"
     /\ InboundEmpty(s) /\ ~ LocalWritePending(s)
     /\ "closeRead" \in s.received \/ s.localWriterBroken
     /\ Local(e, closeNow(s, "closeWrite"))

Inactive(e) ==
  LET s == arq[e]
  IN /\ ~ s.closed /\ s.deferred = "none" /\ ~ s.overdue /\ "rst" \notin s.received
     /\ s.sndBuf = {} /\ s.control = {}
     /\ Local(e, closeNow(s, "rst"))

(* The last retransmission of a chunk or a terminal packet goes unanswered. *)
DataGivesUp(e) ==
  /\ arq[e].sndBuf # {}
  /\ Local(e, closeNow(arq[e], "rst"))

ControlGivesUp(e, kind) ==
  LET s == [arq[e] EXCEPT !.control = @ \ {kind}]
  IN /\ kind \in arq[e].control
     /\ IF kind = "rst" THEN Closes(e, s, "reset", {})
                        ELSE Local(e, closeNow(s, "rst"))

(* The owner of the stream aborts it, or its session goes away. *)
OwnerAborts(e) ==
  /\ "owner" \in Faults
  /\ ~ arq[e].closed
  /\ \/ Local(e, closeNow(arq[e], "rst"))
     \/ Closes(e, arq[e], "forced", {})

Timers(e) ==
  \/ TimerSettles(e) \/ AckWaitExpires(e) \/ TimerObeysReset(e)
  \/ GraceElapses(e) \/ Inactive(e) \/ DataGivesUp(e)
  \/ \E kind \in Terminals : ControlGivesUp(e, kind)

Reader(e) ==
  \/ ReaderReads(e) \/ ReaderTimesOut(e) \/ ReaderEOF(e)
  \/ ReaderFails(e) \/ \E kind \in {"closeRead", "rst"} : ReaderReadsLast(e, kind)

WriteLoop(e) ==
  WriterTakes(e) \/ WriterLooks(e) \/ WriterWrites(e) \/ WriterFails(e)

RxLoop(e) == \E n \in 1 .. chunks[Peer(e)] : Process(e, n)

Receive(e) ==
  \/ \E n \in 1 .. chunks[Peer(e)] : ReceiveData(e, n)
  \/ \E n \in 1 .. chunks[e] : ReceiveAck(e, n)
  \/ MarkCloseReadReceived(e) \/ MarkCloseWriteReceived(e) \/ MarkRstReceived(e)
  \/ \E kind \in Terminals : ReceiveControlAck(e, kind)

Next == \E e \in Ends : \/ Reader(e) \/ RxLoop(e) \/ WriteLoop(e) \/ Receive(e)
                        \/ Timers(e) \/ Finalize(e) \/ OwnerAborts(e)

(* The goroutines of an ARQ run, time passes, and a write ends by its      *)
(* deadline.  Nothing is assumed of the applications, the net or readers.  *)
Fairness == \A e \in Ends : /\ WF_vars(RxLoop(e)) /\ WF_vars(WriteLoop(e))
                            /\ WF_vars(Timers(e)) /\ WF_vars(Finalize(e))

Spec == Init /\ [][Next]_vars /\ Fairness

------------------------------------------------------------------------------
Unbroken(e) == ~ arq[e].localWriterBroken
Undisturbed(e) == Unbroken(e) /\ ~ Resetting(arq[e])

(* An end that closes because the handshake is complete has given its      *)
(* application everything the peer's application wrote: closing gracefully *)
(* truncates nothing, whatever was lost or repeated on the way.            *)
NoTruncation ==
  \A e \in Ends :
    outcome[e] = "handshake" /\ Undisturbed(e) /\ Undisturbed(Peer(e)) =>
      arq[e].delivered = arq[Peer(e)].written

(* CLOSE_READ tells the peer that no data is outstanding; nothing is.      *)
CloseReadFollowsData ==
  \A e \in Ends :
    "closeRead" \in arq[e].sent /\ Undisturbed(e) => arq[e].sndBuf = {}

(* An end that closed gracefully does not leave its peer behind: the peer  *)
(* knows that the data is complete, so that it can finish as well.         *)
NobodyLeftBehind ==
  \A e \in Ends :
    outcome[e] = "handshake" /\ Undisturbed(e) /\ Undisturbed(Peer(e)) =>
      "closeRead" \in arq[Peer(e)].received \/ arq[Peer(e)].closed

(* A terminal packet that is not acknowledged is retransmitted, or the     *)
(* stream is reset, and a reset of its own is waited for: no half of the   *)
(* handshake is forgotten when the other half makes progress; and what an  *)
(* end believes to be acknowledged the peer has really seen.               *)
KeepsTrying ==
  \A e \in Ends : LET s == arq[e] IN
    /\ ~ s.closed =>
         /\ "rst" \in s.sent => s.waiting = "rst"
         /\ ~ AlreadyResetting(s) => s.sent \ s.acked \subseteq s.control
    /\ s.acked \subseteq arq[Peer(e)].received \/ arq[Peer(e)].closed

(* An end that resets the stream, or was reset, closes although nothing    *)
(* arrives any more, whatever its own data and the data it still has to    *)
(* write.  The exception is real: a client whose deadline for the ACK of   *)
(* CLOSE_READ or CLOSE_WRITE passes just after the peer's RST never looks  *)
(* at that RST again (arq.go: handleTerminalRetransmitState).             *)
ResetEnds ==
  \A e \in Ends :
    (~ arq[e].closed /\ Resetting(arq[e])) ~> (arq[e].closed \/ arq[e].overdue)

(* The application of an end is told EOF only after all the data (Close:   *)
(* "peer should finish draining inbound and close writer").                *)
DrainedBeforeEOF ==
  \A e \in Ends :
    arq[e].localWriteClosed /\ Undisturbed(e) /\ Undisturbed(Peer(e)) =>
      arq[e].delivered = arq[Peer(e)].written
==============================================================================
