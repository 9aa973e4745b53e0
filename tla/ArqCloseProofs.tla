---------------------------- MODULE ArqCloseProofs ----------------------------
(***************************************************************************)
(* Closing a stream, proved for any number of chunks each way and any set  *)
(* of faults: closing gracefully truncates nothing and leaves nobody       *)
(* behind, CLOSE_READ follows the data, and no half of the handshake is    *)
(* forgotten.                                                              *)
(***************************************************************************)
EXTENDS ArqClose, FiniteSetTheorems, WellFoundedInduction, TLAPS

Kinds == Terminals \union {"none"}

ARQ == [isClient : BOOLEAN, reader : {"reading", "ended"}, written : Nat, sndBuf : SUBSET Nat,
        rxChan : SUBSET Nat, rcvBuf : SUBSET Nat, rcvd : Nat, delivered : Nat,
        writer : {"idle", "empty", "writing", "ended"},
        sent : SUBSET Terminals, received : SUBSET Terminals, acked : SUBSET Terminals,
        waiting : Kinds, overdue : BOOLEAN, deferred : Kinds \ {"closeWrite"},
        control : SUBSET Terminals, stopLocalRead : BOOLEAN, localWriterBroken : BOOLEAN,
        localWriteClosed : BOOLEAN, finishing : {"none", "handshake", "disconnect", "reset"},
        closed : BOOLEAN]

Whole(s) == ~ s.localWriterBroken /\ ~ Resetting(s)

(* The reader will read no more, or the data does not matter any more.      *)
ReadAll(s) == s.reader = "ended" \/ "closeWrite" \in s.sent

(* An ARQ that is closed has nothing under way. *)
Ended(s) ==
  s.closed => /\ s.reader = "ended" /\ s.writer = "ended" /\ s.finishing = "none"
              /\ s.sndBuf = {} /\ s.rcvBuf = {} /\ s.rxChan = {} /\ s.control = {}
              /\ s.waiting = "none" /\ s.deferred = "none"

(* The marks of the terminal packets. *)
Marks(s) ==
  /\ s.control \subseteq s.sent /\ s.acked \subseteq s.sent
  /\ s.waiting # "none" => s.waiting \in s.sent
  /\ "rst" \in s.sent /\ ~ s.closed => s.waiting = "rst"
  /\ "closeRead" \in s.sent /\ Whole(s) /\ ~ s.closed =>
       s.waiting = "closeRead" \/ "closeRead" \in s.acked

(* What the marks say about the data. *)
Data(s) ==
  /\ "closeWrite" \in s.sent => s.localWriterBroken
  /\ s.localWriterBroken => s.writer # "writing" /\ s.rcvBuf = {}
  /\ "closeRead" \in s.sent => ReadAll(s) /\ (Whole(s) => s.sndBuf = {})
  /\ s.deferred = "closeRead" => ReadAll(s)
  /\ s.deferred = "rst" =>
       s.reader = "ended" /\ ("closeRead" \in s.sent => "closeWrite" \in s.sent)
  /\ s.delivered <= s.rcvd
  /\ ~ s.closed /\ ~ s.localWriterBroken /\ s.writer # "writing" => s.delivered = s.rcvd

Tracks(s) == ~ s.closed /\ ~ AlreadyResetting(s) => s.sent \ s.acked \subseteq s.control

Good(s) == s \in ARQ /\ Ended(s) /\ Marks(s) /\ Data(s)

Has(s, n) == n <= s.rcvd \/ n \in s.rcvBuf

Outcomes == {"none", "handshake", "disconnect", "reset", "forced"}

Decided(e) == arq[e].finishing = "handshake" \/ outcome[e] = "handshake"

(* What end e and its peer know of each other, e being the receiver of the  *)
(* data.                                                                    *)
NetSound(e) ==
  LET s == arq[e] p == arq[Peer(e)]
  IN /\ \A n : Message(e, "data", n) \in net => n \in 1 .. p.written
     /\ \A n : Message(Peer(e), "dataAck", n) \in net =>
                 n \in Nat /\ (Whole(s) /\ ~ s.closed => Has(s, n))
     /\ \A kind \in {"closeRead", "closeWrite"} : Message(e, kind, 0) \in net => kind \in p.sent
     /\ \A kind \in Terminals :
          Message(e, AckOf(kind), 0) \in net => kind \in p.received \/ p.closed

KnowsOfPeer(e) ==
  LET s == arq[e] p == arq[Peer(e)]
  IN /\ s.received \ {"rst"} \subseteq p.sent
     /\ s.acked \subseteq p.received \/ p.closed
     /\ s.rxChan \union s.rcvBuf \subseteq 1 .. p.written /\ s.rcvd <= p.written

DataArrives(e) ==
  LET s == arq[e] p == arq[Peer(e)]
  IN Whole(s) /\ Whole(p) /\ ~ s.closed =>
       /\ ~ p.closed => \A n \in (1 .. p.written) \ p.sndBuf : Has(s, n)
       /\ "closeRead" \in p.sent => \A n \in 1 .. p.written : Has(s, n)

EndsInAgreement(e) ==
  LET s == arq[e] p == arq[Peer(e)]
  IN Decided(e) /\ Whole(s) /\ Whole(p) =>
       /\ "closeRead" \in p.sent /\ s.delivered = p.written
       /\ "closeRead" \in p.received \/ p.closed

CloseInv ==
  /\ arq \in [Ends -> ARQ] /\ chunks \in [Ends -> Nat] /\ outcome \in [Ends -> Outcomes]
  /\ \A e \in Ends : Good(arq[e]) /\ Tracks(arq[e])
  /\ \A e \in Ends : NetSound(e) /\ KnowsOfPeer(e) /\ DataArrives(e) /\ EndsInAgreement(e)

------------------------------------------------------------------------------
(* The functions of arq.go that close: they leave the reader, the numbers   *)
(* and what came from the peer alone, and clear buffers only when the data  *)
(* does not matter any more.                                                *)

Closing(s, t) ==
  /\ t.isClient = s.isClient /\ t.reader = s.reader /\ t.written = s.written
  /\ t.rxChan = s.rxChan /\ t.rcvd = s.rcvd /\ t.delivered = s.delivered
  /\ t.writer = s.writer /\ t.received = s.received /\ t.acked = s.acked
  /\ t.closed = s.closed
  /\ s.sent \subseteq t.sent /\ (s.localWriterBroken => t.localWriterBroken)
  /\ Whole(t) => t.sndBuf = s.sndBuf /\ t.rcvBuf = s.rcvBuf
  /\ t.rcvBuf \subseteq s.rcvBuf
  /\ Whole(t) /\ HandshakeComplete(s) => HandshakeComplete(t)
  /\ Whole(t) /\ t.finishing = "handshake" => s.finishing = "handshake" \/ HandshakeComplete(t)

LEMMA ClosingTrans ==
  ASSUME NEW s, NEW t, NEW u, Closing(s, t), Closing(t, u)
  PROVE  Closing(s, u)
<1>1. Whole(u) => Whole(t)
  BY DEF Closing, Whole, Resetting
<1> QED
  BY <1>1 DEF Closing

LEMMA ClosingSelf == ASSUME NEW s PROVE Closing(s, s)
BY DEF Closing

(* Only "finishing" changes. *)
LEMMA FinishKeeps ==
  ASSUME NEW s, Good(s), ~ s.closed, NEW why \in {"handshake", "disconnect", "reset"},
         why = "handshake" => HandshakeComplete(s),
         NEW t, t = [s EXCEPT !.finishing = why]
  PROVE  Good(t) /\ Closing(s, t) /\ (Tracks(s) => Tracks(t))
<1>1. s \in ARQ
  BY DEF Good
<1>2. t \in ARQ /\ t.finishing = why
  BY <1>1 DEF ARQ
<1>3. /\ t.isClient = s.isClient /\ t.reader = s.reader /\ t.written = s.written
      /\ t.rxChan = s.rxChan /\ t.rcvd = s.rcvd /\ t.delivered = s.delivered
      /\ t.writer = s.writer /\ t.received = s.received /\ t.acked = s.acked
      /\ t.closed = s.closed /\ t.sent = s.sent /\ t.localWriterBroken = s.localWriterBroken
      /\ t.sndBuf = s.sndBuf /\ t.rcvBuf = s.rcvBuf /\ t.waiting = s.waiting
      /\ t.deferred = s.deferred /\ t.control = s.control
  BY <1>1 DEF ARQ
<1>4. Ended(t) /\ Marks(t) /\ Data(t) /\ (Tracks(s) => Tracks(t))
  BY <1>3 DEF Good, Ended, Marks, Data, Tracks, AlreadyResetting, Whole, Resetting, ReadAll
<1>5. HandshakeComplete(s) => HandshakeComplete(t)
  BY <1>3 DEF HandshakeComplete, InboundEmpty, LocalWritePending
<1> QED
  BY <1>2, <1>3, <1>4, <1>5 DEF Good, Closing

LEMMA RemoteEOFKeeps ==
  ASSUME NEW s, Good(s), NEW t, t = tryFinalizeRemoteEOF(s)
  PROVE  Good(t) /\ Closing(s, t) /\ (Tracks(s) => Tracks(t))
<1>1. CASE HandshakeComplete(s)
  <2>1. t = [s EXCEPT !.finishing = "handshake"] /\ ~ s.closed
    BY <1>1 DEF tryFinalizeRemoteEOF, HandshakeComplete
  <2> QED
    BY <1>1, <2>1, FinishKeeps
<1>2. CASE ~ HandshakeComplete(s) /\ LocalDisconnectComplete(s)
  <2>1. t = [s EXCEPT !.finishing = "disconnect"] /\ ~ s.closed
    BY <1>2 DEF tryFinalizeRemoteEOF, LocalDisconnectComplete
  <2> QED
    BY <2>1, FinishKeeps
<1>3. CASE ~ HandshakeComplete(s) /\ ~ LocalDisconnectComplete(s)
  <2>1. t = s
    BY <1>3 DEF tryFinalizeRemoteEOF
  <2> QED
    BY <2>1, ClosingSelf
<1> QED
  BY <1>1, <1>2, <1>3

LEMMA PeerResetKeeps ==
  ASSUME NEW s, Good(s), NEW t, t = tryFinalizePeerResetDrain(s)
  PROVE  Good(t) /\ Closing(s, t) /\ (Tracks(s) => Tracks(t))
<1>1. CASE ResetDrained(s)
  <2>1. t = [s EXCEPT !.finishing = "reset"] /\ ~ s.closed
    BY <1>1 DEF tryFinalizePeerResetDrain, ResetDrained
  <2> QED
    BY <2>1, FinishKeeps
<1>2. CASE ~ ResetDrained(s)
  <2>1. t = s
    BY <1>2 DEF tryFinalizePeerResetDrain
  <2> QED
    BY <2>1, ClosingSelf
<1> QED
  BY <1>1, <1>2

(* Nothing is sent: the drain is not waited for any more. *)
Stopped(s) == [s EXCEPT !.stopLocalRead = TRUE, !.deferred = "none"]

LEMMA StopKeeps ==
  ASSUME NEW s, Good(s), NEW t, t = Stopped(s)
  PROVE  Good(t) /\ Closing(s, t)
         /\ (Tracks(s) /\ (s.deferred = "rst" => Resetting(s)) => Tracks(t))
<1>1. s \in ARQ
  BY DEF Good
<1>2. t \in ARQ /\ t.deferred = "none"
  BY <1>1 DEF ARQ, Stopped, Kinds
<1>3. /\ t.isClient = s.isClient /\ t.reader = s.reader /\ t.written = s.written
      /\ t.rxChan = s.rxChan /\ t.rcvd = s.rcvd /\ t.delivered = s.delivered
      /\ t.writer = s.writer /\ t.received = s.received /\ t.acked = s.acked
      /\ t.closed = s.closed /\ t.sent = s.sent /\ t.localWriterBroken = s.localWriterBroken
      /\ t.sndBuf = s.sndBuf /\ t.rcvBuf = s.rcvBuf /\ t.waiting = s.waiting
      /\ t.finishing = s.finishing /\ t.control = s.control
  BY <1>1 DEF ARQ, Stopped
<1>4. Ended(t) /\ Marks(t) /\ Data(t)
  BY <1>2, <1>3 DEF Good, Ended, Marks, Data, Whole, Resetting, ReadAll
<1>5. Tracks(s) /\ (s.deferred = "rst" => Resetting(s)) => Tracks(t)
  BY <1>2, <1>3 DEF Tracks, AlreadyResetting, Resetting
<1>6. HandshakeComplete(s) => HandshakeComplete(t)
  BY <1>3 DEF HandshakeComplete, InboundEmpty, LocalWritePending
<1> QED
  BY <1>2, <1>3, <1>4, <1>5, <1>6 DEF Good, Closing

LEMMA EmitReset ==
  ASSUME NEW s, Good(s), NEW t, t = emitTerminal(s, "rst")
  PROVE  Good(t) /\ Closing(s, t) /\ Tracks(t)
<1>1. s \in ARQ
  BY DEF Good
<1>2. CASE s.closed
  <2>1. t = s
    BY <1>2 DEF emitTerminal
  <2> QED
    BY <1>2, <2>1, ClosingSelf DEF Tracks
<1>3. CASE ~ s.closed /\ (s.waiting = "rst" \/ Refused(s, "rst"))
  <2>1. t = Stopped(s)
    BY <1>3 DEF emitTerminal, Stopped
  <2>2. Resetting(s)
    BY <1>3 DEF Refused, Resetting, Good, Marks
  <2>3. Good(t) /\ Closing(s, t)
    BY <2>1, StopKeeps
  <2>4. Resetting(t)
    BY <2>2, <2>3 DEF Closing, Resetting
  <2> QED
    BY <2>3, <2>4 DEF Tracks, AlreadyResetting
<1>4. CASE ~ s.closed /\ ~ (s.waiting = "rst" \/ Refused(s, "rst"))
  <2> DEFINE sent == s.sent \union {"rst"}
  <2>1. t = [s EXCEPT !.stopLocalRead = TRUE, !.deferred = "none", !.sent = sent,
                      !.waiting = "rst", !.overdue = FALSE, !.sndBuf = {}, !.rcvBuf = {},
                      !.control = {"rst"}]
    BY <1>4 DEF emitTerminal, clearAllQueues
  <2>2. sent \in SUBSET Terminals /\ "rst" \in sent /\ s.sent \subseteq sent
    BY <1>1 DEF ARQ, Terminals
  <2>3. sent \subseteq s.sent \union {"rst"}
    OBVIOUS
  <2> HIDE DEF sent
  <2>4. t \in ARQ
    <3> DEFINE empty == {}
               reset == {"rst"}
    <3>1. /\ "rst" \in Kinds /\ "none" \in Kinds \ {"closeWrite"}
          /\ reset \in SUBSET Terminals /\ empty \in SUBSET Nat
      BY DEF Kinds, Terminals
    <3> DEFINE u == [s EXCEPT !.stopLocalRead = TRUE, !.deferred = "none", !.sent = sent,
                              !.waiting = "rst", !.overdue = FALSE]
    <3>2. t = [u EXCEPT !.sndBuf = empty, !.rcvBuf = empty, !.control = reset]
      BY <2>1
    <3> HIDE DEF empty, reset
    <3>3. u \in ARQ
      BY <1>1, <2>2, <3>1 DEF ARQ
    <3> HIDE DEF u
    <3> DEFINE v == [u EXCEPT !.sndBuf = empty, !.rcvBuf = empty]
    <3>4. t = [v EXCEPT !.control = reset]
      BY <3>2
    <3>5. v \in ARQ
      BY <3>1, <3>3 DEF ARQ
    <3> HIDE DEF v
    <3> QED
      BY <3>1, <3>4, <3>5 DEF ARQ
  <2>5. /\ t.isClient = s.isClient /\ t.reader = s.reader /\ t.written = s.written
        /\ t.rxChan = s.rxChan /\ t.rcvd = s.rcvd /\ t.delivered = s.delivered
        /\ t.writer = s.writer /\ t.received = s.received /\ t.acked = s.acked
        /\ t.closed = s.closed /\ t.localWriterBroken = s.localWriterBroken
        /\ t.finishing = s.finishing
    BY <1>1, <2>1 DEF ARQ
  <2>6. /\ t.sent = sent /\ t.control = {"rst"} /\ t.waiting = "rst"
        /\ t.deferred = "none" /\ t.sndBuf = {} /\ t.rcvBuf = {}
    BY <1>1, <2>1 DEF ARQ
  <2>7. Resetting(t) /\ ~ Whole(t) /\ ~ t.closed
    BY <1>4, <2>2, <2>5, <2>6 DEF Resetting, Whole
  <2>8. Ended(t) /\ Marks(t) /\ Tracks(t)
    BY <2>2, <2>5, <2>6, <2>7 DEF Good, Ended, Marks, Tracks, AlreadyResetting
  <2>9. Data(t)
    BY <2>2, <2>3, <2>5, <2>6, <2>7 DEF Good, Data, ReadAll
  <2> QED
    BY <2>2, <2>4, <2>5, <2>6, <2>7, <2>8, <2>9 DEF Good, Closing
<1> QED
  BY <1>2, <1>3, <1>4

LEMMA ResetKeeps ==
  ASSUME NEW s, Good(s), NEW t, t = closeNow(s, "rst")
  PROVE  Good(t) /\ Closing(s, t) /\ Tracks(t)
<1>1. CASE s.closed \/ AlreadyResetting(s)
  <2>1. t = s
    BY <1>1 DEF closeNow
  <2> QED
    BY <1>1, <2>1, ClosingSelf DEF Tracks
<1>2. CASE ~ (s.closed \/ AlreadyResetting(s))
  <2>1. t = emitTerminal(s, "rst")
    BY <1>2 DEF closeNow
  <2> QED
    BY <2>1, EmitReset
<1> QED
  BY <1>1, <1>2

(* When an end may send CLOSE_READ or CLOSE_WRITE. *)
MaySend(s, kind) ==
  /\ kind = "closeRead" => ReadAll(s) /\ (Whole(s) => s.sndBuf = {})
  /\ kind = "closeWrite" => s.writer # "writing"
  /\ s.deferred = "rst" /\ ~ Resetting(s) =>
       kind \notin s.sent /\ (kind = "closeRead" => s.sent \subseteq s.acked)

(* The fields that no terminal packet changes. *)
SameRest(s, t) ==
  /\ t.isClient = s.isClient /\ t.reader = s.reader /\ t.written = s.written
  /\ t.rxChan = s.rxChan /\ t.rcvd = s.rcvd /\ t.delivered = s.delivered
  /\ t.writer = s.writer /\ t.received = s.received /\ t.acked = s.acked
  /\ t.closed = s.closed /\ t.finishing = s.finishing /\ t.sndBuf = s.sndBuf

LEMMA CloseReadKeeps ==
  ASSUME NEW s, Good(s), Tracks(s), MaySend(s, "closeRead"), ~ s.closed,
         ~ (s.waiting = "closeRead" \/ Refused(s, "closeRead")),
         NEW t, t = emitTerminal(s, "closeRead")
  PROVE  Good(t) /\ Closing(s, t) /\ Tracks(t)
<1> DEFINE sent == s.sent \union {"closeRead"}
           control == s.control \union {"closeRead"}
           u == [s EXCEPT !.stopLocalRead = TRUE, !.deferred = "none", !.sent = sent,
                          !.waiting = "closeRead", !.overdue = FALSE, !.control = control]
<1>1. s \in ARQ
  BY DEF Good
<1>2. t = tryFinalizeRemoteEOF(u)
  BY DEF emitTerminal
<1>3. /\ sent \in SUBSET Terminals /\ control \in SUBSET Terminals
      /\ "closeRead" \in sent /\ "closeRead" \in control
      /\ s.sent \subseteq sent /\ s.control \subseteq control
      /\ sent \subseteq s.sent \union {"closeRead"}
      /\ control \subseteq s.control \union {"closeRead"}
  BY <1>1 DEF ARQ, Terminals
<1> HIDE DEF sent, control
<1>4. u \in ARQ
  BY <1>1, <1>3 DEF ARQ, Kinds, Terminals
<1>5. SameRest(s, u) /\ u.localWriterBroken = s.localWriterBroken /\ u.rcvBuf = s.rcvBuf
  BY <1>1 DEF ARQ, SameRest
<1>6. u.sent = sent /\ u.control = control /\ u.waiting = "closeRead" /\ u.deferred = "none"
  BY <1>1 DEF ARQ
<1> HIDE DEF u
<1>7. "closeRead" \notin s.sent /\ ~ Resetting(s) /\ "rst" \notin s.sent
  BY DEF Refused, Resetting
<1>8. Ended(u) /\ ~ u.closed /\ "rst" \notin u.sent
  BY <1>3, <1>5, <1>6, <1>7 DEF Ended, SameRest
<1>9. Marks(u)
  BY <1>3, <1>5, <1>6, <1>8 DEF Good, Marks, SameRest
<1>10. Whole(u) => Whole(s)
  BY <1>3, <1>5, <1>6 DEF Whole, Resetting, SameRest
<1>11. Data(u)
  <2>1. "closeWrite" \in sent <=> "closeWrite" \in s.sent
    BY <1>3
  <2>2. ReadAll(s) /\ (Whole(s) => s.sndBuf = {})
    BY DEF MaySend
  <2> QED
    BY <1>3, <1>5, <1>6, <1>10, <2>1, <2>2 DEF Good, Data, ReadAll, SameRest
<1>12. Tracks(u)
  <2>1. CASE s.deferred = "rst"
    <3>1. s.sent \subseteq s.acked
      BY <1>7, <2>1 DEF MaySend
    <3> QED
      BY <1>3, <1>5, <1>6, <3>1 DEF Tracks, SameRest
  <2>2. CASE s.deferred # "rst"
    <3>1. "rst" \notin {s.waiting, s.deferred}
      BY <1>7, <2>2 DEF Good, Marks
    <3>2. s.sent \ s.acked \subseteq s.control
      BY <1>7, <3>1 DEF Tracks, AlreadyResetting
    <3> QED
      BY <1>3, <1>5, <1>6, <3>2 DEF Tracks, SameRest
  <2> QED
    BY <2>1, <2>2
<1>13. Closing(s, u)
  <2>1. ~ HandshakeComplete(s)
    BY <1>7 DEF HandshakeComplete, Good, Marks
  <2> QED
    BY <1>3, <1>5, <1>6, <2>1 DEF Closing, SameRest
<1>14. Good(u)
  BY <1>4, <1>8, <1>9, <1>11 DEF Good
<1> QED
  BY <1>2, <1>12, <1>13, <1>14, RemoteEOFKeeps, ClosingTrans

LEMMA CloseWriteKeeps ==
  ASSUME NEW s, Good(s), Tracks(s), MaySend(s, "closeWrite"), ~ s.closed,
         ~ (s.waiting = "closeWrite" \/ Refused(s, "closeWrite")),
         NEW t, t = emitTerminal(s, "closeWrite")
  PROVE  Good(t) /\ Closing(s, t) /\ Tracks(t)
<1> DEFINE sent == s.sent \union {"closeWrite"}
           control == s.control \union {"closeWrite"}
<1>1. s \in ARQ
  BY DEF Good
<1>2. t = [s EXCEPT !.stopLocalRead = TRUE, !.deferred = "none", !.sent = sent,
                    !.waiting = "closeWrite", !.overdue = FALSE, !.localWriterBroken = TRUE,
                    !.localWriteClosed = TRUE, !.rcvBuf = {}, !.control = control]
  BY DEF emitTerminal
<1>3. /\ sent \in SUBSET Terminals /\ control \in SUBSET Terminals
      /\ "closeWrite" \in sent /\ "closeWrite" \in control
      /\ s.sent \subseteq sent /\ s.control \subseteq control
      /\ sent \subseteq s.sent \union {"closeWrite"}
      /\ control \subseteq s.control \union {"closeWrite"}
  BY <1>1 DEF ARQ, Terminals
<1> HIDE DEF sent, control
<1>4. t \in ARQ
  <2> DEFINE empty == {}
  <2>1. /\ "closeWrite" \in Kinds /\ "none" \in Kinds \ {"closeWrite"}
        /\ empty \in SUBSET Nat
    BY DEF Kinds, Terminals
  <2> DEFINE u == [s EXCEPT !.stopLocalRead = TRUE, !.deferred = "none", !.sent = sent,
                            !.waiting = "closeWrite", !.overdue = FALSE]
  <2>2. t = [u EXCEPT !.localWriterBroken = TRUE, !.localWriteClosed = TRUE,
                      !.rcvBuf = empty, !.control = control]
    BY <1>2
  <2> HIDE DEF empty
  <2>3. u \in ARQ
    BY <1>1, <1>3, <2>1 DEF ARQ
  <2> HIDE DEF u
  <2> DEFINE v == [u EXCEPT !.localWriterBroken = TRUE, !.localWriteClosed = TRUE]
  <2> DEFINE w == [v EXCEPT !.rcvBuf = empty]
  <2>4. t = [w EXCEPT !.control = control]
    BY <2>2
  <2>5. v \in ARQ
    BY <2>3 DEF ARQ
  <2> HIDE DEF v
  <2>6. w \in ARQ
    BY <2>1, <2>5 DEF ARQ
  <2> HIDE DEF w
  <2> QED
    BY <1>3, <2>4, <2>6 DEF ARQ
<1>5. SameRest(s, t)
  BY <1>1, <1>2 DEF ARQ, SameRest
<1>6. /\ t.sent = sent /\ t.control = control /\ t.waiting = "closeWrite"
      /\ t.deferred = "none" /\ t.localWriterBroken /\ t.rcvBuf = {}
  BY <1>1, <1>2 DEF ARQ
<1>7. "closeWrite" \notin s.sent /\ ~ Resetting(s) /\ "rst" \notin s.sent
  BY DEF Refused, Resetting
<1>8. Ended(t) /\ ~ t.closed /\ "rst" \notin t.sent /\ ~ Whole(t)
  BY <1>3, <1>5, <1>6, <1>7 DEF Ended, SameRest, Whole
<1>9. Marks(t)
  BY <1>3, <1>5, <1>6, <1>8 DEF Good, Marks, SameRest
<1>10. Data(t)
  BY <1>3, <1>5, <1>6, <1>8 DEF Good, Data, ReadAll, SameRest, MaySend
<1>11. Tracks(t)
  <2>1. CASE s.deferred = "rst"
    <3>1. "closeRead" \notin s.sent
      BY <1>7, <2>1 DEF Good, Data
    <3>2. s.sent = {}
      BY <1>1, <1>7, <3>1 DEF ARQ, Terminals
    <3> QED
      BY <1>3, <1>6, <3>2 DEF Tracks
  <2>2. CASE s.deferred # "rst"
    <3>1. "rst" \notin {s.waiting, s.deferred}
      BY <1>7, <2>2 DEF Good, Marks
    <3>2. s.sent \ s.acked \subseteq s.control
      BY <1>7, <3>1 DEF Tracks, AlreadyResetting
    <3> QED
      BY <1>3, <1>5, <1>6, <3>2 DEF Tracks, SameRest
  <2> QED
    BY <2>1, <2>2
<1>12. Closing(s, t)
  BY <1>3, <1>5, <1>6, <1>8 DEF Closing, SameRest
<1> QED
  BY <1>4, <1>8, <1>9, <1>10, <1>11, <1>12 DEF Good

LEMMA CloseNowKeeps ==
  ASSUME NEW s, Good(s), Tracks(s), NEW kind \in {"closeRead", "closeWrite"}, MaySend(s, kind),
         NEW t, t = closeNow(s, kind)
  PROVE  Good(t) /\ Closing(s, t) /\ Tracks(t)
<1>1. t = emitTerminal(s, kind)
  BY DEF closeNow
<1>2. CASE s.closed
  <2>1. t = s
    BY <1>1, <1>2 DEF emitTerminal
  <2> QED
    BY <2>1, ClosingSelf
<1>3. CASE ~ s.closed /\ (s.waiting = kind \/ Refused(s, kind))
  <2>1. t = Stopped(s)
    BY <1>1, <1>3 DEF emitTerminal, Stopped
  <2>2. kind \in s.sent \/ Resetting(s)
    BY <1>3 DEF Good, Marks, Refused
  <2>3. s.deferred = "rst" => Resetting(s)
    BY <2>2 DEF MaySend
  <2> QED
    BY <2>1, <2>3, StopKeeps
<1>4. CASE ~ s.closed /\ ~ (s.waiting = kind \/ Refused(s, kind))
  BY <1>1, <1>4, CloseReadKeeps, CloseWriteKeeps
<1> QED
  BY <1>2, <1>3, <1>4

(* What is left to wait for changes: the drain, or nothing. *)
LEMMA DeferKeeps ==
  ASSUME NEW s, Good(s), NEW t \in ARQ, SameRest(s, t),
         t.sent = s.sent, t.localWriterBroken = s.localWriterBroken, t.rcvBuf = s.rcvBuf,
         t.waiting = s.waiting, t.control = s.control,
         t.deferred = "closeRead" => ReadAll(s),
         t.deferred = "rst" => s.reader = "ended" /\ ("closeRead" \in s.sent => "closeWrite" \in s.sent),
         s.closed => t.deferred = "none"
  PROVE  /\ Good(t) /\ Closing(s, t)
         /\ t.deferred = "rst" => Tracks(t)
         /\ Tracks(s) /\ (s.deferred = "rst" => Resetting(s)) => Tracks(t)
<1>1. Ended(t) /\ Marks(t) /\ Data(t)
  BY DEF Good, Ended, Marks, Data, Whole, Resetting, ReadAll, SameRest
<1>2. /\ t.deferred = "rst" => Tracks(t)
      /\ Tracks(s) /\ (s.deferred = "rst" => Resetting(s)) => Tracks(t)
  BY DEF Tracks, AlreadyResetting, Resetting, SameRest
<1>3. HandshakeComplete(s) => HandshakeComplete(t)
  BY DEF HandshakeComplete, InboundEmpty, LocalWritePending, SameRest
<1> QED
  BY <1>1, <1>2, <1>3 DEF Good, Closing, SameRest

LEMMA DrainTaken ==
  ASSUME NEW s, Good(s), NEW t, t = [s EXCEPT !.deferred = "none"]
  PROVE  /\ Good(t) /\ Closing(s, t) /\ t.deferred = "none" /\ t.sndBuf = s.sndBuf /\ t.sent = s.sent
         /\ Tracks(s) /\ (s.deferred = "rst" => Resetting(s)) => Tracks(t)
<1>1. s \in ARQ
  BY DEF Good
<1>2. t \in ARQ /\ SameRest(s, t)
  BY <1>1 DEF ARQ, SameRest, Kinds
<1>3. /\ t.sent = s.sent /\ t.localWriterBroken = s.localWriterBroken /\ t.rcvBuf = s.rcvBuf
      /\ t.waiting = s.waiting /\ t.control = s.control /\ t.deferred = "none"
  BY <1>1 DEF ARQ
<1> QED
  BY <1>2, <1>3, DeferKeeps DEF SameRest

LEMMA SettleKeeps ==
  ASSUME NEW s, Good(s), Tracks(s), NEW t, t = settleTerminalDrain(s)
  PROVE  Good(t) /\ Closing(s, t) /\ Tracks(t)
<1>1. CASE s.closed \/ s.deferred = "none" \/ s.sndBuf # {}
  <2>1. t = s
    BY <1>1 DEF settleTerminalDrain
  <2> QED
    BY <2>1, ClosingSelf
<1>2. CASE ~ (s.closed \/ s.deferred = "none" \/ s.sndBuf # {})
  <2> DEFINE u == [s EXCEPT !.deferred = "none"]
  <2>1. t = closeNow(u, s.deferred)
    BY <1>2 DEF settleTerminalDrain
  <2>2. /\ Good(u) /\ Closing(s, u) /\ u.deferred = "none" /\ u.sndBuf = {} /\ u.sent = s.sent
        /\ Tracks(s) /\ (s.deferred = "rst" => Resetting(s)) => Tracks(u)
    BY <1>2, DrainTaken
  <2> HIDE DEF u
  <2>3. s.deferred \in {"closeRead", "rst"}
    BY <1>2 DEF Good, ARQ, Kinds, Terminals
  <2>4. CASE s.deferred = "rst"
    BY <2>1, <2>2, <2>4, ResetKeeps, ClosingTrans
  <2>5. CASE s.deferred = "closeRead"
    <3>1. Tracks(u)
      BY <2>2, <2>5
    <3>2. ReadAll(u)
      BY <2>2, <2>5 DEF Good, Data, ReadAll, Closing
    <3>3. MaySend(u, "closeRead")
      BY <2>2, <3>2 DEF MaySend
    <3>4. t = closeNow(u, "closeRead")
      BY <2>1, <2>5
    <3>5. Good(t) /\ Closing(u, t) /\ Tracks(t)
      BY <2>2, <3>1, <3>3, <3>4, CloseNowKeeps
    <3> QED
      BY <2>2, <3>5, ClosingTrans
  <2> QED
    BY <2>3, <2>4, <2>5
<1> QED
  BY <1>1, <1>2

LEMMA DrainExpiredKeeps ==
  ASSUME NEW s, Good(s), NEW t, t = drainExpired(s)
  PROVE  Good(t) /\ Closing(s, t) /\ Tracks(t)
<1> DEFINE u == [s EXCEPT !.deferred = "none"]
<1>1. Good(u) /\ Closing(s, u)
  BY DrainTaken
<1>2. t = closeNow(u, "rst")
  BY DEF drainExpired
<1> HIDE DEF u
<1> QED
  BY <1>1, <1>2, ResetKeeps, ClosingTrans

LEMMA AfterDrainKeeps ==
  ASSUME NEW s, Good(s), Tracks(s), NEW kind \in {"closeRead", "rst"},
         kind = "closeRead" => ReadAll(s) /\ (s.deferred = "rst" => s.sent \subseteq s.acked),
         kind = "rst" => s.reader = "ended" /\ ("closeRead" \in s.sent => "closeWrite" \in s.sent),
         NEW t, t = closeAfterDrain(s, kind)
  PROVE  Good(t) /\ Closing(s, t) /\ Tracks(t)
<1>1. CASE t = s
  BY <1>1, ClosingSelf
<1>2. CASE t # s
  <2> DEFINE u == [s EXCEPT !.stopLocalRead = TRUE, !.deferred = kind]
  <2>1. t = settleTerminalDrain(u) /\ ~ s.closed
    BY <1>2 DEF closeAfterDrain, deferTerminalPacket
  <2>2. s \in ARQ /\ kind \in Kinds \ {"closeWrite"}
    BY DEF Good, Kinds, Terminals
  <2>3. u \in ARQ /\ SameRest(s, u)
    BY <2>2 DEF ARQ, SameRest
  <2>4. /\ u.sent = s.sent /\ u.localWriterBroken = s.localWriterBroken /\ u.rcvBuf = s.rcvBuf
        /\ u.waiting = s.waiting /\ u.control = s.control /\ u.deferred = kind
    BY <2>2 DEF ARQ
  <2> HIDE DEF u
  <2>5. /\ Good(u) /\ Closing(s, u)
        /\ kind = "rst" => Tracks(u)
        /\ (s.deferred = "rst" => Resetting(s)) => Tracks(u)
    BY <2>1, <2>3, <2>4, DeferKeeps
  <2>6. Tracks(u)
    <3>1. CASE kind = "rst" \/ s.deferred # "rst"
      BY <2>5, <3>1
    <3>2. CASE kind = "closeRead" /\ s.deferred = "rst"
      <4>1. u.sent \subseteq u.acked
        BY <2>3, <2>4, <3>2 DEF SameRest
      <4> QED
        BY <4>1 DEF Tracks
    <3> QED
      BY <3>1, <3>2
  <2> QED
    BY <2>1, <2>5, <2>6, SettleKeeps, ClosingTrans
<1> QED
  BY <1>1, <1>2

LEMMA RejectKeeps ==
  ASSUME NEW s, Good(s), Tracks(s), NEW t, t = rejectInbound(s)
  PROVE  Good(t) /\ Closing(s, t) /\ Tracks(t)
<1>1. CASE s.localWriterBroken /\ "closeWrite" \notin s.sent /\ s.waiting # "closeWrite"
           /\ ~ s.closed /\ ~ Resetting(s)
  <2>1. t = closeNow(s, "closeWrite")
    BY <1>1 DEF rejectInbound
  <2>2. MaySend(s, "closeWrite")
    BY <1>1 DEF MaySend, Good, Data
  <2> QED
    BY <2>1, <2>2, CloseNowKeeps
<1>2. CASE ~ (s.localWriterBroken /\ "closeWrite" \notin s.sent /\ s.waiting # "closeWrite"
              /\ ~ s.closed /\ ~ Resetting(s))
  <2>1. t = s
    BY <1>2 DEF rejectInbound
  <2> QED
    BY <2>1, ClosingSelf
<1> QED
  BY <1>1, <1>2

LEMMA InitiateKeeps ==
  ASSUME NEW s, Good(s), Tracks(s), "closeWrite" \in s.acked, NEW t, t = initiateCloseRead(s)
  PROVE  Good(t) /\ Closing(s, t) /\ Tracks(t)
<1>1. CASE ~ s.isClient \/ Resetting(s) \/ "closeRead" \in s.sent \union s.received
  <2>1. t = s
    BY <1>1 DEF initiateCloseRead
  <2> QED
    BY <2>1, ClosingSelf
<1>2. CASE ~ (~ s.isClient \/ Resetting(s) \/ "closeRead" \in s.sent \union s.received)
  <2>1. t = closeAfterDrain(s, "closeRead") \/ t = closeNow(s, "closeRead")
    BY <1>2 DEF initiateCloseRead
  <2>2. "closeWrite" \in s.sent /\ s.localWriterBroken /\ ReadAll(s)
    BY DEF Good, Marks, Data, ReadAll
  <2>3. s.sent \subseteq s.acked
    BY <1>2 DEF Good, ARQ, Terminals, Resetting
  <2>4. MaySend(s, "closeRead")
    BY <1>2, <2>2, <2>3 DEF MaySend, Whole
  <2> QED
    BY <2>1, <2>2, <2>3, <2>4, CloseNowKeeps, AfterDrainKeeps
<1> QED
  BY <1>1, <1>2

(* finalizeClose: what is under way is dropped. *)
LEMMA FinalizeKeeps ==
  ASSUME NEW s \in ARQ, s.acked \subseteq s.sent, "closeWrite" \in s.sent => s.localWriterBroken,
         s.delivered <= s.rcvd, NEW t, t = finalizeClose(s)
  PROVE  /\ Good(t) /\ Tracks(t) /\ t.closed /\ t.finishing = "none"
         /\ t.isClient = s.isClient /\ t.written = s.written /\ t.rcvd = s.rcvd
         /\ t.delivered = s.delivered /\ t.sent = s.sent /\ t.received = s.received
         /\ t.acked = s.acked /\ t.localWriterBroken = s.localWriterBroken
         /\ t.control = {} /\ t.rxChan = {} /\ t.rcvBuf = {}
<1> DEFINE u == clearAllQueues(s)
<1>1. u \in ARQ
  BY DEF ARQ, clearAllQueues
<1>2. t = [u EXCEPT !.closed = TRUE, !.waiting = "none", !.overdue = FALSE, !.deferred = "none",
                    !.finishing = "none", !.rxChan = {}, !.reader = "ended", !.writer = "ended"]
  BY DEF finalizeClose
<1>3. /\ u.isClient = s.isClient /\ u.written = s.written /\ u.rcvd = s.rcvd
      /\ u.delivered = s.delivered /\ u.sent = s.sent /\ u.received = s.received
      /\ u.acked = s.acked /\ u.localWriterBroken = s.localWriterBroken
      /\ u.sndBuf = {} /\ u.rcvBuf = {} /\ u.control = {}
  BY DEF ARQ, clearAllQueues
<1> HIDE DEF u
<1>4. t \in ARQ
  <2> DEFINE empty == {}
             v == [u EXCEPT !.closed = TRUE, !.waiting = "none", !.overdue = FALSE,
                            !.deferred = "none"]
  <2>1. "none" \in Kinds /\ "none" \in Kinds \ {"closeWrite"} /\ empty \in SUBSET Nat
    BY DEF Kinds, Terminals
  <2>2. t = [v EXCEPT !.finishing = "none", !.rxChan = empty, !.reader = "ended",
                      !.writer = "ended"]
    BY <1>2
  <2> HIDE DEF empty
  <2>3. v \in ARQ
    BY <1>1, <2>1 DEF ARQ
  <2> HIDE DEF v
  <2> DEFINE w == [v EXCEPT !.finishing = "none", !.rxChan = empty]
  <2>4. t = [w EXCEPT !.reader = "ended", !.writer = "ended"]
    BY <2>2
  <2>5. w \in ARQ
    BY <2>1, <2>3 DEF ARQ
  <2> HIDE DEF w
  <2> QED
    BY <2>4, <2>5 DEF ARQ
<1>5. /\ t.isClient = u.isClient /\ t.written = u.written /\ t.rcvd = u.rcvd
      /\ t.delivered = u.delivered /\ t.sent = u.sent /\ t.received = u.received
      /\ t.acked = u.acked /\ t.localWriterBroken = u.localWriterBroken
      /\ t.sndBuf = u.sndBuf /\ t.rcvBuf = u.rcvBuf /\ t.control = u.control
  BY <1>1, <1>2 DEF ARQ
<1>6. /\ t.closed /\ t.waiting = "none" /\ t.deferred = "none" /\ t.finishing = "none"
      /\ t.rxChan = {} /\ t.reader = "ended" /\ t.writer = "ended"
  BY <1>1, <1>2 DEF ARQ
<1>7. Ended(t) /\ Marks(t) /\ Tracks(t)
  BY <1>3, <1>5, <1>6 DEF Ended, Marks, Tracks
<1>8. Data(t)
  BY <1>3, <1>5, <1>6 DEF Data, ReadAll
<1> QED
  BY <1>3, <1>4, <1>5, <1>6, <1>7, <1>8 DEF Good

------------------------------------------------------------------------------
(* What a step of end e may do to its ARQ, which goes from s to t, and to   *)
(* the net.                                                                 *)

Grows(s, t) ==
  /\ s.sent \subseteq t.sent /\ s.received \subseteq t.received
  /\ (s.localWriterBroken => t.localWriterBroken) /\ (s.closed => t.closed)
  /\ s.written <= t.written /\ s.delivered <= t.delivered

(* As the sender of data: what is no longer kept was acknowledged.          *)
SenderStep(e, s, t) ==
  /\ "closeRead" \in s.sent /\ Whole(t) => t.written = s.written
  /\ "closeRead" \in t.sent \ s.sent => ~ t.closed
  /\ Whole(t) /\ ~ t.closed =>
       \A n \in (1 .. t.written) \ t.sndBuf :
         \/ n \in (1 .. s.written) \ s.sndBuf
         \/ Message(e, "dataAck", n) \in net \/ "closeWrite" \in t.received

(* As the receiver: what it has it keeps.                                   *)
ReceiverStep(e, s, t) ==
  /\ \A n \in t.rxChan \union t.rcvBuf :
       n \in s.rxChan \union s.rcvBuf \/ Message(e, "data", n) \in net
  /\ t.rcvd = s.rcvd \/ t.rcvd \in s.rcvBuf
  /\ Whole(t) /\ ~ t.closed => \A n \in Nat : Has(s, n) => Has(t, n)

TerminalStep(e, s, t) ==
  /\ \A kind \in t.received \ s.received : Message(e, kind, 0) \in net
  /\ \A kind \in t.acked \ s.acked : Message(e, AckOf(kind), 0) \in net
  /\ Whole(t) /\ t.finishing = "handshake" => s.finishing = "handshake" \/ HandshakeComplete(t)

Progress(e, s, t) ==
  /\ Good(t) /\ Tracks(t)
  /\ Grows(s, t) /\ SenderStep(e, s, t) /\ ReceiverStep(e, s, t) /\ TerminalStep(e, s, t)

Allowed(s, t, kind, n) ==
  \/ kind = "data" /\ n \in 1 .. t.written
  \/ kind = "dataAck" /\ n \in s.rxChan /\ (Whole(t) /\ ~ t.closed => Has(t, n))
  \/ kind \in Terminals /\ (kind # "rst" => kind \in t.sent)
  \/ \E k \in Terminals : kind = AckOf(k) /\ (k \in t.received \/ t.closed)

NetStep(e, s, t) ==
  \A to, kind, n :
    Message(to, kind, n) \in net' /\ Message(to, kind, n) \notin net =>
      to = Peer(e) /\ Allowed(s, t, kind, n)

LEMMA Peers == \A e \in Ends : Peer(e) \in Ends /\ Peer(e) # e /\ Peer(Peer(e)) = e
               /\ \A x \in Ends : x = e \/ x = Peer(e)
BY DEF Peer, Ends

LEMMA WholeBefore ==
  ASSUME NEW s, NEW t, Grows(s, t), Whole(t)
  PROVE  Whole(s)
BY DEF Grows, Whole, Resetting

(* The kinds of messages are different. *)
LEMMA KindsDiffer ==
  /\ "data" \notin Terminals /\ "dataAck" \notin Terminals
  /\ \A k \in Terminals : AckOf(k) \notin Terminals \union {"data", "dataAck"}
  /\ \A k, l \in Terminals : AckOf(k) = AckOf(l) => k = l
BY DEF Terminals, AckOf

LEMMA NetStepKinds ==
  ASSUME NEW e \in Ends, NEW s, NEW t, NetStep(e, s, t)
  PROVE  /\ \A n : Message(e, "data", n) \in net' => Message(e, "data", n) \in net
         /\ \A n : Message(e, "dataAck", n) \in net' => Message(e, "dataAck", n) \in net
         /\ \A kind : Message(e, kind, 0) \in net' => Message(e, kind, 0) \in net
         /\ \A n : Message(Peer(e), "data", n) \in net' =>
                     Message(Peer(e), "data", n) \in net \/ n \in 1 .. t.written
         /\ \A n : Message(Peer(e), "dataAck", n) \in net' =>
                     Message(Peer(e), "dataAck", n) \in net
                     \/ (n \in s.rxChan /\ (Whole(t) /\ ~ t.closed => Has(t, n)))
         /\ \A kind \in {"closeRead", "closeWrite"} : Message(Peer(e), kind, 0) \in net' =>
                     Message(Peer(e), kind, 0) \in net \/ kind \in t.sent
         /\ \A k \in Terminals : Message(Peer(e), AckOf(k), 0) \in net' =>
                     Message(Peer(e), AckOf(k), 0) \in net \/ k \in t.received \/ t.closed
<1>1. Peer(e) # e
  BY Peers
<1>2. \A kind, n : Message(e, kind, n) \in net' => Message(e, kind, n) \in net
  BY <1>1 DEF NetStep
<1>3. \A kind, n : Message(Peer(e), kind, n) \in net' =>
                     Message(Peer(e), kind, n) \in net \/ Allowed(s, t, kind, n)
  BY DEF NetStep
<1>4. \A n : Allowed(s, t, "data", n) => n \in 1 .. t.written
  BY KindsDiffer DEF Allowed
<1>5. \A n : Allowed(s, t, "dataAck", n) =>
        n \in s.rxChan /\ (Whole(t) /\ ~ t.closed => Has(t, n))
  BY KindsDiffer DEF Allowed
<1>6. \A kind \in {"closeRead", "closeWrite"} : \A n : Allowed(s, t, kind, n) => kind \in t.sent
  <2>1. {"closeRead", "closeWrite"} \subseteq Terminals
    BY DEF Terminals
  <2> QED
    BY <2>1, KindsDiffer DEF Allowed
<1>7. \A k \in Terminals : \A n : Allowed(s, t, AckOf(k), n) => k \in t.received \/ t.closed
  BY KindsDiffer DEF Allowed
<1> QED
  BY <1>2, <1>3, <1>4, <1>5, <1>6, <1>7

LEMMA CrossKeeps ==
  ASSUME CloseInv, NEW e \in Ends, NEW t, arq' = [arq EXCEPT ![e] = t],
         Progress(e, arq[e], t), NetStep(e, arq[e], t), UNCHANGED chunks,
         outcome' \in [Ends -> Outcomes], outcome'[Peer(e)] = outcome[Peer(e)],
         outcome'[e] = "handshake" => outcome[e] = "handshake" \/ arq[e].finishing = "handshake"
  PROVE  CloseInv'
<1> DEFINE s == arq[e]
           f == Peer(e)
           p == arq[f]
<1>1. f \in Ends /\ f # e /\ Peer(f) = e /\ \A x \in Ends : x = e \/ x = f
  BY Peers
<1>2. arq'[e] = t /\ arq'[f] = p /\ arq' \in [Ends -> ARQ]
  BY <1>1 DEF CloseInv, Progress, Good
<1>3. Good(s) /\ Good(p) /\ Good(t) /\ Tracks(t) /\ Tracks(p)
  BY <1>1 DEF CloseInv, Progress
<1>4. /\ s.written \in Nat /\ t.written \in Nat /\ p.written \in Nat
      /\ s.rcvd \in Nat /\ t.rcvd \in Nat /\ p.rcvd \in Nat
      /\ s.delivered \in Nat /\ t.delivered \in Nat /\ p.delivered \in Nat
  BY <1>3 DEF Good, ARQ
<1>5. /\ Grows(s, t) /\ SenderStep(e, s, t) /\ ReceiverStep(e, s, t) /\ TerminalStep(e, s, t)
      /\ Whole(t) => Whole(s)
  BY WholeBefore DEF Progress
<1>6. /\ NetSound(e) /\ KnowsOfPeer(e) /\ DataArrives(e) /\ EndsInAgreement(e)
      /\ NetSound(f) /\ KnowsOfPeer(f) /\ DataArrives(f) /\ EndsInAgreement(f)
  BY <1>1 DEF CloseInv
<1> HIDE DEF f
<1>7. NetSound(e)'
  <2>1. \A n : Message(e, "data", n) \in net' => n \in 1 .. p.written
    BY <1>6, NetStepKinds DEF Progress, NetSound, f
  <2>2. ASSUME NEW n, Message(f, "dataAck", n) \in net'
        PROVE  n \in Nat /\ (Whole(t) /\ ~ t.closed => Has(t, n))
    <3>1. CASE Message(f, "dataAck", n) \in net
      <4>1. n \in Nat /\ (Whole(s) /\ ~ s.closed => Has(s, n))
        BY <1>6, <3>1 DEF NetSound, f
      <4> QED
        BY <1>5, <4>1 DEF ReceiverStep, Grows
    <3>2. CASE n \in s.rxChan /\ (Whole(t) /\ ~ t.closed => Has(t, n))
      <4>1. n \in Nat
        BY <1>3, <3>2 DEF Good, ARQ
      <4> QED
        BY <3>2, <4>1
    <3> QED
      BY <2>2, <3>1, <3>2, NetStepKinds DEF f
  <2>3. \A kind \in {"closeRead", "closeWrite"} : Message(e, kind, 0) \in net' => kind \in p.sent
    BY <1>6, NetStepKinds DEF NetSound, f
  <2>4. \A kind \in Terminals :
          Message(e, AckOf(kind), 0) \in net' => kind \in p.received \/ p.closed
    BY <1>6, NetStepKinds DEF NetSound, f
  <2> QED
    BY <1>2, <2>1, <2>2, <2>3, <2>4 DEF NetSound, f
<1>8. NetSound(f)'
  <2>1. \A n : Message(f, "data", n) \in net' => n \in 1 .. t.written
    <3>1. \A n : Message(f, "data", n) \in net => n \in 1 .. s.written
      BY <1>1, <1>6 DEF NetSound
    <3>2. 1 .. s.written \subseteq 1 .. t.written
      BY <1>4, <1>5 DEF Grows
    <3> QED
      BY <3>1, <3>2, NetStepKinds DEF f
  <2>2. \A n : Message(e, "dataAck", n) \in net' =>
               n \in Nat /\ (Whole(p) /\ ~ p.closed => Has(p, n))
    BY <1>1, <1>6, NetStepKinds DEF NetSound
  <2>3. \A kind \in {"closeRead", "closeWrite"} : Message(f, kind, 0) \in net' => kind \in t.sent
    BY <1>1, <1>5, <1>6, NetStepKinds DEF NetSound, f, Grows
  <2>4. \A kind \in Terminals :
          Message(f, AckOf(kind), 0) \in net' => kind \in t.received \/ t.closed
    BY <1>1, <1>5, <1>6, NetStepKinds DEF NetSound, f, Grows
  <2> QED
    BY <1>1, <1>2, <2>1, <2>2, <2>3, <2>4 DEF NetSound
<1>9. KnowsOfPeer(e)'
  <2>1. s.received \ {"rst"} \subseteq p.sent /\ (s.acked \subseteq p.received \/ p.closed)
        /\ s.rxChan \union s.rcvBuf \subseteq 1 .. p.written /\ s.rcvd <= p.written
    BY <1>6 DEF KnowsOfPeer, f
  <2>2. t.received \ {"rst"} \subseteq p.sent
    <3>1. ASSUME NEW kind \in t.received, kind # "rst", kind \notin s.received PROVE kind \in p.sent
      <4>1. Message(e, kind, 0) \in net /\ kind \in {"closeRead", "closeWrite"}
        BY <1>3, <1>5, <3>1 DEF TerminalStep, Good, ARQ, Terminals
      <4> QED
        BY <1>6, <4>1 DEF NetSound, f
    <3> QED
      BY <2>1, <3>1
  <2>3. t.acked \subseteq p.received \/ p.closed
    <3>1. ASSUME NEW kind \in t.acked, kind \notin s.acked, ~ p.closed PROVE kind \in p.received
      <4>1. Message(e, AckOf(kind), 0) \in net /\ kind \in Terminals
        BY <1>3, <1>5, <3>1 DEF TerminalStep, Good, ARQ
      <4> QED
        BY <1>6, <3>1, <4>1 DEF NetSound, f
    <3> QED
      BY <2>1, <3>1
  <2>4. t.rxChan \union t.rcvBuf \subseteq 1 .. p.written
    BY <1>5, <1>6, <2>1 DEF ReceiverStep, NetSound, f
  <2>5. t.rcvd <= p.written
    <3>1. CASE t.rcvd = s.rcvd
      BY <2>1, <3>1
    <3>2. CASE t.rcvd \in s.rcvBuf
      <4>1. t.rcvd \in 1 .. p.written
        BY <2>1, <3>2
      <4> QED
        BY <1>4, <4>1
    <3> QED
      BY <1>5, <3>1, <3>2 DEF ReceiverStep
  <2> QED
    BY <1>2, <2>2, <2>3, <2>4, <2>5 DEF KnowsOfPeer, f
<1>10. KnowsOfPeer(f)'
  <2>1. p.received \ {"rst"} \subseteq s.sent /\ (p.acked \subseteq s.received \/ s.closed)
        /\ p.rxChan \union p.rcvBuf \subseteq 1 .. s.written /\ p.rcvd <= s.written
    BY <1>1, <1>6 DEF KnowsOfPeer
  <2>2. 1 .. s.written \subseteq 1 .. t.written /\ p.rcvd <= t.written
    BY <1>4, <1>5, <2>1 DEF Grows
  <2>3. p.received \ {"rst"} \subseteq t.sent /\ (p.acked \subseteq t.received \/ t.closed)
    BY <1>5, <2>1 DEF Grows
  <2> QED
    BY <1>1, <1>2, <2>1, <2>2, <2>3 DEF KnowsOfPeer
<1>11. DataArrives(e)'
  <2> SUFFICES ASSUME Whole(t), Whole(p), ~ t.closed
               PROVE  /\ ~ p.closed => \A n \in (1 .. p.written) \ p.sndBuf : Has(t, n)
                      /\ "closeRead" \in p.sent => \A n \in 1 .. p.written : Has(t, n)
    BY <1>2 DEF DataArrives, f
  <2>1. \A n \in Nat : Has(s, n) => Has(t, n)
    BY <1>5 DEF ReceiverStep
  <2>2. Whole(s) /\ ~ s.closed
    BY <1>5 DEF Grows
  <2>3. /\ ~ p.closed => \A n \in (1 .. p.written) \ p.sndBuf : Has(s, n)
        /\ "closeRead" \in p.sent => \A n \in 1 .. p.written : Has(s, n)
    BY <1>6, <2>2 DEF DataArrives, f
  <2>4. \A n \in 1 .. p.written : n \in Nat
    BY <1>4
  <2> QED
    BY <2>1, <2>3, <2>4
<1>12. DataArrives(f)'
  <2> SUFFICES ASSUME Whole(t), Whole(p), ~ p.closed
               PROVE  /\ ~ t.closed => \A n \in (1 .. t.written) \ t.sndBuf : Has(p, n)
                      /\ "closeRead" \in t.sent => \A n \in 1 .. t.written : Has(p, n)
    BY <1>1, <1>2 DEF DataArrives
  <2>1. Whole(s)
    BY <1>5
  <2>2. /\ ~ s.closed => \A n \in (1 .. s.written) \ s.sndBuf : Has(p, n)
        /\ "closeRead" \in s.sent => \A n \in 1 .. s.written : Has(p, n)
    BY <1>1, <1>6, <2>1 DEF DataArrives
  <2>3. ~ t.closed => \A n \in (1 .. t.written) \ t.sndBuf : Has(p, n)
    <3> SUFFICES ASSUME ~ t.closed, NEW n \in (1 .. t.written) \ t.sndBuf PROVE Has(p, n)
      OBVIOUS
    <3>1. CASE n \in (1 .. s.written) \ s.sndBuf
      BY <1>5, <2>2, <3>1 DEF Grows
    <3>2. CASE Message(e, "dataAck", n) \in net
      BY <1>1, <1>6, <3>2 DEF NetSound
    <3>3. "closeWrite" \notin t.received
      <4>1. "closeWrite" \notin p.sent
        BY <1>3 DEF Good, Data, Whole
      <4> QED
        BY <1>2, <1>9, <4>1 DEF KnowsOfPeer, f
    <3> QED
      BY <1>5, <3>1, <3>2, <3>3 DEF SenderStep
  <2>4. "closeRead" \in t.sent => \A n \in 1 .. t.written : Has(p, n)
    <3>1. CASE "closeRead" \in s.sent
      BY <1>5, <2>2, <3>1 DEF SenderStep
    <3>2. CASE "closeRead" \in t.sent \ s.sent
      <4>1. ~ t.closed /\ t.sndBuf = {}
        BY <1>3, <1>5, <3>2 DEF SenderStep, Good, Data
      <4> QED
        BY <2>3, <4>1
    <3> QED
      BY <3>1, <3>2
  <2> QED
    BY <2>3, <2>4
<1>13. EndsInAgreement(e)'
  <2> SUFFICES ASSUME Decided(e)', Whole(t), Whole(p)
               PROVE  /\ "closeRead" \in p.sent /\ t.delivered = p.written
                      /\ "closeRead" \in p.received \/ p.closed
    BY <1>2 DEF EndsInAgreement, f
  <2>1. Decided(e) \/ HandshakeComplete(t)
    BY <1>2, <1>5 DEF Decided, TerminalStep
  <2>2. t.delivered <= t.rcvd /\ t.rcvd <= p.written
    BY <1>2, <1>3, <1>9 DEF Good, Data, KnowsOfPeer, f
  <2>3. CASE Decided(e)
    <3>1. /\ "closeRead" \in p.sent /\ s.delivered = p.written
          /\ "closeRead" \in p.received \/ p.closed
      BY <1>5, <1>6, <2>3 DEF EndsInAgreement, f
    <3>2. s.delivered <= t.delivered
      BY <1>5 DEF Grows
    <3> QED
      BY <1>4, <2>2, <3>1, <3>2
  <2>4. CASE HandshakeComplete(t)
    <3>1. /\ ~ t.closed /\ "closeRead" \in t.received /\ t.rcvBuf = {} /\ t.writer # "writing"
          /\ "closeRead" \in t.acked \/ ("closeRead" \in t.sent /\ t.waiting # "closeRead")
      BY <2>4 DEF HandshakeComplete, Whole, InboundEmpty, LocalWritePending
    <3>2. "closeRead" \in p.sent
      BY <1>2, <1>9, <3>1 DEF KnowsOfPeer, f
    <3>3. \A n \in 1 .. p.written : n <= t.rcvd
      BY <1>2, <1>11, <3>1, <3>2 DEF DataArrives, Has, f
    <3>4. p.written <= t.rcvd
      <4>1. CASE p.written = 0
        BY <1>4, <4>1
      <4>2. CASE p.written # 0
        <5>1. p.written \in 1 .. p.written
          BY <1>4, <4>2
        <5> QED
          BY <3>3, <5>1
      <4> QED
        BY <4>1, <4>2
    <3>5. t.delivered = t.rcvd
      BY <1>3, <3>1 DEF Good, Data, Whole
    <3>6. "closeRead" \in t.acked
      BY <1>3, <3>1 DEF Good, Marks
    <3>7. "closeRead" \in p.received \/ p.closed
      BY <1>2, <1>9, <3>6 DEF KnowsOfPeer, f
    <3>8. t.delivered = p.written
      BY <1>4, <2>2, <3>4, <3>5
    <3> QED
      BY <3>2, <3>7, <3>8
  <2> QED
    BY <2>1, <2>3, <2>4
<1>14. EndsInAgreement(f)'
  <2> SUFFICES ASSUME Decided(f)', Whole(p), Whole(t)
               PROVE  /\ "closeRead" \in t.sent /\ p.delivered = t.written
                      /\ "closeRead" \in t.received \/ t.closed
    BY <1>1, <1>2 DEF EndsInAgreement
  <2>1. Decided(f) /\ Whole(s)
    BY <1>2, <1>5 DEF Decided, f
  <2>2. /\ "closeRead" \in s.sent /\ p.delivered = s.written
        /\ "closeRead" \in s.received \/ s.closed
    BY <1>1, <1>6, <2>1 DEF EndsInAgreement
  <2> QED
    BY <1>5, <2>2 DEF SenderStep, Grows
<1>15. \A x \in Ends : NetSound(x)' /\ KnowsOfPeer(x)' /\ DataArrives(x)' /\ EndsInAgreement(x)'
  BY <1>1, <1>7, <1>8, <1>9, <1>10, <1>11, <1>12, <1>13, <1>14
<1>16. \A x \in Ends : Good(arq'[x]) /\ Tracks(arq'[x])
  BY <1>1, <1>2, <1>3
<1> QED
  BY <1>2, <1>15, <1>16 DEF CloseInv

------------------------------------------------------------------------------
(* Steps that fit this description. *)

LEMMA MessageParts ==
  \A a, b, c, x, y, z : Message(a, b, c) = Message(x, y, z) <=> a = x /\ b = y /\ c = z
BY DEF Message

LEMMA StepKeeps ==
  ASSUME CloseInv, NEW e \in Ends, NEW t, NEW more, Step(e, t, more), Progress(e, arq[e], t),
         \A to, kind, n : Message(to, kind, n) \in more =>
                            to = Peer(e) /\ Allowed(arq[e], t, kind, n)
  PROVE  CloseInv'
<1>1. /\ arq' = [arq EXCEPT ![e] = t] /\ UNCHANGED <<chunks, outcome>>
      /\ net' = net \union more \union
                {Message(Peer(e), kind, 0) : kind \in t.control \ arq[e].control}
  BY DEF Step
<1>2. t.control \subseteq t.sent /\ t.sent \subseteq Terminals
  BY DEF Progress, Good, Marks, ARQ
<1>3. ASSUME NEW to, NEW kind, NEW n, Message(to, kind, n) \in net', Message(to, kind, n) \notin net
      PROVE  to = Peer(e) /\ Allowed(arq[e], t, kind, n)
  <2>1. CASE Message(to, kind, n) \in more
    BY <2>1
  <2>2. CASE \E k \in t.control \ arq[e].control : Message(to, kind, n) = Message(Peer(e), k, 0)
    <3>1. to = Peer(e) /\ kind \in t.control
      BY <2>2, MessageParts
    <3> QED
      BY <1>2, <3>1 DEF Allowed
  <2> QED
    BY <1>1, <1>3, <2>1, <2>2
<1>4. NetStep(e, arq[e], t)
  BY <1>3 DEF NetStep
<1> QED
  BY <1>1, <1>4, CrossKeeps DEF CloseInv

LEMMA ClosesKeeps ==
  ASSUME CloseInv, NEW e \in Ends, NEW u \in ARQ, NEW why \in Outcomes, NEW more, Closes(e, u, why, more),
         u.written = arq[e].written, u.delivered = arq[e].delivered, u.rcvd = arq[e].rcvd,
         u.sent = arq[e].sent, u.acked \subseteq u.sent,
         u.localWriterBroken = arq[e].localWriterBroken,
         arq[e].received \subseteq u.received,
         \A kind \in u.received \ arq[e].received : Message(e, kind, 0) \in net,
         \A kind \in u.acked \ arq[e].acked : Message(e, AckOf(kind), 0) \in net,
         why = "handshake" => arq[e].finishing = "handshake",
         \A to, kind, n : Message(to, kind, n) \in more =>
                            to = Peer(e) /\ \E k \in Terminals : kind = AckOf(k)
  PROVE  CloseInv'
<1> DEFINE s == arq[e]
           t == finalizeClose(u)
<1>1. Good(s)
  BY DEF CloseInv
<1>2. /\ Good(t) /\ Tracks(t) /\ t.closed /\ t.finishing = "none"
      /\ t.written = u.written /\ t.rcvd = u.rcvd
      /\ t.delivered = u.delivered /\ t.sent = u.sent /\ t.received = u.received
      /\ t.acked = u.acked /\ t.localWriterBroken = u.localWriterBroken
      /\ t.control = {} /\ t.rxChan = {} /\ t.rcvBuf = {}
  <2>1. /\ "closeWrite" \in u.sent => u.localWriterBroken
        /\ u.delivered <= u.rcvd
    BY <1>1 DEF Good, Data
  <2> QED
    BY <2>1, FinalizeKeeps
<1>3. /\ arq' = [arq EXCEPT ![e] = t] /\ UNCHANGED chunks /\ net' = net \union more
      /\ outcome' = [outcome EXCEPT ![e] = IF arq[e].closed THEN @ ELSE why]
  BY DEF Closes
<1> HIDE DEF t
<1>4. s.written \in Nat /\ s.delivered \in Nat
  BY <1>1 DEF Good, ARQ
<1>5. Grows(s, t)
  BY <1>2, <1>4 DEF Grows
<1>6. SenderStep(e, s, t) /\ ReceiverStep(e, s, t) /\ TerminalStep(e, s, t)
  BY <1>2 DEF SenderStep, ReceiverStep, TerminalStep
<1>7. NetStep(e, s, t)
  BY <1>2, <1>3 DEF NetStep, Allowed
<1>8. Progress(e, s, t)
  BY <1>2, <1>5, <1>6 DEF Progress
<1>9. outcome' \in [Ends -> Outcomes] /\ outcome'[Peer(e)] = outcome[Peer(e)]
      /\ (outcome'[e] = "handshake" => outcome[e] = "handshake" \/ s.finishing = "handshake")
  BY <1>3, Peers DEF CloseInv
<1> QED
  BY <1>3, <1>7, <1>8, <1>9, CrossKeeps

LEMMA ThenClosing ==
  ASSUME NEW e, NEW s, NEW u, NEW t, Grows(s, u), SenderStep(e, s, u), ReceiverStep(e, s, u),
         TerminalStep(e, s, u), Closing(u, t), Good(t), Tracks(t), ~ u.closed
  PROVE  Progress(e, s, t)
<1>1. Whole(t) => Whole(u)
  BY DEF Closing, Whole, Resetting
<1>2. Grows(s, t)
  BY DEF Grows, Closing
<1>3. SenderStep(e, s, t)
  BY <1>1 DEF SenderStep, Closing
<1>4. ReceiverStep(e, s, t)
  BY <1>1 DEF ReceiverStep, Closing, Has
<1>5. TerminalStep(e, s, t)
  BY <1>1 DEF TerminalStep, Closing
<1> QED
  BY <1>2, <1>3, <1>4, <1>5 DEF Progress

LEMMA SelfSteps ==
  ASSUME NEW e, NEW s, Good(s)
  PROVE  Grows(s, s) /\ SenderStep(e, s, s) /\ ReceiverStep(e, s, s) /\ TerminalStep(e, s, s)
<1>1. s.written \in Nat /\ s.delivered \in Nat
  BY DEF Good, ARQ
<1> QED
  BY <1>1 DEF Grows, SenderStep, ReceiverStep, TerminalStep

LEMMA GoodNow ==
  ASSUME CloseInv, NEW e \in Ends
  PROVE  Good(arq[e]) /\ Tracks(arq[e]) /\ arq[e] \in ARQ
BY DEF CloseInv

(* Nothing but closing. *)
LEMMA LocalClosing ==
  ASSUME CloseInv, NEW e \in Ends, NEW t, Local(e, t), Closing(arq[e], t), Good(t), Tracks(t),
         ~ arq[e].closed
  PROVE  CloseInv'
<1>1. Progress(e, arq[e], t)
  BY GoodNow, SelfSteps, ThenClosing
<1> QED
  BY <1>1, StepKeeps DEF Local

(* An answer, while the ARQ stays as it is. *)
LEMMA OnlyAnswers ==
  ASSUME CloseInv, NEW e \in Ends, NEW more, Step(e, arq[e], more),
         \A to, kind, n : Message(to, kind, n) \in more =>
                            to = Peer(e) /\ Allowed(arq[e], arq[e], kind, n)
  PROVE  CloseInv'
<1>1. Progress(e, arq[e], arq[e])
  BY GoodNow, SelfSteps DEF Progress
<1> QED
  BY <1>1, StepKeeps

(* Something else, then closing. *)
LEMMA LocalThenClosing ==
  ASSUME CloseInv, NEW e \in Ends, NEW u, NEW t, Local(e, t), Grows(arq[e], u),
         SenderStep(e, arq[e], u), ReceiverStep(e, arq[e], u), TerminalStep(e, arq[e], u),
         Closing(u, t), Good(t), Tracks(t), ~ u.closed
  PROVE  CloseInv'
<1>1. Progress(e, arq[e], t)
  BY ThenClosing
<1> QED
  BY <1>1, StepKeeps DEF Local

(* The fields that the marks are about. *)
SameMarks(s, u) ==
  /\ u.sent = s.sent /\ u.acked = s.acked /\ u.received = s.received /\ u.waiting = s.waiting
  /\ u.control = s.control /\ u.deferred = s.deferred
  /\ u.localWriterBroken = s.localWriterBroken
  /\ u.isClient = s.isClient /\ u.closed = s.closed /\ u.finishing = s.finishing

LEMMA MarksStay ==
  ASSUME NEW e, NEW s, NEW u, SameMarks(s, u), Good(s), Tracks(s)
  PROVE  Marks(u) /\ Tracks(u) /\ TerminalStep(e, s, u)
BY DEF SameMarks, Good, Marks, Tracks, AlreadyResetting, TerminalStep, Whole, Resetting

SameReceiver(s, u) ==
  u.rxChan = s.rxChan /\ u.rcvBuf = s.rcvBuf /\ u.rcvd = s.rcvd /\ u.delivered = s.delivered
  /\ u.writer = s.writer

SameSender(s, u) ==
  u.reader = s.reader /\ u.written = s.written /\ u.sndBuf = s.sndBuf

LEMMA SenderStays ==
  ASSUME NEW e, NEW s, NEW u, u.sent = s.sent, u.written = s.written, u.sndBuf = s.sndBuf
  PROVE  SenderStep(e, s, u)
BY DEF SenderStep

LEMMA ReceiverStays ==
  ASSUME NEW e, NEW s, NEW u, SameReceiver(s, u)
  PROVE  ReceiverStep(e, s, u)
BY DEF ReceiverStep, SameReceiver, Has

LEMMA GrowsIf ==
  ASSUME NEW s \in ARQ, NEW u, s.sent \subseteq u.sent, s.received \subseteq u.received,
         s.localWriterBroken => u.localWriterBroken, s.closed => u.closed,
         u.written = s.written, u.delivered = s.delivered
  PROVE  Grows(s, u)
<1>1. s.written \in Nat /\ s.delivered \in Nat
  BY DEF ARQ
<1> QED
  BY <1>1 DEF Grows

------------------------------------------------------------------------------
(* The reader. *)

LEMMA ReaderStops ==
  ASSUME NEW e, NEW s, Good(s), Tracks(s), ~ s.closed, NEW r \in {"reading", "ended"},
         r = "reading" => s.reader = "reading", NEW u, u = [s EXCEPT !.reader = r]
  PROVE  /\ Good(u) /\ Tracks(u) /\ SameMarks(s, u) /\ u.reader = r
         /\ Grows(s, u) /\ SenderStep(e, s, u) /\ ReceiverStep(e, s, u) /\ TerminalStep(e, s, u)
<1>1. s \in ARQ
  BY DEF Good
<1>2. u \in ARQ /\ SameMarks(s, u) /\ SameReceiver(s, u) /\ u.reader = r
      /\ u.written = s.written /\ u.sndBuf = s.sndBuf
  BY <1>1 DEF ARQ, SameMarks, SameReceiver
<1>3. Ended(u) /\ Data(u)
  BY <1>2 DEF Good, Data, Ended, ReadAll, Whole, Resetting, SameMarks, SameReceiver
<1> QED
  BY <1>1, <1>2, <1>3, MarksStay, SenderStays, ReceiverStays, GrowsIf
     DEF Good, SameMarks, SameReceiver

LEMMA ReaderGets ==
  ASSUME NEW e, NEW s, Good(s), Tracks(s), ~ s.closed, s.reader = "reading",
         NEW r \in {"reading", "ended"}, NEW u, u = [ReadData(s) EXCEPT !.reader = r]
  PROVE  /\ Good(u) /\ Tracks(u) /\ SameMarks(s, u) /\ u.reader = r /\ u.written = s.written + 1
         /\ Grows(s, u) /\ SenderStep(e, s, u) /\ ReceiverStep(e, s, u) /\ TerminalStep(e, s, u)
<1> DEFINE more == s.sndBuf \union {s.written + 1}
           next == s.written + 1
<1>1. s \in ARQ /\ s.written \in Nat /\ s.delivered \in Nat
  BY DEF Good, ARQ
<1>2. next \in Nat /\ more \in SUBSET Nat /\ next = s.written + 1 /\ more = s.sndBuf \union {next}
  BY <1>1 DEF ARQ
<1>3. u = [s EXCEPT !.written = next, !.sndBuf = more, !.reader = r]
  BY DEF ReadData
<1> HIDE DEF more, next
<1>4. u \in ARQ /\ SameMarks(s, u) /\ SameReceiver(s, u) /\ u.reader = r
      /\ u.written = next /\ u.sndBuf = more
  <2>1. u \in ARQ
    <3> DEFINE v == [s EXCEPT !.written = next, !.reader = r]
    <3>1. u = [v EXCEPT !.sndBuf = more]
      BY <1>3
    <3>2. v \in ARQ
      BY <1>1, <1>2 DEF ARQ
    <3> HIDE DEF v
    <3> QED
      BY <1>2, <3>1, <3>2 DEF ARQ
  <2>2. SameMarks(s, u) /\ u.written = next /\ u.sndBuf = more
    BY <1>1, <1>3 DEF ARQ, SameMarks
  <2>3. SameReceiver(s, u) /\ u.reader = r
    BY <1>1, <1>3 DEF ARQ, SameReceiver
  <2> QED
    BY <2>1, <2>2, <2>3
<1>5. "closeRead" \in s.sent => ~ Whole(s)
  BY DEF Good, Data, ReadAll, Whole
<1>6. Ended(u) /\ Data(u)
  <2>1. ReadAll(s) => ReadAll(u)
    BY <1>4 DEF ReadAll, SameMarks
  <2>2. Whole(u) => Whole(s)
    BY <1>4 DEF Whole, Resetting, SameMarks
  <2> QED
    BY <1>4, <1>5, <2>1, <2>2 DEF Good, Data, Ended, SameMarks, SameReceiver
<1>7. SenderStep(e, s, u)
  <2>1. Whole(u) => Whole(s)
    BY <1>4 DEF Whole, Resetting, SameMarks
  <2>2. \A n \in (1 .. next) \ more : n \in (1 .. s.written) \ s.sndBuf
    BY <1>1, <1>2
  <2> QED
    BY <1>4, <1>5, <2>1, <2>2 DEF SenderStep, SameMarks
<1>8. Grows(s, u) /\ ReceiverStep(e, s, u)
  <2>1. s.written <= u.written
    BY <1>1, <1>2, <1>4
  <2> QED
    BY <1>1, <1>4, <2>1 DEF Grows, ReceiverStep, SameMarks, SameReceiver, Has
<1> QED
  BY <1>2, <1>4, <1>6, <1>7, <1>8, MarksStay DEF Good

LEMMA ReaderKeeps ==
  ASSUME CloseInv, NEW e \in Ends, Reader(e)
  PROVE  CloseInv'
<1> DEFINE s == arq[e]
<1>1. Good(s) /\ Tracks(s)
  BY GoodNow
<1>2. Reading(e) /\ ~ s.closed /\ s.reader = "reading"
  BY DEF Reader, ReaderReads, ReaderTimesOut, ReaderEOF, ReaderFails, ReaderReadsLast, Reading
<1> HIDE DEF s
<1> DEFINE end == [s EXCEPT !.reader = "ended"]
<1>3. /\ Good(end) /\ Tracks(end) /\ SameMarks(s, end) /\ end.reader = "ended" /\ ~ end.closed
      /\ Grows(s, end) /\ SenderStep(e, s, end) /\ ReceiverStep(e, s, end)
      /\ TerminalStep(e, s, end)
  BY <1>1, <1>2, ReaderStops DEF SameMarks
<1>4. EndReading(s) = end
  BY DEF EndReading
<1> HIDE DEF end
<1>5. \A to, kind, n : Message(to, kind, n) \in NewData(e) =>
         to = Peer(e) /\ kind = "data" /\ n = s.written + 1
  BY MessageParts DEF NewData, s
<1>6. s.written \in Nat
  BY <1>1 DEF Good, ARQ
<1>7. CASE ReaderReads(e)
  <2> DEFINE r == IF ReadData(s).stopLocalRead THEN "ended" ELSE "reading"
             u == [ReadData(s) EXCEPT !.reader = r]
  <2>1. Step(e, u, NewData(e))
    BY <1>7 DEF ReaderReads, LookAtFlags, s
  <2>2. r \in {"reading", "ended"}
    OBVIOUS
  <2> HIDE DEF r
  <2>3. Progress(e, s, u) /\ u.written = s.written + 1
    BY <1>1, <1>2, <2>2, ReaderGets DEF Progress
  <2> HIDE DEF u
  <2>4. s.written + 1 \in 1 .. u.written
    BY <1>6, <2>3
  <2> QED
    BY <1>5, <2>1, <2>3, <2>4, StepKeeps DEF Allowed, s
<1>8. CASE ReaderTimesOut(e)
  <2> DEFINE r == IF s.stopLocalRead THEN "ended" ELSE "reading"
             u == [s EXCEPT !.reader = r]
  <2>1. Local(e, u) /\ r \in {"reading", "ended"}
    BY <1>8 DEF ReaderTimesOut, LookAtFlags, s
  <2> HIDE DEF r
  <2>2. Progress(e, s, u)
    BY <1>1, <1>2, <2>1, ReaderStops DEF Progress
  <2> HIDE DEF u
  <2> QED
    BY <2>1, <2>2, StepKeeps DEF Local, s
<1>9. CASE ReaderEOF(e)
  <2> DEFINE t == closeAfterDrain(end, "closeRead")
  <2>1. Local(e, t)
    BY <1>4, <1>9 DEF ReaderEOF, s
  <2>2. s.deferred # "rst"
    BY <1>1, <1>2 DEF Good, Data
  <2>3. Good(t) /\ Closing(end, t) /\ Tracks(t)
    BY <1>3, <2>2, AfterDrainKeeps DEF ReadAll, SameMarks
  <2> HIDE DEF t
  <2> QED
    BY <1>3, <2>1, <2>3, LocalThenClosing DEF s
<1>10. CASE ReaderFails(e)
  <2>1. Local(e, end) \/ Local(e, closeNow(end, "rst"))
    BY <1>4, <1>10 DEF ReaderFails, s
  <2>2. CASE Local(e, end)
    BY <1>3, <2>2, ClosingSelf, LocalThenClosing DEF s
  <2>3. CASE Local(e, closeNow(end, "rst"))
    <3> DEFINE t == closeNow(end, "rst")
    <3>1. Good(t) /\ Closing(end, t) /\ Tracks(t) /\ Local(e, t)
      BY <1>3, <2>3, ResetKeeps
    <3> HIDE DEF t
    <3> QED
      BY <1>3, <3>1, LocalThenClosing DEF s
  <2> QED
    BY <2>1, <2>2, <2>3
<1>11. CASE \E kind \in {"closeRead", "rst"} : ReaderReadsLast(e, kind)
  <2>1. PICK kind \in {"closeRead", "rst"} : ReaderReadsLast(e, kind)
    BY <1>11
  <2> DEFINE u == [ReadData(s) EXCEPT !.reader = "ended"]
             t == closeAfterDrain(u, kind)
  <2>2. Step(e, t, NewData(e))
    BY <2>1 DEF ReaderReadsLast, EndReading, s
  <2>3. /\ Good(u) /\ Tracks(u) /\ SameMarks(s, u) /\ u.reader = "ended" /\ u.written = s.written + 1
        /\ Grows(s, u) /\ SenderStep(e, s, u) /\ ReceiverStep(e, s, u) /\ TerminalStep(e, s, u)
    BY <1>1, <1>2, ReaderGets
  <2> HIDE DEF u
  <2>4. s.deferred # "rst" /\ ("closeRead" \in s.sent => "closeWrite" \in s.sent)
    BY <1>1, <1>2 DEF Good, Data, ReadAll
  <2>5. Good(t) /\ Closing(u, t) /\ Tracks(t)
    BY <2>3, <2>4, AfterDrainKeeps DEF ReadAll, SameMarks
  <2> HIDE DEF t
  <2>6. Progress(e, s, t)
    BY <1>2, <2>3, <2>5, ThenClosing DEF SameMarks
  <2>7. s.written + 1 \in 1 .. t.written
    BY <1>6, <2>3, <2>5 DEF Closing
  <2> QED
    BY <1>5, <2>2, <2>6, <2>7, StepKeeps DEF Allowed, s
<1> QED
  BY <1>7, <1>8, <1>9, <1>10, <1>11 DEF Reader

------------------------------------------------------------------------------
(* rxLoop and writeLoop. *)

(* Among finitely many numbers there is a greatest. *)
LEMMA GreatestExists ==
  ASSUME NEW N \in Nat, NEW S, S \subseteq 0 .. N, S # {}
  PROVE  \E x \in S : \A y \in S : y <= x
<1> DEFINE T == {j \in 0 .. N : N - j \in S}
<1>1. T \subseteq Nat /\ T # {}
  <2>1. PICK x \in S : TRUE
    OBVIOUS
  <2>2. N - x \in 0 .. N /\ N - (N - x) = x
    BY <2>1
  <2>3. N - x \in T
    BY <2>1, <2>2
  <2>4. \A j \in T : j \in Nat
    OBVIOUS
  <2> HIDE DEF T
  <2> QED
    BY <2>3, <2>4
<1>2. PICK m \in T : \A j \in T : ~ (<<j, m>> \in OpToRel(<, Nat))
  <2> HIDE DEF T
  <2>1. IsWellFoundedOn(OpToRel(<, Nat), Nat)
    BY NatLessThanWellFounded
  <2> QED
    BY <1>1, <2>1, WFMin
<1>3. m \in 0 .. N /\ N - m \in S
  OBVIOUS
<1>4. ASSUME NEW y \in S PROVE y <= N - m
  <2> SUFFICES ASSUME ~ (y <= N - m) PROVE FALSE
    OBVIOUS
  <2>1. N - y \in 0 .. N /\ N - (N - y) = y /\ N - y < m
    BY <1>3
  <2>2. N - y \in T
    BY <2>1
  <2>3. <<N - y, m>> \in OpToRel(<, Nat)
    BY <1>3, <2>1 DEF OpToRel
  <2> QED
    BY <1>2, <2>2, <2>3
<1> QED
  BY <1>3, <1>4

LEMMA ContiguousIs ==
  ASSUME NEW s \in ARQ, IsFiniteSet(s.rcvBuf)
  PROVE  Contiguous(s) \in Nat /\ (s.rcvd + 1) .. (s.rcvd + Contiguous(s)) \subseteq s.rcvBuf
<1> DEFINE N == Cardinality(s.rcvBuf)
           Run(k) == (s.rcvd + 1) .. (s.rcvd + k) \subseteq s.rcvBuf
           S == {k \in 0 .. N : Run(k)}
<1>1. N \in Nat /\ s.rcvd \in Nat
  BY FS_CardinalityType DEF ARQ
<1>2. Contiguous(s) = CHOOSE k \in 0 .. N : Run(k) /\ \A j \in 0 .. N : Run(j) => j <= k
  BY DEF Contiguous
<1> HIDE DEF N
<1>3. Run(0)
  BY <1>1
<1> HIDE DEF Run
<1>4. \E k \in S : \A j \in S : j <= k
  <2>1. 0 \in S
    BY <1>1, <1>3
  <2>2. S \subseteq 0 .. N /\ S # {}
    BY <2>1
  <2> HIDE DEF S
  <2> QED
    BY <1>1, <2>2, GreatestExists
<1>5. Contiguous(s) \in 0 .. N /\ Run(Contiguous(s))
  BY <1>2, <1>4
<1> QED
  BY <1>1, <1>5 DEF Run

(* What was received is finite, because the peer has written it.            *)
LEMMA RcvBufFinite ==
  ASSUME CloseInv, NEW e \in Ends
  PROVE  IsFiniteSet(arq[e].rcvBuf) /\ arq[e].rxChan \union arq[e].rcvBuf \subseteq Nat
<1>1. Peer(e) \in Ends
  BY Peers
<1>2. arq[Peer(e)].written \in Nat /\ arq[e].rcvBuf \subseteq 1 .. arq[Peer(e)].written
      /\ arq[e].rxChan \union arq[e].rcvBuf \subseteq 1 .. arq[Peer(e)].written
  BY <1>1 DEF CloseInv, KnowsOfPeer, ARQ
<1>3. IsFiniteSet(1 .. arq[Peer(e)].written)
  BY <1>2, FS_Interval
<1>4. 1 .. arq[Peer(e)].written \subseteq Nat
  BY <1>2
<1> QED
  BY <1>2, <1>3, <1>4, FS_Subset

LEMMA ProcessKeeps ==
  ASSUME CloseInv, NEW e \in Ends, NEW n, Process(e, n)
  PROVE  CloseInv'
<1> DEFINE s == arq[e]
           rest == s.rxChan \ {n}
           u == [s EXCEPT !.rxChan = rest]
<1>1. Good(s) /\ Tracks(s) /\ s \in ARQ
  BY GoodNow
<1>2. n \in s.rxChan /\ n \in Nat /\ ~ s.closed
  BY <1>1, RcvBufFinite DEF Process, Good, Ended
<1>3. rest \in SUBSET Nat /\ rest \subseteq s.rxChan
  BY <1>1 DEF ARQ
<1>4. /\ n \in s.rxChan
      /\ IF u.localWriterBroken \/ "closeWrite" \in u.sent \union u.acked
         THEN Local(e, rejectInbound(u))
         ELSE Step(e, [u EXCEPT !.rcvBuf = IF n > u.rcvd THEN @ \union {n} ELSE @],
                   {Message(Peer(e), "dataAck", n)})
  BY DEF Process
<1> HIDE DEF s, rest
<1>5. u \in ARQ /\ SameMarks(s, u) /\ SameSender(s, u)
      /\ u.rxChan = rest /\ u.rcvBuf = s.rcvBuf /\ u.rcvd = s.rcvd /\ u.delivered = s.delivered
      /\ u.writer = s.writer
  BY <1>1, <1>3 DEF ARQ, SameMarks, SameSender
<1> HIDE DEF u
<1>6. Ended(u) /\ Data(u)
  BY <1>1, <1>2, <1>5 DEF Good, Ended, Data, ReadAll, Whole, Resetting, SameMarks, SameSender
<1>7. Good(u) /\ Tracks(u) /\ TerminalStep(e, s, u)
  BY <1>1, <1>5, <1>6, MarksStay DEF Good
<1>8. Grows(s, u) /\ SenderStep(e, s, u) /\ ReceiverStep(e, s, u) /\ ~ u.closed
  <2>1. ReceiverStep(e, s, u)
    BY <1>3, <1>5 DEF ReceiverStep, Has
  <2> QED
    BY <1>1, <1>2, <1>5, <2>1, GrowsIf, SenderStays DEF SameMarks, SameSender
<1>9. CASE u.localWriterBroken \/ "closeWrite" \in u.sent \union u.acked
  <2> DEFINE t == rejectInbound(u)
  <2>1. Local(e, t) /\ Good(t) /\ Closing(u, t) /\ Tracks(t)
    BY <1>4, <1>7, <1>9, RejectKeeps
  <2> HIDE DEF t
  <2> QED
    BY <1>7, <1>8, <2>1, LocalThenClosing DEF s
<1>10. CASE ~ (u.localWriterBroken \/ "closeWrite" \in u.sent \union u.acked)
  <2> DEFINE buf == IF n > u.rcvd THEN u.rcvBuf \union {n} ELSE u.rcvBuf
             t == [u EXCEPT !.rcvBuf = buf]
  <2>1. Step(e, t, {Message(Peer(e), "dataAck", n)})
    BY <1>4, <1>10
  <2>2. buf \in SUBSET Nat /\ u.rcvBuf \subseteq buf /\ (n > u.rcvd => n \in buf)
        /\ buf \subseteq u.rcvBuf \union {n}
    BY <1>2, <1>5 DEF ARQ
  <2> HIDE DEF buf
  <2>3. t \in ARQ /\ SameMarks(u, t) /\ SameSender(u, t)
        /\ t.rxChan = u.rxChan /\ t.rcvBuf = buf /\ t.rcvd = u.rcvd /\ t.delivered = u.delivered
        /\ t.writer = u.writer
    BY <1>5, <2>2 DEF ARQ, SameMarks, SameSender
  <2> HIDE DEF t
  <2>4. ~ t.closed /\ ~ t.localWriterBroken /\ ~ u.localWriterBroken
    BY <1>8, <1>10, <2>3 DEF SameMarks
  <2>5. Ended(t) /\ Data(t)
    BY <1>7, <2>3, <2>4 DEF Good, Ended, Data, ReadAll, Whole, Resetting, SameMarks, SameSender
  <2>6. Good(t) /\ Tracks(t)
    BY <1>7, <2>3, <2>5, MarksStay DEF Good
  <2>7. Grows(s, t) /\ SenderStep(e, s, t)
    BY <1>1, <1>5, <2>3, GrowsIf, SenderStays DEF SameMarks, SameSender
  <2>8. ReceiverStep(e, s, t)
    BY <1>2, <1>3, <1>5, <2>2, <2>3 DEF ReceiverStep, Has
  <2>9. TerminalStep(e, s, t)
    <3>1. SameMarks(s, t)
      BY <1>5, <2>3 DEF SameMarks
    <3> QED
      BY <1>1, <3>1, MarksStay
  <2>10. Progress(e, s, t)
    BY <2>6, <2>7, <2>8, <2>9 DEF Progress
  <2>11. Has(t, n)
    <3>1. u.rcvd \in Nat
      BY <1>5 DEF ARQ
    <3> QED
      BY <1>2, <2>2, <2>3, <3>1 DEF Has
  <2>12. \A to, kind, m : Message(to, kind, m) \in {Message(Peer(e), "dataAck", n)} =>
            to = Peer(e) /\ Allowed(s, t, kind, m)
    BY <1>4, <2>11, MessageParts DEF Allowed
  <2> QED
    BY <2>1, <2>10, <2>12, StepKeeps DEF s
<1> QED
  BY <1>9, <1>10

LEMMA TakesKeeps ==
  ASSUME CloseInv, NEW e \in Ends, WriterTakes(e)
  PROVE  CloseInv'
<1> DEFINE s == arq[e]
           k == Contiguous(s)
           taken == (s.rcvd + 1) .. (s.rcvd + k)
           next == s.rcvd + k
           rest == s.rcvBuf \ taken
           state == IF k > 0 THEN "writing" ELSE "empty"
           t == [s EXCEPT !.rcvd = next, !.rcvBuf = rest, !.writer = state]
<1>1. Good(s) /\ Tracks(s) /\ s \in ARQ
  BY GoodNow
<1>2. Local(e, t) /\ s.writer = "idle" /\ ~ s.closed
  BY DEF WriterTakes
<1>3. k \in Nat /\ taken \subseteq s.rcvBuf
  BY <1>1, RcvBufFinite, ContiguousIs
<1> HIDE DEF s, k
<1>4. s.rcvd \in Nat /\ s.delivered \in Nat /\ s.rcvBuf \subseteq Nat
  BY <1>1 DEF ARQ
<1>5. /\ next \in Nat /\ s.rcvd <= next /\ (k = 0 => next = s.rcvd)
      /\ (k # 0 => next \in taken /\ k > 0 /\ state = "writing")
      /\ (k = 0 => state = "empty")
      /\ \A n \in taken : n <= next
  BY <1>3, <1>4
<1>6. rest \in SUBSET Nat /\ rest \subseteq s.rcvBuf /\ s.rcvBuf \subseteq rest \union taken
  BY <1>4
<1>7. state \in {"idle", "empty", "writing", "ended"}
  OBVIOUS
<1> HIDE DEF taken, next, rest, state
<1>8. t \in ARQ /\ SameMarks(s, t) /\ SameSender(s, t) /\ t.rxChan = s.rxChan
      /\ t.rcvBuf = rest /\ t.rcvd = next /\ t.delivered = s.delivered /\ t.writer = state
  BY <1>1, <1>5, <1>6, <1>7 DEF ARQ, SameMarks, SameSender
<1> HIDE DEF t
<1>9. s.localWriterBroken => k = 0 /\ rest = {}
  <2>1. s.localWriterBroken => s.rcvBuf = {}
    BY <1>1 DEF Good, Data
  <2> QED
    BY <1>3, <1>5, <1>6, <2>1
<1>10. s.delivered <= s.rcvd /\ (~ s.localWriterBroken => s.delivered = s.rcvd)
  BY <1>1, <1>2 DEF Good, Data
<1>11. Data(t)
  <2>1. t.delivered <= t.rcvd
    BY <1>4, <1>5, <1>8, <1>10
  <2>2. ~ t.localWriterBroken /\ t.writer # "writing" => t.delivered = t.rcvd
    BY <1>3, <1>5, <1>8, <1>10 DEF SameMarks
  <2>3. t.localWriterBroken => t.writer # "writing" /\ t.rcvBuf = {}
    BY <1>5, <1>8, <1>9 DEF SameMarks
  <2> QED
    BY <1>1, <1>8, <2>1, <2>2, <2>3 DEF Good, Data, ReadAll, Whole, Resetting, SameMarks, SameSender
<1>12. Ended(t)
  BY <1>2, <1>8 DEF Ended, SameMarks
<1>13. Good(t) /\ Tracks(t) /\ TerminalStep(e, s, t)
  BY <1>1, <1>8, <1>11, <1>12, MarksStay DEF Good
<1>14. Grows(s, t) /\ SenderStep(e, s, t)
  BY <1>1, <1>8, GrowsIf, SenderStays DEF SameMarks, SameSender
<1>15. ReceiverStep(e, s, t)
  <2>1. \A n \in Nat : Has(s, n) => Has(t, n)
    <3> SUFFICES ASSUME NEW n \in Nat, Has(s, n) PROVE Has(t, n)
      OBVIOUS
    <3>1. CASE n <= s.rcvd
      BY <1>4, <1>5, <1>8, <3>1 DEF Has
    <3>2. CASE n \in s.rcvBuf
      BY <1>5, <1>6, <1>8, <3>2 DEF Has
    <3> QED
      BY <3>1, <3>2 DEF Has
  <2>2. t.rcvd = s.rcvd \/ t.rcvd \in s.rcvBuf
    BY <1>3, <1>5, <1>8
  <2> QED
    BY <1>6, <1>8, <2>1, <2>2 DEF ReceiverStep
<1>16. Progress(e, s, t)
  BY <1>13, <1>14, <1>15 DEF Progress
<1> QED
  BY <1>2, <1>16, StepKeeps DEF Local, s

(* The writer comes back to wait. *)
LEMMA WriterIdles ==
  ASSUME NEW e, NEW s, Good(s), Tracks(s), ~ s.closed,
         NEW u \in ARQ, SameMarks(s, u), SameSender(s, u), u.rxChan = s.rxChan,
         u.rcvBuf = s.rcvBuf, u.rcvd = s.rcvd, u.writer = "idle",
         \/ u.delivered = s.delivered /\ s.writer # "writing"
         \/ u.delivered = s.rcvd
  PROVE  /\ Good(u) /\ Tracks(u) /\ ~ u.closed
         /\ Grows(s, u) /\ SenderStep(e, s, u) /\ ReceiverStep(e, s, u) /\ TerminalStep(e, s, u)
<1>1. s \in ARQ /\ s.rcvd \in Nat /\ s.delivered \in Nat /\ s.written \in Nat
      /\ s.delivered <= s.rcvd
  BY DEF Good, Data, ARQ
<1>2. u.delivered <= u.rcvd /\ s.delivered <= u.delivered
  BY <1>1
<1>3. ~ s.localWriterBroken => u.delivered = u.rcvd
  BY DEF Good, Data
<1>4. Data(u)
  BY <1>2, <1>3 DEF Good, Data, ReadAll, Whole, Resetting, SameMarks, SameSender
<1>5. Ended(u) /\ ~ u.closed
  BY DEF Ended, SameMarks
<1>6. Good(u) /\ Tracks(u) /\ TerminalStep(e, s, u)
  BY <1>4, <1>5, MarksStay DEF Good
<1>7. SenderStep(e, s, u)
  BY SenderStays DEF SameMarks, SameSender
<1>8. Grows(s, u)
  BY <1>1, <1>2 DEF Grows, SameMarks, SameSender
<1>9. ReceiverStep(e, s, u)
  BY DEF ReceiverStep, Has
<1> QED
  BY <1>5, <1>6, <1>7, <1>8, <1>9

(* What the writer does last is to look whether the stream can end. *)
LEMMA LooksAtEnd ==
  ASSUME NEW u, Good(u), Tracks(u), NEW t,
         t = IF ResetDrained(u) THEN tryFinalizePeerResetDrain(u) ELSE tryFinalizeRemoteEOF(u)
  PROVE  Good(t) /\ Closing(u, t) /\ Tracks(t)
BY PeerResetKeeps, RemoteEOFKeeps

LEMMA WriterKeeps ==
  ASSUME CloseInv, NEW e \in Ends, WriteLoop(e)
  PROVE  CloseInv'
<1> DEFINE s == arq[e]
<1>1. Good(s) /\ Tracks(s) /\ s \in ARQ
  BY GoodNow
<1>2. CASE WriterLooks(e)
  <2> DEFINE pending == s.localWriteClosed \/ ("closeRead" \in s.received /\ s.rxChan = {})
             u == [s EXCEPT !.writer = "idle", !.localWriteClosed = pending]
             t == IF ResetDrained(u) THEN tryFinalizePeerResetDrain(u) ELSE tryFinalizeRemoteEOF(u)
  <2>1. s.writer = "empty" /\ ~ s.closed
    BY <1>1, <1>2 DEF WriterLooks, ARQ
  <2>2. [[s EXCEPT !.writer = "idle"] EXCEPT !.localWriteClosed =
           @ \/ ("closeRead" \in [s EXCEPT !.writer = "idle"].received
                 /\ [s EXCEPT !.writer = "idle"].rxChan = {})] = u
    BY <1>1 DEF ARQ
  <2>3. Local(e, t)
    BY <1>2, <2>2 DEF WriterLooks
  <2>4. pending \in BOOLEAN
    BY <1>1 DEF ARQ
  <2> HIDE DEF s, pending
  <2>5. u \in ARQ /\ SameMarks(s, u) /\ SameSender(s, u) /\ u.rxChan = s.rxChan
        /\ u.rcvBuf = s.rcvBuf /\ u.rcvd = s.rcvd /\ u.writer = "idle" /\ u.delivered = s.delivered
    BY <1>1, <2>4 DEF ARQ, SameMarks, SameSender
  <2> HIDE DEF u
  <2>6. /\ Good(u) /\ Tracks(u) /\ ~ u.closed
        /\ Grows(s, u) /\ SenderStep(e, s, u) /\ ReceiverStep(e, s, u) /\ TerminalStep(e, s, u)
    BY <1>1, <2>1, <2>5, WriterIdles
  <2>7. Good(t) /\ Closing(u, t) /\ Tracks(t)
    BY <2>6, LooksAtEnd
  <2> HIDE DEF t
  <2> QED
    BY <2>3, <2>6, <2>7, LocalThenClosing DEF s
<1>3. CASE WriterWrites(e)
  <2> DEFINE u == [s EXCEPT !.writer = "idle", !.delivered = s.rcvd]
             t == IF ResetDrained(u) THEN tryFinalizePeerResetDrain(u) ELSE tryFinalizeRemoteEOF(u)
  <2>1. ~ s.closed /\ Local(e, t)
    <3>1. u.closed = s.closed
      BY <1>1 DEF ARQ
    <3> QED
      BY <1>3, <3>1 DEF WriterWrites
  <2> HIDE DEF s
  <2>2. s.rcvd \in Nat
    BY <1>1 DEF ARQ
  <2>3. u \in ARQ /\ SameMarks(s, u) /\ SameSender(s, u) /\ u.rxChan = s.rxChan
        /\ u.rcvBuf = s.rcvBuf /\ u.rcvd = s.rcvd /\ u.writer = "idle" /\ u.delivered = s.rcvd
    BY <1>1, <2>2 DEF ARQ, SameMarks, SameSender
  <2> HIDE DEF u
  <2>4. /\ Good(u) /\ Tracks(u) /\ ~ u.closed
        /\ Grows(s, u) /\ SenderStep(e, s, u) /\ ReceiverStep(e, s, u) /\ TerminalStep(e, s, u)
    BY <1>1, <2>1, <2>3, WriterIdles
  <2>5. Good(t) /\ Closing(u, t) /\ Tracks(t)
    BY <2>4, LooksAtEnd
  <2> HIDE DEF t
  <2> QED
    BY <2>1, <2>4, <2>5, LocalThenClosing DEF s
<1>4. CASE WriterFails(e)
  <2> DEFINE empty == {}
             u == [s EXCEPT !.writer = "ended", !.localWriterBroken = TRUE, !.rcvBuf = empty]
             t == closeNow(u, "closeWrite")
  <2>1. s.writer = "writing" /\ Local(e, t)
    BY <1>4 DEF WriterFails, LocalWritePending
  <2>2. ~ s.closed /\ ~ s.localWriterBroken /\ empty \in SUBSET Nat /\ empty = {}
    BY <1>1, <2>1 DEF Good, Ended, Data
  <2> HIDE DEF s, empty
  <2>3. /\ u \in ARQ /\ SameSender(s, u) /\ u.rxChan = s.rxChan /\ u.rcvBuf = {} /\ u.rcvd = s.rcvd
        /\ u.delivered = s.delivered /\ u.writer = "ended" /\ u.localWriterBroken
        /\ u.sent = s.sent /\ u.acked = s.acked /\ u.received = s.received /\ u.waiting = s.waiting
        /\ u.control = s.control /\ u.deferred = s.deferred /\ u.closed = s.closed
    BY <1>1, <2>2 DEF ARQ, SameSender
  <2> HIDE DEF u
  <2>4. "closeWrite" \notin s.sent
    BY <1>1, <2>2 DEF Good, Data
  <2>5. ~ Whole(u) /\ ~ u.closed
    BY <2>2, <2>3 DEF Whole
  <2>6. Ended(u) /\ Marks(u) /\ Tracks(u)
    BY <1>1, <2>3, <2>5 DEF Good, Ended, Marks, Tracks, AlreadyResetting, Resetting
  <2>7. Data(u)
    BY <1>1, <2>3, <2>4, <2>5 DEF Good, Data, ReadAll, SameSender
  <2>8. Good(u)
    BY <2>3, <2>6, <2>7 DEF Good
  <2>9. Grows(s, u) /\ SenderStep(e, s, u)
    BY <1>1, <2>3, GrowsIf, SenderStays DEF SameSender
  <2>10. ReceiverStep(e, s, u) /\ TerminalStep(e, s, u)
    BY <2>3, <2>5 DEF ReceiverStep, TerminalStep
  <2>11. MaySend(u, "closeWrite")
    BY <2>3, <2>4 DEF MaySend
  <2>12. Good(t) /\ Closing(u, t) /\ Tracks(t)
    BY <2>6, <2>8, <2>11, CloseNowKeeps
  <2> HIDE DEF t
  <2> QED
    BY <2>1, <2>5, <2>9, <2>10, <2>12, LocalThenClosing DEF s
<1> QED
  BY <1>2, <1>3, <1>4, TakesKeeps DEF WriteLoop

------------------------------------------------------------------------------
(* What arrives from the peer. *)

LEMMA AnswerMessages ==
  ASSUME NEW e, NEW answer, NEW to, NEW kind, NEW n, Message(to, kind, n) \in Answer(e, answer)
  PROVE  to = Peer(e) /\ kind = AckOf(answer)
BY MessageParts DEF Answer

LEMMA DataKeeps ==
  ASSUME CloseInv, NEW e \in Ends, NEW n \in 1 .. chunks[Peer(e)], ReceiveData(e, n)
  PROVE  CloseInv'
<1> DEFINE s == arq[e]
           more == s.rxChan \union {n}
           u == [s EXCEPT !.rxChan = more]
<1>1. Good(s) /\ Tracks(s) /\ s \in ARQ
  BY GoodNow
<1>2. n \in Nat
  <2>1. chunks[Peer(e)] \in Nat
    BY Peers DEF CloseInv
  <2> QED
    BY <2>1
<1>3. Message(e, "data", n) \in net
  BY DEF ReceiveData, Arrived
<1>4. CASE Step(e, s, {Message(Peer(e), "rst", 0)})
  <2>1. \A to, kind, m : Message(to, kind, m) \in {Message(Peer(e), "rst", 0)} =>
           to = Peer(e) /\ Allowed(arq[e], arq[e], kind, m)
    BY MessageParts DEF Allowed, Terminals
  <2> QED
    BY <1>4, <2>1, OnlyAnswers
<1>5. CASE ~ s.closed /\ Local(e, rejectInbound(s))
  <2> DEFINE t == rejectInbound(s)
  <2>1. Good(t) /\ Closing(s, t) /\ Tracks(t) /\ Local(e, t)
    BY <1>1, <1>5, RejectKeeps
  <2> HIDE DEF t
  <2> QED
    BY <1>5, <2>1, LocalClosing
<1>6. CASE ~ s.closed /\ Local(e, u)
  <2>1. more \in SUBSET Nat
    BY <1>1, <1>2 DEF ARQ
  <2>2. \A m \in more : m \in s.rxChan \/ m = n
    OBVIOUS
  <2> HIDE DEF s, more
  <2>3. u \in ARQ /\ SameMarks(s, u) /\ SameSender(s, u) /\ u.rxChan = more
        /\ u.rcvBuf = s.rcvBuf /\ u.rcvd = s.rcvd /\ u.delivered = s.delivered
        /\ u.writer = s.writer
    BY <1>1, <2>1 DEF ARQ, SameMarks, SameSender
  <2> HIDE DEF u
  <2>4. Ended(u) /\ Data(u)
    BY <1>1, <1>6, <2>3 DEF Good, Ended, Data, ReadAll, Whole, Resetting, SameMarks, SameSender
  <2>5. Good(u) /\ Tracks(u) /\ TerminalStep(e, s, u)
    BY <1>1, <2>3, <2>4, MarksStay DEF Good
  <2>6. ReceiverStep(e, s, u)
    BY <1>3, <2>2, <2>3 DEF ReceiverStep, Has
  <2>7. Grows(s, u) /\ SenderStep(e, s, u)
    BY <1>1, <2>3, GrowsIf, SenderStays DEF SameMarks, SameSender
  <2>8. Progress(e, s, u)
    BY <2>5, <2>6, <2>7 DEF Progress
  <2> QED
    BY <1>6, <2>8, StepKeeps DEF Local, s
<1> QED
  BY <1>4, <1>5, <1>6 DEF ReceiveData

LEMMA AckKeeps ==
  ASSUME CloseInv, NEW e \in Ends, NEW n, ReceiveAck(e, n)
  PROVE  CloseInv'
<1> DEFINE s == arq[e]
           rest == s.sndBuf \ {n}
           u == [s EXCEPT !.sndBuf = rest]
           v == IF "closeRead" \in u.received THEN tryFinalizeRemoteEOF(u) ELSE u
           t == settleTerminalDrain(v)
<1>1. Good(s) /\ Tracks(s) /\ s \in ARQ
  BY GoodNow
<1>2. Message(e, "dataAck", n) \in net /\ n \in s.sndBuf /\ Local(e, t)
  BY DEF ReceiveAck, Arrived
<1>3. ~ s.closed /\ rest \in SUBSET Nat
  BY <1>1, <1>2 DEF Good, Ended, ARQ
<1>4. \A m : m \notin rest => m \notin s.sndBuf \/ m = n
  OBVIOUS
<1>5. s.sndBuf = {} => rest = {}
  OBVIOUS
<1> HIDE DEF s, rest
<1>6. u \in ARQ /\ SameMarks(s, u) /\ SameReceiver(s, u) /\ u.reader = s.reader
      /\ u.written = s.written /\ u.sndBuf = rest
  BY <1>1, <1>3 DEF ARQ, SameMarks, SameReceiver
<1> HIDE DEF u
<1>7. Ended(u) /\ Data(u) /\ ~ u.closed
  BY <1>1, <1>3, <1>5, <1>6
     DEF Good, Ended, Data, ReadAll, Whole, Resetting, SameMarks, SameReceiver
<1>8. Good(u) /\ Tracks(u) /\ TerminalStep(e, s, u)
  BY <1>1, <1>6, <1>7, MarksStay DEF Good
<1>9. SenderStep(e, s, u)
  BY <1>2, <1>4, <1>6 DEF SenderStep, SameMarks
<1>10. Grows(s, u) /\ ReceiverStep(e, s, u)
  BY <1>1, <1>6, GrowsIf, ReceiverStays DEF SameMarks, SameReceiver
<1>11. Good(v) /\ Closing(u, v) /\ Tracks(v)
  BY <1>8, RemoteEOFKeeps, ClosingSelf
<1> HIDE DEF v
<1>12. Good(t) /\ Closing(v, t) /\ Tracks(t)
  BY <1>11, SettleKeeps
<1> HIDE DEF t
<1>13. Closing(u, t)
  BY <1>11, <1>12, ClosingTrans
<1> QED
  BY <1>2, <1>7, <1>8, <1>9, <1>10, <1>12, <1>13, LocalThenClosing DEF s

(* A CLOSE_READ or CLOSE_WRITE is noted, and the latter ends the sending.   *)
LEMMA NotedKeeps ==
  ASSUME NEW e, NEW s, Good(s), Tracks(s), ~ s.closed, NEW kind \in {"closeRead", "closeWrite"},
         Message(e, kind, 0) \in net,
         NEW u \in ARQ, u.received = s.received \union {kind}, SameReceiver(s, u),
         u.reader = s.reader, u.written = s.written, u.sent = s.sent, u.acked = s.acked,
         u.waiting = s.waiting, u.control = s.control, u.deferred = s.deferred,
         u.localWriterBroken = s.localWriterBroken, u.closed = s.closed,
         u.finishing = s.finishing,
         u.sndBuf = s.sndBuf \/ (u.sndBuf = {} /\ kind = "closeWrite")
  PROVE  /\ Good(u) /\ Tracks(u)
         /\ Grows(s, u) /\ SenderStep(e, s, u) /\ ReceiverStep(e, s, u) /\ TerminalStep(e, s, u)
<1>1. Resetting(u) <=> Resetting(s)
  BY DEF Resetting
<1>2. Ended(u) /\ Marks(u) /\ Tracks(u)
  BY <1>1 DEF Good, Ended, Marks, Tracks, AlreadyResetting, Whole
<1>3. Data(u)
  BY <1>1 DEF Good, Data, ReadAll, Whole, SameReceiver
<1>4. SenderStep(e, s, u)
  BY DEF SenderStep
<1>5. Grows(s, u) /\ ReceiverStep(e, s, u)
  BY GrowsIf, ReceiverStays DEF Good, SameReceiver
<1>6. TerminalStep(e, s, u)
  BY DEF TerminalStep
<1> QED
  BY <1>2, <1>3, <1>4, <1>5, <1>6 DEF Good

LEMMA CloseReadNoted ==
  ASSUME CloseInv, NEW e \in Ends, MarkCloseReadReceived(e)
  PROVE  CloseInv'
<1> DEFINE s == arq[e]
           known == s.received \union {"closeRead"}
           u == [s EXCEPT !.received = known]
           t == tryFinalizeRemoteEOF(u)
<1>1. Good(s) /\ Tracks(s) /\ s \in ARQ
  BY GoodNow
<1>2. Message(e, "closeRead", 0) \in net
      /\ Step(e, IF s.closed THEN s ELSE t, Answer(e, "closeRead"))
  BY DEF MarkCloseReadReceived, Arrived
<1>3. "closeRead" \in Terminals
  BY DEF Terminals
<1>4. CASE s.closed
  <2>1. \A to, kind, n : Message(to, kind, n) \in Answer(e, "closeRead") =>
           to = Peer(e) /\ Allowed(arq[e], arq[e], kind, n)
    BY <1>3, <1>4, AnswerMessages DEF Allowed
  <2> QED
    BY <1>2, <1>4, <2>1, OnlyAnswers
<1>5. CASE ~ s.closed
  <2>1. known \in SUBSET Terminals
    BY <1>1, <1>3 DEF ARQ
  <2>2. known = s.received \union {"closeRead"}
    OBVIOUS
  <2>3. Step(e, t, Answer(e, "closeRead"))
    BY <1>2, <1>5
  <2> HIDE DEF s, known
  <2>4. /\ u \in ARQ /\ u.received = known /\ SameReceiver(s, u)
        /\ u.reader = s.reader /\ u.written = s.written /\ u.sent = s.sent /\ u.acked = s.acked
        /\ u.waiting = s.waiting /\ u.control = s.control /\ u.deferred = s.deferred
        /\ u.localWriterBroken = s.localWriterBroken /\ u.closed = s.closed
        /\ u.finishing = s.finishing /\ u.sndBuf = s.sndBuf
    BY <1>1, <2>1 DEF ARQ, SameReceiver
  <2> HIDE DEF u
  <2>5. /\ Good(u) /\ Tracks(u)
        /\ Grows(s, u) /\ SenderStep(e, s, u) /\ ReceiverStep(e, s, u) /\ TerminalStep(e, s, u)
    BY <1>1, <1>2, <1>5, <2>2, <2>4, NotedKeeps
  <2>6. Good(t) /\ Closing(u, t) /\ Tracks(t)
    BY <2>5, RemoteEOFKeeps
  <2> HIDE DEF t
  <2>7. Progress(e, s, t)
    BY <1>5, <2>4, <2>5, <2>6, ThenClosing
  <2>8. "closeRead" \in t.received
    BY <2>2, <2>4, <2>6 DEF Closing
  <2>9. \A to, kind, n : Message(to, kind, n) \in Answer(e, "closeRead") =>
           to = Peer(e) /\ Allowed(s, t, kind, n)
    BY <1>3, <2>8, AnswerMessages DEF Allowed
  <2> QED
    BY <2>3, <2>7, <2>9, StepKeeps DEF s
<1> QED
  BY <1>4, <1>5

LEMMA CloseWriteNoted ==
  ASSUME CloseInv, NEW e \in Ends, MarkCloseWriteReceived(e)
  PROVE  CloseInv'
<1> DEFINE s == arq[e]
           known == s.received \union {"closeWrite"}
           none == {}
           u == [s EXCEPT !.received = known, !.stopLocalRead = TRUE, !.sndBuf = none]
           v == settleTerminalDrain(u)
           t == tryFinalizeRemoteEOF(v)
<1>1. Good(s) /\ Tracks(s) /\ s \in ARQ
  BY GoodNow
<1>2. Message(e, "closeWrite", 0) \in net
      /\ Step(e, IF s.closed THEN s ELSE t, Answer(e, "closeWrite"))
  BY DEF MarkCloseWriteReceived, Arrived
<1>3. "closeWrite" \in Terminals
  BY DEF Terminals
<1>4. CASE s.closed
  <2>1. \A to, kind, n : Message(to, kind, n) \in Answer(e, "closeWrite") =>
           to = Peer(e) /\ Allowed(arq[e], arq[e], kind, n)
    BY <1>3, <1>4, AnswerMessages DEF Allowed
  <2> QED
    BY <1>2, <1>4, <2>1, OnlyAnswers
<1>5. CASE ~ s.closed
  <2>1. known \in SUBSET Terminals /\ none \in SUBSET Nat
    BY <1>1, <1>3 DEF ARQ
  <2>2. known = s.received \union {"closeWrite"} /\ none = {}
    OBVIOUS
  <2>3. Step(e, t, Answer(e, "closeWrite"))
    BY <1>2, <1>5
  <2> HIDE DEF s, known, none
  <2>4. /\ u \in ARQ /\ u.received = known /\ SameReceiver(s, u)
        /\ u.reader = s.reader /\ u.written = s.written /\ u.sent = s.sent /\ u.acked = s.acked
        /\ u.waiting = s.waiting /\ u.control = s.control /\ u.deferred = s.deferred
        /\ u.localWriterBroken = s.localWriterBroken /\ u.closed = s.closed
        /\ u.finishing = s.finishing /\ u.sndBuf = none
    BY <1>1, <2>1 DEF ARQ, SameReceiver
  <2> HIDE DEF u
  <2>5. /\ Good(u) /\ Tracks(u)
        /\ Grows(s, u) /\ SenderStep(e, s, u) /\ ReceiverStep(e, s, u) /\ TerminalStep(e, s, u)
    BY <1>1, <1>2, <1>5, <2>2, <2>4, NotedKeeps
  <2>6. Good(v) /\ Closing(u, v) /\ Tracks(v)
    BY <2>5, SettleKeeps
  <2> HIDE DEF v
  <2>7. Good(t) /\ Closing(u, t) /\ Tracks(t)
    BY <2>6, RemoteEOFKeeps, ClosingTrans
  <2> HIDE DEF t
  <2>8. Progress(e, s, t)
    BY <1>5, <2>4, <2>5, <2>7, ThenClosing
  <2>9. "closeWrite" \in t.received
    BY <2>2, <2>4, <2>7 DEF Closing
  <2>10. \A to, kind, n : Message(to, kind, n) \in Answer(e, "closeWrite") =>
            to = Peer(e) /\ Allowed(s, t, kind, n)
    BY <1>3, <2>9, AnswerMessages DEF Allowed
  <2> QED
    BY <2>3, <2>8, <2>10, StepKeeps DEF s
<1> QED
  BY <1>4, <1>5

LEMMA ResetNoted ==
  ASSUME CloseInv, NEW e \in Ends, MarkRstReceived(e)
  PROVE  CloseInv'
<1> DEFINE s == arq[e]
           known == s.received \union {"rst"}
           none == {}
           u == [s EXCEPT !.received = known, !.stopLocalRead = TRUE, !.sndBuf = none,
                          !.control = none]
<1>1. Good(s) /\ Tracks(s) /\ s \in ARQ
  BY GoodNow
<1>2. /\ Message(e, "rst", 0) \in net
      /\ \/ s.closed /\ Step(e, s, Answer(e, "rst"))
         \/ ~ s.closed /\ Step(e, u, Answer(e, "rst"))
         \/ ~ s.closed /\ Closes(e, u, "reset", Answer(e, "rst"))
  <2>1. s.isClient \in BOOLEAN /\ s.closed \in BOOLEAN
    BY <1>1 DEF ARQ
  <2> QED
    BY <2>1 DEF MarkRstReceived, Arrived
<1>3. "rst" \in Terminals /\ none \in SUBSET Nat /\ none \in SUBSET Terminals /\ none = {}
      /\ known \in SUBSET Terminals /\ known = s.received \union {"rst"}
  BY <1>1 DEF Terminals, ARQ
<1>4. CASE s.closed /\ Step(e, s, Answer(e, "rst"))
  <2>1. \A to, kind, n : Message(to, kind, n) \in Answer(e, "rst") =>
           to = Peer(e) /\ Allowed(arq[e], arq[e], kind, n)
    BY <1>3, <1>4, AnswerMessages DEF Allowed
  <2> QED
    BY <1>4, <2>1, OnlyAnswers
<1> HIDE DEF s, known, none
<1>5. /\ u \in ARQ /\ u.received = known /\ SameReceiver(s, u)
      /\ u.reader = s.reader /\ u.written = s.written /\ u.sent = s.sent /\ u.acked = s.acked
      /\ u.waiting = s.waiting /\ u.control = none /\ u.deferred = s.deferred
      /\ u.localWriterBroken = s.localWriterBroken /\ u.closed = s.closed
      /\ u.finishing = s.finishing /\ u.sndBuf = none
  <2> DEFINE v == [s EXCEPT !.received = known, !.stopLocalRead = TRUE]
  <2>1. /\ v \in ARQ /\ v.received = known /\ SameReceiver(s, v)
        /\ v.reader = s.reader /\ v.written = s.written /\ v.sent = s.sent /\ v.acked = s.acked
        /\ v.waiting = s.waiting /\ v.deferred = s.deferred
        /\ v.localWriterBroken = s.localWriterBroken /\ v.closed = s.closed
        /\ v.finishing = s.finishing
    BY <1>1, <1>3 DEF ARQ, SameReceiver
  <2>2. u = [v EXCEPT !.sndBuf = none, !.control = none]
    OBVIOUS
  <2> HIDE DEF u, v
  <2> QED
    BY <1>3, <2>1, <2>2 DEF ARQ, SameReceiver
<1> HIDE DEF u
<1>6. CASE ~ s.closed /\ Step(e, u, Answer(e, "rst"))
  <2>1. Resetting(u) /\ ~ Whole(u)
    BY <1>3, <1>5 DEF Resetting, Whole
  <2>2. Ended(u) /\ Marks(u) /\ Tracks(u)
    BY <1>1, <1>3, <1>5, <1>6, <2>1 DEF Good, Ended, Marks, Tracks, AlreadyResetting
  <2>3. Data(u)
    BY <1>1, <1>3, <1>5, <2>1 DEF Good, Data, ReadAll, SameReceiver
  <2>4. Grows(s, u)
    BY <1>1, <1>3, <1>5, GrowsIf DEF SameReceiver
  <2>5. SenderStep(e, s, u)
    BY <1>5, <2>1 DEF SenderStep
  <2>6. ReceiverStep(e, s, u)
    BY <1>5, ReceiverStays
  <2>7. TerminalStep(e, s, u)
    BY <1>2, <1>3, <1>5, <2>1 DEF TerminalStep
  <2>8. Progress(e, s, u)
    BY <1>5, <2>2, <2>3, <2>4, <2>5, <2>6, <2>7 DEF Progress, Good
  <2>9. \A to, kind, n : Message(to, kind, n) \in Answer(e, "rst") =>
           to = Peer(e) /\ Allowed(s, u, kind, n)
    BY <1>3, <1>5, AnswerMessages DEF Allowed
  <2> QED
    BY <1>6, <2>8, <2>9, StepKeeps DEF s
<1>7. CASE Closes(e, u, "reset", Answer(e, "rst"))
  <2>1. \A to, kind, n : Message(to, kind, n) \in Answer(e, "rst") =>
           to = Peer(e) /\ \E k \in Terminals : kind = AckOf(k)
    BY <1>3, AnswerMessages
  <2>2. "reset" \in Outcomes
    BY DEF Outcomes
  <2>3. u.acked \subseteq u.sent
    BY <1>1, <1>5 DEF Good, Marks
  <2>4. s.received \subseteq u.received
        /\ \A kind \in u.received \ s.received : Message(e, kind, 0) \in net
    BY <1>2, <1>3, <1>5
  <2>5. u.written = s.written /\ u.delivered = s.delivered /\ u.rcvd = s.rcvd
        /\ u.sent = s.sent /\ u.localWriterBroken = s.localWriterBroken
        /\ \A kind \in u.acked \ s.acked : Message(e, AckOf(kind), 0) \in net
    BY <1>5 DEF SameReceiver
  <2> QED
    BY <1>5, <1>7, <2>1, <2>2, <2>3, <2>4, <2>5, ClosesKeeps DEF s
<1> QED
  BY <1>2, <1>4, <1>6, <1>7

(* A terminal packet is acknowledged. *)
LEMMA AckedNoted ==
  ASSUME NEW e, NEW s, Good(s), Tracks(s), ~ s.closed, NEW kind \in {"closeRead", "closeWrite"},
         Expected(s, kind), Message(e, AckOf(kind), 0) \in net,
         NEW u \in ARQ, u.acked = s.acked \union {kind}, u.control = s.control \ {kind},
         u.waiting = IF s.waiting = kind THEN "none" ELSE s.waiting,
         SameReceiver(s, u), SameSender(s, u), u.sent = s.sent, u.received = s.received,
         u.deferred = s.deferred, u.localWriterBroken = s.localWriterBroken,
         u.closed = s.closed, u.finishing = s.finishing
  PROVE  /\ Good(u) /\ Tracks(u)
         /\ Grows(s, u) /\ SenderStep(e, s, u) /\ ReceiverStep(e, s, u) /\ TerminalStep(e, s, u)
<1>1. kind \in s.sent
  BY DEF Expected, Good, Marks
<1>2. (Resetting(u) <=> Resetting(s)) /\ (Whole(u) <=> Whole(s))
  BY DEF Resetting, Whole
<1>3. Ended(u)
  BY DEF Ended
<1>4. Marks(u)
  <2>1. u.control \subseteq u.sent /\ u.acked \subseteq u.sent
    BY <1>1 DEF Good, Marks
  <2>2. u.waiting # "none" => u.waiting \in u.sent
    BY DEF Good, Marks
  <2>3. "rst" \in u.sent => u.waiting = "rst"
    BY DEF Good, Marks
  <2>4. "closeRead" \in u.sent /\ Whole(u) => u.waiting = "closeRead" \/ "closeRead" \in u.acked
    BY <1>2 DEF Good, Marks
  <2> QED
    BY <2>1, <2>2, <2>3, <2>4 DEF Marks
<1>5. Tracks(u)
  <2>1. AlreadyResetting(s) => AlreadyResetting(u)
    BY <1>2 DEF AlreadyResetting
  <2>2. s.sent \ s.acked \subseteq s.control => u.sent \ u.acked \subseteq u.control
    OBVIOUS
  <2> QED
    BY <2>1, <2>2 DEF Tracks
<1>6. Data(u)
  BY <1>2 DEF Good, Data, ReadAll, SameReceiver, SameSender
<1>7. SenderStep(e, s, u) /\ ReceiverStep(e, s, u)
  BY SenderStays, ReceiverStays DEF SameSender
<1>8. Grows(s, u)
  BY GrowsIf DEF Good, SameReceiver, SameSender
<1>9. TerminalStep(e, s, u)
  BY DEF TerminalStep
<1> QED
  BY <1>3, <1>4, <1>5, <1>6, <1>7, <1>8, <1>9 DEF Good

LEMMA ControlAckKeeps ==
  ASSUME CloseInv, NEW e \in Ends, NEW kind \in Terminals, ReceiveControlAck(e, kind)
  PROVE  CloseInv'
<1> DEFINE s == arq[e]
           control == s.control \ {kind}
           acked == s.acked \union {kind}
           waiting == IF s.waiting = kind THEN "none" ELSE s.waiting
           overdue == s.overdue /\ s.waiting # kind
           u == [s EXCEPT !.control = control, !.acked = acked, !.waiting = waiting,
                          !.overdue = overdue]
           broken == [u EXCEPT !.localWriterBroken = TRUE, !.localWriteClosed = TRUE]
<1>1. Good(s) /\ Tracks(s) /\ s \in ARQ
  BY GoodNow
<1>2. /\ Message(e, AckOf(kind), 0) \in net /\ Expected(s, kind) /\ ~ s.closed
  BY DEF ReceiveControlAck, Arrived, Expected
<1>3. \/ kind = "closeRead" /\ Local(e, tryFinalizeRemoteEOF(u))
      \/ kind = "closeWrite" /\ Local(e, tryFinalizeRemoteEOF(initiateCloseRead(broken)))
      \/ kind = "rst" /\ Closes(e, u, "reset", {})
  <2>1. Acked(s, kind) = u
    BY DEF Acked
  <2> QED
    BY <2>1 DEF ReceiveControlAck, Terminals
<1>4. /\ control \in SUBSET Terminals /\ acked \in SUBSET Terminals /\ waiting \in Kinds
      /\ overdue \in BOOLEAN
  <2>1. s.control \in SUBSET Terminals /\ s.acked \in SUBSET Terminals /\ s.waiting \in Kinds
        /\ s.overdue \in BOOLEAN
    BY <1>1 DEF ARQ
  <2>2. overdue \in BOOLEAN
    BY <2>1
  <2> QED
    BY <2>1, <2>2 DEF Kinds
<1>5. /\ control = s.control \ {kind} /\ acked = s.acked \union {kind}
      /\ waiting = IF s.waiting = kind THEN "none" ELSE s.waiting
  OBVIOUS
<1> HIDE DEF s, control, acked, waiting, overdue
<1>6. /\ u \in ARQ /\ u.control = control /\ u.acked = acked /\ u.waiting = waiting
      /\ SameReceiver(s, u) /\ SameSender(s, u) /\ u.sent = s.sent /\ u.received = s.received
      /\ u.deferred = s.deferred /\ u.localWriterBroken = s.localWriterBroken
      /\ u.closed = s.closed /\ u.finishing = s.finishing
  BY <1>1, <1>4 DEF ARQ, SameReceiver, SameSender
<1> HIDE DEF u
<1>7. CASE kind = "closeRead" /\ Local(e, tryFinalizeRemoteEOF(u))
  <2> DEFINE t == tryFinalizeRemoteEOF(u)
  <2>1. /\ Good(u) /\ Tracks(u)
        /\ Grows(s, u) /\ SenderStep(e, s, u) /\ ReceiverStep(e, s, u) /\ TerminalStep(e, s, u)
    BY <1>1, <1>2, <1>5, <1>6, <1>7, AckedNoted
  <2>2. Good(t) /\ Closing(u, t) /\ Tracks(t) /\ Local(e, t)
    BY <1>7, <2>1, RemoteEOFKeeps
  <2> HIDE DEF t
  <2> QED
    BY <1>2, <1>6, <2>1, <2>2, LocalThenClosing DEF s
<1>8. CASE kind = "closeWrite" /\ Local(e, tryFinalizeRemoteEOF(initiateCloseRead(broken)))
  <2> DEFINE v == initiateCloseRead(broken)
             t == tryFinalizeRemoteEOF(v)
  <2>1. /\ broken \in ARQ /\ broken.control = control /\ broken.acked = acked
        /\ broken.waiting = waiting
        /\ SameReceiver(s, broken) /\ SameSender(s, broken) /\ broken.sent = s.sent
        /\ broken.received = s.received /\ broken.deferred = s.deferred
        /\ broken.localWriterBroken = TRUE /\ broken.closed = s.closed
        /\ broken.finishing = s.finishing
    BY <1>6 DEF ARQ, SameReceiver, SameSender
  <2>2. s.localWriterBroken = TRUE
    <3>1. "closeWrite" \in s.sent
      BY <1>1, <1>2, <1>8 DEF Expected, Good, Marks
    <3>2. s.localWriterBroken /\ s.localWriterBroken \in BOOLEAN
      BY <1>1, <3>1 DEF Good, Data, ARQ
    <3> QED
      BY <3>2
  <2> HIDE DEF broken
  <2>3. /\ Good(broken) /\ Tracks(broken) /\ Grows(s, broken) /\ SenderStep(e, s, broken)
        /\ ReceiverStep(e, s, broken) /\ TerminalStep(e, s, broken)
    BY <1>1, <1>2, <1>5, <1>8, <2>1, <2>2, AckedNoted
  <2>4. Good(v) /\ Closing(broken, v) /\ Tracks(v)
    <3>1. "closeWrite" \in broken.acked
      BY <1>5, <1>8, <2>1
    <3> QED
      BY <2>3, <3>1, InitiateKeeps
  <2>5. Local(e, t)
    BY <1>8
  <2> HIDE DEF v
  <2>6. Good(t) /\ Closing(broken, t) /\ Tracks(t)
    BY <2>4, RemoteEOFKeeps, ClosingTrans
  <2> HIDE DEF t
  <2> QED
    BY <1>2, <2>1, <2>3, <2>5, <2>6, LocalThenClosing DEF s
<1>9. CASE kind = "rst" /\ Closes(e, u, "reset", {})
  <2>1. kind \in s.sent
    BY <1>1, <1>2, <1>9 DEF Expected, Good, Marks
  <2>2. u.acked \subseteq u.sent /\ \A k \in u.acked \ s.acked : Message(e, AckOf(k), 0) \in net
    BY <1>1, <1>2, <1>5, <1>6, <2>1 DEF Good, Marks
  <2>3. "reset" \in Outcomes
    BY DEF Outcomes
  <2> QED
    BY <1>6, <1>9, <2>2, <2>3, ClosesKeeps DEF s, SameReceiver, SameSender
<1> QED
  BY <1>3, <1>7, <1>8, <1>9

LEMMA ReceiveKeeps ==
  ASSUME CloseInv, NEW e \in Ends, Receive(e)
  PROVE  CloseInv'
BY DataKeeps, AckKeeps, CloseReadNoted, CloseWriteNoted, ResetNoted, ControlAckKeeps DEF Receive

------------------------------------------------------------------------------
(* Timers, and the ways to end. *)

LEMMA EndsAsItIs ==
  ASSUME CloseInv, NEW e \in Ends, NEW why \in Outcomes, Closes(e, arq[e], why, {}),
         why = "handshake" => arq[e].finishing = "handshake"
  PROVE  CloseInv'
<1>1. arq[e] \in ARQ /\ arq[e].acked \subseteq arq[e].sent
  BY GoodNow DEF Good, Marks
<1> QED
  BY <1>1, ClosesKeeps

LEMMA ResetsNow ==
  ASSUME CloseInv, NEW e \in Ends, Local(e, closeNow(arq[e], "rst")), ~ arq[e].closed
  PROVE  CloseInv'
<1> DEFINE t == closeNow(arq[e], "rst")
<1>1. Good(t) /\ Closing(arq[e], t) /\ Tracks(t) /\ Local(e, t)
  BY GoodNow, ResetKeeps
<1> HIDE DEF t
<1> QED
  BY <1>1, LocalClosing

LEMMA OverdueKeeps ==
  ASSUME NEW s, Good(s), Tracks(s), NEW late \in BOOLEAN, NEW t, t = [s EXCEPT !.overdue = late]
  PROVE  Good(t) /\ Closing(s, t) /\ Tracks(t)
<1>1. s \in ARQ
  BY DEF Good
<1>2. /\ t \in ARQ /\ SameMarks(s, t) /\ SameSender(s, t) /\ SameReceiver(s, t)
  BY <1>1 DEF ARQ, SameMarks, SameSender, SameReceiver
<1>3. Marks(t) /\ Tracks(t)
  BY <1>2, MarksStay
<1>4. Ended(t) /\ Data(t)
  BY <1>2 DEF Good, Ended, Data, ReadAll, Whole, Resetting, SameMarks, SameSender, SameReceiver
<1>5. Closing(s, t)
  BY <1>2 DEF Closing, SameMarks, SameSender, SameReceiver, HandshakeComplete, InboundEmpty,
              LocalWritePending
<1> QED
  BY <1>2, <1>3, <1>4, <1>5 DEF Good

LEMMA AckWaitKeeps ==
  ASSUME CloseInv, NEW e \in Ends, AckWaitExpires(e)
  PROVE  CloseInv'
<1> DEFINE s == arq[e]
           u == closeNow(s, "rst")
           late == Resetting(s)
           t == [u EXCEPT !.overdue = late]
<1>1. ~ s.closed /\ (Closes(e, s, "reset", {}) \/ Local(e, t))
  BY DEF AckWaitExpires
<1>2. CASE Closes(e, s, "reset", {})
  BY <1>2, EndsAsItIs DEF Outcomes
<1>3. CASE Local(e, t)
  <2>1. Good(u) /\ Closing(s, u) /\ Tracks(u)
    BY GoodNow, ResetKeeps
  <2>2. late \in BOOLEAN
    BY DEF Resetting
  <2> HIDE DEF u, late
  <2>3. Good(t) /\ Closing(u, t) /\ Tracks(t)
    BY <2>1, <2>2, OverdueKeeps
  <2> HIDE DEF t
  <2>4. Closing(s, t)
    BY <2>1, <2>3, ClosingTrans
  <2> QED
    BY <1>1, <1>3, <2>3, <2>4, LocalClosing
<1> QED
  BY <1>1, <1>2, <1>3

LEMMA DrainTimerKeeps ==
  ASSUME CloseInv, NEW e \in Ends, TimerSettles(e)
  PROVE  CloseInv'
<1> DEFINE s == arq[e]
           t == IF s.sndBuf = {} THEN settleTerminalDrain(s) ELSE drainExpired(s)
<1>1. ~ s.closed /\ Local(e, t)
  BY DEF TimerSettles
<1>2. Good(t) /\ Closing(s, t) /\ Tracks(t)
  BY GoodNow, SettleKeeps, DrainExpiredKeeps
<1> HIDE DEF t
<1> QED
  BY <1>1, <1>2, LocalClosing

LEMMA GraceKeeps ==
  ASSUME CloseInv, NEW e \in Ends, GraceElapses(e)
  PROVE  CloseInv'
<1> DEFINE s == arq[e]
           t == closeNow(s, "closeWrite")
<1>1. ~ s.closed /\ Local(e, t) /\ s.deferred = "none" /\ s.writer # "writing"
  BY DEF GraceElapses, LocalWritePending
<1>2. MaySend(s, "closeWrite")
  BY <1>1 DEF MaySend
<1>3. Good(t) /\ Closing(s, t) /\ Tracks(t)
  BY <1>2, GoodNow, CloseNowKeeps
<1> HIDE DEF t
<1> QED
  BY <1>1, <1>3, LocalClosing

LEMMA GivesUpKeeps ==
  ASSUME CloseInv, NEW e \in Ends, NEW kind \in Terminals, ControlGivesUp(e, kind)
  PROVE  CloseInv'
<1> DEFINE s == arq[e]
           rest == s.control \ {kind}
           u == [s EXCEPT !.control = rest]
<1>1. Good(s) /\ Tracks(s) /\ s \in ARQ
  BY GoodNow
<1>2. kind \in s.control /\ (Closes(e, u, "reset", {}) \/ Local(e, closeNow(u, "rst")))
  BY DEF ControlGivesUp
<1>3. ~ s.closed /\ rest \in SUBSET Terminals /\ rest \subseteq s.control
  BY <1>1, <1>2 DEF Good, Ended, ARQ
<1> HIDE DEF s, rest
<1>4. /\ u \in ARQ /\ u.control = rest /\ SameSender(s, u) /\ SameReceiver(s, u)
      /\ u.sent = s.sent /\ u.acked = s.acked /\ u.received = s.received
      /\ u.waiting = s.waiting /\ u.deferred = s.deferred
      /\ u.localWriterBroken = s.localWriterBroken /\ u.closed = s.closed
      /\ u.finishing = s.finishing
  BY <1>1, <1>3 DEF ARQ, SameSender, SameReceiver
<1> HIDE DEF u
<1>5. CASE Closes(e, u, "reset", {})
  BY <1>1, <1>4, <1>5, ClosesKeeps DEF s, SameSender, SameReceiver, Outcomes, Good, Marks
<1>6. CASE Local(e, closeNow(u, "rst"))
  <2> DEFINE t == closeNow(u, "rst")
  <2>1. Whole(u) <=> Whole(s)
    BY <1>4 DEF Whole, Resetting
  <2>2. Ended(u) /\ Marks(u)
    BY <1>1, <1>3, <1>4, <2>1 DEF Good, Ended, Marks
  <2>3. Data(u)
    BY <1>1, <1>4, <2>1 DEF Good, Data, ReadAll, SameSender, SameReceiver
  <2>4. Good(u) /\ ~ u.closed
    BY <1>3, <1>4, <2>2, <2>3 DEF Good
  <2>5. Grows(s, u) /\ SenderStep(e, s, u) /\ ReceiverStep(e, s, u)
    BY <1>1, <1>4, GrowsIf, SenderStays, ReceiverStays DEF SameSender, SameReceiver
  <2>6. TerminalStep(e, s, u)
    BY <1>4 DEF TerminalStep
  <2>7. Good(t) /\ Closing(u, t) /\ Tracks(t) /\ Local(e, t)
    BY <1>6, <2>4, ResetKeeps
  <2> HIDE DEF t
  <2> QED
    BY <2>4, <2>5, <2>6, <2>7, LocalThenClosing DEF s
<1> QED
  BY <1>2, <1>5, <1>6

LEMMA TimersKeep ==
  ASSUME CloseInv, NEW e \in Ends, Timers(e)
  PROVE  CloseInv'
<1>1. CASE TimerSettles(e)
  BY <1>1, DrainTimerKeeps
<1>2. CASE AckWaitExpires(e)
  BY <1>2, AckWaitKeeps
<1>3. CASE TimerObeysReset(e)
  BY <1>3, EndsAsItIs DEF TimerObeysReset, Outcomes
<1>4. CASE GraceElapses(e)
  BY <1>4, GraceKeeps
<1>5. CASE Inactive(e)
  BY <1>5, ResetsNow DEF Inactive
<1>6. CASE DataGivesUp(e)
  <2>1. ~ arq[e].closed
    BY <1>6, GoodNow DEF DataGivesUp, Good, Ended
  <2> QED
    BY <1>6, <2>1, ResetsNow DEF DataGivesUp
<1>7. CASE \E kind \in Terminals : ControlGivesUp(e, kind)
  BY <1>7, GivesUpKeeps
<1> QED
  BY <1>1, <1>2, <1>3, <1>4, <1>5, <1>6, <1>7 DEF Timers

LEMMA FinalizeStepKeeps ==
  ASSUME CloseInv, NEW e \in Ends, Finalize(e)
  PROVE  CloseInv'
<1>1. arq[e].finishing \in Outcomes
  BY GoodNow DEF ARQ, Outcomes
<1> QED
  BY <1>1, EndsAsItIs DEF Finalize

LEMMA OwnerKeeps ==
  ASSUME CloseInv, NEW e \in Ends, OwnerAborts(e)
  PROVE  CloseInv'
BY ResetsNow, EndsAsItIs DEF OwnerAborts, Outcomes

------------------------------------------------------------------------------

LEMMA FreshARQ == \A e \in Ends : Good(NewARQ(e)) /\ Tracks(NewARQ(e))
<1> SUFFICES ASSUME NEW e \in Ends PROVE Good(NewARQ(e)) /\ Tracks(NewARQ(e))
  OBVIOUS
<1>1. NewARQ(e) \in ARQ
  BY DEF NewARQ, ARQ, Kinds, Terminals
<1>2. Ended(NewARQ(e)) /\ Marks(NewARQ(e)) /\ Tracks(NewARQ(e))
  BY DEF NewARQ, Ended, Marks, Tracks
<1>3. Data(NewARQ(e))
  BY DEF NewARQ, Data
<1> QED
  BY <1>1, <1>2, <1>3 DEF Good

LEMMA InitClose == Init => CloseInv
<1> SUFFICES ASSUME Init PROVE CloseInv
  OBVIOUS
<1>1. /\ chunks \in [Ends -> Nat] /\ net = {} /\ outcome \in [Ends -> Outcomes]
      /\ arq = [e \in Ends |-> NewARQ(e)] /\ \A e \in Ends : outcome[e] = "none"
  BY LoadsAssumption DEF Init, Outcomes
<1>2. arq \in [Ends -> ARQ] /\ \A e \in Ends : Good(arq[e]) /\ Tracks(arq[e])
  BY <1>1, FreshARQ DEF Good
<1>3. ASSUME NEW e \in Ends
      PROVE  NetSound(e) /\ KnowsOfPeer(e) /\ DataArrives(e) /\ EndsInAgreement(e)
  <2>1. /\ arq[e] = NewARQ(e) /\ arq[Peer(e)] = NewARQ(Peer(e))
    BY <1>1, Peers
  <2>2. \A x : /\ NewARQ(x).received = {} /\ NewARQ(x).acked = {} /\ NewARQ(x).sent = {}
               /\ NewARQ(x).rxChan = {} /\ NewARQ(x).rcvBuf = {} /\ NewARQ(x).rcvd = 0
               /\ NewARQ(x).written = 0 /\ NewARQ(x).finishing = "none"
    BY DEF NewARQ
  <2>3. NetSound(e)
    BY <1>1 DEF NetSound
  <2>4. KnowsOfPeer(e)
    BY <2>1, <2>2 DEF KnowsOfPeer
  <2>5. DataArrives(e)
    BY <2>1, <2>2 DEF DataArrives
  <2>6. EndsInAgreement(e)
    BY <1>1, <2>1, <2>2 DEF EndsInAgreement, Decided
  <2> QED
    BY <2>3, <2>4, <2>5, <2>6
<1> QED
  BY <1>1, <1>2, <1>3 DEF CloseInv

LEMMA NextClose == CloseInv /\ [Next]_vars => CloseInv'
<1> SUFFICES ASSUME CloseInv, [Next]_vars PROVE CloseInv'
  OBVIOUS
<1>1. CASE Next
  <2>1. PICK e \in Ends : Reader(e) \/ RxLoop(e) \/ WriteLoop(e) \/ Receive(e)
                          \/ Timers(e) \/ Finalize(e) \/ OwnerAborts(e)
    BY <1>1 DEF Next
  <2> QED
    BY <2>1, ReaderKeeps, ProcessKeeps, WriterKeeps, ReceiveKeeps, TimersKeep, FinalizeStepKeeps,
       OwnerKeeps DEF RxLoop
<1>2. CASE UNCHANGED vars
  <2>1. arq' = arq /\ chunks' = chunks /\ net' = net /\ outcome' = outcome
    BY <1>2 DEF vars
  <2>2. \A e \in Ends : /\ NetSound(e) => NetSound(e)'
                        /\ KnowsOfPeer(e) => KnowsOfPeer(e)'
                        /\ DataArrives(e) => DataArrives(e)'
                        /\ EndsInAgreement(e) => EndsInAgreement(e)'
    BY <2>1 DEF NetSound, KnowsOfPeer, DataArrives, EndsInAgreement, Decided
  <2> QED
    BY <2>1, <2>2 DEF CloseInv
<1> QED
  BY <1>1, <1>2

(* The invariant of both ends and the net between them (see its parts). *)
THEOREM CloseInvariant == Spec => []CloseInv
<1>1. Init => CloseInv
  BY InitClose
<1>2. CloseInv /\ [Next]_vars => CloseInv'
  BY NextClose
<1> QED
  BY <1>1, <1>2, PTL DEF Spec

(* An end that closes because the handshake is complete (finalizeClose      *)
(* after HandshakeComplete) has delivered all that its peer has read.       *)
THEOREM NothingIsTruncated == Spec => []NoTruncation
<1>1. CloseInv => NoTruncation
  BY DEF CloseInv, NoTruncation, EndsInAgreement, Decided, Undisturbed, Unbroken, Whole
<1> QED
  BY <1>1, CloseInvariant, PTL

(* CLOSE_READ is sent when nothing is left to be acknowledged               *)
(* (settleTerminalDrain).                                                   *)
THEOREM CloseReadIsLast == Spec => []CloseReadFollowsData
<1>1. CloseInv => CloseReadFollowsData
  BY DEF CloseInv, CloseReadFollowsData, Good, Data, Undisturbed, Unbroken, Whole
<1> QED
  BY <1>1, CloseInvariant, PTL

(* The peer of an end that closed gracefully has its CLOSE_READ.            *)
THEOREM PeerCanFinish == Spec => []NobodyLeftBehind
<1>1. CloseInv => NobodyLeftBehind
  BY DEF CloseInv, NobodyLeftBehind, EndsInAgreement, Decided, Undisturbed, Unbroken, Whole
<1> QED
  BY <1>1, CloseInvariant, PTL

(* No half of the handshake is forgotten (SendControlPacketWithTTL,         *)
(* ReceiveControlAck), and an acknowledgement tells the truth.              *)
THEOREM HandshakeIsTracked == Spec => []KeepsTrying
<1>1. CloseInv => KeepsTrying
  BY DEF CloseInv, KeepsTrying, Good, Marks, Tracks, KnowsOfPeer
<1> QED
  BY <1>1, CloseInvariant, PTL
===============================================================================
