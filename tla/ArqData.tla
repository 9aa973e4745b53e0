------------------------------- MODULE ArqData -------------------------------
(***************************************************************************)
(* The data plane of masterdns/internal/arq/arq.go, one direction of one   *)
(* stream: the sender reads chunks from its application and numbers them   *)
(* with a counter that wraps, the receiver reassembles, acknowledges and   *)
(* writes them to its application, and between the two is a channel of DNS *)
(* messages that loses, repeats and reorders.                              *)
(*                                                                         *)
(* When a copy is sent, first or again, is decided by timers and NACKs and *)
(* goes through the stream's queue; that is the matter of StreamTx.  Here  *)
(* an unacknowledged chunk may be transmitted at any time.                 *)
(***************************************************************************)
EXTENDS Integers, FiniteSets, Sequences, Functions

CONSTANTS
  SeqSpace,    (* size of the sequence number space: 2^16 in the code       *)
  RcvWindow,   (* receiveWindowSize                                         *)
  Limit,       (* limit: unacknowledged chunks the sender may hold          *)
  Lifetime,    (* how many chunks may be read while one chunk, or a copy or *)
               (* acknowledgement of it, is still about                     *)
  MaxSent      (* bound: chunks the application writes                      *)

(* NewARQ takes 2 * windowSize and 0.8 * windowSize, and the configuration *)
(* caps windowSize at 8000: 22400 of 65536.                                *)
ASSUME WindowAssumption ==
  /\ SeqSpace \in Nat \ {0}
  /\ RcvWindow \in Nat \ {0}
  /\ Limit \in Nat \ {0}
  /\ MaxSent \in Nat
  /\ RcvWindow + Limit < SeqSpace \div 2
  /\ Lifetime \in 1 .. SeqSpace \div 2

VARIABLES
  sent,        (* history: how many chunks were read; the next one's number *)
  sndNxt,      (* the sequence number the next chunk gets                   *)
  sndBuf,      (* sequence number -> unacknowledged chunk                   *)
  net,         (* data packets somewhere between the two ends               *)
  acks,        (* STREAM_DATA_ACKs between the two ends                     *)
  rcvNxt,      (* the sequence number the application is waiting for        *)
  rcvBuf,      (* sequence number -> chunk received out of order            *)
  toWrite,     (* the chunks the writer has taken and is writing            *)
  delivered    (* history: the chunks written to the application            *)

vars == <<sent, sndNxt, sndBuf, net, acks, rcvNxt, rcvBuf, toWrite, delivered>>
sender == <<sent, sndNxt, sndBuf>>
receiver == <<rcvNxt, rcvBuf, toWrite, delivered>>

SeqNums == 0 .. SeqSpace - 1

(* The chunk of a packet is its payload.  That of an acknowledgement says  *)
(* which packet it answers; the sender sees the sequence number only.      *)
Packet == [sn : SeqNums, chunk : Nat]

(* What the receiver has taken over from the channel in order. *)
rcvd == Len(delivered) + Len(toWrite)

Init ==
  /\ sent = 0 /\ sndNxt = 0 /\ sndBuf = [s \in {} |-> 0]
  /\ net = {} /\ acks = {}
  /\ rcvNxt = 0 /\ rcvBuf = [s \in {} |-> 0]
  /\ toWrite = <<>> /\ delivered = <<>>

------------------------------------------------------------------------------
(* The sender. *)

(* The channel forgets.  The code does not look: nothing but time and the  *)
(* retry limits keeps an old packet from meeting a reused number.          *)
Young ==
  /\ \A s \in DOMAIN sndBuf : sent - sndBuf[s] < Lifetime
  /\ \A x \in net \union acks : sent - x.chunk < Lifetime

(* Variant for the checks: the reader does not wait for the window. *)
WindowNotChecked == TRUE

WindowNotFull == Cardinality(DOMAIN sndBuf) < Limit

(* Variant: the counter is wider than the sequence number on the wire. *)
SuccUnwrapped(sn) == sn + 1

Succ(sn) == (sn + 1) % SeqSpace

ReadLocal ==
  /\ sent < MaxSent
  /\ WindowNotFull
  /\ Young
  /\ sndBuf' = [s \in DOMAIN sndBuf \union {sndNxt} |->
                  IF s = sndNxt THEN sent ELSE sndBuf[s]]
  /\ sndNxt' = Succ(sndNxt)
  /\ sent' = sent + 1
  /\ UNCHANGED <<net, acks, receiver>>

Transmit(s) ==
  /\ s \in DOMAIN sndBuf
  /\ net' = net \union {[sn |-> s, chunk |-> sndBuf[s]]}
  /\ UNCHANGED <<sender, acks, receiver>>

ReceiveAck(a) ==
  /\ a \in acks
  /\ a.sn \in DOMAIN sndBuf
  /\ sndBuf' = Restrict(sndBuf, DOMAIN sndBuf \ {a.sn})
  /\ UNCHANGED <<sent, sndNxt, net, acks, receiver>>

------------------------------------------------------------------------------
(* The receiver. *)

Ahead(sn) == (sn - rcvNxt) % SeqSpace

(* Half of the space behind rcvNxt is taken for packets seen before. *)
Old(sn) == Ahead(sn) >= SeqSpace \div 2

(* Variant: packets beyond the receive window are kept too. *)
AdmittedAnywhere(sn) == ~ Old(sn)

Admitted(sn) ==
  /\ ~ Old(sn)
  /\ Ahead(sn) <= RcvWindow
  /\ \/ sn \in DOMAIN rcvBuf
     \/ Cardinality(DOMAIN rcvBuf) < RcvWindow
     \/ sn = rcvNxt

Stored(p) ==
  IF p.sn \in DOMAIN rcvBuf
  THEN rcvBuf
  ELSE [s \in DOMAIN rcvBuf \union {p.sn} |-> IF s = p.sn THEN p.chunk ELSE rcvBuf[s]]

(* Variant: the acknowledgement is sent before the packet is looked at. *)
ReceiveAckFirst(p) ==
  /\ p \in net
  /\ IF Admitted(p.sn) THEN rcvBuf' = Stored(p) ELSE UNCHANGED rcvBuf
  /\ acks' = acks \union {p}
  /\ UNCHANGED <<sender, net, rcvNxt, toWrite, delivered>>

(* A packet is acknowledged when it is old or is stored, once or before;   *)
(* a packet that is not admitted is dropped without a word.                *)
Receive(p) ==
  /\ p \in net
  /\ \/ Old(p.sn) /\ UNCHANGED rcvBuf
     \/ Admitted(p.sn) /\ rcvBuf' = Stored(p)
  /\ acks' = acks \union {p}
  /\ UNCHANGED <<sender, net, rcvNxt, toWrite, delivered>>

Slot(i) == (rcvNxt + i) % SeqSpace

Ready(k) == \A i \in 0 .. k - 1 : Slot(i) \in DOMAIN rcvBuf

(* The writer takes the whole contiguous run that starts at rcvNxt ...     *)
Take(k) ==
  /\ toWrite = <<>>
  /\ Ready(k) /\ ~ Ready(k + 1)
  /\ toWrite' = [i \in 1 .. k |-> rcvBuf[Slot(i - 1)]]
  /\ rcvBuf' = Restrict(rcvBuf, DOMAIN rcvBuf \ {Slot(i) : i \in 0 .. k - 1})
  /\ rcvNxt' = Slot(k)
  /\ UNCHANGED <<sender, net, acks, delivered>>

(* Variant: after a partial write the whole buffer is written again. *)
WriteFromStart(n) ==
  /\ delivered' = delivered \o SubSeq(toWrite, 1, n)
  /\ toWrite' = IF n = Len(toWrite) THEN <<>> ELSE toWrite
  /\ UNCHANGED <<sender, net, acks, rcvNxt, rcvBuf>>

(* ... and writes it, a part at a time when the application is slow. *)
Write(n) ==
  /\ delivered' = delivered \o SubSeq(toWrite, 1, n)
  /\ toWrite' = SubSeq(toWrite, n + 1, Len(toWrite))
  /\ UNCHANGED <<sender, net, acks, rcvNxt, rcvBuf>>

------------------------------------------------------------------------------
(* The channel: a packet or an acknowledgement disappears.  It repeats     *)
(* them by keeping them, and reorders them by delivering any.              *)

Lose(p) ==
  /\ p \in net
  /\ net' = net \ {p}
  /\ UNCHANGED <<sender, acks, receiver>>

LoseAck(a) ==
  /\ a \in acks
  /\ acks' = acks \ {a}
  /\ UNCHANGED <<sender, net, receiver>>

Next ==
  \/ ReadLocal
  \/ \E s \in SeqNums : Transmit(s)
  \/ \E p \in net : Receive(p) \/ Lose(p)
  \/ \E a \in acks : ReceiveAck(a) \/ LoseAck(a)
  \/ \E k \in 1 .. RcvWindow + 1 : Take(k)
  \/ \E n \in 1 .. Len(toWrite) : Write(n)

Spec == Init /\ [][Next]_vars

------------------------------------------------------------------------------
(* The buffers map sequence numbers to chunks; the rest are counters. *)
TypeOK ==
  /\ sent \in 0 .. MaxSent /\ sndNxt \in SeqNums /\ rcvNxt \in SeqNums
  /\ DOMAIN sndBuf \in SUBSET SeqNums /\ \A s \in DOMAIN sndBuf : sndBuf[s] \in Nat
  /\ DOMAIN rcvBuf \in SUBSET SeqNums /\ \A s \in DOMAIN rcvBuf : rcvBuf[s] \in Nat
  /\ net \in SUBSET Packet /\ acks \in SUBSET Packet
  /\ toWrite \in Seq(Nat) /\ delivered \in Seq(Nat)

Received(c) ==
  \/ c < rcvd
  \/ c % SeqSpace \in DOMAIN rcvBuf /\ rcvBuf[c % SeqSpace] = c

(* The sender forgets a chunk only when the receiver has it, whatever old  *)
(* acknowledgements and reused sequence numbers are about: an acknowledged *)
(* chunk that was not received is lost for good.                           *)
NoFalseAck ==
  \A c \in 0 .. sent - 1 :
    \/ c % SeqSpace \in DOMAIN sndBuf /\ sndBuf[c % SeqSpace] = c
    \/ Received(c)

(* A number in the reassembly buffer stands for the one chunk that belongs *)
(* there, and never for one a whole sequence space earlier or later.       *)
NoConfusion ==
  \A s \in DOMAIN rcvBuf :
    /\ rcvBuf[s] % SeqSpace = s
    /\ rcvBuf[s] \in rcvd .. rcvd + RcvWindow

(* The sender counts unacknowledged chunks and does not look at how far    *)
(* apart they are.  It cannot run ahead all the same, because what is      *)
(* beyond the receive window is never acknowledged.                        *)
FlowBound == sent <= rcvd + RcvWindow + 1 + Limit

(* Each direction of a stream is a reliable, ordered, bounded channel. *)
Stream == INSTANCE ReliableStream
  WITH Capacity <- 2 * (RcvWindow + 1) + Limit, accepted <- sent

ImplementsStream == Stream!Spec
=============================================================================
