---------------------------- MODULE ArqDataProofs ----------------------------
(***************************************************************************)
(* The data plane is proved correct for every sequence space, window and   *)
(* lifetime that satisfy WindowAssumption, and for every number of chunks: *)
(* however often the 16-bit sequence numbers are reused, the stream comes  *)
(* out complete and in order.                                              *)
(*                                                                         *)
(* The argument is about distances.  Everything that carries a sequence    *)
(* number (buffered chunks, packets, acknowledgements) belongs to a chunk  *)
(* near sent or near rcvd; two chunks less than SeqSpace apart that have   *)
(* the same number are the same chunk.                                     *)
(***************************************************************************)
EXTENDS ArqData, FiniteSetTheorems, SequenceTheorems, TLAPS

------------------------------------------------------------------------------
(* Remainders, for any modulus. *)

(* A remainder is a sequence number. *)
LEMMA ModType ==
  ASSUME NEW M \in Nat \ {0}, NEW a \in Int
  PROVE  a % M \in 0 .. M - 1
OBVIOUS

(* A number is a multiple of M plus its remainder. *)
LEMMA ModSplit ==
  ASSUME NEW M \in Nat \ {0}, NEW a \in Int
  PROVE  a \div M \in Int /\ a = (M * (a \div M)) + (a % M)
OBVIOUS

(* The remainder of a number below M above a multiple of M. *)
LEMMA ModOf ==
  ASSUME NEW M \in Nat \ {0}, NEW d \in Int, NEW r \in 0 .. M - 1
  PROVE  ((M * d) + r) % M = r
OBVIOUS

(* Two different multiples of M are at least M apart. *)
LEMMA MulGap ==
  ASSUME NEW M \in Nat \ {0}, NEW a \in Int, NEW b \in Int, a < b
  PROVE  (M * a) + M <= M * b
OBVIOUS

(* Two numbers less than M apart with the same remainder are equal. *)
LEMMA ModUnique ==
  ASSUME NEW M \in Nat \ {0}, NEW a \in Int, NEW b \in Int,
         a % M = b % M, b - a < M, a - b < M
  PROVE  a = b
<1>1. /\ a \div M \in Int /\ a = (M * (a \div M)) + (a % M)
      /\ b \div M \in Int /\ b = (M * (b \div M)) + (b % M)
      /\ a % M \in Int
  BY ModSplit, ModType
<1>2. M * (a \div M) \in Int /\ M * (b \div M) \in Int
  BY <1>1
<1>3. CASE a \div M < b \div M
  <2>1. (M * (a \div M)) + M <= M * (b \div M)
    BY <1>1, <1>3, MulGap
  <2> QED
    BY <1>1, <1>2, <2>1
<1>4. CASE b \div M < a \div M
  <2>1. (M * (b \div M)) + M <= M * (a \div M)
    BY <1>1, <1>4, MulGap
  <2> QED
    BY <1>1, <1>2, <2>1
<1>5. CASE a \div M = b \div M
  BY <1>1, <1>5
<1> QED
  BY <1>1, <1>3, <1>4, <1>5

(* Numbers a multiple of M apart have the same remainder. *)
LEMMA ModShift ==
  ASSUME NEW M \in Nat \ {0}, NEW a \in Int, NEW d \in Int
  PROVE  (a + (M * d)) % M = a % M
<1>1. a \div M \in Int /\ a = (M * (a \div M)) + (a % M) /\ a % M \in 0 .. M - 1
  BY ModSplit, ModType
<1>2. M * ((a \div M) + d) = (M * (a \div M)) + (M * d)
  BY <1>1
<1>3. M * (a \div M) \in Int /\ M * d \in Int /\ M * ((a \div M) + d) \in Int
  BY <1>1
<1>4. a + (M * d) = (M * ((a \div M) + d)) + (a % M)
  BY <1>1, <1>2, <1>3
<1>5. (a \div M) + d \in Int
  BY <1>1
<1>6. ((M * ((a \div M) + d)) + (a % M)) % M = a % M
  BY <1>1, <1>5, ModOf, Zenon
<1> QED
  BY <1>4, <1>6, Zenon

(* A remainder may be taken before an addition or only after it. *)
LEMMA ModAdd ==
  ASSUME NEW M \in Nat \ {0}, NEW a \in Int, NEW k \in Int
  PROVE  ((a % M) + k) % M = (a + k) % M
<1>1. a \div M \in Int /\ a = (M * (a \div M)) + (a % M) /\ a % M \in Int
  BY ModSplit, ModType
<1>2. M * (a \div M) \in Int
  BY <1>1
<1>3. a + k = ((a % M) + k) + (M * (a \div M))
  BY <1>1, <1>2
<1>4. (a % M) + k \in Int
  BY <1>1
<1>5. (((a % M) + k) + (M * (a \div M))) % M = ((a % M) + k) % M
  BY <1>1, <1>4, ModShift, Zenon
<1> QED
  BY <1>3, <1>5, Zenon

(* The distance of two remainders is that of the numbers. *)
LEMMA ModDistance ==
  ASSUME NEW M \in Nat \ {0}, NEW a \in Int, NEW b \in Int
  PROVE  ((b % M) - (a % M)) % M = (b - a) % M
<1>1. a \div M \in Int /\ a = (M * (a \div M)) + (a % M) /\ a % M \in Int
      /\ b % M \in Int
  BY ModSplit, ModType
<1>2. M * (a \div M) \in Int /\ M * (0 - (a \div M)) = 0 - (M * (a \div M))
  BY <1>1
<1>3. (b % M) - (a % M) = ((b % M) - a) + (M * (a \div M))
  BY <1>1, <1>2
<1>4. (b % M) - a \in Int
  BY <1>1
<1>5. (((b % M) - a) + (M * (a \div M))) % M = ((b % M) - a) % M
  BY <1>1, <1>4, ModShift, Zenon
<1>6. ((b % M) + (0 - a)) % M = (b + (0 - a)) % M
  <2>1. 0 - a \in Int
    OBVIOUS
  <2> QED
    BY <2>1, ModAdd, Zenon
<1>7. (b % M) + (0 - a) = (b % M) - a /\ b + (0 - a) = b - a
  BY <1>1
<1> QED
  BY <1>3, <1>5, <1>6, <1>7, Zenon

------------------------------------------------------------------------------
(* The inductive invariant. *)

(* A buffered chunk has its own number and was read lately. *)
SenderInv ==
  /\ sndNxt = sent % SeqSpace
  /\ \A s \in DOMAIN sndBuf :
       sndBuf[s] % SeqSpace = s /\ sndBuf[s] < sent /\ sent - sndBuf[s] <= Lifetime
  /\ Cardinality(DOMAIN sndBuf) <= Limit

(* So has a packet, and an acknowledgement is given for received chunks. *)
ChannelInv ==
  /\ \A x \in net \union acks :
       x.sn = x.chunk % SeqSpace /\ x.chunk < sent /\ sent - x.chunk <= Lifetime
  /\ \A a \in acks : Received(a.chunk)

(* The receiver holds the chunks that follow those it has written. *)
ReceiverInv ==
  /\ rcvNxt = rcvd % SeqSpace
  /\ rcvd <= sent
  /\ NoConfusion
  /\ \A s \in DOMAIN rcvBuf : rcvBuf[s] < sent
  /\ Len(toWrite) <= RcvWindow + 1
  /\ \A i \in 1 .. Len(toWrite) : toWrite[i] = Len(delivered) + i - 1

DataInv == TypeOK /\ SenderInv /\ ChannelInv /\ ReceiverInv /\ NoFalseAck

------------------------------------------------------------------------------
(* The constants are numbers, as WindowAssumption says. *)
LEMMA Constants ==
  /\ SeqSpace \in Nat \ {0} /\ SeqSpace \div 2 \in Nat
  /\ SeqSpace \div 2 < SeqSpace /\ 2 * (SeqSpace \div 2) <= SeqSpace
  /\ RcvWindow \in Nat \ {0} /\ Limit \in Nat \ {0} /\ MaxSent \in Nat
  /\ RcvWindow + Limit < SeqSpace \div 2
  /\ Lifetime \in Nat /\ Lifetime <= SeqSpace \div 2
<1>1. SeqSpace \in Nat \ {0}
  BY WindowAssumption
<1>2. /\ SeqSpace \div 2 \in Nat /\ SeqSpace \div 2 < SeqSpace
      /\ 2 * (SeqSpace \div 2) <= SeqSpace
  BY <1>1
<1> QED
  BY <1>1, <1>2, WindowAssumption

(* The remainder commutes with a step of the counters. *)
LEMMA Wrap ==
  ASSUME NEW a \in Int, NEW k \in Int
  PROVE  ((a % SeqSpace) + k) % SeqSpace = (a + k) % SeqSpace
BY Constants, ModAdd, Zenon

(* The counters are natural numbers and the buffers are finite. *)
LEMMA Counts ==
  ASSUME TypeOK
  PROVE  /\ sent \in Nat /\ rcvd \in Nat
         /\ Len(toWrite) \in Nat /\ Len(delivered) \in Nat
         /\ IsFiniteSet(DOMAIN sndBuf) /\ IsFiniteSet(DOMAIN rcvBuf)
         /\ IsFiniteSet(SeqNums)
<1>1. IsFiniteSet(SeqNums)
  <2>1. 0 \in Int /\ SeqSpace - 1 \in Int
    BY Constants
  <2> QED
    BY <2>1, FS_Interval DEF SeqNums
<1>2. IsFiniteSet(DOMAIN sndBuf) /\ IsFiniteSet(DOMAIN rcvBuf)
  BY <1>1, FS_Subset DEF TypeOK
<1>3. sent \in Nat
  BY Constants DEF TypeOK
<1>4. Len(toWrite) \in Nat /\ Len(delivered) \in Nat
  BY LenProperties DEF TypeOK
<1> QED
  BY <1>1, <1>2, <1>3, <1>4 DEF rcvd

(* The chunks beyond the receive window are all unacknowledged, and each   *)
(* has a place of its own in the send buffer.                              *)
LEMMA FlowLemma ==
  ASSUME DataInv
  PROVE  FlowBound /\ sent <= rcvd + RcvWindow + 1 + Cardinality(DOMAIN sndBuf)
<1>1. TypeOK /\ SenderInv /\ ReceiverInv /\ NoFalseAck
  BY DEF DataInv
<1>2. sent \in Nat /\ rcvd \in Nat /\ IsFiniteSet(DOMAIN sndBuf)
  BY <1>1, Counts
<1> DEFINE B == (rcvd + RcvWindow + 1) .. (sent - 1)
           f == [c \in B |-> c % SeqSpace]
<1>3. ASSUME NEW c \in B
      PROVE  f[c] \in DOMAIN sndBuf /\ sndBuf[f[c]] = c
  <2>1. c \in 0 .. sent - 1 /\ c > rcvd + RcvWindow
    BY <1>2, Constants
  <2>2. ~ Received(c)
    <3>1. ~ (c < rcvd)
      BY <1>2, <2>1, Constants
    <3>2. ASSUME c % SeqSpace \in DOMAIN rcvBuf, rcvBuf[c % SeqSpace] = c
          PROVE  FALSE
      <4>1. rcvBuf[c % SeqSpace] \in rcvd .. rcvd + RcvWindow
        BY <1>1, <3>2 DEF ReceiverInv, NoConfusion
      <4> QED
        BY <1>2, <2>1, <3>2, <4>1, Constants
    <3> QED
      BY <3>1, <3>2 DEF Received
  <2> QED
    BY <1>1, <2>1, <2>2 DEF NoFalseAck
<1>4. f \in Injection(B, DOMAIN sndBuf)
  <2>1. f \in [B -> DOMAIN sndBuf]
    BY <1>3
  <2>2. \A a, b \in B : f[a] = f[b] => a = b
    BY <1>3
  <2> QED
    BY <2>1, <2>2 DEF Injection, IsInjective
<1>5. Cardinality(B) <= Cardinality(DOMAIN sndBuf)
  BY <1>2, <1>4, FS_Injection
<1>6. rcvd + RcvWindow + 1 \in Int /\ sent - 1 \in Int
  BY <1>2, Constants
<1>7. Cardinality(B) = IF rcvd + RcvWindow + 1 > sent - 1 THEN 0
                       ELSE (sent - 1) - (rcvd + RcvWindow + 1) + 1
  BY <1>6, FS_Interval
<1>8. Cardinality(DOMAIN sndBuf) \in Nat /\ Cardinality(DOMAIN sndBuf) <= Limit
  BY <1>1, <1>2, FS_CardinalityType DEF SenderInv
<1> HIDE DEF B
<1> QED
  BY <1>2, <1>5, <1>7, <1>8, Constants DEF FlowBound

------------------------------------------------------------------------------
(* One lemma for each action. *)

(* What every lemma below starts from. *)
LEMMA Parts ==
  ASSUME DataInv
  PROVE  /\ TypeOK /\ SenderInv /\ ChannelInv /\ ReceiverInv /\ NoFalseAck /\ FlowBound
         /\ sent <= rcvd + RcvWindow + 1 + Cardinality(DOMAIN sndBuf)
         /\ sent \in Nat /\ rcvd \in Nat
         /\ Len(toWrite) \in Nat /\ Len(delivered) \in Nat
         /\ IsFiniteSet(DOMAIN sndBuf) /\ IsFiniteSet(DOMAIN rcvBuf)
         /\ Cardinality(DOMAIN sndBuf) \in Nat
<1>1. /\ TypeOK /\ SenderInv /\ ChannelInv /\ ReceiverInv /\ NoFalseAck /\ FlowBound
      /\ sent <= rcvd + RcvWindow + 1 + Cardinality(DOMAIN sndBuf)
  BY FlowLemma DEF DataInv
<1> QED
  BY <1>1, Counts, FS_CardinalityType

(* ioLoop: a new chunk takes a number no living chunk has. *)
LEMMA ReadLocalInv == DataInv /\ ReadLocal => DataInv'
<1> SUFFICES ASSUME DataInv, ReadLocal PROVE DataInv'
  OBVIOUS
<1>1. /\ TypeOK /\ SenderInv /\ ChannelInv /\ ReceiverInv /\ NoFalseAck
      /\ sent \in Nat /\ rcvd \in Nat /\ IsFiniteSet(DOMAIN sndBuf)
      /\ Cardinality(DOMAIN sndBuf) \in Nat
  BY Parts
<1>2. /\ Cardinality(DOMAIN sndBuf) < Limit /\ Young /\ sent < MaxSent
      /\ sndBuf' = [s \in DOMAIN sndBuf \union {sndNxt} |->
                       IF s = sndNxt THEN sent ELSE sndBuf[s]]
      /\ DOMAIN sndBuf' = DOMAIN sndBuf \union {sndNxt}
      /\ sndNxt' = (sndNxt + 1) % SeqSpace /\ sent' = sent + 1
      /\ net' = net /\ acks' = acks /\ rcvNxt' = rcvNxt /\ rcvBuf' = rcvBuf
      /\ toWrite' = toWrite /\ delivered' = delivered
  BY DEF ReadLocal, WindowNotFull, Succ, receiver
<1>3. rcvd' = rcvd /\ \A c : Received(c)' <=> Received(c)
  BY <1>2 DEF Received, rcvd
<1>4. sndNxt \notin DOMAIN sndBuf
  <2> SUFFICES ASSUME sndNxt \in DOMAIN sndBuf PROVE FALSE
    OBVIOUS
  <2>1. /\ sndBuf[sndNxt] \in Nat /\ sndBuf[sndNxt] % SeqSpace = sent % SeqSpace
        /\ sndBuf[sndNxt] < sent /\ sent - sndBuf[sndNxt] < SeqSpace
    <3>1. sndBuf[sndNxt] \in Nat /\ sndBuf[sndNxt] < sent
          /\ sndBuf[sndNxt] % SeqSpace = sent % SeqSpace
      BY <1>1 DEF TypeOK, SenderInv
    <3>2. sent - sndBuf[sndNxt] < Lifetime
      BY <1>2 DEF Young
    <3> QED
      BY <1>1, <3>1, <3>2, Constants
  <2>2. sndBuf[sndNxt] = sent
    BY <1>1, <2>1, Constants, ModUnique
  <2> QED
    BY <1>1, <2>1, <2>2
<1>5. sndNxt = sent % SeqSpace /\ sndNxt \in SeqNums
  BY <1>1 DEF SenderInv, TypeOK
<1>6. TypeOK'
  <2>1. sent' \in 0 .. MaxSent
    BY <1>1, <1>2, Constants
  <2>2. sndNxt' \in SeqNums
    <3>1. sndNxt + 1 \in Int
      BY <1>5 DEF SeqNums
    <3> QED
      BY <1>2, <3>1, Constants, ModType DEF SeqNums
  <2>3. DOMAIN sndBuf' \in SUBSET SeqNums /\ \A s \in DOMAIN sndBuf' : sndBuf'[s] \in Nat
    BY <1>1, <1>2, <1>5 DEF TypeOK
  <2> QED
    BY <1>1, <1>2, <2>1, <2>2, <2>3 DEF TypeOK
<1>7. SenderInv'
  <2>1. sndNxt' = sent' % SeqSpace
    <3>1. ((sent % SeqSpace) + 1) % SeqSpace = (sent + 1) % SeqSpace
      BY <1>1, Wrap
    <3> QED
      BY <1>2, <1>5, <3>1, Zenon
  <2>2. ASSUME NEW s \in DOMAIN sndBuf'
        PROVE  sndBuf'[s] % SeqSpace = s /\ sndBuf'[s] < sent' /\ sent' - sndBuf'[s] <= Lifetime
    <3>1. CASE s = sndNxt
      BY <1>1, <1>2, <1>5, <3>1, WindowAssumption
    <3>2. CASE s # sndNxt
      <4>1. s \in DOMAIN sndBuf /\ sndBuf'[s] = sndBuf[s] /\ sndBuf[s] \in Nat
        BY <1>1, <1>2, <3>2 DEF TypeOK
      <4>2. sndBuf[s] % SeqSpace = s /\ sndBuf[s] < sent /\ sent - sndBuf[s] < Lifetime
        BY <1>1, <1>2, <4>1 DEF SenderInv, Young
      <4> QED
        BY <1>1, <1>2, <4>1, <4>2, Constants
    <3> QED
      BY <3>1, <3>2
  <2>3. Cardinality(DOMAIN sndBuf') <= Limit
    <3>1. Cardinality(DOMAIN sndBuf') = Cardinality(DOMAIN sndBuf) + 1
      BY <1>1, <1>2, <1>4, FS_AddElement
    <3> QED
      BY <1>1, <1>2, <3>1, Constants
  <2> QED
    BY <2>1, <2>2, <2>3 DEF SenderInv
<1>8. ChannelInv'
  <2>1. ASSUME NEW x \in net \union acks
        PROVE  x.sn = x.chunk % SeqSpace /\ x.chunk < sent' /\ sent' - x.chunk <= Lifetime
    <3>1. x.chunk \in Nat
      BY <1>1 DEF TypeOK, Packet
    <3>2. x.sn = x.chunk % SeqSpace /\ x.chunk < sent /\ sent - x.chunk < Lifetime
      BY <1>1, <1>2 DEF ChannelInv, Young
    <3> QED
      BY <1>1, <1>2, <3>1, <3>2, Constants
  <2> QED
    BY <1>1, <1>2, <1>3, <2>1 DEF ChannelInv
<1>9. ReceiverInv'
  <2>1. rcvd' <= sent' /\ \A s \in DOMAIN rcvBuf : rcvBuf[s] < sent'
    <3>1. \A s \in DOMAIN rcvBuf : rcvBuf[s] \in Nat /\ rcvBuf[s] < sent
      BY <1>1 DEF ReceiverInv, TypeOK
    <3>2. rcvd <= sent
      BY <1>1 DEF ReceiverInv
    <3> QED
      BY <1>1, <1>2, <1>3, <3>1, <3>2
  <2> QED
    BY <1>1, <1>2, <1>3, <2>1 DEF ReceiverInv, NoConfusion
<1>10. NoFalseAck'
  <2> SUFFICES ASSUME NEW c \in 0 .. sent' - 1
               PROVE  \/ c % SeqSpace \in DOMAIN sndBuf' /\ sndBuf'[c % SeqSpace] = c
                      \/ Received(c)
    BY <1>3 DEF NoFalseAck
  <2>1. CASE c = sent
    BY <1>2, <1>5, <2>1
  <2>2. CASE c # sent
    <3>1. c \in 0 .. sent - 1
      BY <1>1, <1>2, <2>2
    <3> QED
      BY <1>1, <1>2, <1>4, <3>1 DEF NoFalseAck
  <2> QED
    BY <2>1, <2>2
<1> QED
  BY <1>6, <1>7, <1>8, <1>9, <1>10 DEF DataInv

(* The channel and the send buffer: what was in flight stays as it was. *)
LEMMA TransmitInv ==
  ASSUME DataInv, NEW s \in SeqNums, Transmit(s)
  PROVE  DataInv'
<1> DEFINE p == [sn |-> s, chunk |-> sndBuf[s]]
<1>1. TypeOK /\ SenderInv /\ ChannelInv /\ ReceiverInv /\ NoFalseAck
  BY Parts
<1>2. /\ s \in DOMAIN sndBuf /\ net' = net \union {p}
      /\ sent' = sent /\ sndNxt' = sndNxt /\ sndBuf' = sndBuf /\ acks' = acks
      /\ rcvNxt' = rcvNxt /\ rcvBuf' = rcvBuf
      /\ toWrite' = toWrite /\ delivered' = delivered
  BY DEF Transmit, sender, receiver
<1>3. /\ sndBuf[s] \in Nat /\ sndBuf[s] % SeqSpace = s
      /\ sndBuf[s] < sent /\ sent - sndBuf[s] <= Lifetime
  BY <1>1, <1>2 DEF TypeOK, SenderInv
<1>4. p \in Packet /\ p.sn = s /\ p.chunk = sndBuf[s]
  BY <1>3 DEF Packet
<1> HIDE DEF p
<1>5. TypeOK'
  BY <1>1, <1>2, <1>4 DEF TypeOK
<1>6. ChannelInv'
  BY <1>1, <1>2, <1>3, <1>4 DEF ChannelInv, Received, rcvd
<1>7. SenderInv' /\ ReceiverInv' /\ NoFalseAck'
  BY <1>1, <1>2 DEF SenderInv, ReceiverInv, NoConfusion, NoFalseAck, Received, rcvd
<1> QED
  BY <1>5, <1>6, <1>7 DEF DataInv

(* The channel may lose any message. *)
LEMMA LoseInv ==
  ASSUME DataInv,
         net' \subseteq net, acks' \subseteq acks, UNCHANGED <<sender, receiver>>
  PROVE  DataInv'
<1>1. TypeOK /\ SenderInv /\ ChannelInv /\ ReceiverInv /\ NoFalseAck
  BY Parts
<1>2. /\ sent' = sent /\ sndNxt' = sndNxt /\ sndBuf' = sndBuf
      /\ rcvNxt' = rcvNxt /\ rcvBuf' = rcvBuf
      /\ toWrite' = toWrite /\ delivered' = delivered
  BY DEF sender, receiver
<1>3. TypeOK'
  BY <1>1, <1>2 DEF TypeOK
<1>4. ChannelInv'
  BY <1>1, <1>2 DEF ChannelInv, Received, rcvd
<1>5. SenderInv' /\ ReceiverInv' /\ NoFalseAck'
  BY <1>1, <1>2 DEF SenderInv, ReceiverInv, NoConfusion, NoFalseAck, Received, rcvd
<1> QED
  BY <1>3, <1>4, <1>5 DEF DataInv

(* The entry an acknowledgement removes is that of the chunk it is about:  *)
(* both were read less than a sequence space ago.                          *)
LEMMA ReceiveAckInv ==
  ASSUME DataInv, NEW a \in acks, ReceiveAck(a)
  PROVE  DataInv'
<1>1. /\ TypeOK /\ SenderInv /\ ChannelInv /\ ReceiverInv /\ NoFalseAck
      /\ sent \in Nat /\ IsFiniteSet(DOMAIN sndBuf) /\ Cardinality(DOMAIN sndBuf) \in Nat
  BY Parts
<1>2. /\ a.sn \in DOMAIN sndBuf
      /\ DOMAIN sndBuf' = DOMAIN sndBuf \ {a.sn}
      /\ \A s \in DOMAIN sndBuf' : sndBuf'[s] = sndBuf[s]
      /\ sent' = sent /\ sndNxt' = sndNxt /\ net' = net /\ acks' = acks
      /\ rcvNxt' = rcvNxt /\ rcvBuf' = rcvBuf
      /\ toWrite' = toWrite /\ delivered' = delivered
  BY DEF ReceiveAck, Restrict, receiver
<1>3. rcvd' = rcvd /\ \A c : Received(c)' <=> Received(c)
  BY <1>2 DEF Received, rcvd
<1>4. a.chunk = sndBuf[a.sn]
  <2>1. a.chunk \in Nat /\ sndBuf[a.sn] \in Nat
    BY <1>1, <1>2 DEF TypeOK, Packet
  <2>2. a.sn = a.chunk % SeqSpace /\ a.chunk < sent /\ sent - a.chunk <= Lifetime
    BY <1>1 DEF ChannelInv
  <2>3. /\ sndBuf[a.sn] % SeqSpace = a.sn
        /\ sndBuf[a.sn] < sent /\ sent - sndBuf[a.sn] <= Lifetime
    BY <1>1, <1>2 DEF SenderInv
  <2>4. a.chunk - sndBuf[a.sn] < SeqSpace /\ sndBuf[a.sn] - a.chunk < SeqSpace
    BY <1>1, <2>1, <2>2, <2>3, Constants
  <2> QED
    BY <2>1, <2>2, <2>3, <2>4, Constants, ModUnique
<1>5. Received(a.chunk)
  BY <1>1 DEF ChannelInv
<1>6. TypeOK'
  BY <1>1, <1>2 DEF TypeOK
<1>7. SenderInv'
  <2>1. Cardinality(DOMAIN sndBuf') <= Limit
    <3>1. Cardinality(DOMAIN sndBuf') = Cardinality(DOMAIN sndBuf) - 1
      BY <1>1, <1>2, FS_RemoveElement
    <3> QED
      BY <1>1, <3>1, Constants DEF SenderInv
  <2> QED
    BY <1>1, <1>2, <2>1 DEF SenderInv
<1>8. ChannelInv'
  BY <1>1, <1>2, <1>3 DEF ChannelInv
<1>9. ReceiverInv'
  BY <1>1, <1>2, <1>3 DEF ReceiverInv, NoConfusion
<1>10. NoFalseAck'
  <2> SUFFICES ASSUME NEW c \in 0 .. sent - 1
               PROVE  \/ c % SeqSpace \in DOMAIN sndBuf' /\ sndBuf'[c % SeqSpace] = c
                      \/ Received(c)
    BY <1>2, <1>3 DEF NoFalseAck
  <2>1. CASE c % SeqSpace \in DOMAIN sndBuf /\ sndBuf[c % SeqSpace] = c
    BY <1>2, <1>4, <1>5, <2>1
  <2>2. CASE Received(c)
    BY <2>2
  <2> QED
    BY <1>1, <2>1, <2>2 DEF NoFalseAck
<1> QED
  BY <1>6, <1>7, <1>8, <1>9, <1>10 DEF DataInv

(* The receiver tells old packets from new ones by half of the sequence    *)
(* space: a packet behind rcvd is at most Lifetime behind, a packet ahead  *)
(* at most RcvWindow + Limit ahead.                                        *)
LEMMA Classified ==
  ASSUME DataInv, NEW p \in net
  PROVE  /\ Old(p.sn) => p.chunk < rcvd
         /\ Admitted(p.sn) => p.chunk \in rcvd .. rcvd + RcvWindow
<1>1. /\ TypeOK /\ ChannelInv /\ ReceiverInv /\ FlowBound /\ sent \in Nat /\ rcvd \in Nat
  BY Parts
<1>2. p.chunk \in Nat
  BY <1>1 DEF TypeOK, Packet
<1>3. p.sn = p.chunk % SeqSpace /\ p.chunk < sent /\ sent - p.chunk <= Lifetime
  BY <1>1 DEF ChannelInv
<1>4. rcvNxt = rcvd % SeqSpace /\ rcvd <= sent
  BY <1>1 DEF ReceiverInv
<1>5. Ahead(p.sn) = (p.chunk - rcvd) % SeqSpace
  <2>1. ((p.chunk % SeqSpace) - (rcvd % SeqSpace)) % SeqSpace = (p.chunk - rcvd) % SeqSpace
    <3>1. p.chunk \in Int /\ rcvd \in Int
      BY <1>1, <1>2
    <3> QED
      BY <3>1, Constants, ModDistance, Zenon
  <2> QED
    BY <1>3, <1>4, <2>1, Zenon DEF Ahead
<1>6. CASE p.chunk >= rcvd
  <2>1. p.chunk - rcvd \in 0 .. SeqSpace - 1 /\ p.chunk - rcvd < SeqSpace \div 2
    BY <1>1, <1>2, <1>3, <1>6, Constants DEF FlowBound
  <2>2. ((SeqSpace * 0) + (p.chunk - rcvd)) % SeqSpace = p.chunk - rcvd
    BY <2>1, Constants, ModOf
  <2>3. (SeqSpace * 0) + (p.chunk - rcvd) = p.chunk - rcvd
    BY <1>1, <1>2, Constants
  <2>4. Ahead(p.sn) = p.chunk - rcvd
    BY <1>5, <2>2, <2>3, Zenon
  <2>5. ~ Old(p.sn)
    BY <1>1, <1>2, <2>1, <2>4, Constants DEF Old
  <2>6. Admitted(p.sn) => p.chunk - rcvd <= RcvWindow
    BY <2>4 DEF Admitted
  <2> QED
    BY <1>1, <1>2, <1>6, <2>5, <2>6, Constants
<1>7. CASE p.chunk < rcvd
  <2>1. /\ (p.chunk - rcvd) + SeqSpace \in 0 .. SeqSpace - 1
        /\ (p.chunk - rcvd) + SeqSpace >= SeqSpace \div 2
    <3>1. rcvd - p.chunk \in Nat /\ rcvd - p.chunk > 0 /\ rcvd - p.chunk <= Lifetime
      BY <1>1, <1>2, <1>3, <1>4, <1>7, Constants
    <3> DEFINE h == SeqSpace \div 2
               d == rcvd - p.chunk
    <3>2. h \in Nat /\ h < SeqSpace /\ 2 * h <= SeqSpace /\ d \in Nat /\ d > 0 /\ d <= h
      BY <3>1, Constants
    <3>3. (p.chunk - rcvd) + SeqSpace = SeqSpace - d
      BY <1>1, <1>2, Constants
    <3> HIDE DEF h, d
    <3>4. SeqSpace - d \in 0 .. SeqSpace - 1 /\ SeqSpace - d >= h
      BY <3>2, Constants
    <3> QED
      BY <3>3, <3>4 DEF h
  <2>2. ((SeqSpace * (-1)) + ((p.chunk - rcvd) + SeqSpace)) % SeqSpace
          = (p.chunk - rcvd) + SeqSpace
    BY <2>1, Constants, ModOf
  <2>3. (SeqSpace * (-1)) + ((p.chunk - rcvd) + SeqSpace) = p.chunk - rcvd
    BY <1>1, <1>2, Constants
  <2>4. Ahead(p.sn) = (p.chunk - rcvd) + SeqSpace
    BY <1>5, <2>2, <2>3, Zenon
  <2>5. Old(p.sn)
    BY <2>1, <2>4 DEF Old
  <2> QED
    BY <1>7, <2>5 DEF Admitted
<1> QED
  BY <1>1, <1>2, <1>6, <1>7

(* processReceivedData: a chunk is kept before it is acknowledged. *)
LEMMA ReceiveInv ==
  ASSUME DataInv, NEW p \in net, Receive(p)
  PROVE  DataInv'
<1>1. /\ TypeOK /\ SenderInv /\ ChannelInv /\ ReceiverInv /\ NoFalseAck
      /\ sent \in Nat /\ rcvd \in Nat
  BY Parts
<1>2. /\ sent' = sent /\ sndNxt' = sndNxt /\ sndBuf' = sndBuf /\ net' = net
      /\ acks' = acks \union {p}
      /\ rcvNxt' = rcvNxt /\ toWrite' = toWrite /\ delivered' = delivered
      /\ \/ Old(p.sn) /\ rcvBuf' = rcvBuf
         \/ Admitted(p.sn) /\ rcvBuf' = Stored(p)
  BY DEF Receive, sender
<1>3. /\ p \in Packet /\ p.chunk \in Nat /\ p.sn \in SeqNums
      /\ p.sn = p.chunk % SeqSpace /\ p.chunk < sent /\ sent - p.chunk <= Lifetime
  BY <1>1 DEF TypeOK, Packet, ChannelInv
<1>4. rcvd' = rcvd
  BY <1>2 DEF rcvd
<1>5. /\ \A s \in DOMAIN rcvBuf : s \in DOMAIN rcvBuf' /\ rcvBuf'[s] = rcvBuf[s]
      /\ \A s \in DOMAIN rcvBuf' : s \in DOMAIN rcvBuf
           \/ (s = p.sn /\ rcvBuf'[s] = p.chunk /\ Admitted(p.sn))
  <2>1. CASE rcvBuf' = rcvBuf
    BY <2>1
  <2>2. CASE p.sn \notin DOMAIN rcvBuf /\ Admitted(p.sn) /\ rcvBuf' = Stored(p)
    BY <2>2 DEF Stored
  <2> QED
    BY <1>2, <2>1, <2>2 DEF Stored
<1>6. \A c : Received(c) => Received(c)'
  BY <1>4, <1>5 DEF Received
<1>7. Received(p.chunk)'
  <2>1. CASE Old(p.sn)
    BY <1>4, <2>1, Classified DEF Received
  <2>2. CASE Admitted(p.sn) /\ p.sn \notin DOMAIN rcvBuf /\ rcvBuf' = Stored(p)
    BY <1>3, <2>2 DEF Received, Stored
  <2>3. CASE Admitted(p.sn) /\ p.sn \in DOMAIN rcvBuf
    <3>1. p.chunk \in rcvd .. rcvd + RcvWindow
      BY <2>3, Classified
    <3>2. /\ rcvBuf[p.sn] % SeqSpace = p.chunk % SeqSpace
          /\ rcvBuf[p.sn] \in rcvd .. rcvd + RcvWindow
      BY <1>1, <1>3, <2>3 DEF ReceiverInv, NoConfusion
    <3>3. rcvBuf[p.sn] - p.chunk < SeqSpace /\ p.chunk - rcvBuf[p.sn] < SeqSpace
      BY <1>1, <3>1, <3>2, Constants
    <3>4. rcvBuf[p.sn] \in Int /\ p.chunk \in Int
      BY <1>1, <3>1, <3>2, Constants
    <3>5. rcvBuf[p.sn] = p.chunk
      BY <3>2, <3>3, <3>4, Constants, ModUnique
    <3> QED
      BY <1>3, <1>5, <2>3, <3>5 DEF Received
  <2> QED
    BY <1>2, <2>1, <2>2, <2>3
<1>8. TypeOK'
  <2>1. DOMAIN rcvBuf' \in SUBSET SeqNums /\ \A s \in DOMAIN rcvBuf' : rcvBuf'[s] \in Nat
    BY <1>1, <1>3, <1>5 DEF TypeOK
  <2> QED
    BY <1>1, <1>2, <1>3, <2>1 DEF TypeOK
<1>9. SenderInv'
  BY <1>1, <1>2 DEF SenderInv
<1>10. ChannelInv'
  BY <1>1, <1>2, <1>3, <1>6, <1>7 DEF ChannelInv
<1>11. ReceiverInv'
  <2>1. ASSUME NEW s \in DOMAIN rcvBuf'
        PROVE  /\ rcvBuf'[s] % SeqSpace = s /\ rcvBuf'[s] < sent
               /\ rcvBuf'[s] \in rcvd .. rcvd + RcvWindow
    <3>1. CASE s \in DOMAIN rcvBuf
      BY <1>1, <1>5, <3>1 DEF ReceiverInv, NoConfusion
    <3>2. CASE s = p.sn /\ rcvBuf'[s] = p.chunk /\ Admitted(p.sn)
      BY <1>3, <3>2, Classified
    <3> QED
      BY <1>5, <3>1, <3>2
  <2> QED
    BY <1>1, <1>2, <1>4, <2>1 DEF ReceiverInv, NoConfusion
<1>12. NoFalseAck'
  BY <1>1, <1>2, <1>6 DEF NoFalseAck
<1> QED
  BY <1>8, <1>9, <1>10, <1>11, <1>12 DEF DataInv

(* The run the writer takes is the next k chunks. *)
LEMMA RunOf ==
  ASSUME DataInv, NEW k \in 1 .. RcvWindow + 1, Ready(k)
  PROVE  \A i \in 0 .. k - 1 : /\ Slot(i) \in DOMAIN rcvBuf
                               /\ Slot(i) = (rcvd + i) % SeqSpace
                               /\ rcvBuf[Slot(i)] = rcvd + i
<1> SUFFICES ASSUME NEW i \in 0 .. k - 1
             PROVE  /\ Slot(i) \in DOMAIN rcvBuf
                    /\ Slot(i) = (rcvd + i) % SeqSpace
                    /\ rcvBuf[Slot(i)] = rcvd + i
  OBVIOUS
<1>1. ReceiverInv /\ rcvd \in Nat
  BY Parts
<1>2. Slot(i) \in DOMAIN rcvBuf
  BY DEF Ready
<1>3. i \in Int /\ rcvd \in Int /\ rcvd + i \in Int /\ i <= RcvWindow /\ i >= 0
  BY <1>1, Constants
<1>4. Slot(i) = (rcvd + i) % SeqSpace
  <2>1. ((rcvd % SeqSpace) + i) % SeqSpace = (rcvd + i) % SeqSpace
    BY <1>3, Wrap
  <2>2. rcvNxt = rcvd % SeqSpace
    BY <1>1 DEF ReceiverInv
  <2> QED
    BY <2>1, <2>2, Zenon DEF Slot
<1>5. /\ rcvBuf[Slot(i)] % SeqSpace = (rcvd + i) % SeqSpace
      /\ rcvBuf[Slot(i)] \in rcvd .. rcvd + RcvWindow
  BY <1>1, <1>2, <1>4 DEF ReceiverInv, NoConfusion
<1>6. /\ rcvBuf[Slot(i)] \in Int
      /\ rcvBuf[Slot(i)] - (rcvd + i) < SeqSpace /\ (rcvd + i) - rcvBuf[Slot(i)] < SeqSpace
  BY <1>1, <1>3, <1>5, Constants
<1>7. rcvBuf[Slot(i)] = rcvd + i
  BY <1>3, <1>5, <1>6, Constants, ModUnique
<1> QED
  BY <1>2, <1>4, <1>7

(* writeLoop takes a run of chunks that is next in order. *)
LEMMA TakeInv ==
  ASSUME DataInv, NEW k \in 1 .. RcvWindow + 1, Take(k)
  PROVE  DataInv'
<1>1. /\ TypeOK /\ SenderInv /\ ChannelInv /\ ReceiverInv /\ NoFalseAck
      /\ sent \in Nat /\ rcvd \in Nat /\ Len(delivered) \in Nat
  BY Parts
<1>2. /\ toWrite = <<>> /\ Ready(k)
      /\ toWrite' = [i \in 1 .. k |-> rcvBuf[Slot(i - 1)]]
      /\ DOMAIN rcvBuf' = DOMAIN rcvBuf \ {Slot(i) : i \in 0 .. k - 1}
      /\ \A s \in DOMAIN rcvBuf' : rcvBuf'[s] = rcvBuf[s]
      /\ rcvNxt' = Slot(k)
      /\ sent' = sent /\ sndNxt' = sndNxt /\ sndBuf' = sndBuf
      /\ net' = net /\ acks' = acks /\ delivered' = delivered
  BY DEF Take, Restrict, sender
<1>3. k \in Nat /\ k >= 1 /\ k <= RcvWindow + 1
  BY Constants
<1>4. \A i \in 0 .. k - 1 : /\ Slot(i) \in DOMAIN rcvBuf
                            /\ Slot(i) = (rcvd + i) % SeqSpace
                            /\ rcvBuf[Slot(i)] = rcvd + i
  BY <1>2, RunOf
<1>5. rcvd = Len(delivered)
  BY <1>1, <1>2, EmptySeq DEF rcvd
<1>6. \A i \in 1 .. k : i - 1 \in 0 .. k - 1 /\ rcvBuf[Slot(i - 1)] = Len(delivered) + i - 1
  BY <1>1, <1>3, <1>4, <1>5
<1>7. /\ toWrite' \in Seq(Nat) /\ Len(toWrite') = k
      /\ \A i \in 1 .. k : toWrite'[i] = Len(delivered) + i - 1
  <2>1. toWrite' = [i \in 1 .. k |-> Len(delivered) + i - 1]
    BY <1>2, <1>6
  <2>2. \A i \in 1 .. k : Len(delivered) + i - 1 \in Nat
    BY <1>1, <1>3
  <2> QED
    BY <1>3, <2>1, <2>2
<1>8. rcvd' = rcvd + k
  BY <1>1, <1>2, <1>3, <1>5, <1>7 DEF rcvd
<1>9. ASSUME NEW s \in DOMAIN rcvBuf'
      PROVE  /\ s \in DOMAIN rcvBuf /\ rcvBuf'[s] = rcvBuf[s]
             /\ rcvBuf[s] % SeqSpace = s /\ rcvBuf[s] < sent
             /\ rcvBuf[s] \in rcvd + k .. rcvd + k + RcvWindow
  <2>1. s \in DOMAIN rcvBuf /\ rcvBuf'[s] = rcvBuf[s]
    BY <1>2
  <2>2. /\ rcvBuf[s] % SeqSpace = s /\ rcvBuf[s] < sent
        /\ rcvBuf[s] \in rcvd .. rcvd + RcvWindow
    BY <1>1, <2>1 DEF ReceiverInv, NoConfusion
  <2>3. ~ (rcvBuf[s] < rcvd + k)
    <3> SUFFICES ASSUME rcvBuf[s] < rcvd + k PROVE FALSE
      OBVIOUS
    <3> DEFINE i == rcvBuf[s] - rcvd
    <3>1. i \in 0 .. k - 1 /\ rcvd + i = rcvBuf[s]
      BY <1>1, <1>3, <2>2, Constants
    <3> HIDE DEF i
    <3>2. Slot(i) = s
      BY <1>4, <2>2, <3>1
    <3> QED
      BY <1>2, <3>1, <3>2
  <2> QED
    BY <1>1, <1>3, <2>1, <2>2, <2>3, Constants
<1>10. \A c \in Nat : Received(c) => Received(c)'
  <2> SUFFICES ASSUME NEW c \in Nat, Received(c) PROVE Received(c)'
    OBVIOUS
  <2>1. CASE c < rcvd
    BY <1>1, <1>3, <1>8, <2>1 DEF Received
  <2>2. CASE c % SeqSpace \in DOMAIN rcvBuf /\ rcvBuf[c % SeqSpace] = c
    <3>1. CASE c % SeqSpace \in DOMAIN rcvBuf'
      BY <1>9, <2>2, <3>1 DEF Received
    <3>2. CASE c % SeqSpace \notin DOMAIN rcvBuf'
      <4>1. PICK i \in 0 .. k - 1 : c % SeqSpace = Slot(i)
        BY <1>2, <2>2, <3>2
      <4>2. c = rcvd + i
        BY <1>4, <2>2, <4>1
      <4> QED
        BY <1>1, <1>3, <1>8, <4>2 DEF Received
    <3> QED
      BY <3>1, <3>2
  <2> QED
    BY <2>1, <2>2 DEF Received
<1>11. TypeOK'
  <2>1. rcvNxt' \in SeqNums
    <3>1. rcvNxt + k \in Int
      BY <1>1, <1>3 DEF TypeOK, SeqNums
    <3> QED
      BY <1>2, <3>1, Constants, ModType DEF Slot, SeqNums
  <2>2. DOMAIN rcvBuf' \in SUBSET SeqNums /\ \A s \in DOMAIN rcvBuf' : rcvBuf'[s] \in Nat
    BY <1>1, <1>2 DEF TypeOK
  <2> QED
    BY <1>1, <1>2, <1>7, <2>1, <2>2 DEF TypeOK
<1>12. SenderInv'
  BY <1>1, <1>2 DEF SenderInv
<1>13. ChannelInv'
  <2>1. \A a \in acks : a.chunk \in Nat
    BY <1>1 DEF TypeOK, Packet
  <2> QED
    BY <1>1, <1>2, <1>10, <2>1 DEF ChannelInv
<1>14. ReceiverInv'
  <2>1. rcvNxt' = rcvd' % SeqSpace
    <3>1. ((rcvd % SeqSpace) + k) % SeqSpace = (rcvd + k) % SeqSpace
      BY <1>1, <1>3, Wrap
    <3>2. rcvNxt = rcvd % SeqSpace
      BY <1>1 DEF ReceiverInv
    <3> QED
      BY <1>2, <1>8, <3>1, <3>2, Zenon DEF Slot
  <2>2. rcvd' <= sent
    <3>1. k - 1 \in 0 .. k - 1
      BY <1>3
    <3>2. rcvBuf[Slot(k - 1)] = rcvd + (k - 1) /\ rcvBuf[Slot(k - 1)] < sent
      BY <1>1, <1>4, <3>1 DEF ReceiverInv
    <3> QED
      BY <1>1, <1>3, <1>8, <3>2
  <2>3. NoConfusion'
    BY <1>8, <1>9 DEF NoConfusion
  <2> QED
    BY <1>2, <1>3, <1>7, <1>9, <2>1, <2>2, <2>3 DEF ReceiverInv
<1>15. NoFalseAck'
  BY <1>1, <1>2, <1>10 DEF NoFalseAck
<1> QED
  BY <1>11, <1>12, <1>13, <1>14, <1>15 DEF DataInv

(* What a write moves: the next n chunks in order. *)
LEMMA Written ==
  ASSUME DataInv, NEW n \in 1 .. Len(toWrite)
  PROVE  /\ SubSeq(toWrite, 1, n) = [i \in 1 .. n |-> Len(delivered) + i - 1]
         /\ delivered \o SubSeq(toWrite, 1, n) \in Seq(Nat)
         /\ Len(delivered \o SubSeq(toWrite, 1, n)) = Len(delivered) + n
         /\ SubSeq(toWrite, n + 1, Len(toWrite)) \in Seq(Nat)
         /\ Len(SubSeq(toWrite, n + 1, Len(toWrite))) = Len(toWrite) - n
         /\ \A i \in 1 .. Len(toWrite) - n :
              SubSeq(toWrite, n + 1, Len(toWrite))[i] = Len(delivered) + n + i - 1
<1>1. /\ toWrite \in Seq(Nat) /\ delivered \in Seq(Nat)
      /\ Len(toWrite) \in Nat /\ Len(delivered) \in Nat
      /\ \A i \in 1 .. Len(toWrite) : toWrite[i] = Len(delivered) + i - 1
  BY Parts DEF TypeOK, ReceiverInv
<1>2. n \in Int /\ n >= 1 /\ n <= Len(toWrite)
  BY <1>1
<1> DEFINE first == SubSeq(toWrite, 1, n)
           rest  == SubSeq(toWrite, n + 1, Len(toWrite))
<1>3. \A i \in 1 .. Len(toWrite) : toWrite[i] \in Nat
  BY <1>1, ElementOfSeq
<1>4. /\ first \in Seq(Nat) /\ Len(first) = n
      /\ \A i \in 1 .. n : first[i] = toWrite[i]
  <2>1. \A i \in 1 .. n : toWrite[i] \in Nat
    BY <1>1, <1>2, <1>3
  <2>2. /\ first \in Seq(Nat)
        /\ Len(first) = IF 1 <= n THEN n - 1 + 1 ELSE 0
        /\ \A i \in 1 .. n - 1 + 1 : first[i] = toWrite[1 + i - 1]
    BY <1>2, <2>1, SubSeqProperties
  <2> QED
    BY <1>2, <2>2
<1>5. /\ rest \in Seq(Nat) /\ Len(rest) = Len(toWrite) - n
      /\ \A i \in 1 .. Len(toWrite) - n : rest[i] = toWrite[n + i]
  <2>1. \A i \in n + 1 .. Len(toWrite) : toWrite[i] \in Nat
    BY <1>1, <1>2, <1>3
  <2>2. n + 1 \in Int /\ Len(toWrite) \in Int
    BY <1>1, <1>2
  <2>3. /\ rest \in Seq(Nat)
        /\ Len(rest) = IF n + 1 <= Len(toWrite) THEN Len(toWrite) - (n + 1) + 1 ELSE 0
        /\ \A i \in 1 .. Len(toWrite) - (n + 1) + 1 : rest[i] = toWrite[(n + 1) + i - 1]
    BY <2>1, <2>2, SubSeqProperties
  <2> QED
    BY <1>1, <1>2, <2>3
<1>6. first = [i \in 1 .. n |-> Len(delivered) + i - 1]
  <2>1. first \in [1 .. n -> Nat]
    BY <1>4, LenProperties
  <2>2. \A i \in 1 .. n : first[i] = Len(delivered) + i - 1
    BY <1>1, <1>2, <1>4
  <2> QED
    BY <2>1, <2>2
<1>7. delivered \o first \in Seq(Nat) /\ Len(delivered \o first) = Len(delivered) + n
  BY <1>1, <1>4, ConcatProperties
<1>8. \A i \in 1 .. Len(toWrite) - n : rest[i] = Len(delivered) + n + i - 1
  BY <1>1, <1>2, <1>5
<1> QED
  BY <1>5, <1>6, <1>7, <1>8

(* writeLoop passes on a prefix of what it has taken. *)
LEMMA WriteInv ==
  ASSUME DataInv, NEW n \in 1 .. Len(toWrite), Write(n)
  PROVE  DataInv'
<1>1. /\ TypeOK /\ SenderInv /\ ChannelInv /\ ReceiverInv /\ NoFalseAck
      /\ Len(toWrite) \in Nat /\ Len(delivered) \in Nat
  BY Parts
<1>2. /\ delivered' = delivered \o SubSeq(toWrite, 1, n)
      /\ toWrite' = SubSeq(toWrite, n + 1, Len(toWrite))
      /\ sent' = sent /\ sndNxt' = sndNxt /\ sndBuf' = sndBuf
      /\ net' = net /\ acks' = acks /\ rcvNxt' = rcvNxt /\ rcvBuf' = rcvBuf
  BY DEF Write, sender
<1>3. n \in Nat /\ n <= Len(toWrite)
  BY <1>1
<1>4. /\ delivered' \in Seq(Nat) /\ Len(delivered') = Len(delivered) + n
      /\ toWrite' \in Seq(Nat) /\ Len(toWrite') = Len(toWrite) - n
      /\ \A i \in 1 .. Len(toWrite) - n : toWrite'[i] = Len(delivered) + n + i - 1
  BY <1>2, Written
<1>5. rcvd' = rcvd
  BY <1>1, <1>3, <1>4 DEF rcvd
<1>6. \A c : Received(c)' <=> Received(c)
  BY <1>2, <1>5 DEF Received
<1>7. TypeOK'
  BY <1>1, <1>2, <1>4 DEF TypeOK
<1>8. SenderInv' /\ ChannelInv' /\ NoFalseAck'
  BY <1>1, <1>2, <1>6 DEF SenderInv, ChannelInv, NoFalseAck
<1>9. ReceiverInv'
  <2>1. Len(toWrite') <= RcvWindow + 1
    BY <1>1, <1>3, <1>4, Constants DEF ReceiverInv
  <2>2. \A i \in 1 .. Len(toWrite') : toWrite'[i] = Len(delivered') + i - 1
    BY <1>4
  <2> QED
    BY <1>1, <1>2, <1>5, <2>1, <2>2 DEF ReceiverInv, NoConfusion
<1> QED
  BY <1>7, <1>8, <1>9 DEF DataInv

------------------------------------------------------------------------------
(* NewARQ establishes the invariant. *)
LEMMA InitInv == Init => DataInv
<1> SUFFICES ASSUME Init PROVE DataInv
  OBVIOUS
<1>1. /\ sent = 0 /\ sndNxt = 0 /\ rcvNxt = 0 /\ net = {} /\ acks = {}
      /\ DOMAIN sndBuf = {} /\ DOMAIN rcvBuf = {} /\ toWrite = <<>> /\ delivered = <<>>
  BY DEF Init
<1>2. Len(toWrite) = 0 /\ Len(delivered) = 0 /\ toWrite \in Seq(Nat) /\ delivered \in Seq(Nat)
  BY <1>1, EmptySeq
<1>3. rcvd = 0
  BY <1>2 DEF rcvd
<1>4. 0 % SeqSpace = 0 /\ 0 \in SeqNums
  BY Constants DEF SeqNums
<1>5. Cardinality(DOMAIN sndBuf) = 0
  BY <1>1, FS_EmptySet
<1>6. TypeOK
  BY <1>1, <1>2, <1>4, Constants DEF TypeOK
<1>7. SenderInv /\ ChannelInv
  BY <1>1, <1>4, <1>5, Constants DEF SenderInv, ChannelInv
<1>8. ReceiverInv /\ NoFalseAck
  BY <1>1, <1>2, <1>3, <1>4, Constants DEF ReceiverInv, NoConfusion, NoFalseAck
<1> QED
  BY <1>6, <1>7, <1>8 DEF DataInv

(* Every step of either end or of the channel keeps the invariant. *)
LEMMA NextInv == DataInv /\ [Next]_vars => DataInv'
<1> SUFFICES ASSUME DataInv, [Next]_vars PROVE DataInv'
  OBVIOUS
<1>1. CASE ReadLocal
  BY <1>1, ReadLocalInv
<1>2. ASSUME NEW s \in SeqNums, Transmit(s) PROVE DataInv'
  BY <1>2, TransmitInv
<1>3. ASSUME NEW p \in net, Receive(p) PROVE DataInv'
  BY <1>3, ReceiveInv
<1>4. ASSUME NEW p \in net, Lose(p) PROVE DataInv'
  BY <1>4, LoseInv DEF Lose
<1>5. ASSUME NEW a \in acks, ReceiveAck(a) PROVE DataInv'
  BY <1>5, ReceiveAckInv
<1>6. ASSUME NEW a \in acks, LoseAck(a) PROVE DataInv'
  BY <1>6, LoseInv DEF LoseAck
<1>7. ASSUME NEW k \in 1 .. RcvWindow + 1, Take(k) PROVE DataInv'
  BY <1>7, TakeInv
<1>8. ASSUME NEW n \in 1 .. Len(toWrite), Write(n) PROVE DataInv'
  BY <1>8, WriteInv
<1>9. CASE UNCHANGED vars
  <2>1. net' = net /\ acks' = acks /\ UNCHANGED <<sender, receiver>>
    BY <1>9 DEF vars, sender, receiver
  <2> QED
    BY <2>1, LoseInv
<1> QED
  BY <1>1, <1>2, <1>3, <1>4, <1>5, <1>6, <1>7, <1>8, <1>9 DEF Next

(* The invariant that the properties below follow from. *)
THEOREM Inductive == Spec => []DataInv
BY InitInv, NextInv, PTL DEF Spec

(* The buffers and counters keep their types. *)
THEOREM TypeCorrect == Spec => []TypeOK
<1>1. DataInv => TypeOK
  BY DEF DataInv
<1> QED
  BY <1>1, Inductive, PTL

(* No chunk is forgotten by the sender before the receiver has it. *)
THEOREM AcksAreTrue == Spec => []NoFalseAck
<1>1. DataInv => NoFalseAck
  BY DEF DataInv
<1> QED
  BY <1>1, Inductive, PTL

(* A reused sequence number never stands for another chunk. *)
THEOREM NumbersAreUnambiguous == Spec => []NoConfusion
<1>1. DataInv => NoConfusion
  BY DEF DataInv, ReceiverInv
<1> QED
  BY <1>1, Inductive, PTL

(* The sender stays within the two windows of the receiver. *)
THEOREM SenderIsBounded == Spec => []FlowBound
<1>1. DataInv => FlowBound
  BY FlowLemma
<1> QED
  BY <1>1, Inductive, PTL

(* Every step of the data plane is a step of the reliable stream, or none. *)
LEMMA StepSimulation ==
  ASSUME DataInv, [Next]_vars
  PROVE  [Stream!Next]_<<sent, delivered>>
<1>1. /\ TypeOK /\ ReceiverInv /\ sent \in Nat
      /\ Len(toWrite) \in Nat /\ Len(delivered) \in Nat
      /\ sent <= rcvd + RcvWindow + 1 + Cardinality(DOMAIN sndBuf)
      /\ Cardinality(DOMAIN sndBuf) \in Nat
  BY Parts
<1>2. CASE ReadLocal
  <2>1. Cardinality(DOMAIN sndBuf) < Limit /\ sent' = sent + 1 /\ delivered' = delivered
    BY <1>2 DEF ReadLocal, WindowNotFull, receiver
  <2>2. Len(toWrite) <= RcvWindow + 1 /\ rcvd = Len(delivered) + Len(toWrite)
    BY <1>1 DEF ReceiverInv, rcvd
  <2>3. sent - Len(delivered) < 2 * (RcvWindow + 1) + Limit
    BY <1>1, <2>1, <2>2, Constants
  <2>4. Stream!Accept
    BY <2>1, <2>3 DEF Stream!Accept
  <2> QED
    BY <2>4 DEF Stream!Next
<1>3. ASSUME NEW n \in 1 .. Len(toWrite), Write(n)
      PROVE  Stream!Next
  <2>1. n \in 1 .. sent - Len(delivered)
    BY <1>1 DEF ReceiverInv, rcvd
  <2>2. delivered' = delivered \o [i \in 1 .. n |-> Len(delivered) + i - 1] /\ sent' = sent
    BY <1>3, Written DEF Write, sender
  <2>3. Stream!Deliver(n)
    BY <2>2 DEF Stream!Deliver
  <2> QED
    BY <2>1, <2>3 DEF Stream!Next
<1>4. ASSUME UNCHANGED <<sent, delivered>>
      PROVE  [Stream!Next]_<<sent, delivered>>
  BY <1>4
<1>5. CASE UNCHANGED vars
  BY <1>5 DEF vars
<1>6. ASSUME NEW s \in SeqNums, Transmit(s) PROVE UNCHANGED <<sent, delivered>>
  BY <1>6 DEF Transmit, sender, receiver
<1>7. ASSUME NEW p \in net, Receive(p) \/ Lose(p) PROVE UNCHANGED <<sent, delivered>>
  BY <1>7 DEF Receive, Lose, sender, receiver
<1>8. ASSUME NEW a \in acks, ReceiveAck(a) \/ LoseAck(a) PROVE UNCHANGED <<sent, delivered>>
  BY <1>8 DEF ReceiveAck, LoseAck, sender, receiver
<1>9. ASSUME NEW k \in 1 .. RcvWindow + 1, Take(k) PROVE UNCHANGED <<sent, delivered>>
  BY <1>9 DEF Take, sender
<1> QED
  BY <1>2, <1>3, <1>5, <1>6, <1>7, <1>8, <1>9 DEF Next

(* The data plane implements a reliable, ordered stream of bounded size:   *)
(* what the receiving application gets is, at every moment, exactly the    *)
(* first chunks the sending application wrote.                             *)
THEOREM Refinement == Spec => ImplementsStream
<1>1. Init => Stream!Init
  BY DEF Init, Stream!Init
<1>2. DataInv /\ [Next]_vars => [Stream!Next]_<<sent, delivered>>
  BY StepSimulation
<1> QED
  BY <1>1, <1>2, Inductive, PTL DEF Spec, ImplementsStream, Stream!Spec
=============================================================================
