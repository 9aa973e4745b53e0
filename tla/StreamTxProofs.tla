---------------------------- MODULE StreamTxProofs ----------------------------
(***************************************************************************)
(* What the sending side of a stream promises, proved for every number of  *)
(* workers and of chunks, every window and every limit on retries.         *)
(***************************************************************************)
EXTENDS StreamTx, Sequences, TLAPS

(* The lemmas proved of any queue value, for the queue of packets.         *)
QP == INSTANCE MultiLevelQueueProofs
  WITH Keys <- PacketKey, Items <- PacketKey, q <- txQueue

(* The keys that wait in a queue value. *)
Waiting(m) == DOMAIN m.census

Copies(sn) == {Data(sn), Resend(sn)}

(* A queue value whose census and summaries are exact, and in which no     *)
(* chunk waits twice.                                                      *)
Single(m) == \A sn \in Chunks : ~ (Copies(sn) \subseteq Waiting(m))

Sound(m) == QP!Exact(m) /\ Single(m)

------------------------------------------------------------------------------
(* Packets and numbers. *)

LEMMA PacketFacts ==
  /\ \A sn \in Chunks : Data(sn) \in PacketKey /\ Resend(sn) \in PacketKey
  /\ \A key \in PacketKey : /\ key.sn \in Chunks /\ key.kind \in {"data", "resend"}
                            /\ key.kind = "data" => key = Data(key.sn)
                            /\ key.kind = "resend" => key = Resend(key.sn)
  /\ \A s, t : Data(s) # Resend(t) /\ (Data(s) = Data(t) => s = t) /\ (Resend(s) = Resend(t) => s = t)
  /\ \A sn : /\ Data(sn).sn = sn /\ Resend(sn).sn = sn
             /\ Data(sn).kind = "data" /\ Resend(sn).kind = "resend"
<1>1. \A sn \in Chunks : Data(sn) \in PacketKey /\ Resend(sn) \in PacketKey
  BY DEF Data, Resend, PacketKey
<1>2. ASSUME NEW key \in PacketKey
      PROVE  /\ key.sn \in Chunks /\ key.kind \in {"data", "resend"}
             /\ key.kind = "data" => key = Data(key.sn)
             /\ key.kind = "resend" => key = Resend(key.sn)
  BY DEF Data, Resend, PacketKey
<1>3. \A s, t : Data(s) # Resend(t) /\ (Data(s) = Data(t) => s = t) /\ (Resend(s) = Resend(t) => s = t)
  BY DEF Data, Resend
<1>4. \A sn : /\ Data(sn).sn = sn /\ Resend(sn).sn = sn
              /\ Data(sn).kind = "data" /\ Resend(sn).kind = "resend"
  BY DEF Data, Resend
<1> QED
  BY <1>1, <1>2, <1>3, <1>4

LEMMA Numbers ==
  /\ MaxChunks \in Nat
  /\ \A sn \in Chunks : sn \in Nat /\ sn # 0 /\ sn <= MaxChunks
  /\ 0 \notin Chunks
BY ChunksAssumption DEF Chunks

------------------------------------------------------------------------------
(* The operations of the queue, by the keys that wait. *)

LEMMA SameQueue ==
  /\ \A m, key : Queue!Has(m, key) <=> key \in Waiting(m)
  /\ \A m, key : QP!Has(m, key) <=> key \in Waiting(m)
BY DEF Queue!Has, QP!Has, Waiting

LEMMA PushedTx ==
  ASSUME NEW m, QP!Exact(m), NEW priority \in Int, NEW key \in PacketKey, key \notin Waiting(m)
  PROVE  /\ QP!Exact(Queue!Pushed(m, priority, key, key))
         /\ Waiting(Queue!Pushed(m, priority, key, key)) = Waiting(m) \union {key}
<1>1. QP!Exact(QP!Pushed(m, priority, key, key))
  BY SameQueue, QP!PushedExact
<1>2. Queue!Pushed(m, priority, key, key) = QP!Pushed(m, priority, key, key)
  BY DEF Queue!Pushed, QP!Pushed, Queue!LevelOf, QP!LevelOf, Queue!Levels, QP!Levels,
         Queue!DefaultLevel, QP!DefaultLevel
<1> QED
  BY <1>1, <1>2 DEF Queue!Pushed, Waiting

LEMMA RemovedTx ==
  ASSUME NEW m, QP!Exact(m), NEW p \in QP!Levels, NEW i \in DOMAIN m.queues[p]
  PROVE  /\ QP!Exact(Queue!Without(m, p, i))
         /\ m.queues[p][i].key \in Waiting(m)
         /\ Waiting(Queue!Without(m, p, i)) = Waiting(m) \ {m.queues[p][i].key}
<1>1. QP!Exact(QP!Without(m, p, i))
  BY QP!WithoutExact
<1>2. Queue!Without(m, p, i) = QP!Without(m, p, i)
  BY DEF Queue!Without, QP!Without, Queue!RemoveAt, QP!RemoveAt, Queue!Restrict, QP!Restrict
<1>3. m.queues[p][i].key \in DOMAIN m.census
  BY DEF QP!Exact, QP!ExactCensus
<1>4. Waiting(Queue!Without(m, p, i)) = Waiting(m) \ {m.queues[p][i].key}
  BY DEF Queue!Without, Queue!Restrict, Waiting
<1> QED
  BY <1>1, <1>2, <1>3, <1>4 DEF Waiting

LEMMA WithoutKeyTx ==
  ASSUME NEW m, QP!Exact(m), NEW key \in Waiting(m)
  PROVE  /\ QP!Exact(Queue!WithoutKey(m, key))
         /\ Waiting(Queue!WithoutKey(m, key)) = Waiting(m) \ {key}
<1> DEFINE p == m.census[key]
           i == Queue!ElementOf(m, key)
<1>1. QP!WellFormed(m) /\ QP!ExactCensus(m)
  BY DEF QP!Exact
<1>2. p \in QP!Levels
  BY <1>1, QP!Fields DEF Waiting
<1>3. \E j \in DOMAIN m.queues[m.census[key]] : m.queues[m.census[key]][j].key = key
  BY <1>1 DEF QP!ExactCensus, Waiting
<1>4. i \in DOMAIN m.queues[p] /\ m.queues[p][i].key = key
  BY <1>3 DEF Queue!ElementOf
<1>5. Queue!WithoutKey(m, key) = Queue!Without(m, p, i)
  BY DEF Queue!WithoutKey
<1> HIDE DEF p, i
<1> QED
  BY <1>2, <1>4, <1>5, RemovedTx

LEMMA PoppedTx ==
  ASSUME NEW m, QP!Exact(m), Queue!Live(m) # {}
  PROVE  /\ QP!Exact(Queue!Popped(m))
         /\ Queue!NextKey(m) \in Waiting(m)
         /\ Waiting(Queue!Popped(m)) = Waiting(m) \ {Queue!NextKey(m)}
<1> DEFINE p == Queue!Min(Queue!Live(m))
<1>1. QP!WellFormed(m) /\ QP!ExactSummary(m)
  BY DEF QP!Exact
<1>2. Queue!Live(m) = QP!Live(m)
  BY DEF Queue!Live, QP!Live
<1>3. m.bitmask # {}
  BY DEF Queue!Live
<1>4. QP!Min(QP!Live(m)) \in m.bitmask /\ QP!Unmasked(m) = m
  BY <1>3, QP!UnmaskedExact
<1>5. Queue!Unmasked(m) = m
  BY <1>4 DEF Queue!Unmasked, QP!Unmasked, Queue!Live, QP!Live
<1>6. p \in m.bitmask
  BY <1>2, <1>4 DEF Queue!Min, QP!Min
<1>7. p \in QP!Levels /\ m.queues[p] # <<>>
  BY <1>1, <1>6, QP!Fields DEF QP!ExactSummary
<1>8. /\ m.queues[p] \in Seq(QP!Entry) /\ Len(m.queues[p]) \in Nat
      /\ DOMAIN m.queues[p] = 1 .. Len(m.queues[p]) /\ DOMAIN m.queues[p] # {}
  BY <1>1, <1>7, QP!Fields
<1>9. 1 \in DOMAIN m.queues[p]
  BY <1>8
<1>10. Queue!NextKey(m) = m.queues[p][1].key
  BY DEF Queue!NextKey
<1>11. Queue!Popped(m) = Queue!Without(m, p, 1)
  BY <1>5 DEF Queue!Popped
<1> HIDE DEF p
<1> QED
  BY <1>7, <1>9, <1>10, <1>11, RemovedTx

LEMMA EmptyTx ==
  QP!Exact(Queue!Empty) /\ Waiting(Queue!Empty) = {} /\ Queue!Live(Queue!Empty) = {}
<1>1. Queue!Empty = QP!Empty
  BY DEF Queue!Empty, QP!Empty, Queue!Levels, QP!Levels
<1>2. QP!Exact(QP!Empty)
  BY QP!EmptyExact
<1>3. Waiting(Queue!Empty) = {} /\ Queue!Live(Queue!Empty) = {}
  BY DEF Queue!Empty, Waiting, Queue!Live
<1> QED
  BY <1>1, <1>2, <1>3

------------------------------------------------------------------------------
(* The stream's own operations on its queue. *)

Waits(m, sn) == Data(sn) \in Waiting(m) \/ Resend(sn) \in Waiting(m)

LEMMA WaitingFacts ==
  ASSUME NEW m, QP!Exact(m)
  PROVE  Waiting(m) \subseteq PacketKey /\ \A key \in Waiting(m) : Waits(m, key.sn)
<1>1. QP!WellFormed(m)
  BY DEF QP!Exact
<1>2. DOMAIN m.census \subseteq PacketKey
  BY <1>1, QP!Fields
<1>3. ASSUME NEW key \in Waiting(m) PROVE Waits(m, key.sn)
  BY <1>2, <1>3, PacketFacts DEF Waiting, Waits
<1> QED
  BY <1>2, <1>3 DEF Waiting

LEMMA QueuedWaits ==
  /\ \A sn : Queued(sn) <=> Waits(txQueue, sn)
  /\ \A key : Accepts(key) <=> /\ ~ txClosed
                               /\ Resend(key.sn) \notin Waiting(txQueue)
                               /\ key.kind = "data" => Data(key.sn) \notin Waiting(txQueue)
BY SameQueue DEF Queued, Waits, Accepts

LEMMA EmptySound == Sound(Queue!Empty) /\ \A sn : ~ Waits(Queue!Empty, sn)
BY EmptyTx DEF Sound, Single, Copies, Waits

(* A push that is accepted leaves one copy of its chunk, and touches no    *)
(* other chunk.                                                            *)
LEMMA EnqueuedSound ==
  ASSUME Sound(txQueue), NEW key \in PacketKey, Accepts(key)
  PROVE  /\ Sound(Enqueued(key))
         /\ \A sn : Waits(Enqueued(key), sn) <=> Waits(txQueue, sn) \/ sn = key.sn
<1> DEFINE priority == DefaultPacketPriority(key.kind)
           pushed == Queue!Pushed(txQueue, priority, key, key)
           sn == key.sn
<1>1. priority \in Int
  BY DEF DefaultPacketPriority
<1>2. sn \in Chunks /\ (key = Data(sn) \/ key = Resend(sn))
  BY PacketFacts
<1>3. /\ Resend(sn) \notin Waiting(txQueue)
      /\ key.kind = "data" => Data(sn) \notin Waiting(txQueue)
  BY QueuedWaits
<1>4. key \notin Waiting(txQueue)
  BY <1>2, <1>3, PacketFacts
<1>5. QP!Exact(txQueue) /\ Single(txQueue)
  BY DEF Sound
<1>6. QP!Exact(pushed) /\ Waiting(pushed) = Waiting(txQueue) \union {key}
  BY <1>1, <1>4, <1>5, PushedTx
<1>7. Enqueued(key) = IF key.kind = "resend" /\ Data(sn) \in Waiting(pushed)
                      THEN Queue!WithoutKey(pushed, Data(sn)) ELSE pushed
  BY SameQueue DEF Enqueued
<1> HIDE DEF pushed, priority
<1>8. CASE key = Data(sn)
  <2>1. Enqueued(key) = pushed
    BY <1>7, <1>8, PacketFacts
  <2>2. Data(sn) \notin Waiting(txQueue)
    BY <1>3, <1>8, PacketFacts
  <2>3. Single(pushed)
    BY <1>3, <1>5, <1>6, <1>8, <2>2, PacketFacts DEF Single, Copies
  <2>4. \A t : Waits(pushed, t) <=> Waits(txQueue, t) \/ t = sn
    BY <1>6, <1>8, PacketFacts DEF Waits
  <2> QED
    BY <1>6, <2>1, <2>3, <2>4 DEF Sound
<1>9. CASE key = Resend(sn) /\ Data(sn) \in Waiting(pushed)
  <2> DEFINE next == Queue!WithoutKey(pushed, Data(sn))
  <2>1. Enqueued(key) = next
    BY <1>7, <1>9, PacketFacts
  <2>2. QP!Exact(next) /\ Waiting(next) = Waiting(pushed) \ {Data(sn)}
    BY <1>6, <1>9, WithoutKeyTx
  <2> HIDE DEF next
  <2>3. Single(next)
    BY <1>3, <1>5, <1>6, <1>9, <2>2, PacketFacts DEF Single, Copies
  <2>4. \A t : Waits(next, t) <=> Waits(txQueue, t) \/ t = sn
    BY <1>6, <1>9, <2>2, PacketFacts DEF Waits
  <2> QED
    BY <2>1, <2>2, <2>3, <2>4 DEF Sound
<1>10. CASE key = Resend(sn) /\ Data(sn) \notin Waiting(pushed)
  <2>1. Enqueued(key) = pushed
    BY <1>7, <1>10
  <2>2. Single(pushed)
    BY <1>3, <1>5, <1>6, <1>10, PacketFacts DEF Single, Copies
  <2>3. \A t : Waits(pushed, t) <=> Waits(txQueue, t) \/ t = sn
    BY <1>6, <1>10, PacketFacts DEF Waits
  <2> QED
    BY <1>6, <2>1, <2>2, <2>3 DEF Sound
<1> QED
  BY <1>2, <1>8, <1>9, <1>10

LEMMA DroppedTx ==
  ASSUME NEW m, QP!Exact(m), NEW key
  PROVE  LET n == IF Queue!Has(m, key) THEN Queue!WithoutKey(m, key) ELSE m
         IN QP!Exact(n) /\ Waiting(n) = Waiting(m) \ {key} /\ (key \notin Waiting(m) => n = m)
<1>1. CASE key \in Waiting(m)
  BY <1>1, SameQueue, WithoutKeyTx
<1>2. CASE key \notin Waiting(m)
  BY <1>2, SameQueue
<1> QED
  BY <1>1, <1>2

LEMMA WithoutCopiesSound ==
  ASSUME NEW m, Sound(m), NEW sn
  PROVE  /\ Sound(WithoutCopies(m, sn))
         /\ \A t : Waits(WithoutCopies(m, sn), t) <=> Waits(m, t) /\ t # sn
         /\ ~ Waits(m, sn) => WithoutCopies(m, sn) = m
<1> DEFINE Drop(n, key) == IF Queue!Has(n, key) THEN Queue!WithoutKey(n, key) ELSE n
           first == Drop(m, Data(sn))
           last == Drop(first, Resend(sn))
<1>1. QP!Exact(m) /\ Single(m)
  BY DEF Sound
<1>2. /\ QP!Exact(first) /\ Waiting(first) = Waiting(m) \ {Data(sn)}
      /\ Data(sn) \notin Waiting(m) => first = m
  BY <1>1, DroppedTx
<1> HIDE DEF first
<1>3. /\ QP!Exact(last) /\ Waiting(last) = Waiting(first) \ {Resend(sn)}
      /\ Resend(sn) \notin Waiting(first) => last = first
  BY <1>2, DroppedTx
<1>4. WithoutCopies(m, sn) = last
  BY DEF WithoutCopies, first
<1> HIDE DEF last
<1>5. Single(last)
  BY <1>1, <1>2, <1>3 DEF Single, Copies
<1>6. \A t : Waits(last, t) <=> Waits(m, t) /\ t # sn
  BY <1>2, <1>3, PacketFacts DEF Waits
<1>7. ~ Waits(m, sn) => last = m
  BY <1>2, <1>3 DEF Waits
<1> QED
  BY <1>3, <1>4, <1>5, <1>6, <1>7 DEF Sound

LEMMA WithoutAllCopiesSound ==
  ASSUME NEW m, Sound(m), NEW sns
  PROVE  /\ Sound(WithoutAllCopies(m, sns))
         /\ \A t : Waits(WithoutAllCopies(m, sns), t) => Waits(m, t)
         /\ m = Queue!Empty => WithoutAllCopies(m, sns) = m
<1> DEFINE Step(n, sn) == IF sn \in sns THEN WithoutCopies(n, sn) ELSE n
           Rec(f, n) == f = [sn \in 0 .. n |-> IF sn = 0 THEN m ELSE Step(f[sn - 1], sn)]
           without == CHOOSE f : Rec(f, MaxChunks)
<1>1. MaxChunks \in Nat
  BY Numbers
<1>2. WithoutAllCopies(m, sns) = without[MaxChunks]
  BY DEF WithoutAllCopies
<1> HIDE DEF Step
<1>3. \A n \in Nat : \E f : Rec(f, n)
  <2> DEFINE None == {n \in Nat : ~ \E f : Rec(f, n)}
  <2>1. ASSUME NEW n \in None, \A k \in None : n <= k PROVE FALSE
    <3>1. CASE n = 0
      <4> DEFINE f == [sn \in 0 .. 0 |-> m]
      <4>1. \A sn \in 0 .. 0 : sn = 0
        OBVIOUS
      <4>2. Rec(f, 0)
        BY <4>1
      <4> HIDE DEF f, Rec
      <4> QED
        BY <2>1, <3>1, <4>2
    <3>2. CASE n # 0
      <4>1. n \in Nat /\ n - 1 \in Nat /\ ~ (n <= n - 1)
        BY <3>2
      <4>2. PICK g : Rec(g, n - 1)
        BY <2>1, <4>1
      <4> DEFINE f == [sn \in 0 .. n |-> IF sn < n THEN g[sn] ELSE Step(g[sn - 1], sn)]
      <4>3. ASSUME NEW sn \in 0 .. n
            PROVE  f[sn] = IF sn = 0 THEN m ELSE Step(f[sn - 1], sn)
        <5>1. CASE sn = 0
          <6>1. 0 \in 0 .. n - 1 /\ sn < n /\ f[sn] = g[sn]
            BY <3>2, <4>1, <5>1
          <6>2. g[0] = m
            BY <4>2, <6>1
          <6> QED
            BY <5>1, <6>1, <6>2
        <5>2. CASE sn # 0 /\ sn < n
          <6>1. sn \in 0 .. n - 1 /\ sn - 1 \in 0 .. n /\ sn - 1 < n /\ sn - 1 \in 0 .. n - 1
            BY <4>1, <5>2
          <6>2. f[sn] = g[sn] /\ f[sn - 1] = g[sn - 1]
            BY <5>2, <6>1
          <6>3. g[sn] = Step(g[sn - 1], sn)
            BY <4>2, <5>2, <6>1
          <6> HIDE DEF f, Rec
          <6> QED
            BY <5>2, <6>2, <6>3
        <5>3. CASE sn = n
          <6>1. sn - 1 \in 0 .. n /\ sn - 1 < n /\ ~ (sn < n) /\ sn # 0
            BY <3>2, <4>1, <5>3
          <6>2. f[sn - 1] = g[sn - 1]
            BY <6>1
          <6>3. f[sn] = Step(g[sn - 1], sn)
            BY <6>1
          <6> HIDE DEF f, Rec
          <6> QED
            BY <6>1, <6>2, <6>3
        <5> QED
          BY <4>1, <5>1, <5>2, <5>3
      <4>4. f = [sn \in 0 .. n |-> f[sn]]
        OBVIOUS
      <4> HIDE DEF f
      <4>5. Rec(f, n)
        BY <4>3, <4>4
      <4> HIDE DEF Rec
      <4> QED
        BY <2>1, <4>5
    <3> QED
      BY <3>1, <3>2
  <2>2. None = {}
    <3>1. None \subseteq Nat
      OBVIOUS
    <3> HIDE DEF None
    <3> QED
      BY <2>1, <3>1, QP!MinOfNaturals
  <2> HIDE DEF Rec
  <2> QED
    BY <2>2
<1>4. Rec(without, MaxChunks)
  <2> HIDE DEF Rec
  <2> QED
    BY <1>1, <1>3
<1> HIDE DEF without
<1>5. without[0] = m /\ \A sn \in 1 .. MaxChunks : without[sn] = Step(without[sn - 1], sn)
  <2>1. 0 \in 0 .. MaxChunks /\ \A sn \in 1 .. MaxChunks : sn \in 0 .. MaxChunks /\ sn # 0
    BY <1>1
  <2>2. without[0] = m
    BY <1>4, <2>1
  <2>3. ASSUME NEW sn \in 1 .. MaxChunks PROVE without[sn] = Step(without[sn - 1], sn)
    BY <1>4, <2>1
  <2> QED
    BY <2>2, <2>3
<1> HIDE DEF Rec
<1> DEFINE Good(n) == /\ Sound(without[n])
                      /\ \A t : Waits(without[n], t) => Waits(m, t)
                      /\ m = Queue!Empty => without[n] = m
           Bad == {n \in 0 .. MaxChunks : ~ Good(n)}
<1>6. ASSUME NEW n \in Bad, \A k \in Bad : n <= k PROVE FALSE
  <2>1. n # 0
    BY <1>5, <1>6
  <2>2. n \in 1 .. MaxChunks /\ n - 1 \in 0 .. MaxChunks /\ ~ (n <= n - 1)
    BY <1>1, <2>1
  <2>3. Good(n - 1)
    BY <1>6, <2>2
  <2>4. without[n] = Step(without[n - 1], n)
    BY <1>5, <2>2
  <2>5. CASE n \notin sns
    <3>1. without[n] = without[n - 1]
      BY <2>4, <2>5 DEF Step
    <3> QED
      BY <1>6, <2>3, <3>1
  <2>6. CASE n \in sns
    <3>1. without[n] = WithoutCopies(without[n - 1], n)
      BY <2>4, <2>6 DEF Step
    <3>2. /\ Sound(without[n])
          /\ \A t : Waits(without[n], t) => Waits(without[n - 1], t)
          /\ ~ Waits(without[n - 1], n) => without[n] = without[n - 1]
      BY <2>3, <3>1, WithoutCopiesSound
    <3>3. m = Queue!Empty => ~ Waits(without[n - 1], n)
      BY <2>3, EmptySound
    <3>4. Good(n)
      BY <2>3, <3>2, <3>3
    <3> QED
      BY <1>6, <3>4
  <2> QED
    BY <2>5, <2>6
<1>7. Bad = {}
  <2>1. Bad \subseteq Nat
    OBVIOUS
  <2> HIDE DEF Bad
  <2> QED
    BY <1>6, <2>1, QP!MinOfNaturals
<1>8. Good(MaxChunks)
  BY <1>1, <1>7
<1> QED
  BY <1>2, <1>8

------------------------------------------------------------------------------
(* The inductive invariant. *)

ReaderSteps == {"idle", "reading", "pushing", "refused"}
WorkerSteps == {"idle", "popping", "noting", "checking"}
WorkerRecord == [at : WorkerSteps, sn : {0} \union Chunks, kind : {"none", "data", "resend"}]

TxTypes ==
  /\ sndBuf \in [DOMAIN sndBuf -> [dispatched : BOOLEAN, retries : Nat]]
  /\ DOMAIN sndBuf \subseteq Chunks
  /\ nextChunk \in Nat \ {0} /\ reader \in ReaderSteps
  /\ reader # "idle" => nextChunk \in Chunks
  /\ jobs \subseteq Chunks
  /\ settling \in {0} \union Chunks /\ nackFor \in {0} \union Chunks /\ ackFor \in {0} \union Chunks
  /\ worker \in [Workers -> WorkerRecord]
  /\ \A w \in Workers : worker[w].at \in {"noting", "checking"} => worker[w].sn \in Chunks
  /\ noted \in [Chunks -> Nat] /\ answered \subseteq Chunks

(* Only the reader touches the chunk it is at: whatever else is under way  *)
(* concerns chunks it has left behind.                                     *)
Behind ==
  /\ \A sn \in DOMAIN sndBuf :
       sn < nextChunk \/ (sn = nextChunk /\ reader \in {"pushing", "refused"})
  /\ \A sn \in Chunks : Waits(txQueue, sn) => sn < nextChunk
  /\ \A sn \in jobs : sn < nextChunk
  /\ settling < nextChunk /\ nackFor < nextChunk /\ ackFor < nextChunk
  /\ \A sn \in answered : sn < nextChunk
  /\ \A w \in Workers : worker[w].at \in {"noting", "checking"} => worker[w].sn < nextChunk

(* So its chunk is as it was made, and only a closed queue refuses it.     *)
Untouched ==
  /\ reader \in {"pushing", "refused"} /\ nextChunk \in DOMAIN sndBuf
       => sndBuf[nextChunk].dispatched = FALSE /\ sndBuf[nextChunk].retries = 0
  /\ reader = "refused" => txClosed

(* An acknowledged chunk never comes back, and the timer pushes a chunk    *)
(* once in a round.                                                        *)
Settled == ackFor \notin DOMAIN sndBuf /\ settling \notin jobs

(* A chunk that may be charged a retry, now or at the end of the push that *)
(* is under way, has left the queue once more than it has been charged.    *)
(* The marks a refused reader makes are not covered by a dequeue, but then *)
(* the queue is closed and no push succeeds.                               *)
Charged ==
  \A sn \in DOMAIN sndBuf :
    /\ sndBuf[sn].retries <= noted[sn]
    /\ settling = sn => sndBuf[sn].retries < noted[sn]
    /\ ~ txClosed /\ (sndBuf[sn].dispatched \/ sn \in jobs) => sndBuf[sn].retries < noted[sn]

InHand(sn) ==
  \/ reader \in {"pushing", "refused"} /\ sn = nextChunk
  \/ nackFor = sn
  \/ \E w \in Workers : worker[w].at = "noting" /\ worker[w].sn = sn

(* FirstCopy in the terms of the lemmas about the queue. *)
FirstKept ==
  Running => \A sn \in DOMAIN sndBuf :
    sndBuf[sn].retries = 0 /\ ~ sndBuf[sn].dispatched => Waits(txQueue, sn) \/ InHand(sn)

TxInv ==
  /\ TxTypes /\ Sound(txQueue) /\ Behind /\ Untouched /\ Settled
  /\ ClosedQueueEmpty /\ Charged /\ FirstKept

LEMMA TxInitInv == Init => TxInv
<1> SUFFICES ASSUME Init PROVE TxInv
  OBVIOUS
<1>1. TxTypes
  BY DEF Init, TxTypes, ReaderSteps, WorkerSteps, WorkerRecord, Idle
<1>2. Sound(txQueue) /\ \A sn \in Chunks : ~ Waits(txQueue, sn)
  BY EmptySound DEF Init
<1>3. Behind
  BY <1>2 DEF Init, Behind, Idle
<1>4. Untouched /\ Settled /\ ClosedQueueEmpty
  BY DEF Init, Untouched, Settled, ClosedQueueEmpty
<1>5. Charged /\ FirstKept
  BY DEF Init, Charged, FirstKept
<1> QED
  BY <1>1, <1>2, <1>3, <1>4, <1>5 DEF TxInv

------------------------------------------------------------------------------
(* The reader. *)

LEMMA ReaderLooks ==
  ASSUME TxInv, ReaderCheck \/ ReaderReturn
  PROVE  TxInv'
<1> USE DEF ReaderCheck, ReaderReturn, arq, queue, timer, handler, history
<1>1. TxTypes'
  BY DEF TxInv, TxTypes, ReaderSteps
<1>2. Sound(txQueue)'
  BY DEF TxInv
<1>3. Behind'
  BY DEF TxInv, Behind
<1>4. Untouched' /\ Settled'
  BY DEF TxInv, Untouched, Settled
<1>5. ClosedQueueEmpty'
  BY DEF TxInv, ClosedQueueEmpty
<1>6. Charged'
  BY DEF TxInv, Charged
<1>7. FirstKept'
  BY DEF TxInv, FirstKept, InHand, Running
<1> QED
  BY <1>1, <1>2, <1>3, <1>4, <1>5, <1>6, <1>7 DEF TxInv

LEMMA ReaderInserts ==
  ASSUME TxInv, ReaderInsert
  PROVE  TxInv'
<1> USE DEF ReaderInsert, queue, timer, handler, history
<1>1. nextChunk \in Chunks /\ nextChunk \in Nat
  BY DEF TxInv, TxTypes
<1>2. /\ DOMAIN sndBuf' = DOMAIN sndBuf \union {nextChunk}
      /\ sndBuf'[nextChunk] = [dispatched |-> FALSE, retries |-> 0]
      /\ \A sn \in DOMAIN sndBuf : sn # nextChunk => sndBuf'[sn] = sndBuf[sn]
      /\ sndBuf' = [sn \in DOMAIN sndBuf' |-> sndBuf'[sn]]
  OBVIOUS
<1>3. \A sn \in DOMAIN sndBuf : sn < nextChunk /\ sn # nextChunk
  BY Numbers DEF TxInv, Behind, TxTypes
<1>4. TxTypes'
  BY <1>1, <1>2 DEF TxInv, TxTypes, ReaderSteps
<1>5. Sound(txQueue)'
  BY DEF TxInv
<1>6. Behind'
  BY <1>2, <1>3 DEF TxInv, Behind
<1>7. Untouched'
  BY <1>2 DEF TxInv, Untouched
<1>8. ackFor # nextChunk /\ settling # nextChunk /\ nextChunk \notin jobs
  BY <1>1 DEF TxInv, Behind
<1>9. Settled'
  BY <1>2, <1>8 DEF TxInv, Settled
<1>10. ClosedQueueEmpty'
  BY DEF TxInv, ClosedQueueEmpty
<1>11. noted[nextChunk] \in Nat
  BY <1>1 DEF TxInv, TxTypes
<1>12. Charged'
  BY <1>2, <1>3, <1>8, <1>11 DEF TxInv, Charged
<1>13. FirstKept'
  BY <1>2, <1>3 DEF TxInv, FirstKept, InHand, Running
<1> QED
  BY <1>4, <1>5, <1>6, <1>7, <1>9, <1>10, <1>12, <1>13 DEF TxInv

LEMMA ReaderPushes ==
  ASSUME TxInv, ReaderPush
  PROVE  TxInv'
<1> USE DEF ReaderPush, arq, timer, handler, history
<1>1. nextChunk \in Chunks /\ nextChunk \in Nat
  BY DEF TxInv, TxTypes
<1>2. Data(nextChunk) \in PacketKey /\ Data(nextChunk).sn = nextChunk
  BY <1>1, PacketFacts
<1>3. CASE Accepts(Data(nextChunk))
  <2> DEFINE next == Enqueued(Data(nextChunk))
  <2>1. Sound(txQueue)
    BY DEF TxInv
  <2>2. Sound(next) /\ \A sn : Waits(next, sn) <=> Waits(txQueue, sn) \/ sn = nextChunk
    BY <1>2, <1>3, <2>1, EnqueuedSound
  <2>3. txQueue' = next /\ reader' = "idle" /\ nextChunk' = nextChunk + 1
    BY <1>3
  <2>4. ~ txClosed
    BY <1>3 DEF Accepts
  <2> HIDE DEF next
  <2>5. TxTypes'
    BY <2>3 DEF TxInv, TxTypes, ReaderSteps
  <2>6. Behind'
    <3>1. ASSUME NEW sn \in Chunks, Waits(next, sn) PROVE sn < nextChunk + 1
      <4>1. sn \in Nat
        BY Numbers
      <4>2. CASE sn = nextChunk
        BY <1>1, <4>2
      <4>3. CASE Waits(txQueue, sn)
        <5>1. sn < nextChunk
          BY <4>3 DEF TxInv, Behind
        <5> QED
          BY <1>1, <4>1, <5>1
      <4> QED
        BY <2>2, <3>1, <4>2, <4>3
    <3>2. \A sn \in Nat : sn < nextChunk \/ sn = nextChunk => sn < nextChunk + 1
      BY <1>1
    <3>3. \A sn \in DOMAIN sndBuf : sn < nextChunk + 1
      BY <3>2, Numbers DEF TxInv, Behind, TxTypes
    <3>4. /\ \A sn \in jobs \union answered : sn < nextChunk + 1
          /\ settling < nextChunk + 1 /\ nackFor < nextChunk + 1 /\ ackFor < nextChunk + 1
          /\ \A w \in Workers :
               worker[w].at \in {"noting", "checking"} => worker[w].sn < nextChunk + 1
      BY <3>2, Numbers DEF TxInv, Behind, TxTypes
    <3> QED
      BY <2>3, <3>1, <3>3, <3>4 DEF Behind
  <2>7. Untouched' /\ Settled'
    BY <2>3 DEF TxInv, Untouched, Settled
  <2>8. ClosedQueueEmpty'
    BY <2>4 DEF ClosedQueueEmpty
  <2>9. Charged'
    BY DEF TxInv, Charged
  <2>10. FirstKept'
    BY <2>2, <2>3 DEF TxInv, FirstKept, InHand, Running
  <2> QED
    BY <2>2, <2>3, <2>5, <2>6, <2>7, <2>8, <2>9, <2>10 DEF TxInv
<1>4. CASE ~ Accepts(Data(nextChunk))
  <2>1. ~ Waits(txQueue, nextChunk)
    BY <1>1 DEF TxInv, Behind
  <2>2. txClosed
    BY <1>2, <1>4, <2>1, QueuedWaits DEF Waits
  <2>3. UNCHANGED <<txQueue, nextChunk>> /\ reader' = "refused"
    BY <1>4
  <2>4. TxTypes'
    BY <2>3 DEF TxInv, TxTypes, ReaderSteps
  <2>5. Sound(txQueue)' /\ Behind'
    BY <2>3 DEF TxInv, Behind
  <2>6. Untouched' /\ Settled'
    BY <2>2, <2>3 DEF TxInv, Untouched, Settled
  <2>7. ClosedQueueEmpty' /\ Charged'
    BY <2>3 DEF TxInv, ClosedQueueEmpty, Charged
  <2>8. FirstKept'
    BY <2>2 DEF FirstKept, Running
  <2> QED
    BY <2>4, <2>5, <2>6, <2>7, <2>8 DEF TxInv
<1> QED
  BY <1>3, <1>4

LEMMA ReaderIsRefused ==
  ASSUME TxInv, ReaderRefused
  PROVE  TxInv'
<1> USE DEF ReaderRefused, queue, timer, handler, history
<1>1. nextChunk \in Chunks /\ nextChunk \in Nat /\ txClosed
  BY DEF TxInv, TxTypes, Untouched
<1>2. /\ DOMAIN sndBuf' = DOMAIN sndBuf
      /\ sndBuf' \in [DOMAIN sndBuf -> [dispatched : BOOLEAN, retries : Nat]]
      /\ \A sn \in DOMAIN sndBuf : sndBuf'[sn].retries = sndBuf[sn].retries
  BY DEF TxInv, TxTypes
<1>3. TxTypes'
  BY <1>1, <1>2 DEF TxInv, TxTypes, ReaderSteps
<1>4. Sound(txQueue)'
  BY DEF TxInv
<1>5. Behind'
  <2>1. \A sn \in Nat : sn < nextChunk \/ sn = nextChunk => sn < nextChunk + 1
    BY <1>1
  <2>2. /\ \A sn \in DOMAIN sndBuf : sn < nextChunk + 1
        /\ \A sn \in Chunks : Waits(txQueue, sn) => sn < nextChunk + 1
    BY <2>1, Numbers DEF TxInv, Behind, TxTypes
  <2>3. /\ \A sn \in jobs \union answered : sn < nextChunk + 1
        /\ settling < nextChunk + 1 /\ nackFor < nextChunk + 1 /\ ackFor < nextChunk + 1
        /\ \A w \in Workers :
             worker[w].at \in {"noting", "checking"} => worker[w].sn < nextChunk + 1
    BY <2>1, Numbers DEF TxInv, Behind, TxTypes
  <2> QED
    BY <1>2, <2>2, <2>3 DEF Behind
<1>6. Untouched' /\ Settled'
  BY <1>2 DEF TxInv, Untouched, Settled
<1>7. ClosedQueueEmpty'
  BY DEF TxInv, ClosedQueueEmpty
<1>8. Charged'
  BY <1>1, <1>2 DEF TxInv, Charged
<1>9. FirstKept'
  BY <1>1 DEF FirstKept, Running
<1> QED
  BY <1>3, <1>4, <1>5, <1>6, <1>7, <1>8, <1>9 DEF TxInv

------------------------------------------------------------------------------
(* The timer. *)

LEMMA ResetSentKeeps ==
  ASSUME TxInv, ResetSent
  PROVE  TxInv'
<1> USE DEF ResetSent, queue, timer, handler, history
<1>1. DOMAIN sndBuf' = {} /\ sndBuf' \in [DOMAIN sndBuf' -> [dispatched : BOOLEAN, retries : Nat]]
  OBVIOUS
<1>2. TxTypes'
  BY <1>1 DEF TxInv, TxTypes
<1>3. Sound(txQueue)'
  BY DEF TxInv
<1>4. Behind'
  BY <1>1 DEF TxInv, Behind
<1>5. Untouched' /\ Settled'
  BY <1>1 DEF TxInv, Untouched, Settled
<1>6. ClosedQueueEmpty'
  BY DEF TxInv, ClosedQueueEmpty
<1>7. Charged' /\ FirstKept'
  BY <1>1 DEF Charged, FirstKept
<1> QED
  BY <1>2, <1>3, <1>4, <1>5, <1>6, <1>7 DEF TxInv

LEMMA TimerCollects ==
  ASSUME TxInv, NEW due, TimerCollect(due)
  PROVE  TxInv'
<1> USE DEF TimerCollect, arq, queue, handler, history
<1>1. due \subseteq DOMAIN sndBuf /\ (\A sn \in due : sndBuf[sn].dispatched) /\ jobs' = due
  OBVIOUS
<1>2. TxTypes'
  BY <1>1 DEF TxInv, TxTypes
<1>3. Sound(txQueue)'
  BY DEF TxInv
<1>4. \A sn \in due : sn < nextChunk
  BY <1>1 DEF TxInv, Behind, Untouched
<1>5. Behind'
  BY <1>4 DEF TxInv, Behind
<1>6. settling \notin due
  BY <1>1, Numbers DEF TxInv, TxTypes
<1>7. Untouched' /\ Settled'
  BY <1>6 DEF TxInv, Untouched, Settled
<1>8. ClosedQueueEmpty'
  BY DEF TxInv, ClosedQueueEmpty
<1>9. Charged'
  BY <1>1 DEF TxInv, Charged
<1>10. FirstKept'
  BY DEF TxInv, FirstKept, InHand, Running
<1> QED
  BY <1>2, <1>3, <1>5, <1>7, <1>8, <1>9, <1>10 DEF TxInv

(* What every accepted push of a chunk the reader has left behind keeps.   *)
LEMMA PushKeeps ==
  ASSUME TxInv, NEW key \in PacketKey, key.sn < nextChunk, Accepts(key),
         txQueue' = Enqueued(key), UNCHANGED <<txClosed, nextChunk>>
  PROVE  /\ Sound(txQueue')
         /\ \A sn \in Chunks : Waits(txQueue', sn) => sn < nextChunk
         /\ \A sn : Waits(txQueue, sn) => Waits(txQueue', sn)
         /\ Waits(txQueue', key.sn)
         /\ ClosedQueueEmpty'
<1>1. Sound(txQueue)
  BY DEF TxInv
<1>2. /\ Sound(txQueue')
      /\ \A sn : Waits(txQueue', sn) <=> Waits(txQueue, sn) \/ sn = key.sn
  BY <1>1, EnqueuedSound
<1>3. \A sn \in Chunks : Waits(txQueue', sn) => sn < nextChunk
  BY <1>2 DEF TxInv, Behind
<1>4. ClosedQueueEmpty'
  BY DEF Accepts, ClosedQueueEmpty
<1> QED
  BY <1>2, <1>3, <1>4

LEMMA TimerPushes ==
  ASSUME TxInv, NEW sn \in Chunks, TimerPush(sn)
  PROVE  TxInv'
<1> DEFINE key == IF sn \in urgent THEN Resend(sn) ELSE Data(sn)
<1> USE DEF TimerPush, arq, handler, history
<1>1. key \in PacketKey /\ key.sn = sn
  BY PacketFacts
<1>2. sn < nextChunk /\ sn \in jobs /\ settling = 0 /\ sn # 0 /\ jobs' = jobs \ {sn}
  BY Numbers DEF TxInv, Behind
<1>3. /\ UNCHANGED <<sndBuf, closed, reset, txClosed, nextChunk, reader, nackFor, ackFor, worker>>
      /\ UNCHANGED <<noted, answered>>
  OBVIOUS
<1>4. IF Accepts(key) THEN txQueue' = Enqueued(key) /\ settling' = sn
      ELSE txQueue' = txQueue /\ settling' = settling
  OBVIOUS
<1> HIDE DEF key, TimerPush
<1>5. CASE Accepts(key)
  <2>1. txQueue' = Enqueued(key) /\ settling' = sn /\ ~ txClosed
    BY <1>4, <1>5 DEF Accepts
  <2>2. /\ Sound(txQueue')
        /\ \A t \in Chunks : Waits(txQueue', t) => t < nextChunk
        /\ \A t : Waits(txQueue, t) => Waits(txQueue', t)
        /\ ClosedQueueEmpty'
    BY <1>1, <1>2, <1>3, <1>5, <2>1, PushKeeps
  <2>3. TxTypes'
    BY <1>2, <1>3, <2>1 DEF TxInv, TxTypes
  <2>4. Behind'
    BY <1>2, <1>3, <2>1, <2>2 DEF TxInv, Behind
  <2>5. Untouched' /\ Settled'
    BY <1>2, <1>3, <2>1 DEF TxInv, Untouched, Settled
  <2>6. Charged'
    BY <1>2, <1>3, <2>1 DEF TxInv, Charged
  <2>7. FirstKept'
    BY <1>3, <2>2 DEF TxInv, FirstKept, InHand, Running
  <2> QED
    BY <2>2, <2>3, <2>4, <2>5, <2>6, <2>7 DEF TxInv
<1>6. CASE ~ Accepts(key)
  <2>1. UNCHANGED <<txQueue, settling>>
    BY <1>4, <1>6
  <2>2. TxTypes'
    BY <1>2, <1>3, <2>1 DEF TxInv, TxTypes
  <2>3. Sound(txQueue)' /\ Behind'
    BY <1>2, <1>3, <2>1 DEF TxInv, Behind
  <2>4. Untouched' /\ Settled'
    BY <1>2, <1>3, <2>1 DEF TxInv, Untouched, Settled
  <2>5. ClosedQueueEmpty' /\ Charged'
    BY <1>2, <1>3, <2>1 DEF TxInv, ClosedQueueEmpty, Charged
  <2>6. FirstKept'
    BY <1>3, <2>1 DEF TxInv, FirstKept, InHand, Running
  <2> QED
    BY <2>2, <2>3, <2>4, <2>5, <2>6 DEF TxInv
<1> QED
  BY <1>5, <1>6

LEMMA TimerSettles ==
  ASSUME TxInv, TimerSettle
  PROVE  TxInv'
<1> USE DEF TimerSettle, queue, handler, history
<1>1. settling \in Chunks /\ settling < nextChunk /\ settling # nextChunk /\ settling \notin jobs
  BY DEF TxInv, TxTypes, Behind, Settled
<1>2. /\ DOMAIN sndBuf' = DOMAIN sndBuf
      /\ \A sn \in DOMAIN sndBuf : sn # settling => sndBuf'[sn] = sndBuf[sn]
  OBVIOUS
<1>3. settling \in DOMAIN sndBuf =>
        /\ sndBuf[settling].retries \in Nat
        /\ sndBuf'[settling].dispatched = FALSE
        /\ sndBuf'[settling].retries = sndBuf[settling].retries + 1
  BY DEF TxInv, TxTypes
<1>4. sndBuf' \in [DOMAIN sndBuf -> [dispatched : BOOLEAN, retries : Nat]]
  <2>1. CASE settling \notin DOMAIN sndBuf
    BY <2>1 DEF TxInv, TxTypes
  <2>2. CASE settling \in DOMAIN sndBuf
    <3>1. sndBuf[settling] \in [dispatched : BOOLEAN, retries : Nat]
      BY <2>2 DEF TxInv, TxTypes
    <3>2. sndBuf'[settling] = [dispatched |-> FALSE, retries |-> sndBuf[settling].retries + 1]
      BY <2>2
    <3>3. sndBuf'[settling] \in [dispatched : BOOLEAN, retries : Nat]
      BY <3>1, <3>2
    <3>4. sndBuf' = [sn \in DOMAIN sndBuf |-> sndBuf'[sn]]
      BY <2>2
    <3>5. \A sn \in DOMAIN sndBuf : sndBuf'[sn] \in [dispatched : BOOLEAN, retries : Nat]
      BY <1>2, <3>3 DEF TxInv, TxTypes
    <3> QED
      BY <3>4, <3>5
  <2> QED
    BY <2>1, <2>2
<1>5. settling' = 0 /\ 0 \notin DOMAIN sndBuf /\ 0 \notin jobs /\ 0 < nextChunk
  BY Numbers DEF TxInv, TxTypes
<1>6. UNCHANGED <<reset, closed, txQueue, txClosed, nextChunk, reader, jobs, nackFor, ackFor,
                  worker, noted, answered>>
  OBVIOUS
<1> HIDE DEF TimerSettle
<1>7. TxTypes'
  BY <1>2, <1>4, <1>5, <1>6 DEF TxInv, TxTypes
<1>8. Sound(txQueue)'
  BY <1>6 DEF TxInv
<1>9. Behind'
  BY <1>2, <1>5, <1>6 DEF TxInv, Behind
<1>10. Untouched' /\ Settled'
  BY <1>1, <1>2, <1>5, <1>6 DEF TxInv, Untouched, Settled
<1>11. ClosedQueueEmpty'
  BY <1>6 DEF TxInv, ClosedQueueEmpty
<1>12. Charged'
  <2> SUFFICES ASSUME NEW sn \in DOMAIN sndBuf
               PROVE  /\ sndBuf'[sn].retries <= noted[sn]
                      /\ sn # 0
                      /\ ~ txClosed /\ (sndBuf'[sn].dispatched \/ sn \in jobs)
                           => sndBuf'[sn].retries < noted[sn]
    BY <1>2, <1>5, <1>6 DEF Charged
  <2>1. CASE sn = settling
    <3>1. sndBuf[sn].retries < noted[sn] /\ noted[sn] \in Nat
      BY <1>1, <2>1 DEF TxInv, Charged, TxTypes
    <3> QED
      BY <1>1, <1>3, <1>5, <2>1, <3>1
  <2>2. CASE sn # settling
    BY <1>2, <1>5, <2>2 DEF TxInv, Charged
  <2> QED
    BY <2>1, <2>2
<1>13. FirstKept'
  <2> SUFFICES ASSUME Running, NEW sn \in DOMAIN sndBuf,
                      sndBuf'[sn].retries = 0, ~ sndBuf'[sn].dispatched
               PROVE  Waits(txQueue, sn) \/ InHand(sn)
    BY <1>2, <1>6 DEF FirstKept, Running, InHand
  <2>1. sn # settling
    BY <1>3
  <2> QED
    BY <1>2, <2>1 DEF TxInv, FirstKept
<1> QED
  BY <1>7, <1>8, <1>9, <1>10, <1>11, <1>12, <1>13 DEF TxInv

------------------------------------------------------------------------------
(* The handlers of a NACK and of an ACK. *)

LEMMA NackReceives ==
  ASSUME TxInv, NEW sn \in Chunks, NackReceive(sn)
  PROVE  TxInv'
<1> USE DEF NackReceive, arq, queue, timer, history
<1>1. sn < nextChunk
  <2>1. PICK t \in answered : t > sn
    OBVIOUS
  <2>2. t < nextChunk /\ t \in Nat /\ sn \in Nat /\ nextChunk \in Nat
    BY <2>1, Numbers DEF TxInv, Behind, TxTypes
  <2> QED
    BY <2>1, <2>2
<1>2. TxTypes'
  BY DEF TxInv, TxTypes
<1>3. Sound(txQueue)'
  BY DEF TxInv
<1>4. Behind'
  BY <1>1 DEF TxInv, Behind
<1>5. Untouched' /\ Settled'
  BY DEF TxInv, Untouched, Settled
<1>6. ClosedQueueEmpty' /\ Charged'
  BY DEF TxInv, ClosedQueueEmpty, Charged
<1>7. FirstKept'
  <2>1. nackFor \notin DOMAIN sndBuf
    BY Numbers DEF TxInv, TxTypes
  <2> QED
    BY <2>1 DEF TxInv, FirstKept, InHand, Running
<1> QED
  BY <1>2, <1>3, <1>4, <1>5, <1>6, <1>7 DEF TxInv

LEMMA NackPushes ==
  ASSUME TxInv, NackPush
  PROVE  TxInv'
<1> DEFINE key == Resend(nackFor)
<1>1. nackFor \in Chunks /\ nackFor < nextChunk
  BY DEF NackPush, TxInv, TxTypes, Behind
<1>2. key \in PacketKey /\ key.sn = nackFor /\ key.kind = "resend"
  BY <1>1, PacketFacts
<1>3. /\ UNCHANGED <<sndBuf, closed, reset, txClosed, nextChunk, reader, jobs, settling, ackFor>>
      /\ UNCHANGED <<worker, noted, answered>>
      /\ nackFor' = 0
      /\ txQueue' = IF Accepts(key) THEN Enqueued(key) ELSE txQueue
  BY DEF NackPush, arq, timer, history
<1>4. /\ Sound(txQueue')
      /\ \A t \in Chunks : Waits(txQueue', t) => t < nextChunk
      /\ \A t : Waits(txQueue, t) => Waits(txQueue', t)
      /\ ~ txClosed => Waits(txQueue', nackFor)
      /\ ClosedQueueEmpty'
  <2>1. CASE Accepts(key)
    <3>1. txQueue' = Enqueued(key)
      BY <1>3, <2>1
    <3> HIDE DEF key
    <3> QED
      BY <1>1, <1>2, <1>3, <2>1, <3>1, PushKeeps
  <2>2. CASE ~ Accepts(key)
    <3>1. txQueue' = txQueue
      BY <1>3, <2>2
    <3>2. txClosed \/ Resend(key.sn) \in Waiting(txQueue)
      BY <1>2, <2>2, QueuedWaits
    <3>3. ~ txClosed => Waits(txQueue, nackFor)
      BY <1>2, <3>2 DEF Waits
    <3> QED
      BY <1>3, <3>1, <3>3 DEF TxInv, Behind, ClosedQueueEmpty
  <2> QED
    BY <2>1, <2>2
<1> HIDE DEF key
<1>5. TxTypes'
  BY <1>3 DEF TxInv, TxTypes
<1>6. Behind'
  <2>1. 0 < nextChunk
    BY DEF TxInv, TxTypes
  <2> QED
    BY <1>3, <1>4, <2>1 DEF TxInv, Behind
<1>7. Untouched' /\ Settled'
  BY <1>3 DEF TxInv, Untouched, Settled
<1>8. Charged'
  BY <1>3 DEF TxInv, Charged
<1>9. FirstKept'
  BY <1>3, <1>4 DEF TxInv, FirstKept, InHand, Running
<1> QED
  BY <1>4, <1>5, <1>6, <1>7, <1>8, <1>9 DEF TxInv

LEMMA AckReceives ==
  ASSUME TxInv, NEW sn \in Chunks, AckReceive(sn)
  PROVE  TxInv'
<1> USE DEF AckReceive, queue, timer, history
<1>1. sn \in answered /\ sn < nextChunk
  BY DEF TxInv, Behind
<1>2. /\ DOMAIN sndBuf' = DOMAIN sndBuf \ {sn}
      /\ \A t \in DOMAIN sndBuf' : sndBuf'[t] = sndBuf[t]
      /\ sndBuf' = [t \in DOMAIN sndBuf' |-> sndBuf[t]]
  OBVIOUS
<1>3. UNCHANGED <<reset, closed, txQueue, txClosed, nextChunk, reader, jobs, settling, nackFor,
                  worker, noted, answered>> /\ ackFor' = sn
  OBVIOUS
<1> HIDE DEF AckReceive
<1>4. TxTypes'
  BY <1>2, <1>3 DEF TxInv, TxTypes
<1>5. Sound(txQueue)'
  BY <1>3 DEF TxInv
<1>6. Behind'
  BY <1>1, <1>2, <1>3 DEF TxInv, Behind
<1>7. Untouched' /\ Settled'
  BY <1>2, <1>3 DEF TxInv, Untouched, Settled
<1>8. ClosedQueueEmpty'
  BY <1>3 DEF TxInv, ClosedQueueEmpty
<1>9. Charged'
  BY <1>2, <1>3 DEF TxInv, Charged
<1>10. FirstKept'
  BY <1>2, <1>3 DEF TxInv, FirstKept, InHand, Running
<1> QED
  BY <1>4, <1>5, <1>6, <1>7, <1>8, <1>9, <1>10 DEF TxInv

LEMMA AckRemoves ==
  ASSUME TxInv, AckRemove
  PROVE  TxInv'
<1>1. /\ UNCHANGED <<sndBuf, closed, reset, txClosed, nextChunk, reader, jobs, settling, nackFor>>
      /\ UNCHANGED <<worker, noted, answered>>
      /\ ackFor' = 0 /\ txQueue' = WithoutCopies(txQueue, ackFor)
  BY DEF AckRemove, arq, timer, history
<1>2. Sound(txQueue)
  BY DEF TxInv
<1>3. /\ Sound(txQueue')
      /\ \A t : Waits(txQueue', t) <=> Waits(txQueue, t) /\ t # ackFor
      /\ ~ Waits(txQueue, ackFor) => txQueue' = txQueue
  BY <1>1, <1>2, WithoutCopiesSound
<1>4. 0 < nextChunk /\ 0 \notin DOMAIN sndBuf
  BY Numbers DEF TxInv, TxTypes
<1>5. TxTypes'
  BY <1>1 DEF TxInv, TxTypes
<1>6. Behind'
  BY <1>1, <1>3, <1>4 DEF TxInv, Behind
<1>7. Untouched' /\ Settled'
  BY <1>1, <1>4 DEF TxInv, Untouched, Settled
<1>8. ClosedQueueEmpty'
  <2>1. txClosed => ~ Waits(txQueue, ackFor)
    BY EmptySound DEF TxInv, ClosedQueueEmpty
  <2> QED
    BY <1>1, <1>3, <2>1 DEF TxInv, ClosedQueueEmpty
<1>9. Charged'
  BY <1>1 DEF TxInv, Charged
<1>10. FirstKept'
  <2>1. \A t \in DOMAIN sndBuf : t # ackFor
    BY DEF TxInv, Settled
  <2> QED
    BY <1>1, <1>3, <2>1 DEF TxInv, FirstKept, InHand, Running
<1> QED
  BY <1>3, <1>5, <1>6, <1>7, <1>8, <1>9, <1>10 DEF TxInv

------------------------------------------------------------------------------
(* The workers. *)

(* The end of the queue: nothing waits, and nothing will.                  *)
LEMMA ClearKeeps ==
  ASSUME TxInv, ClearTXQueue,
         UNCHANGED <<sndBuf, closed, reset, nextChunk, reader, jobs, settling, nackFor, ackFor>>,
         UNCHANGED <<worker, noted, answered>>
  PROVE  TxInv'
<1>1. txClosed' = TRUE /\ txQueue' = Queue!Empty
  BY DEF ClearTXQueue
<1>2. Sound(txQueue') /\ \A t : ~ Waits(txQueue', t)
  BY <1>1, EmptySound
<1>3. TxTypes'
  BY DEF TxInv, TxTypes
<1>4. Behind'
  BY <1>2 DEF TxInv, Behind
<1>5. Untouched' /\ Settled'
  BY <1>1 DEF TxInv, Untouched, Settled
<1>6. ClosedQueueEmpty'
  BY <1>1 DEF ClosedQueueEmpty
<1>7. Charged'
  BY <1>1 DEF TxInv, Charged
<1>8. FirstKept'
  BY <1>1 DEF FirstKept, Running
<1> QED
  BY <1>2, <1>3, <1>4, <1>5, <1>6, <1>7, <1>8 DEF TxInv

LEMMA WorkerLooks ==
  ASSUME TxInv, NEW w \in Workers, WorkerLook(w)
  PROVE  TxInv'
<1>1. /\ UNCHANGED <<sndBuf, closed, reset, txQueue, txClosed, nextChunk, reader, jobs, settling>>
      /\ UNCHANGED <<nackFor, ackFor, noted, answered>>
      /\ worker[w] = Idle
      /\ worker' = [worker EXCEPT ![w] = [at |-> "popping", sn |-> 0, kind |-> "none"]]
  BY DEF WorkerLook, Moved, arq, queue, timer, handler, history
<1>2. worker \in [Workers -> WorkerRecord] /\ worker[w].at = "idle"
  BY <1>1 DEF TxInv, TxTypes, Idle
<1>3. /\ worker'[w].at = "popping"
      /\ \A v \in Workers : v # w => worker'[v] = worker[v]
      /\ worker' \in [Workers -> WorkerRecord]
  BY <1>1, <1>2 DEF WorkerRecord, WorkerSteps
<1>4. TxTypes'
  BY <1>1, <1>3 DEF TxInv, TxTypes
<1>5. Sound(txQueue)'
  BY <1>1 DEF TxInv
<1>6. Behind'
  BY <1>1, <1>3 DEF TxInv, Behind
<1>7. Untouched' /\ Settled'
  BY <1>1 DEF TxInv, Untouched, Settled
<1>8. ClosedQueueEmpty' /\ Charged'
  BY <1>1 DEF TxInv, ClosedQueueEmpty, Charged
<1>9. \A sn : InHand(sn) => InHand(sn)'
  BY <1>1, <1>2, <1>3 DEF InHand
<1>10. FirstKept'
  BY <1>1, <1>9 DEF TxInv, FirstKept, Running
<1> QED
  BY <1>4, <1>5, <1>6, <1>7, <1>8, <1>10 DEF TxInv

LEMMA WorkerPops ==
  ASSUME TxInv, NEW w \in Workers, WorkerPop(w)
  PROVE  TxInv'
<1>1. /\ UNCHANGED <<sndBuf, closed, reset, txClosed, nextChunk, reader, jobs, settling>>
      /\ UNCHANGED <<nackFor, ackFor, noted, answered>>
      /\ worker[w].at = "popping"
  BY DEF WorkerPop, arq, timer, handler, history
<1>2. worker \in [Workers -> WorkerRecord]
  BY DEF TxInv, TxTypes
<1>3. CASE Queue!Live(txQueue) = {}
  <2>1. worker' = [worker EXCEPT ![w] = Idle] /\ txQueue' = txQueue
    BY <1>3 DEF WorkerPop
  <2>2. /\ worker'[w].at = "idle"
        /\ \A v \in Workers : v # w => worker'[v] = worker[v]
        /\ worker' \in [Workers -> WorkerRecord]
    BY <1>2, <2>1 DEF WorkerRecord, WorkerSteps, Idle
  <2>3. TxTypes'
    BY <1>1, <2>2 DEF TxInv, TxTypes
  <2>4. Sound(txQueue)'
    BY <2>1 DEF TxInv
  <2>5. Behind'
    BY <1>1, <2>1, <2>2 DEF TxInv, Behind
  <2>6. Untouched' /\ Settled'
    BY <1>1 DEF TxInv, Untouched, Settled
  <2>7. ClosedQueueEmpty' /\ Charged'
    BY <1>1, <2>1 DEF TxInv, ClosedQueueEmpty, Charged
  <2>8. \A sn : InHand(sn) => InHand(sn)'
    BY <1>1, <2>2 DEF InHand
  <2>9. FirstKept'
    BY <1>1, <2>1, <2>8 DEF TxInv, FirstKept, Running
  <2> QED
    BY <2>3, <2>4, <2>5, <2>6, <2>7, <2>9 DEF TxInv
<1>4. CASE Queue!Live(txQueue) # {}
  <2> DEFINE key == Queue!NextKey(txQueue)
  <2>1. /\ txQueue' = Queue!Popped(txQueue)
        /\ worker' = [worker EXCEPT ![w] = [at |-> "noting", sn |-> key.sn, kind |-> key.kind]]
    BY <1>4 DEF WorkerPop, Moved
  <2>2. QP!Exact(txQueue) /\ Single(txQueue)
    BY DEF TxInv, Sound
  <2>3. /\ QP!Exact(txQueue') /\ key \in Waiting(txQueue)
        /\ Waiting(txQueue') = Waiting(txQueue) \ {key}
    BY <1>4, <2>1, <2>2, PoppedTx
  <2>4. key \in PacketKey /\ key.sn \in Chunks /\ Waits(txQueue, key.sn)
    BY <2>2, <2>3, WaitingFacts, PacketFacts
  <2> HIDE DEF key
  <2>5. Sound(txQueue')
    BY <2>2, <2>3 DEF Sound, Single
  <2>6. \A sn : Waits(txQueue, sn) => Waits(txQueue', sn) \/ sn = key.sn
    BY <2>3, <2>4, PacketFacts DEF Waits
  <2>7. \A sn : Waits(txQueue', sn) => Waits(txQueue, sn)
    BY <2>3 DEF Waits
  <2>8. key.sn < nextChunk
    BY <2>4 DEF TxInv, Behind
  <2>9. /\ worker'[w].at = "noting" /\ worker'[w].sn = key.sn
        /\ \A v \in Workers : v # w => worker'[v] = worker[v]
        /\ worker' \in [Workers -> WorkerRecord]
    <3>1. key.kind \in {"none", "data", "resend"}
      BY <2>4, PacketFacts
    <3> QED
      BY <1>2, <2>1, <2>4, <3>1 DEF WorkerRecord, WorkerSteps
  <2>10. ~ txClosed
    BY <1>4, EmptyTx DEF TxInv, ClosedQueueEmpty
  <2>11. TxTypes'
    BY <1>1, <2>4, <2>9 DEF TxInv, TxTypes
  <2>12. Behind'
    BY <1>1, <2>7, <2>8, <2>9 DEF TxInv, Behind
  <2>13. Untouched' /\ Settled'
    BY <1>1 DEF TxInv, Untouched, Settled
  <2>14. ClosedQueueEmpty'
    BY <1>1, <2>10 DEF ClosedQueueEmpty
  <2>15. Charged'
    BY <1>1 DEF TxInv, Charged
  <2>16. \A sn : InHand(sn) => InHand(sn)'
    BY <1>1, <2>9 DEF InHand
  <2>17. ASSUME NEW sn, sn = key.sn PROVE InHand(sn)'
    BY <2>9, <2>17 DEF InHand
  <2>18. FirstKept'
    BY <1>1, <2>6, <2>16, <2>17 DEF TxInv, FirstKept, Running
  <2> QED
    BY <2>5, <2>11, <2>12, <2>13, <2>14, <2>15, <2>18 DEF TxInv
<1> QED
  BY <1>3, <1>4

LEMMA WorkerNotes ==
  ASSUME TxInv, NEW w \in Workers, WorkerNote(w)
  PROVE  TxInv'
<1> DEFINE sn == worker[w].sn
<1>1. /\ UNCHANGED <<closed, reset, txQueue, txClosed, nextChunk, reader, jobs, settling>>
      /\ UNCHANGED <<nackFor, ackFor, answered>>
      /\ worker[w].at = "noting"
      /\ sndBuf' = IF sn \in DOMAIN sndBuf THEN [sndBuf EXCEPT ![sn].dispatched = TRUE] ELSE sndBuf
      /\ noted' = [noted EXCEPT ![sn] = @ + 1]
      /\ worker' = [worker EXCEPT ![w] = [at |-> "checking", sn |-> sn, kind |-> worker[w].kind]]
  BY DEF WorkerNote, Moved, arq, queue, timer, handler, history
<1>2. /\ worker \in [Workers -> WorkerRecord] /\ noted \in [Chunks -> Nat]
      /\ sn \in Chunks /\ sn < nextChunk /\ sn # nextChunk
      /\ worker[w].kind \in {"none", "data", "resend"}
  <2>1. worker \in [Workers -> WorkerRecord] /\ noted \in [Chunks -> Nat]
        /\ sn \in Chunks /\ nextChunk \in Nat
    BY <1>1 DEF TxInv, TxTypes
  <2>2. sn < nextChunk
    BY <1>1 DEF TxInv, Behind
  <2>3. worker[w].kind \in {"none", "data", "resend"}
    BY <2>1 DEF WorkerRecord
  <2> QED
    BY <2>1, <2>2, <2>3, Numbers
<1>3. /\ DOMAIN sndBuf' = DOMAIN sndBuf
      /\ sndBuf' \in [DOMAIN sndBuf -> [dispatched : BOOLEAN, retries : Nat]]
      /\ \A t \in DOMAIN sndBuf :
           /\ sndBuf'[t].retries = sndBuf[t].retries
           /\ t # sn => sndBuf'[t] = sndBuf[t]
           /\ t = sn => sndBuf'[t].dispatched
  BY <1>1 DEF TxInv, TxTypes
<1>4. /\ noted' \in [Chunks -> Nat]
      /\ noted'[sn] = noted[sn] + 1 /\ noted[sn] \in Nat
      /\ \A t \in Chunks : t # sn => noted'[t] = noted[t]
  BY <1>1, <1>2
<1>5. /\ worker'[w].at = "checking" /\ worker'[w].sn = sn
      /\ \A v \in Workers : v # w => worker'[v] = worker[v]
      /\ worker' \in [Workers -> WorkerRecord]
  BY <1>1, <1>2 DEF WorkerRecord, WorkerSteps
<1>6. sn = worker[w].sn
  OBVIOUS
<1> HIDE DEF sn
<1>7. TxTypes'
  BY <1>1, <1>2, <1>3, <1>4, <1>5 DEF TxInv, TxTypes
<1>8. Sound(txQueue)'
  BY <1>1 DEF TxInv
<1>9. Behind'
  BY <1>1, <1>2, <1>3, <1>5 DEF TxInv, Behind
<1>10. Untouched' /\ Settled'
  BY <1>1, <1>2, <1>3 DEF TxInv, Untouched, Settled
<1>11. ClosedQueueEmpty'
  BY <1>1 DEF TxInv, ClosedQueueEmpty
<1>12. Charged'
  <2> SUFFICES ASSUME NEW t \in DOMAIN sndBuf
               PROVE  /\ sndBuf'[t].retries <= noted'[t]
                      /\ settling = t => sndBuf'[t].retries < noted'[t]
                      /\ ~ txClosed /\ (sndBuf'[t].dispatched \/ t \in jobs)
                           => sndBuf'[t].retries < noted'[t]
    BY <1>1, <1>3 DEF Charged
  <2>1. t \in Chunks /\ sndBuf'[t].retries = sndBuf[t].retries /\ sndBuf[t].retries \in Nat
    BY <1>3 DEF TxInv, TxTypes
  <2>2. CASE t = sn
    <3>1. sndBuf[t].retries <= noted[t]
      BY DEF TxInv, Charged
    <3> QED
      BY <1>4, <2>1, <2>2, <3>1
  <2>3. CASE t # sn
    BY <1>3, <1>4, <2>1, <2>3 DEF TxInv, Charged
  <2> QED
    BY <2>2, <2>3
<1>13. FirstKept'
  <2> SUFFICES ASSUME Running, NEW t \in DOMAIN sndBuf,
                      sndBuf'[t].retries = 0, ~ sndBuf'[t].dispatched
               PROVE  Waits(txQueue, t) \/ InHand(t)'
    BY <1>1, <1>3 DEF FirstKept, Running
  <2>1. t # sn
    BY <1>3
  <2>2. Waits(txQueue, t) \/ InHand(t)
    BY <1>3, <2>1 DEF TxInv, FirstKept
  <2>3. InHand(t) => InHand(t)'
    BY <1>1, <1>5, <1>6, <2>1 DEF InHand
  <2> QED
    BY <2>2, <2>3
<1> QED
  BY <1>7, <1>8, <1>9, <1>10, <1>11, <1>12, <1>13 DEF TxInv

LEMMA WorkerChecks ==
  ASSUME TxInv, NEW w \in Workers, WorkerCheck(w)
  PROVE  TxInv'
<1>1. /\ UNCHANGED <<sndBuf, closed, reset, txQueue, txClosed, nextChunk, reader, jobs, settling>>
      /\ UNCHANGED <<nackFor, ackFor, noted>>
      /\ worker[w].at = "checking"
      /\ answered' \subseteq answered \union {worker[w].sn}
      /\ worker' = [worker EXCEPT ![w] = Idle]
  BY DEF WorkerCheck, arq, queue, timer, handler
<1>2. worker \in [Workers -> WorkerRecord] /\ worker[w].sn \in Chunks /\ worker[w].sn < nextChunk
  BY <1>1 DEF TxInv, TxTypes, Behind
<1>3. /\ worker'[w].at = "idle"
      /\ \A v \in Workers : v # w => worker'[v] = worker[v]
      /\ worker' \in [Workers -> WorkerRecord]
  BY <1>1, <1>2 DEF WorkerRecord, WorkerSteps, Idle
<1>4. TxTypes'
  BY <1>1, <1>2, <1>3 DEF TxInv, TxTypes
<1>5. Sound(txQueue)'
  BY <1>1 DEF TxInv
<1>6. Behind'
  BY <1>1, <1>2, <1>3 DEF TxInv, Behind
<1>7. Untouched' /\ Settled'
  BY <1>1 DEF TxInv, Untouched, Settled
<1>8. ClosedQueueEmpty' /\ Charged'
  BY <1>1 DEF TxInv, ClosedQueueEmpty, Charged
<1>9. \A sn : InHand(sn) => InHand(sn)'
  BY <1>1, <1>3 DEF InHand
<1>10. FirstKept'
  BY <1>1, <1>9 DEF TxInv, FirstKept, Running
<1> QED
  BY <1>4, <1>5, <1>6, <1>7, <1>8, <1>10 DEF TxInv

------------------------------------------------------------------------------
(* The end of the stream. *)

(* The send buffer is emptied, with or without the copies in the queue.    *)
LEMMA ForgetKeeps ==
  ASSUME TxInv, sndBuf' = [sn \in {} |-> 0],
         txQueue' = txQueue \/ txQueue' = WithoutAllCopies(txQueue, DOMAIN sndBuf),
         UNCHANGED <<txClosed, nextChunk, reader, jobs, settling, nackFor, ackFor>>,
         UNCHANGED <<worker, noted, answered>>
  PROVE  TxInv'
<1>1. DOMAIN sndBuf' = {} /\ sndBuf' \in [DOMAIN sndBuf' -> [dispatched : BOOLEAN, retries : Nat]]
  OBVIOUS
<1>2. /\ Sound(txQueue')
      /\ \A t : Waits(txQueue', t) => Waits(txQueue, t)
      /\ txQueue = Queue!Empty => txQueue' = txQueue
  BY WithoutAllCopiesSound DEF TxInv
<1>3. TxTypes'
  BY <1>1 DEF TxInv, TxTypes
<1>4. Behind'
  BY <1>1, <1>2 DEF TxInv, Behind
<1>5. Untouched' /\ Settled'
  BY <1>1 DEF TxInv, Untouched, Settled
<1>6. ClosedQueueEmpty'
  BY <1>2 DEF TxInv, ClosedQueueEmpty
<1>7. Charged' /\ FirstKept'
  BY <1>1 DEF Charged, FirstKept
<1> QED
  BY <1>2, <1>3, <1>4, <1>5, <1>6, <1>7 DEF TxInv

LEMMA EndKeeps ==
  ASSUME TxInv, ResetReceived \/ CloseWriteReceived \/ Finalize \/ CloserClear \/ StopRead
  PROVE  TxInv'
<1>1. CASE ResetReceived
  BY <1>1, ForgetKeeps DEF ResetReceived, timer, handler, history
<1>2. CASE CloseWriteReceived
  BY <1>2, ForgetKeeps DEF CloseWriteReceived, timer, handler, history
<1>3. CASE Finalize
  BY <1>3, ForgetKeeps DEF Finalize, queue, timer, handler, history
<1>4. CASE CloserClear
  BY <1>4, ClearKeeps DEF CloserClear, arq, timer, handler, history
<1>5. CASE StopRead
  <2>1. /\ UNCHANGED <<sndBuf, closed, reset, txQueue, txClosed, nextChunk, reader, jobs, settling>>
        /\ UNCHANGED <<nackFor, ackFor, worker, noted, answered>>
    BY <1>5 DEF StopRead, queue, timer, handler, history
  <2>2. TxTypes' /\ Sound(txQueue)' /\ Behind' /\ Untouched' /\ Settled'
    BY <2>1 DEF TxInv, TxTypes, Behind, Untouched, Settled
  <2>3. ClosedQueueEmpty' /\ Charged' /\ FirstKept'
    BY <2>1 DEF TxInv, ClosedQueueEmpty, Charged, FirstKept, InHand, Running
  <2> QED
    BY <2>2, <2>3 DEF TxInv
<1> QED
  BY <1>1, <1>2, <1>3, <1>4, <1>5

------------------------------------------------------------------------------
LEMMA TxStep ==
  ASSUME TxInv, [Next]_vars
  PROVE  TxInv'
<1>1. CASE ReaderCheck \/ ReaderReturn \/ ReaderInsert \/ ReaderPush \/ ReaderRefused
  BY <1>1, ReaderLooks, ReaderInserts, ReaderPushes, ReaderIsRefused
<1>2. CASE TimerGiveUp \/ ResetSent
  BY <1>2, ResetSentKeeps DEF TimerGiveUp
<1>3. ASSUME NEW due \in SUBSET Chunks, TimerCollect(due) PROVE TxInv'
  BY <1>3, TimerCollects
<1>4. ASSUME NEW sn \in Chunks, TimerPush(sn) \/ NackReceive(sn) \/ AckReceive(sn) PROVE TxInv'
  BY <1>4, TimerPushes, NackReceives, AckReceives
<1>5. CASE TimerSettle \/ NackPush \/ AckRemove
  BY <1>5, TimerSettles, NackPushes, AckRemoves
<1>6. ASSUME NEW w \in Workers, WorkerClear(w) PROVE TxInv'
  BY <1>6, ClearKeeps DEF WorkerClear, arq, timer, handler, history
<1>7. ASSUME NEW w \in Workers, \/ WorkerLook(w) \/ WorkerPop(w)
                                \/ WorkerNote(w) \/ WorkerCheck(w)
      PROVE  TxInv'
  BY <1>7, WorkerLooks, WorkerPops, WorkerNotes, WorkerChecks
<1>8. CASE ResetReceived \/ CloseWriteReceived \/ StopRead \/ Finalize \/ CloserClear
  BY <1>8, EndKeeps
<1>9. CASE UNCHANGED vars
  <2>1. /\ UNCHANGED <<sndBuf, closed, reset, txQueue, txClosed, nextChunk, reader, jobs, settling>>
        /\ UNCHANGED <<nackFor, ackFor, worker, noted, answered>>
    BY <1>9 DEF vars
  <2>2. TxTypes' /\ Sound(txQueue)' /\ Behind' /\ Untouched' /\ Settled'
    BY <2>1 DEF TxInv, TxTypes, Behind, Untouched, Settled
  <2>3. ClosedQueueEmpty' /\ Charged' /\ FirstKept'
    BY <2>1 DEF TxInv, ClosedQueueEmpty, Charged, FirstKept, InHand, Running
  <2> QED
    BY <2>2, <2>3 DEF TxInv
<1> QED
  BY <1>1, <1>2, <1>3, <1>4, <1>5, <1>6, <1>7, <1>8, <1>9 DEF Next

(* The invariant that carries the sending side: the queue is exact, and    *)
(* what is under way about a chunk agrees with its record in the send      *)
(* buffer.                                                                 *)
THEOREM TxInvariant == Spec => []TxInv
<1> QED
  BY TxInitInv, TxStep, PTL DEF Spec

(* At most one copy of a chunk waits, whatever reader, timer and NACK      *)
(* handler push (PushTXPacket drops or replaces the other kind).           *)
THEOREM OneCopyWaits == Spec => []OneCopy
<1>1. TxInv => OneCopy
  BY SameQueue DEF TxInv, Sound, Single, Copies, OneCopy
<1> QED
  BY <1>1, TxInvariant, PTL

(* Nothing lands in the queue of a stream after ClearTXQueue.              *)
THEOREM ClosedStaysEmpty == Spec => []ClosedQueueEmpty
<1>1. TxInv => ClosedQueueEmpty
  BY DEF TxInv
<1> QED
  BY <1>1, TxInvariant, PTL

(* checkRetransmits charges a retry only for a chunk that left the queue   *)
(* since the last one: waiting alone never resets the stream.              *)
THEOREM RetriesAreEarned == Spec => []RetriesFollowDequeues
<1>1. TxInv => RetriesFollowDequeues
  BY DEF TxInv, Charged, RetriesFollowDequeues
<1> QED
  BY <1>1, TxInvariant, PTL

(* The first copy of a chunk is in the queue or in somebody's hands until  *)
(* its dequeue has been told to the ARQ.                                   *)
THEOREM FirstCopyKept == Spec => []FirstCopy
<1>1. TxInv => FirstCopy
  BY QueuedWaits DEF TxInv, FirstKept, FirstCopy, Handled, InHand
<1> QED
  BY <1>1, TxInvariant, PTL

==============================================================================
