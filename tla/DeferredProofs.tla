---------------------------- MODULE DeferredProofs ----------------------------
(***************************************************************************)
(* The pool of workers, proved for any number of lanes, workers and tasks, *)
(* any channel capacity and any cap.                                       *)
(***************************************************************************)
EXTENDS DeferredProcessor, FiniteSetTheorems, SequenceTheorems, WellFoundedInduction, TLAPS

(***************************************************************************)
(* The invariant.                                                          *)
(***************************************************************************)

At(w) == {t \in Tasks : t \in ToSet(jobs[w]) \/ worker[w].task = t}

Stages == {"idle", "popped", "running", "skipping", "ending"}

PoolTypes ==
  /\ laneOf \in Seq(Lanes)
  /\ jobs \in [Workers -> Seq(Tasks)]
  /\ worker \in [Workers -> [at : Stages, task : Tasks \union {0}]]
  /\ \A w \in Workers : worker[w].at = "idle" <=> worker[w].task = 0
  /\ pending \in [Workers -> Int]
  /\ lanePending \in [Lanes -> Int] /\ sessionPending \in [Sessions -> Int]
  /\ cancelled \subseteq Lanes
  /\ DOMAIN laneWorker \subseteq Lanes
  /\ \A lane \in DOMAIN laneWorker : laneWorker[lane] \in Workers
  /\ nextWorker \in Nat
  /\ started \subseteq Tasks /\ detached \subseteq Tasks /\ removed \subseteq Tasks

(* A task is in one place. *)
OnePlace ==
  /\ \A w \in Workers : IsInjective(jobs[w])
  /\ \A v, w \in Workers : At(v) \intersect At(w) # {} => v = w
  /\ \A w \in Workers : worker[w].task \notin ToSet(jobs[w])

(* What is known of a task at a worker, stage by stage: a removed lane has  *)
(* nothing queued, and what a worker has taken of it and not begun is held  *)
(* by the mark until the lane is used again.                                *)
Waiting(t) == laneOf[t] \notin cancelled /\ t \notin detached \union removed \union started

Popped(t) ==
  /\ t \notin started
  /\ laneOf[t] \in cancelled \/ t \in detached => t \in removed
  /\ t \in removed => laneOf[t] \in cancelled \/ t \in revived

Stage(w) ==
  /\ \A t \in ToSet(jobs[w]) : Waiting(t)
  /\ worker[w].at = "popped" => Popped(worker[w].task)
  /\ worker[w].at = "running" => worker[w].task \in started
  /\ worker[w].at \in {"skipping", "ending"} => worker[w].task \in started \union removed

(* Tasks of a lane that has not been removed are where the lane is bound.   *)
BoundTo(w) ==
  \A t \in At(w) : t \notin detached =>
    laneOf[t] \in DOMAIN laneWorker /\ laneWorker[laneOf[t]] = w

(* A removal takes the earlier tasks of the lane with the later.            *)
EarlierToo ==
  \A t, u \in InSystem : laneOf[t] = laneOf[u] /\ t < u /\ u \in detached => t \in detached

Ledger == RemovedStaysRemoved /\ AcceptedRuns

Capped == \A s \in Sessions : sessionPending[s] <= SessionCap

PoolInv ==
  /\ PoolTypes /\ OnePlace /\ CountsExact /\ Capped
  /\ (\A w \in Workers : Stage(w) /\ BoundTo(w))
  /\ EarlierToo /\ Ledger

------------------------------------------------------------------------------
(* Sequences without repetition. *)

LEMMA Least ==
  ASSUME NEW S, S \subseteq Nat, S # {}
  PROVE  \E x \in S : \A y \in S : x <= y
<1>1. PICK x \in S : \A y \in S : ~ (<<y, x>> \in OpToRel(<, Nat))
  <2>1. IsWellFoundedOn(OpToRel(<, Nat), Nat)
    BY NatLessThanWellFounded
  <2> QED
    BY <2>1, WFMin
<1>2. \A y \in S : x <= y
  <2> SUFFICES ASSUME NEW y \in S, ~ (x <= y) PROVE FALSE
    OBVIOUS
  <2>1. y < x /\ <<y, x>> \in Nat \X Nat
    OBVIOUS
  <2>2. <<y, x>> \in OpToRel(<, Nat)
    BY <2>1 DEF OpToRel
  <2> QED
    BY <1>1, <2>2
<1> QED
  BY <1>2

LEMMA Elements ==
  ASSUME NEW T, NEW s \in Seq(T)
  PROVE  /\ Len(s) \in Nat /\ DOMAIN s = 1 .. Len(s)
         /\ ToSet(s) = {s[i] : i \in 1 .. Len(s)} /\ ToSet(s) \subseteq T
BY LenProperties, ElementOfSeq DEF ToSet

LEMMA InjectiveCount ==
  ASSUME NEW T, NEW s \in Seq(T), IsInjective(s)
  PROVE  IsFiniteSet(ToSet(s)) /\ Cardinality(ToSet(s)) = Len(s)
<1>1. /\ Len(s) \in Nat /\ DOMAIN s = 1 .. Len(s) /\ s \in [1 .. Len(s) -> T]
      /\ ToSet(s) = {s[i] : i \in 1 .. Len(s)}
  BY Elements, LenProperties
<1>2. s \in Surjection(1 .. Len(s), ToSet(s)) /\ s \in Injection(1 .. Len(s), ToSet(s))
  BY <1>1 DEF Surjection, Injection
<1>3. IsFiniteSet(1 .. Len(s)) /\ Cardinality(1 .. Len(s)) = Len(s)
  BY <1>1, FS_Interval
<1> QED
  BY <1>2, <1>3, FS_Surjection

LEMMA Appended ==
  ASSUME NEW T, NEW s \in Seq(T), IsInjective(s), NEW e \in T, e \notin ToSet(s)
  PROVE  /\ Append(s, e) \in Seq(T) /\ IsInjective(Append(s, e))
         /\ ToSet(Append(s, e)) = ToSet(s) \union {e}
         /\ Len(Append(s, e)) = Len(s) + 1
<1> DEFINE a == Append(s, e)
           n == Len(s)
<1>1. /\ n \in Nat /\ DOMAIN s = 1 .. n /\ ToSet(s) = {s[i] : i \in 1 .. n}
  BY Elements
<1>2. /\ a \in Seq(T) /\ Len(a) = n + 1
      /\ \A i \in 1 .. n : a[i] = s[i]
      /\ a[n + 1] = e
  BY AppendProperties
<1>3. DOMAIN a = 1 .. n + 1 /\ ToSet(a) = {a[i] : i \in 1 .. n + 1}
  BY <1>2, Elements
<1> HIDE DEF a, n
<1>4. \A i \in 1 .. n + 1 : i \in 1 .. n \/ i = n + 1
  BY <1>1
<1>5. ToSet(a) = ToSet(s) \union {e}
  <2>1. n + 1 \in 1 .. n + 1 /\ \A i \in 1 .. n : i \in 1 .. n + 1
    BY <1>1
  <2> QED
    BY <1>1, <1>2, <1>3, <1>4, <2>1
<1>6. ASSUME NEW i \in DOMAIN a, NEW j \in DOMAIN a, a[i] = a[j] PROVE i = j
  <2>1. \A k \in 1 .. n : s[k] # e
    BY <1>1
  <2>2. \A k, l \in 1 .. n : s[k] = s[l] => k = l
    BY <1>1 DEF IsInjective
  <2> QED
    BY <1>2, <1>3, <1>4, <1>6, <2>1, <2>2
<1> QED
  BY <1>2, <1>5, <1>6 DEF IsInjective, a, n

LEMMA Removed ==
  ASSUME NEW T, NEW s \in Seq(T), IsInjective(s), NEW i \in 1 .. Len(s)
  PROVE  /\ RemoveAt(s, i) \in Seq(T) /\ IsInjective(RemoveAt(s, i))
         /\ ToSet(RemoveAt(s, i)) = ToSet(s) \ {s[i]}
         /\ Len(RemoveAt(s, i)) = Len(s) - 1
<1> DEFINE r == RemoveAt(s, i)
           n == Len(s)
           left == SubSeq(s, 1, i - 1)
           right == SubSeq(s, i + 1, n)
<1>1. /\ n \in Nat /\ DOMAIN s = 1 .. n /\ ToSet(s) = {s[k] : k \in 1 .. n}
      /\ i \in Int /\ 1 <= i /\ i <= n
  BY Elements
<1>2. \A k \in 1 .. n : s[k] \in T
  BY ElementOfSeq
<1>3. left \in Seq(T) /\ Len(left) = i - 1 /\ \A k \in 1 .. i - 1 : left[k] = s[k]
  <2>1. (1 \in Int /\ i - 1 \in Int) /\ \A k \in 1 .. i - 1 : s[k] \in T
    BY <1>1, <1>2
  <2>2. /\ left \in Seq(T) /\ Len(left) = (IF 1 <= i - 1 THEN (i - 1) - 1 + 1 ELSE 0)
        /\ \A k \in 1 .. (i - 1) - 1 + 1 : left[k] = s[1 + k - 1]
    BY <2>1, SubSeqProperties
  <2>3. (i - 1) - 1 + 1 = i - 1 /\ \A k \in 1 .. i - 1 : 1 + k - 1 = k
    BY <1>1
  <2> QED
    BY <1>1, <2>2, <2>3
<1>4. right \in Seq(T) /\ Len(right) = n - i /\ \A k \in 1 .. n - i : right[k] = s[i + k]
  <2>1. i + 1 \in Int /\ n \in Int /\ \A k \in i + 1 .. n : s[k] \in T
    BY <1>1, <1>2
  <2>2. /\ right \in Seq(T) /\ Len(right) = (IF i + 1 <= n THEN n - (i + 1) + 1 ELSE 0)
        /\ \A k \in 1 .. n - (i + 1) + 1 : right[k] = s[(i + 1) + k - 1]
    BY <2>1, SubSeqProperties
  <2> HIDE DEF n
  <2>3. n - (i + 1) + 1 = n - i
    BY <1>1
  <2>5. i + 1 <= n \/ n - i = 0
    BY <1>1
  <2>4. \A k \in 1 .. n - i : (i + 1) + k - 1 = i + k
    BY <1>1
  <2> HIDE DEF right
  <2> QED
    BY <2>2, <2>3, <2>4, <2>5
<1>5. r = left \o right
  BY DEF RemoveAt
<1> HIDE DEF left, right, r, n
<1>6. /\ r \in Seq(T) /\ Len(r) = n - 1
      /\ \A k \in 1 .. n - 1 : r[k] = IF k < i THEN s[k] ELSE s[k + 1]
  <2>1. /\ r \in Seq(T) /\ Len(r) = Len(left) + Len(right)
        /\ \A k \in 1 .. Len(left) + Len(right) :
             r[k] = IF k <= Len(left) THEN left[k] ELSE right[k - Len(left)]
    BY <1>3, <1>4, <1>5, ConcatProperties
  <2>2. Len(left) + Len(right) = n - 1
    BY <1>1, <1>3, <1>4
  <2>3. ASSUME NEW k \in 1 .. n - 1 PROVE r[k] = IF k < i THEN s[k] ELSE s[k + 1]
    <3>1. r[k] = IF k <= i - 1 THEN left[k] ELSE right[k - (i - 1)]
      BY <1>3, <2>1, <2>2
    <3>2. CASE k < i
      <4>1. k <= i - 1 /\ k \in 1 .. i - 1
        BY <1>1, <3>2
      <4> QED
        BY <1>3, <3>1, <3>2, <4>1
    <3>3. CASE ~(k < i)
      <4>1. ~(k <= i - 1) /\ k - (i - 1) \in 1 .. n - i /\ i + (k - (i - 1)) = k + 1
        BY <1>1, <3>3
      <4> QED
        BY <1>4, <3>1, <3>3, <4>1
    <3> QED
      BY <3>2, <3>3
  <2> QED
    BY <2>1, <2>2, <2>3
<1>7. DOMAIN r = 1 .. n - 1 /\ ToSet(r) = {r[k] : k \in 1 .. n - 1}
  BY <1>6, Elements
<1>8. \A k, l \in 1 .. n : s[k] = s[l] => k = l
  BY <1>1 DEF IsInjective
<1>9. ASSUME NEW k \in 1 .. n - 1
      PROVE  (IF k < i THEN k ELSE k + 1) \in (1 .. n) \ {i}
  BY <1>1
<1>10. ASSUME NEW k \in DOMAIN r, NEW l \in DOMAIN r, r[k] = r[l] PROVE k = l
  <2>1. k \in 1 .. n - 1 /\ l \in 1 .. n - 1
    BY <1>7
  <2>2. s[IF k < i THEN k ELSE k + 1] = s[IF l < i THEN l ELSE l + 1]
    BY <1>6, <1>10, <2>1
  <2>3. (IF k < i THEN k ELSE k + 1) = (IF l < i THEN l ELSE l + 1)
    BY <1>8, <1>9, <2>1, <2>2
  <2> QED
    BY <1>1, <2>1, <2>3
<1>11. ASSUME NEW t \in ToSet(r) PROVE t \in ToSet(s) \ {s[i]}
  <2>1. PICK k \in 1 .. n - 1 : t = r[k]
    BY <1>7
  <2>2. t = s[IF k < i THEN k ELSE k + 1]
    BY <1>6, <2>1
  <2>3. (IF k < i THEN k ELSE k + 1) \in 1 .. n /\ (IF k < i THEN k ELSE k + 1) # i /\ i \in 1 .. n
    BY <1>1, <1>9
  <2> QED
    BY <1>1, <1>8, <2>2, <2>3
<1>12. ASSUME NEW t \in ToSet(s) \ {s[i]} PROVE t \in ToSet(r)
  <2>1. PICK k \in 1 .. n : t = s[k] /\ k # i
    BY <1>1
  <2>2. CASE k < i
    <3>1. k \in 1 .. n - 1
      BY <1>1, <2>2
    <3> QED
      BY <1>6, <1>7, <2>1, <2>2, <3>1
  <2>3. CASE ~(k < i)
    <3>1. k - 1 \in 1 .. n - 1 /\ ~(k - 1 < i) /\ (k - 1) + 1 = k
      BY <1>1, <2>1, <2>3
    <3> QED
      BY <1>6, <1>7, <2>1, <3>1
  <2> QED
    BY <2>2, <2>3
<1> QED
  BY <1>6, <1>10, <1>11, <1>12 DEF IsInjective, r, n

LEMMA Tailed ==
  ASSUME NEW T, NEW s \in Seq(T), IsInjective(s), s # <<>>
  PROVE  /\ Tail(s) \in Seq(T) /\ IsInjective(Tail(s)) /\ Head(s) \in ToSet(s)
         /\ ToSet(Tail(s)) = ToSet(s) \ {Head(s)}
         /\ Len(Tail(s)) = Len(s) - 1
<1>1. Len(s) \in Nat \ {0} /\ ToSet(s) = {s[i] : i \in 1 .. Len(s)}
  BY Elements, EmptySeq
<1>2. 1 \in 1 .. Len(s) /\ Head(s) = s[1]
  BY <1>1
<1>3. RemoveAt(s, 1) = SubSeq(s, 1, 0) \o SubSeq(s, 2, Len(s))
  BY DEF RemoveAt
<1>4. SubSeq(s, 1, 0) = <<>>
  BY SubSeqEmpty
<1>5. Tail(s) = SubSeq(s, 2, Len(s)) /\ Tail(s) \in Seq(T)
  BY TailIsSubSeq, HeadTailProperties
<1>6. RemoveAt(s, 1) = Tail(s)
  BY <1>3, <1>4, <1>5, ConcatEmptySeq
<1>7. /\ RemoveAt(s, 1) \in Seq(T) /\ IsInjective(RemoveAt(s, 1))
      /\ ToSet(RemoveAt(s, 1)) = ToSet(s) \ {s[1]}
      /\ Len(RemoveAt(s, 1)) = Len(s) - 1
  BY <1>2, Removed
<1>8. Head(s) \in ToSet(s)
  BY <1>1, <1>2
<1> QED
  BY <1>2, <1>6, <1>7, <1>8

(* What is put back of a channel. *)
LEMMA Keeping ==
  ASSUME NEW T, NEW tasks \in Seq(T), IsInjective(tasks), NEW lanes
  PROVE  /\ Keep(tasks, lanes) \in Seq(T) /\ IsInjective(Keep(tasks, lanes))
         /\ ToSet(Keep(tasks, lanes)) = {t \in ToSet(tasks) : laneOf[t] \notin lanes}
<1> DEFINE Rec(f, n) == f = [i \in 0 .. n |->
             IF i = 0 THEN <<>>
             ELSE IF laneOf[tasks[i]] \in lanes THEN f[i - 1] ELSE Append(f[i - 1], tasks[i])]
           size == Len(tasks)
           keep == CHOOSE f : Rec(f, size)
<1>1. size \in Nat /\ DOMAIN tasks = 1 .. size /\ ToSet(tasks) = {tasks[i] : i \in 1 .. size}
  BY Elements
<1>2. Keep(tasks, lanes) = keep[size]
  BY DEF Keep
<1>3. \A n \in Nat : \E f : Rec(f, n)
  <2> DEFINE None == {n \in Nat : ~ \E f : Rec(f, n)}
  <2>1. ASSUME NEW n \in None, \A m \in None : n <= m PROVE FALSE
    <3>1. CASE n = 0
      <4> DEFINE f == [i \in 0 .. 0 |-> <<>>]
      <4>1. \A i \in 0 .. 0 : i = 0
        OBVIOUS
      <4>2. Rec(f, 0)
        BY <4>1
      <4> HIDE DEF f, Rec
      <4> QED
        BY <2>1, <3>1, <4>2
    <3>2. CASE n # 0
      <4>1. n \in Nat /\ n - 1 \in Nat /\ ~(n <= n - 1)
        BY <3>2
      <4>2. PICK g : Rec(g, n - 1)
        BY <2>1, <4>1
      <4> DEFINE f == [i \in 0 .. n |->
                   IF i < n THEN g[i]
                   ELSE IF laneOf[tasks[i]] \in lanes THEN g[i - 1] ELSE Append(g[i - 1], tasks[i])]
      <4>3. ASSUME NEW i \in 0 .. n
            PROVE  f[i] = IF i = 0 THEN <<>>
                          ELSE IF laneOf[tasks[i]] \in lanes THEN f[i - 1] ELSE Append(f[i - 1], tasks[i])
        <5>1. CASE i = 0
          <6>1. 0 \in 0 .. n - 1 /\ i < n /\ f[i] = g[i]
            BY <3>2, <4>1, <5>1
          <6>2. g[0] = <<>>
            BY <4>2, <6>1
          <6> QED
            BY <5>1, <6>1, <6>2
        <5>2. CASE i # 0 /\ i < n
          <6>1. i \in 0 .. n - 1 /\ i - 1 \in 0 .. n /\ i - 1 < n /\ i - 1 \in 0 .. n - 1
            BY <4>1, <5>2
          <6>2. f[i] = g[i] /\ f[i - 1] = g[i - 1]
            BY <5>2, <6>1
          <6>3. g[i] = IF laneOf[tasks[i]] \in lanes THEN g[i - 1] ELSE Append(g[i - 1], tasks[i])
            BY <4>2, <5>2, <6>1
          <6> HIDE DEF f, Rec
          <6> QED
            BY <5>2, <6>2, <6>3
        <5>3. CASE i = n
          <6>1. i - 1 \in 0 .. n /\ i - 1 < n /\ ~(i < n) /\ i # 0
            BY <3>2, <4>1, <5>3
          <6>2. f[i - 1] = g[i - 1]
            BY <6>1
          <6>3. f[i] = IF laneOf[tasks[i]] \in lanes THEN g[i - 1] ELSE Append(g[i - 1], tasks[i])
            BY <6>1
          <6> HIDE DEF f, Rec
          <6> QED
            BY <6>1, <6>2, <6>3
        <5> QED
          BY <4>1, <5>1, <5>2, <5>3
      <4>4. f = [i \in 0 .. n |-> f[i]]
        OBVIOUS
      <4> HIDE DEF f
      <4>5. Rec(f, n)
        BY <4>3, <4>4
      <4> HIDE DEF Rec
      <4> QED
        BY <2>1, <4>5
    <3> QED
      BY <3>1, <3>2
  <2>2. None = {}
    <3>1. None \subseteq Nat
      OBVIOUS
    <3> HIDE DEF None
    <3> QED
      BY <2>1, <3>1, Least
  <2> HIDE DEF Rec
  <2> QED
    BY <2>2
<1>4. Rec(keep, size)
  <2> HIDE DEF Rec
  <2> QED
    BY <1>1, <1>3
<1> HIDE DEF keep
<1>5. /\ keep[0] = <<>>
      /\ \A i \in 1 .. size :
           keep[i] = IF laneOf[tasks[i]] \in lanes THEN keep[i - 1] ELSE Append(keep[i - 1], tasks[i])
  <2>1. 0 \in 0 .. size /\ \A i \in 1 .. size : i \in 0 .. size /\ i # 0
    BY <1>1
  <2>2. keep[0] = <<>>
    BY <1>4, <2>1
  <2>3. ASSUME NEW i \in 1 .. size
        PROVE  keep[i] = IF laneOf[tasks[i]] \in lanes THEN keep[i - 1] ELSE Append(keep[i - 1], tasks[i])
    BY <1>4, <2>1
  <2> QED
    BY <2>2, <2>3
<1> HIDE DEF Rec
<1> DEFINE Good(n) == /\ keep[n] \in Seq(T) /\ IsInjective(keep[n])
                      /\ ToSet(keep[n]) = {tasks[i] : i \in {j \in 1 .. n : laneOf[tasks[j]] \notin lanes}}
           Bad == {n \in 0 .. size : ~Good(n)}
<1>6. ASSUME NEW n \in Bad, \A m \in Bad : n <= m PROVE FALSE
  <2>1. CASE n = 0
    <3>1. <<>> \in Seq(T) /\ Len(<<>>) = 0
      BY EmptySeq
    <3>2. DOMAIN keep[0] = 1 .. 0 /\ ToSet(keep[0]) = {keep[0][i] : i \in 1 .. 0}
      <4>1. keep[0] \in Seq(T) /\ Len(keep[0]) = 0
        BY <1>5, <3>1
      <4> QED
        BY <4>1, Elements
    <3>3. 1 .. 0 = {}
      OBVIOUS
    <3>4. {j \in 1 .. 0 : laneOf[tasks[j]] \notin lanes} = {}
      BY <3>3
    <3>5. IsInjective(keep[0])
      BY <3>2, <3>3 DEF IsInjective
    <3> QED
      BY <1>5, <1>6, <2>1, <3>1, <3>2, <3>3, <3>4, <3>5
  <2>2. CASE n # 0
    <3>1. n \in 1 .. size /\ n - 1 \in 0 .. size /\ ~(n <= n - 1) /\ n \in Nat
      BY <1>1, <2>2
    <3>2. Good(n - 1)
      BY <1>6, <3>1
    <3> DEFINE Pick(m) == {j \in 1 .. m : laneOf[tasks[j]] \notin lanes}
    <3>3. \A j : j \in 1 .. n <=> j \in 1 .. n - 1 \/ j = n
      BY <3>1
    <3>4. CASE laneOf[tasks[n]] \in lanes
      <4>1. Pick(n) = Pick(n - 1)
        BY <3>3, <3>4
      <4>2. keep[n] = keep[n - 1]
        BY <1>5, <3>1, <3>4
      <4> QED
        BY <1>6, <3>2, <4>1, <4>2
    <3>5. CASE laneOf[tasks[n]] \notin lanes
      <4>1. Pick(n) = Pick(n - 1) \union {n}
        BY <3>3, <3>5
      <4>2. keep[n] = Append(keep[n - 1], tasks[n])
        BY <1>5, <3>1, <3>5
      <4>3. tasks[n] \in T
        BY <3>1, ElementOfSeq
      <4>4. tasks[n] \notin ToSet(keep[n - 1])
        <5>1. \A i \in 1 .. n - 1 : i \in 1 .. size /\ i # n
          BY <1>1, <3>1
        <5>2. \A i \in Pick(n - 1) : tasks[i] # tasks[n]
          BY <1>1, <3>1, <5>1 DEF IsInjective
        <5> QED
          BY <3>2, <5>2
      <4>5. /\ keep[n] \in Seq(T) /\ IsInjective(keep[n])
            /\ ToSet(keep[n]) = ToSet(keep[n - 1]) \union {tasks[n]}
        BY <3>2, <4>2, <4>3, <4>4, Appended
      <4>6. ToSet(keep[n]) = {tasks[i] : i \in Pick(n)}
        BY <3>2, <4>1, <4>5
      <4> QED
        BY <1>6, <4>5, <4>6
    <3> QED
      BY <3>4, <3>5
  <2> QED
    BY <2>1, <2>2
<1>7. Good(size)
  <2>1. Bad \subseteq Nat /\ size \in 0 .. size
    BY <1>1
  <2> HIDE DEF Good
  <2>2. Bad = {}
    <3> HIDE DEF Bad
    <3> QED
      BY <1>6, <2>1, Least
  <2> QED
    BY <2>1, <2>2
<1>8. {tasks[i] : i \in {j \in 1 .. size : laneOf[tasks[j]] \notin lanes}}
        = {t \in ToSet(tasks) : laneOf[t] \notin lanes}
  BY <1>1
<1> QED
  BY <1>2, <1>7, <1>8

------------------------------------------------------------------------------
(* What the invariant says, ready to be cited.                              *)

LEMMA Less ==
  ASSUME NEW A, IsFiniteSet(A), NEW B, B \subseteq A
  PROVE  /\ IsFiniteSet(A \ B) /\ IsFiniteSet(B)
         /\ Cardinality(A) \in Nat /\ Cardinality(B) \in Nat /\ Cardinality(A \ B) \in Nat
         /\ Cardinality(A \ B) = Cardinality(A) - Cardinality(B)
<1>1. IsFiniteSet(B) /\ IsFiniteSet(A \ B)
  BY FS_Subset
<1>2. (A \ B) \union B = A /\ (A \ B) \intersect B = {}
  OBVIOUS
<1>3. Cardinality(A) = Cardinality(A \ B) + Cardinality(B) - Cardinality({})
  BY <1>1, <1>2, FS_Union
<1>4. Cardinality({}) = 0
  BY FS_EmptySet
<1>5. Cardinality(A) \in Nat /\ Cardinality(B) \in Nat /\ Cardinality(A \ B) \in Nat
  BY <1>1, FS_CardinalityType
<1> QED
  BY <1>1, <1>3, <1>4, <1>5

LEMMA TaskFacts ==
  ASSUME PoolTypes
  PROVE  /\ Len(laneOf) \in Nat /\ DOMAIN laneOf = Tasks /\ Tasks \subseteq Nat /\ 0 \notin Tasks
         /\ \A t \in Tasks : laneOf[t] \in Lanes /\ laneOf[t][1] \in Sessions
         /\ \A S : S \subseteq Tasks => IsFiniteSet(S) /\ Cardinality(S) \in Nat
<1>1. laneOf \in Seq(Lanes)
  BY DEF PoolTypes
<1>2. Len(laneOf) \in Nat /\ DOMAIN laneOf = 1 .. Len(laneOf)
  BY <1>1, LenProperties
<1>3. \A t \in Tasks : laneOf[t] \in Lanes
  BY <1>1, ElementOfSeq DEF Tasks
<1>4. \A t \in Tasks : laneOf[t][1] \in Sessions
  BY <1>3 DEF Sessions
<1>5. IsFiniteSet(1 .. Len(laneOf))
  BY <1>2, FS_Interval
<1>6. \A S : S \subseteq Tasks => IsFiniteSet(S) /\ Cardinality(S) \in Nat
  BY <1>5, FS_Subset, FS_CardinalityType DEF Tasks
<1>7. Tasks \subseteq Nat /\ 0 \notin Tasks
  BY <1>2 DEF Tasks
<1> QED
  BY <1>2, <1>3, <1>4, <1>6, <1>7 DEF Tasks

LEMMA WorkerFacts ==
  ASSUME PoolTypes, NEW w \in Workers
  PROVE  /\ jobs[w] \in Seq(Tasks) /\ Len(jobs[w]) \in Nat /\ ToSet(jobs[w]) \subseteq Tasks
         /\ worker[w] \in [at : Stages, task : Tasks \union {0}]
         /\ worker[w].at \in Stages /\ worker[w].task \in Tasks \union {0}
         /\ worker[w].at = "idle" <=> worker[w].task = 0
         /\ worker[w].at = "idle" <=> worker[w] = Idle
         /\ worker[w].at # "idle" => worker[w].task \in Tasks /\ worker[w].task \in At(w)
         /\ At(w) \subseteq Tasks /\ \A t \in ToSet(jobs[w]) : t \in At(w)
<1>1. jobs[w] \in Seq(Tasks)
  BY DEF PoolTypes
<1>2. Len(jobs[w]) \in Nat /\ ToSet(jobs[w]) \subseteq Tasks
  BY <1>1, Elements
<1>3. worker[w] \in [at : Stages, task : Tasks \union {0}] /\ (worker[w].at = "idle" <=> worker[w].task = 0)
  BY DEF PoolTypes
<1>4. worker[w].at = "idle" <=> worker[w] = Idle
  BY <1>3 DEF Idle
<1>5. At(w) \subseteq Tasks /\ \A t \in ToSet(jobs[w]) : t \in At(w)
  BY <1>2 DEF At
<1>6. worker[w].at # "idle" => worker[w].task \in Tasks /\ worker[w].task \in At(w)
  BY <1>3 DEF At
<1> QED
  BY <1>1, <1>2, <1>3, <1>4, <1>5, <1>6

LEMMA Inside ==
  InSystem = {t \in Tasks : \E w \in Workers : t \in At(w)}
BY DEF InSystem, Queued, Held, At

(* A task is counted at one worker, and there either queued or held.        *)
LEMMA Apart ==
  ASSUME OnePlace, NEW v \in Workers, NEW w \in Workers, NEW t, t \in At(v), t \in At(w)
  PROVE  v = w
BY DEF OnePlace

LEMMA StageNext ==
  ASSUME NEW v \in Workers, \A x \in ToSet(jobs'[v]) : Waiting(x)',
         \A x : worker'[v].at = "popped" /\ worker'[v].task = x => Popped(x)',
         worker'[v].at = "running" => worker'[v].task \in started',
         worker'[v].at \in {"skipping", "ending"} => worker'[v].task \in started' \union removed'
  PROVE  Stage(v)'
BY DEF Stage, Popped

LEMMA WorkerStepTypes ==
  ASSUME PoolTypes, NEW w \in Workers, NEW r \in [at : Stages, task : Tasks \union {0}],
         r.at = "idle" <=> r.task = 0, laneOf' = laneOf,
         worker' = [worker EXCEPT ![w] = r]
  PROVE  /\ worker' \in [Workers -> [at : Stages, task : Tasks' \union {0}]]
         /\ \A v \in Workers : worker'[v] = IF v = w THEN r ELSE worker[v]
         /\ \A v \in Workers : worker'[v].at = "idle" <=> worker'[v].task = 0
         /\ Tasks' = Tasks
<1>1. Tasks' = Tasks
  BY DEF Tasks
<1>2. worker \in [Workers -> [at : Stages, task : Tasks \union {0}]]
  BY DEF PoolTypes
<1>3. \A v \in Workers : worker'[v] = IF v = w THEN r ELSE worker[v]
  BY <1>2
<1>4. worker' \in [Workers -> [at : Stages, task : Tasks \union {0}]]
  BY <1>2
<1>5. \A v \in Workers : worker[v].at = "idle" <=> worker[v].task = 0
  BY DEF PoolTypes
<1> QED
  BY <1>1, <1>3, <1>4, <1>5

------------------------------------------------------------------------------
(* A worker goes on with its task: no task changes its place.               *)

Busy(w) == IF worker[w].at \in {"popped", "running", "skipping"} THEN 1 ELSE 0

LEMMA Load ==
  ASSUME CountsExact, NEW w \in Workers
  PROVE  pending[w] = Len(jobs[w]) + Busy(w)
BY DEF CountsExact, Busy

LEMMA InPlace ==
  ASSUME PoolInv, Tasks' = Tasks,
         UNCHANGED <<laneOf, lanePending, sessionPending, laneWorker, nextWorker, cancelled,
                     detached, removed, revived>>,
         \A v \in Workers : At(v)' = At(v),
         jobs' \in [Workers -> Seq(Tasks)],
         worker' \in [Workers -> [at : Stages, task : Tasks' \union {0}]],
         \A v \in Workers : worker'[v].at = "idle" <=> worker'[v].task = 0,
         pending' \in [Workers -> Int],
         started \subseteq started', started' \subseteq Tasks,
         \A v \in Workers : IsInjective(jobs'[v]) /\ worker'[v].task \notin ToSet(jobs'[v]),
         \A v \in Workers : pending'[v] = Len(jobs'[v]) + Busy(v)',
         \A v \in Workers : Stage(v)',
         RemovedStaysRemoved'
  PROVE  PoolInv'
<1>1. PoolTypes'
  BY DEF PoolInv, PoolTypes
<1>2. OnePlace'
  BY DEF PoolInv, OnePlace
<1>3. InSystem' = InSystem
  <2>1. InSystem' = {t \in Tasks' : \E w \in Workers : t \in At(w)'}
    BY DEF InSystem, Queued, Held, At
  <2> QED
    BY <2>1, Inside
<1>4. CountsExact'
  BY <1>3 DEF PoolInv, CountsExact, Busy
<1>5. Capped' /\ EarlierToo'
  BY <1>3 DEF PoolInv, Capped, EarlierToo
<1>6. \A v \in Workers : BoundTo(v)'
  BY DEF PoolInv, BoundTo
<1>7. AcceptedRuns'
  BY <1>3 DEF PoolInv, Ledger, AcceptedRuns
<1> QED
  BY <1>1, <1>2, <1>4, <1>5, <1>6, <1>7 DEF PoolInv, Ledger

LEMMA PopStep ==
  ASSUME PoolInv, NEW w \in Workers, WorkerPop(w)
  PROVE  PoolInv'
<1> DEFINE t == Head(jobs[w])
           r == [at |-> "popped", task |-> t]
<1>0. /\ PoolTypes /\ OnePlace /\ worker[w] = Idle /\ jobs[w] # <<>>
      /\ worker' = [worker EXCEPT ![w] = r] /\ jobs' = [jobs EXCEPT ![w] = Tail(jobs[w])]
      /\ UNCHANGED <<bookkeeping, marks, laneOf, dead, history>>
  BY DEF PoolInv, WorkerPop
<1>1. jobs[w] \in Seq(Tasks) /\ ToSet(jobs[w]) \subseteq Tasks /\ IsInjective(jobs[w]) /\ Len(jobs[w]) \in Nat
  BY <1>0, WorkerFacts DEF OnePlace
<1>2. /\ Tail(jobs[w]) \in Seq(Tasks) /\ IsInjective(Tail(jobs[w])) /\ t \in ToSet(jobs[w])
      /\ ToSet(Tail(jobs[w])) = ToSet(jobs[w]) \ {t} /\ Len(Tail(jobs[w])) = Len(jobs[w]) - 1
  BY <1>0, <1>1, Tailed
<1>3. t \in Tasks /\ t # 0 /\ 0 \notin Tasks
  BY <1>0, <1>1, <1>2, TaskFacts
<1> HIDE DEF t
<1>4. r \in [at : Stages, task : Tasks \union {0}] /\ r.at = "popped" /\ r.task = t
  BY <1>3 DEF Stages
<1> HIDE DEF r
<1>5. /\ worker' \in [Workers -> [at : Stages, task : Tasks' \union {0}]]
      /\ \A v \in Workers : worker'[v] = IF v = w THEN r ELSE worker[v]
      /\ \A v \in Workers : worker'[v].at = "idle" <=> worker'[v].task = 0
      /\ Tasks' = Tasks
  BY <1>0, <1>3, <1>4, WorkerStepTypes
<1>6. jobs' \in [Workers -> Seq(Tasks)] /\ \A v \in Workers : jobs'[v] = IF v = w THEN Tail(jobs[w]) ELSE jobs[v]
  BY <1>0, <1>2 DEF PoolTypes
<1>7. \A v \in Workers : At(v)' = At(v)
  <2>1. At(w)' = At(w)
    BY <1>0, <1>1, <1>2, <1>3, <1>4, <1>5, <1>6 DEF At, Idle
  <2>2. ASSUME NEW v \in Workers, v # w PROVE At(v)' = At(v)
    BY <1>5, <1>6, <2>2 DEF At
  <2> QED
    BY <2>1, <2>2
<1>8. UNCHANGED <<laneOf, pending, lanePending, sessionPending, laneWorker, nextWorker, cancelled,
                  started, detached, removed, revived>>
  BY <1>0 DEF bookkeeping, marks, history
<1>9. ASSUME NEW v \in Workers
      PROVE  IsInjective(jobs'[v]) /\ worker'[v].task \notin ToSet(jobs'[v])
  BY <1>0, <1>2, <1>4, <1>5, <1>6 DEF OnePlace
<1>10. ASSUME NEW v \in Workers PROVE pending'[v] = Len(jobs'[v]) + Busy(v)'
  <2>1. pending[v] = Len(jobs[v]) + Busy(v)
    BY Load DEF PoolInv
  <2>2. CASE v = w
    <3>1. worker[w].at = "idle" /\ worker'[w].at = "popped"
      BY <1>0, <1>4, <1>5 DEF Idle
    <3>2. Busy(w) = 0 /\ Busy(w)' = 1
      BY <3>1 DEF Busy
    <3>3. Len(jobs'[w]) = Len(jobs[w]) - 1 /\ pending'[w] = pending[w]
      BY <1>2, <1>6, <1>8
    <3> QED
      BY <1>1, <2>1, <2>2, <3>2, <3>3
  <2>3. CASE v # w
    <3>1. worker'[v] = worker[v] /\ jobs'[v] = jobs[v] /\ pending'[v] = pending[v]
      BY <1>5, <1>6, <1>8, <2>3
    <3>2. Busy(v)' = Busy(v)
      BY <3>1 DEF Busy
    <3> QED
      BY <2>1, <3>1, <3>2
  <2> QED
    BY <2>2, <2>3
<1>11. ASSUME NEW v \in Workers PROVE Stage(v)'
  <2>1. Stage(v) /\ Stage(w)
    BY DEF PoolInv
  <2>2. \A x \in Tasks : (Waiting(x)' <=> Waiting(x)) /\ (Popped(x)' <=> Popped(x))
    BY <1>8 DEF Waiting, Popped
  <2>3. CASE v = w
    <3>1. Waiting(t)
      BY <1>2, <2>1 DEF Stage
    <3>2. Popped(t)
      BY <3>1 DEF Waiting, Popped
    <3>3. \A x \in ToSet(jobs'[w]) : Waiting(x)'
      BY <1>1, <1>2, <1>6, <2>1, <2>2 DEF Stage
    <3> QED
      BY <1>3, <1>4, <1>5, <2>2, <2>3, <3>2, <3>3 DEF Stage
  <2>4. CASE v # w
    <3>1. worker'[v] = worker[v] /\ jobs'[v] = jobs[v]
      BY <1>5, <1>6, <2>4
    <3> QED
      BY <1>8, <2>1, <3>1 DEF Stage, Waiting, Popped
  <2> QED
    BY <2>3, <2>4
<1>12. RemovedStaysRemoved'
  BY <1>8 DEF PoolInv, Ledger, RemovedStaysRemoved
<1>13. pending' \in [Workers -> Int] /\ started \subseteq started' /\ started' \subseteq Tasks
  BY <1>0, <1>8 DEF PoolTypes
<1> QED
  BY <1>5, <1>6, <1>7, <1>8, <1>9, <1>10, <1>11, <1>12, <1>13, InPlace

LEMMA BeginStep ==
  ASSUME PoolInv, NEW w \in Workers, WorkerBegin(w)
  PROVE  PoolInv'
<1> DEFINE t == worker[w].task
           lane == laneOf[t]
           stage == IF lane \in cancelled THEN "skipping" ELSE "running"
           r == [worker[w] EXCEPT !.at = stage]
<1>0. /\ PoolTypes /\ OnePlace /\ worker[w].at = "popped"
      /\ worker' = [worker EXCEPT ![w] = r]
      /\ started' = IF lane \in cancelled THEN started ELSE started \union {t}
      /\ UNCHANGED <<jobs, bookkeeping, cancelled, laneOf, detached, removed, revived>>
  <2>1. worker' = [worker EXCEPT ![w].at = stage]
    BY DEF WorkerBegin
  <2>2. worker' = [worker EXCEPT ![w] = r]
    BY <2>1
  <2> QED
    BY <2>2 DEF PoolInv, WorkerBegin
<1>1. /\ worker[w] \in [at : Stages, task : Tasks \union {0}]
      /\ t \in Tasks /\ t \in At(w) /\ t # 0 /\ jobs[w] \in Seq(Tasks)
  BY <1>0, WorkerFacts, TaskFacts
<1>2. r \in [at : Stages, task : Tasks \union {0}] /\ r.at = stage /\ r.task = t
  BY <1>1 DEF Stages
<1>3. stage \in {"skipping", "running"}
  OBVIOUS
<1> HIDE DEF r, stage
<1>4. /\ worker' \in [Workers -> [at : Stages, task : Tasks' \union {0}]]
      /\ \A v \in Workers : worker'[v] = IF v = w THEN r ELSE worker[v]
      /\ \A v \in Workers : worker'[v].at = "idle" <=> worker'[v].task = 0
      /\ Tasks' = Tasks
  <2>1. r.at = "idle" <=> r.task = 0
    BY <1>1, <1>2, <1>3
  <2> QED
    BY <1>0, <1>2, <2>1, WorkerStepTypes
<1>5. UNCHANGED <<jobs, laneOf, pending, lanePending, sessionPending, laneWorker, nextWorker, cancelled,
                  detached, removed, revived>>
  BY <1>0 DEF bookkeeping
<1>6. \A v \in Workers : worker'[v].task = worker[v].task
  BY <1>2, <1>4
<1>7. \A v \in Workers : At(v)' = At(v)
  BY <1>4, <1>5, <1>6 DEF At
<1>8. \A v \in Workers : IsInjective(jobs'[v]) /\ worker'[v].task \notin ToSet(jobs'[v])
  BY <1>0, <1>5, <1>6 DEF OnePlace
<1>9. ASSUME NEW v \in Workers PROVE pending'[v] = Len(jobs'[v]) + Busy(v)'
  <2>1. pending[v] = Len(jobs[v]) + Busy(v)
    BY Load DEF PoolInv
  <2>2. Busy(v)' = Busy(v)
    BY <1>0, <1>2, <1>3, <1>4 DEF Busy
  <2> QED
    BY <1>5, <2>1, <2>2
<1>10. Popped(t)
  BY <1>0 DEF PoolInv, Stage
<1>11. started \subseteq started' /\ started' \subseteq Tasks /\ started' \subseteq started \union {t}
  BY <1>0, <1>1 DEF PoolTypes
<1>12. ASSUME NEW v \in Workers PROVE Stage(v)'
  <2>1. Stage(v) /\ Stage(w)
    BY DEF PoolInv
  <2>2. \A x \in ToSet(jobs[v]) : x # t
    <3>1. CASE v = w
      BY <1>0, <3>1 DEF OnePlace
    <3>2. CASE v # w
      BY <1>0, <1>1, <3>2, Apart, WorkerFacts
    <3> QED
      BY <3>1, <3>2
  <2>3. \A x \in ToSet(jobs'[v]) : Waiting(x)'
    BY <1>5, <1>11, <2>1, <2>2 DEF Stage, Waiting
  <2>4. CASE v = w
    <3>1. worker'[v].at = stage /\ worker'[v].task = t
      BY <1>2, <1>4, <2>4
    <3>2. CASE lane \in cancelled
      BY <1>5, <1>10, <2>3, <3>1, <3>2 DEF Stage, Popped, stage
    <3>3. CASE lane \notin cancelled
      BY <1>0, <2>3, <3>1, <3>3 DEF Stage, stage
    <3> QED
      BY <3>2, <3>3
  <2>5. CASE v # w
    <3>1. worker'[v] = worker[v]
      BY <1>4, <2>5
    <3>2. worker[v].at = "popped" => worker[v].task # t
      BY <1>0, <1>1, <2>5, Apart, WorkerFacts
    <3>3. ASSUME NEW x, worker[v].at = "popped", worker[v].task = x PROVE Popped(x)'
      BY <1>5, <1>11, <2>1, <3>2, <3>3 DEF Stage, Popped
    <3>4. worker[v].at = "running" => worker[v].task \in started'
      BY <1>11, <2>1 DEF Stage
    <3>5. worker[v].at \in {"skipping", "ending"} => worker[v].task \in started' \union removed'
      BY <1>5, <1>11, <2>1 DEF Stage
    <3> QED
      BY <2>3, <3>1, <3>3, <3>4, <3>5, StageNext
  <2> QED
    BY <2>4, <2>5
<1>13. RemovedStaysRemoved'
  BY <1>0, <1>5, <1>10 DEF PoolInv, Ledger, RemovedStaysRemoved, Popped
<1>14. pending' \in [Workers -> Int] /\ jobs' \in [Workers -> Seq(Tasks)]
  BY <1>0, <1>5 DEF PoolTypes
<1> QED
  BY <1>4, <1>5, <1>7, <1>8, <1>9, <1>11, <1>12, <1>13, <1>14, InPlace

LEMMA ReturnStep ==
  ASSUME PoolInv, NEW w \in Workers, WorkerReturn(w)
  PROVE  PoolInv'
<1> DEFINE t == worker[w].task
           r == [worker[w] EXCEPT !.at = "ending"]
<1>0. /\ PoolTypes /\ OnePlace /\ worker[w].at \in {"running", "skipping"}
      /\ worker' = [worker EXCEPT ![w] = r]
      /\ pending' = [pending EXCEPT ![w] = pending[w] - 1]
      /\ UNCHANGED <<jobs, laneWorker, lanePending, sessionPending, nextWorker, marks, laneOf, history>>
  <2>1. worker' = [worker EXCEPT ![w].at = "ending"]
    BY DEF WorkerReturn
  <2>2. worker' = [worker EXCEPT ![w] = r]
    BY <2>1
  <2> QED
    BY <2>2 DEF PoolInv, WorkerReturn
<1>1. /\ worker[w] \in [at : Stages, task : Tasks \union {0}]
      /\ t \in Tasks /\ t # 0 /\ Len(jobs[w]) \in Nat
  BY <1>0, WorkerFacts, TaskFacts
<1>2. r \in [at : Stages, task : Tasks \union {0}] /\ r.at = "ending" /\ r.task = t
  BY <1>1 DEF Stages
<1> HIDE DEF r
<1>4. /\ worker' \in [Workers -> [at : Stages, task : Tasks' \union {0}]]
      /\ \A v \in Workers : worker'[v] = IF v = w THEN r ELSE worker[v]
      /\ \A v \in Workers : worker'[v].at = "idle" <=> worker'[v].task = 0
      /\ Tasks' = Tasks
  BY <1>0, <1>1, <1>2, WorkerStepTypes
<1>5. UNCHANGED <<jobs, laneOf, lanePending, sessionPending, laneWorker, nextWorker, cancelled,
                  started, detached, removed, revived>>
  BY <1>0 DEF marks, history
<1>6. \A v \in Workers : worker'[v].task = worker[v].task
  BY <1>2, <1>4
<1>7. \A v \in Workers : At(v)' = At(v)
  BY <1>4, <1>5, <1>6 DEF At
<1>8. \A v \in Workers : IsInjective(jobs'[v]) /\ worker'[v].task \notin ToSet(jobs'[v])
  BY <1>0, <1>5, <1>6 DEF OnePlace
<1>9. pending' \in [Workers -> Int] /\ \A v \in Workers : pending'[v] = IF v = w THEN pending[w] - 1 ELSE pending[v]
  BY <1>0 DEF PoolTypes
<1>10. ASSUME NEW v \in Workers PROVE pending'[v] = Len(jobs'[v]) + Busy(v)'
  <2>1. pending[v] = Len(jobs[v]) + Busy(v)
    BY Load DEF PoolInv
  <2>2. CASE v = w
    <3>1. Busy(w) = 1 /\ Busy(w)' = 0
      BY <1>0, <1>2, <1>4 DEF Busy
    <3> QED
      BY <1>1, <1>5, <1>9, <2>1, <2>2, <3>1
  <2>3. CASE v # w
    <3>1. Busy(v)' = Busy(v)
      BY <1>4, <2>3 DEF Busy
    <3> QED
      BY <1>5, <1>9, <2>1, <2>3, <3>1
  <2> QED
    BY <2>2, <2>3
<1>11. ASSUME NEW v \in Workers PROVE Stage(v)'
  <2>1. Stage(v) /\ Stage(w)
    BY DEF PoolInv
  <2>2. \A x : (Waiting(x)' <=> Waiting(x)) /\ (Popped(x)' <=> Popped(x))
    BY <1>5 DEF Waiting, Popped
  <2>3. CASE v = w
    <3>1. worker'[v].at = "ending" /\ worker'[v].task = t /\ t \in started \union removed
      BY <1>0, <1>2, <1>4, <2>1, <2>3 DEF Stage
    <3> QED
      BY <1>5, <2>1, <2>2, <2>3, <3>1 DEF Stage
  <2>4. CASE v # w
    <3>1. worker'[v] = worker[v]
      BY <1>4, <2>4
    <3> QED
      BY <1>5, <2>1, <2>2, <3>1 DEF Stage
  <2> QED
    BY <2>3, <2>4
<1>12. RemovedStaysRemoved'
  BY <1>5 DEF PoolInv, Ledger, RemovedStaysRemoved
<1>13. started \subseteq started' /\ started' \subseteq Tasks /\ jobs' \in [Workers -> Seq(Tasks)]
  BY <1>0, <1>5 DEF PoolTypes
<1> QED
  BY <1>4, <1>5, <1>7, <1>8, <1>9, <1>10, <1>11, <1>12, <1>13, InPlace

------------------------------------------------------------------------------
(* A task ends. *)

LEMMA Alone ==
  ASSUME PoolInv, NEW lane \in Lanes, lanePending[lane] = 1,
         NEW t \in InSystem, laneOf[t] = lane, NEW x \in InSystem, laneOf[x] = lane
  PROVE  x = t
<1> DEFINE S == {y \in InSystem : laneOf[y] = lane}
<1>1. Cardinality(S) = 1
  BY DEF PoolInv, CountsExact
<1>2. IsFiniteSet(S)
  <2>1. S \subseteq Tasks
    BY DEF InSystem
  <2> QED
    BY <2>1, TaskFacts DEF PoolInv
<1>3. PICK y : S = {y}
  BY <1>1, <1>2, FS_Singleton
<1> QED
  BY <1>3

LEMMA FinishStep ==
  ASSUME PoolInv, NEW w \in Workers, WorkerFinish(w)
  PROVE  PoolInv'
<1> DEFINE t == worker[w].task
           lane == laneOf[t]
<1>0. /\ PoolTypes /\ OnePlace /\ worker[w].at = "ending"
      /\ worker' = [worker EXCEPT ![w] = Idle]
      /\ lanePending' = [lanePending EXCEPT ![lane] = lanePending[lane] - 1]
      /\ sessionPending' = [sessionPending EXCEPT ![lane[1]] = sessionPending[lane[1]] - 1]
      /\ laneWorker' = BoundAfter(w, lane)
      /\ cancelled' = MarkedAfter(lane)
      /\ UNCHANGED <<jobs, pending, nextWorker, laneOf, history>>
  BY DEF PoolInv, WorkerFinish
<1>1. /\ t \in Tasks /\ t \in At(w) /\ t # 0 /\ lane \in Lanes /\ lane[1] \in Sessions
  BY <1>0, WorkerFacts, TaskFacts
<1>2. /\ worker' \in [Workers -> [at : Stages, task : Tasks' \union {0}]]
      /\ \A v \in Workers : worker'[v] = IF v = w THEN Idle ELSE worker[v]
      /\ \A v \in Workers : worker'[v].at = "idle" <=> worker'[v].task = 0
      /\ Tasks' = Tasks
  <2>1. Idle \in [at : Stages, task : Tasks \union {0}] /\ Idle.at = "idle" /\ Idle.task = 0
    BY DEF Idle, Stages
  <2> QED
    BY <1>0, <2>1, WorkerStepTypes
<1>3. UNCHANGED <<jobs, pending, nextWorker, laneOf, started, detached, removed, revived>>
  BY <1>0 DEF history
<1>4. ASSUME NEW v \in Workers PROVE At(v)' = At(v) \ {t}
  <2>1. CASE v = w
    <3>1. t \notin ToSet(jobs[w]) /\ worker'[w].task = 0 /\ 0 \notin Tasks
      BY <1>0, <1>2, TaskFacts DEF OnePlace, Idle
    <3> QED
      BY <1>1, <1>2, <1>3, <2>1, <3>1 DEF At
  <2>2. CASE v # w
    <3>1. t \notin At(v)
      BY <1>0, <1>1, <2>2, Apart
    <3> QED
      BY <1>2, <1>3, <2>2, <3>1 DEF At
  <2> QED
    BY <2>1, <2>2
<1>5. InSystem' = InSystem \ {t} /\ t \in InSystem /\ InSystem \subseteq Tasks
  <2>1. InSystem' = {x \in Tasks' : \E v \in Workers : x \in At(v)'}
    BY DEF InSystem, Queued, Held, At
  <2> QED
    BY <1>1, <1>2, <1>4, <2>1, Inside
<1>6. \A l \in Lanes : lanePending'[l] = IF l = lane THEN lanePending[l] - 1 ELSE lanePending[l]
  BY <1>0 DEF PoolTypes
<1>7. \A s \in Sessions : sessionPending'[s] = IF s = lane[1] THEN sessionPending[s] - 1 ELSE sessionPending[s]
  BY <1>0 DEF PoolTypes
<1>8. lanePending' \in [Lanes -> Int] /\ sessionPending' \in [Sessions -> Int]
  BY <1>0, <1>1 DEF PoolTypes
<1>9. /\ DOMAIN laneWorker' \subseteq DOMAIN laneWorker
      /\ \A l \in DOMAIN laneWorker' : laneWorker'[l] = laneWorker[l]
      /\ \A l \in DOMAIN laneWorker \ DOMAIN laneWorker' : l = lane /\ lanePending[lane] = 1
  BY <1>0 DEF BoundAfter, Restrict
<1>10. cancelled' \subseteq cancelled /\ \A l \in cancelled \ cancelled' : l = lane /\ lanePending[lane] = 1
  BY <1>0 DEF MarkedAfter
<1>11. \A x \in InSystem' : lanePending[lane] = 1 => laneOf[x] # lane
  BY <1>1, <1>5, Alone
<1> HIDE DEF t, lane
<1>12. PoolTypes'
  BY <1>0, <1>2, <1>3, <1>8, <1>9, <1>10 DEF PoolTypes
<1>13. OnePlace'
  <2>1. \A v \in Workers : worker'[v].task \notin ToSet(jobs'[v])
    <3>1. \A v \in Workers : ToSet(jobs[v]) \subseteq Tasks /\ 0 \notin Tasks
      BY <1>0, WorkerFacts, TaskFacts
    <3> QED
      BY <1>0, <1>2, <1>3, <3>1 DEF OnePlace, Idle
  <2>2. \A u, v \in Workers : At(u)' \intersect At(v)' # {} => u = v
    BY <1>0, <1>4 DEF OnePlace
  <2>3. \A v \in Workers : IsInjective(jobs'[v])
    BY <1>0, <1>3 DEF OnePlace
  <2> QED
    BY <2>1, <2>2, <2>3 DEF OnePlace
<1>14. CountsExact'
  <2>1. ASSUME NEW l \in Lanes
        PROVE  lanePending'[l] = Cardinality({x \in InSystem' : laneOf'[x] = l})
    <3> DEFINE S == {x \in InSystem : laneOf[x] = l}
    <3>1. lanePending[l] = Cardinality(S)
      BY DEF PoolInv, CountsExact
    <3>2. {x \in InSystem' : laneOf'[x] = l} = S \ {t}
      BY <1>3, <1>5
    <3>3. IsFiniteSet(S)
      BY <1>0, <1>5, TaskFacts
    <3>4. t \in S <=> l = lane
      BY <1>5 DEF lane
    <3> HIDE DEF S
    <3>5. Cardinality(S \ {t}) = IF t \in S THEN Cardinality(S) - 1 ELSE Cardinality(S)
      BY <3>3, FS_RemoveElement
    <3> QED
      BY <1>6, <3>1, <3>2, <3>4, <3>5
  <2>2. ASSUME NEW s \in Sessions
        PROVE  sessionPending'[s] = Cardinality({x \in InSystem' : laneOf'[x][1] = s})
    <3> DEFINE S == {x \in InSystem : laneOf[x][1] = s}
    <3>1. sessionPending[s] = Cardinality(S)
      BY DEF PoolInv, CountsExact
    <3>2. {x \in InSystem' : laneOf'[x][1] = s} = S \ {t}
      BY <1>3, <1>5
    <3>3. IsFiniteSet(S)
      BY <1>0, <1>5, TaskFacts
    <3>4. t \in S <=> s = lane[1]
      BY <1>5 DEF lane
    <3> HIDE DEF S
    <3>5. Cardinality(S \ {t}) = IF t \in S THEN Cardinality(S) - 1 ELSE Cardinality(S)
      BY <3>3, FS_RemoveElement
    <3> QED
      BY <1>7, <3>1, <3>2, <3>4, <3>5
  <2>3. ASSUME NEW v \in Workers PROVE pending'[v] = Len(jobs'[v]) + Busy(v)'
    <3>1. pending[v] = Len(jobs[v]) + Busy(v)
      BY Load DEF PoolInv
    <3>2. Busy(v)' = Busy(v)
      BY <1>0, <1>2 DEF Busy, Idle
    <3> QED
      BY <1>3, <3>1, <3>2
  <2> QED
    BY <2>1, <2>2, <2>3 DEF CountsExact, Busy
<1>15. Capped'
  <2>1. \A s \in Sessions : sessionPending[s] \in Int /\ sessionPending[s] <= SessionCap
    BY <1>0 DEF PoolInv, Capped, PoolTypes
  <2> QED
    BY <1>7, <2>1, PoolAssumption DEF Capped
<1>16. ASSUME NEW v \in Workers PROVE Stage(v)'
  <2>1. Stage(v) /\ Stage(w)
    BY DEF PoolInv
  <2>2. \A x \in ToSet(jobs'[v]) : Waiting(x)'
    BY <1>3, <1>10, <2>1 DEF Stage, Waiting
  <2>3. CASE v = w
    BY <1>2, <2>2, <2>3 DEF Stage, Idle
  <2>4. CASE v # w
    <3>1. worker'[v] = worker[v]
      BY <1>2, <2>4
    <3>2. ASSUME NEW x, worker[v].at = "popped", worker[v].task = x PROVE Popped(x)'
      <4>1. x \in At(v) /\ x \in Tasks
        BY <1>0, <3>2, WorkerFacts
      <4>2. x # t
        BY <1>0, <1>1, <2>4, <4>1, Apart
      <4>3. x \in InSystem'
        BY <1>5, <4>1, <4>2, Inside
      <4>4. laneOf[x] \in cancelled <=> laneOf[x] \in cancelled'
        BY <1>10, <1>11, <4>3
      <4>5. Popped(x)
        BY <2>1, <3>2 DEF Stage
      <4> QED
        BY <1>3, <4>4, <4>5 DEF Popped
    <3> QED
      BY <1>3, <2>1, <2>2, <3>1, <3>2, StageNext DEF Stage
  <2> QED
    BY <2>3, <2>4
<1>17. ASSUME NEW v \in Workers PROVE BoundTo(v)'
  <2>1. BoundTo(v)
    BY DEF PoolInv
  <2>2. ASSUME NEW x \in At(v)', x \notin detached
        PROVE  laneOf[x] \in DOMAIN laneWorker' /\ laneWorker'[laneOf[x]] = v
    <3>1. x \in At(v) /\ x \in InSystem'
      <4>1. x \in At(v) /\ x # t
        BY <1>4
      <4>2. x \in Tasks
        BY <4>1 DEF At
      <4> QED
        BY <1>5, <4>1, <4>2, Inside
    <3>2. laneOf[x] \in DOMAIN laneWorker /\ laneWorker[laneOf[x]] = v
      BY <2>1, <2>2, <3>1 DEF BoundTo
    <3> QED
      BY <1>9, <1>11, <3>1, <3>2
  <2> QED
    BY <1>3, <2>2 DEF BoundTo
<1>18. EarlierToo'
  BY <1>3, <1>5 DEF PoolInv, EarlierToo
<1>19. Ledger'
  <2>1. t \in started \union removed
    BY <1>0 DEF PoolInv, Stage, t
  <2> QED
    BY <1>2, <1>3, <1>5, <2>1 DEF PoolInv, Ledger, AcceptedRuns, RemovedStaysRemoved
<1> QED
  BY <1>12, <1>13, <1>14, <1>15, <1>16, <1>17, <1>18, <1>19 DEF PoolInv

------------------------------------------------------------------------------
(* Lanes are removed. *)

(* One channel is drained and refilled, its worker perhaps taking a task    *)
(* meanwhile.                                                               *)
LEMMA Channel ==
  ASSUME PoolInv, NEW taken \in Takings, NEW w \in Workers, NEW lanes, laneOf' = laneOf,
         jobs'[w] = Kept(w, taken, lanes),
         worker'[w] = IF taken[w] = 0 THEN worker[w]
                      ELSE [at |-> "popped", task |-> jobs[w][taken[w]]],
         pending'[w] = pending[w] - Cardinality(Dropped(w, taken, lanes))
  PROVE  /\ jobs'[w] \in Seq(Tasks) /\ IsInjective(jobs'[w])
         /\ worker'[w] \in [at : Stages, task : Tasks \union {0}]
         /\ worker'[w].at = "idle" <=> worker'[w].task = 0
         /\ worker'[w].task \notin ToSet(jobs'[w])
         /\ pending'[w] \in Int /\ pending'[w] = Len(jobs'[w]) + Busy(w)'
         /\ Dropped(w, taken, lanes) \subseteq ToSet(jobs[w])
         /\ At(w)' = At(w) \ Dropped(w, taken, lanes)
         /\ ToSet(jobs'[w]) \subseteq {t \in ToSet(jobs[w]) : laneOf[t] \notin lanes}
         /\ \A t \in Dropped(w, taken, lanes) : laneOf[t] \in lanes
         /\ \/ worker'[w] = worker[w]
            \/ worker'[w].at = "popped" /\ worker'[w].task \in ToSet(jobs[w])
<1> DEFINE left == Left(w, taken)
           drop == Dropped(w, taken, lanes)
           keep == Kept(w, taken, lanes)
<1>0. PoolTypes /\ OnePlace /\ Tasks' = Tasks
  BY DEF PoolInv, Tasks
<1>1. /\ jobs[w] \in Seq(Tasks) /\ IsInjective(jobs[w]) /\ Len(jobs[w]) \in Nat
      /\ ToSet(jobs[w]) \subseteq Tasks /\ worker[w].task \notin ToSet(jobs[w])
      /\ 0 \notin Tasks /\ ToSet(jobs[w]) = {jobs[w][i] : i \in 1 .. Len(jobs[w])}
      /\ (worker[w].at = "idle" <=> worker[w].task = 0)
      /\ worker[w] \in [at : Stages, task : Tasks \union {0}]
  BY <1>0, WorkerFacts, TaskFacts, Elements DEF OnePlace
<1>2. taken[w] \in 0 .. QueueLimit /\ (taken[w] # 0 => worker[w] = Idle /\ taken[w] <= Len(jobs[w]))
  BY DEF Takings
<1>3. taken[w] # 0 => taken[w] \in 1 .. Len(jobs[w])
  BY <1>1, <1>2, PoolAssumption
<1>4. /\ left \in Seq(Tasks) /\ IsInjective(left)
      /\ ToSet(left) = IF taken[w] = 0 THEN ToSet(jobs[w]) ELSE ToSet(jobs[w]) \ {jobs[w][taken[w]]}
      /\ Len(left) = IF taken[w] = 0 THEN Len(jobs[w]) ELSE Len(jobs[w]) - 1
  <2>1. left = IF taken[w] = 0 THEN jobs[w] ELSE RemoveAt(jobs[w], taken[w])
    BY DEF Left
  <2> HIDE DEF left
  <2>2. CASE taken[w] = 0
    BY <1>1, <2>1, <2>2
  <2>3. CASE taken[w] # 0
    <3> DEFINE i == taken[w]
    <3>1. i \in 1 .. Len(jobs[w]) /\ left = RemoveAt(jobs[w], i)
      BY <1>3, <2>1, <2>3
    <3> HIDE DEF i
    <3>2. /\ left \in Seq(Tasks) /\ IsInjective(left)
          /\ ToSet(left) = ToSet(jobs[w]) \ {jobs[w][i]}
          /\ Len(left) = Len(jobs[w]) - 1
      BY <1>1, <3>1, Removed
    <3> QED
      BY <2>3, <3>2 DEF i
  <2> QED
    BY <2>2, <2>3
<1>5. keep = Keep(left, lanes)
  BY DEF Kept
<1>6. drop = {t \in ToSet(left) : laneOf[t] \in lanes}
  BY DEF Dropped
<1> HIDE DEF left, drop, keep
<1>7. /\ keep \in Seq(Tasks) /\ IsInjective(keep)
      /\ ToSet(keep) = {t \in ToSet(left) : laneOf[t] \notin lanes}
  BY <1>4, <1>5, Keeping
<1>8. Len(keep) = Len(left) - Cardinality(drop) /\ Len(keep) \in Nat /\ Cardinality(drop) \in Nat
  <2>1. IsFiniteSet(ToSet(left)) /\ Cardinality(ToSet(left)) = Len(left)
    BY <1>4, InjectiveCount
  <2>2. Cardinality(ToSet(keep)) = Len(keep)
    BY <1>7, InjectiveCount
  <2>3. ToSet(keep) = ToSet(left) \ drop /\ drop \subseteq ToSet(left)
    BY <1>6, <1>7
  <2>4. /\ Cardinality(ToSet(left) \ drop) = Cardinality(ToSet(left)) - Cardinality(drop)
        /\ Cardinality(drop) \in Nat /\ Cardinality(ToSet(left) \ drop) \in Nat
    BY <2>1, <2>3, Less
  <2> QED
    BY <2>1, <2>2, <2>3, <2>4
<1>9. jobs'[w] = keep /\ pending'[w] = pending[w] - Cardinality(drop)
  BY DEF keep, drop
<1>10. pending[w] = Len(jobs[w]) + Busy(w) /\ pending[w] \in Int
  BY <1>0, Load DEF PoolInv, PoolTypes
<1>11. drop \subseteq ToSet(left) /\ ToSet(left) \subseteq ToSet(jobs[w])
  BY <1>4, <1>6
<1>12. CASE taken[w] = 0
  <2>1. worker'[w] = worker[w] /\ ToSet(left) = ToSet(jobs[w]) /\ Len(left) = Len(jobs[w])
    BY <1>4, <1>12
  <2>2. At(w)' = At(w) \ drop
    BY <1>0, <1>1, <1>6, <1>7, <1>9, <2>1 DEF At
  <2>3. Busy(w)' = Busy(w) /\ Busy(w) \in {0, 1}
    BY <2>1 DEF Busy
  <2>4. pending'[w] \in Int /\ pending'[w] = Len(jobs'[w]) + Busy(w)'
    BY <1>1, <1>8, <1>9, <1>10, <2>1, <2>3
  <2>5. worker'[w].task \notin ToSet(jobs'[w]) /\ ToSet(jobs'[w]) \subseteq {t \in ToSet(jobs[w]) : laneOf[t] \notin lanes}
    BY <1>1, <1>7, <1>9, <2>1
  <2> QED
    BY <1>1, <1>6, <1>7, <1>9, <1>11, <2>1, <2>2, <2>4, <2>5 DEF drop
<1>13. CASE taken[w] # 0
  <2> DEFINE x == jobs[w][taken[w]]
  <2>1. /\ worker'[w] = [at |-> "popped", task |-> x] /\ worker[w] = Idle
        /\ ToSet(left) = ToSet(jobs[w]) \ {x} /\ Len(left) = Len(jobs[w]) - 1
        /\ x \in ToSet(jobs[w]) /\ x \in Tasks
    BY <1>1, <1>2, <1>3, <1>4, <1>13
  <2> HIDE DEF x
  <2>2. At(w)' = At(w) \ drop
    <3>1. worker'[w].task = x /\ worker[w].task = 0
      BY <2>1 DEF Idle
    <3> QED
      BY <1>0, <1>1, <1>6, <1>7, <1>9, <2>1, <3>1 DEF At
  <2>3. Busy(w)' = 1 /\ Busy(w) = 0
    BY <2>1 DEF Busy, Idle
  <2>4. pending'[w] \in Int /\ pending'[w] = Len(jobs'[w]) + Busy(w)'
    BY <1>1, <1>8, <1>9, <1>10, <2>1, <2>3
  <2>5. worker'[w].task \notin ToSet(jobs'[w]) /\ ToSet(jobs'[w]) \subseteq {t \in ToSet(jobs[w]) : laneOf[t] \notin lanes}
    BY <1>1, <1>7, <1>9, <2>1
  <2>6. /\ worker'[w] \in [at : Stages, task : Tasks \union {0}]
        /\ (worker'[w].at = "idle" <=> worker'[w].task = 0)
        /\ worker'[w].at = "popped" /\ worker'[w].task \in ToSet(jobs[w])
    BY <1>1, <2>1 DEF Stages
  <2> QED
    BY <1>6, <1>7, <1>9, <1>11, <2>2, <2>4, <2>5, <2>6 DEF drop
<1> QED
  BY <1>12, <1>13

(* What RemoveLane, RemoveSession and FinalizeLane have in common: every    *)
(* lane that is bound is marked, and perhaps others.                        *)
LEMMA RemovalStep ==
  ASSUME PoolInv, NEW lanes, lanes \subseteq Lanes, NEW marked, marked \subseteq lanes,
         lanes \intersect DOMAIN laneWorker \subseteq marked,
         NEW taken \in Takings,
         Compact(taken, lanes), Recorded(lanes), Unbound(lanes),
         cancelled' = cancelled \union marked, UNCHANGED <<nextWorker, laneOf>>
  PROVE  PoolInv'
<1> DEFINE all == lanes \union cancelled
           drop(w) == Dropped(w, taken, all)
           gone == UNION {drop(w) : w \in Workers}
<1>0. /\ PoolTypes /\ OnePlace /\ Tasks' = Tasks /\ laneOf' = laneOf /\ nextWorker' = nextWorker
  BY DEF PoolInv, Tasks
<1>1. /\ jobs' = [w \in Workers |-> Kept(w, taken, all)]
      /\ worker' = [w \in Workers |->
                      IF taken[w] = 0 THEN worker[w]
                      ELSE [at |-> "popped", task |-> jobs[w][taken[w]]]]
      /\ pending' = [w \in Workers |-> pending[w] - Cardinality(Dropped(w, taken, all))]
      /\ lanePending' = [lane \in Lanes |->
                           lanePending[lane] - Cardinality({t \in gone : laneOf[t] = lane})]
      /\ sessionPending' = [s \in Sessions |-> sessionPending[s] - Cardinality({t \in gone : laneOf[t][1] = s})]
  BY DEF Compact, SessionShare
<1>2. /\ detached' = detached \union {t \in Tasks : laneOf[t] \in lanes /\ (Queued(t) \/ Held(t))}
      /\ removed' = removed \union {t \in Tasks : laneOf[t] \in lanes /\ Unbegun(t)}
      /\ started' = started /\ revived' = revived
  BY DEF Recorded
<1>3. /\ DOMAIN laneWorker' = DOMAIN laneWorker \ lanes
      /\ \A l \in DOMAIN laneWorker' : laneWorker'[l] = laneWorker[l]
  BY DEF Unbound, Restrict
<1>4. ASSUME NEW w \in Workers
      PROVE  /\ jobs'[w] \in Seq(Tasks) /\ IsInjective(jobs'[w])
             /\ worker'[w] \in [at : Stages, task : Tasks \union {0}]
             /\ worker'[w].at = "idle" <=> worker'[w].task = 0
             /\ worker'[w].task \notin ToSet(jobs'[w])
             /\ pending'[w] \in Int /\ pending'[w] = Len(jobs'[w]) + Busy(w)'
             /\ drop(w) \subseteq ToSet(jobs[w])
             /\ At(w)' = At(w) \ drop(w)
             /\ ToSet(jobs'[w]) \subseteq {t \in ToSet(jobs[w]) : laneOf[t] \notin all}
             /\ \A t \in drop(w) : laneOf[t] \in all
             /\ \/ worker'[w] = worker[w]
                \/ worker'[w].at = "popped" /\ worker'[w].task \in ToSet(jobs[w])
  <2>1. /\ jobs'[w] = Kept(w, taken, all)
        /\ worker'[w] = (IF taken[w] = 0 THEN worker[w] ELSE [at |-> "popped", task |-> jobs[w][taken[w]]])
        /\ pending'[w] = pending[w] - Cardinality(Dropped(w, taken, all))
    BY <1>1
  <2> HIDE DEF all
  <2> QED
    BY <1>0, <2>1, Channel
<1> HIDE DEF drop
<1>5. ASSUME NEW w \in Workers, NEW t \in ToSet(jobs[w])
      PROVE  Waiting(t) /\ t \in Tasks /\ t \in At(w) /\ Queued(t)
  BY <1>0, WorkerFacts DEF PoolInv, Stage, Queued
(* A task that is dropped is of a lane that is meant. *)
<1>6. ASSUME NEW w \in Workers, NEW t \in drop(w)
      PROVE  laneOf[t] \in lanes /\ t \in Tasks /\ t \in At(w) /\ Queued(t)
  BY <1>4, <1>5 DEF Waiting
<1>7. InSystem \subseteq Tasks /\ gone \subseteq InSystem
  <2>1. gone \subseteq Tasks /\ \A t \in gone : \E w \in Workers : t \in At(w)
    BY <1>6
  <2> QED
    BY <2>1, Inside
<1>8. InSystem' = InSystem \ gone
  <2>1. InSystem' = {x \in Tasks' : \E v \in Workers : x \in At(v)'}
    BY DEF InSystem, Queued, Held, At
  <2>2. ASSUME NEW v \in Workers, NEW w \in Workers, NEW x \in At(v), x \in drop(w) PROVE v = w
    BY <1>0, <1>6, <2>2, Apart
  <2>3. ASSUME NEW x \in InSystem' PROVE x \in InSystem \ gone
    <3>1. PICK v \in Workers : x \in At(v) /\ x \notin drop(v) /\ x \in Tasks
      BY <1>0, <1>4, <2>1
    <3> QED
      BY <2>2, <3>1, Inside
  <2>4. ASSUME NEW x \in InSystem \ gone PROVE x \in InSystem'
    BY <1>0, <1>4, <2>1, Inside
  <2> QED
    BY <2>3, <2>4
<1> HIDE DEF gone
<1>9. ASSUME NEW x \in InSystem, laneOf[x] \in lanes PROVE x \in detached'
  BY <1>2, <1>9 DEF InSystem
<1>10. ASSUME NEW x \in Tasks, Unbegun(x), laneOf[x] \in lanes PROVE x \in removed'
  BY <1>2, <1>10
<1>11. ASSUME NEW x, laneOf[x] \notin lanes
       PROVE  /\ x \in detached' <=> x \in detached
              /\ x \in removed' <=> x \in removed
              /\ laneOf[x] \in cancelled' <=> laneOf[x] \in cancelled
  BY <1>2, <1>11
<1>12. PoolTypes'
  <2>1. jobs' \in [Workers -> Seq(Tasks)]
    BY <1>1, <1>4
  <2>2. worker' \in [Workers -> [at : Stages, task : Tasks \union {0}]]
    BY <1>1, <1>4
  <2>3. pending' \in [Workers -> Int]
    BY <1>1, <1>4
  <2>4. lanePending' \in [Lanes -> Int]
    <3>1. ASSUME NEW l \in Lanes PROVE lanePending'[l] \in Int
      <4>1. {t \in gone : laneOf[t] = l} \subseteq Tasks
        BY <1>7
      <4>2. Cardinality({t \in gone : laneOf[t] = l}) \in Nat
        BY <1>0, <4>1, TaskFacts
      <4>3. lanePending[l] \in Int
        BY <1>0 DEF PoolTypes
      <4> QED
        BY <1>1, <4>2, <4>3
    <3> QED
      BY <1>1, <3>1
  <2>5. sessionPending' \in [Sessions -> Int]
    <3>1. ASSUME NEW s \in Sessions PROVE sessionPending'[s] \in Int
      <4>1. {t \in gone : laneOf[t][1] = s} \subseteq Tasks
        BY <1>7
      <4>2. Cardinality({t \in gone : laneOf[t][1] = s}) \in Nat
        BY <1>0, <4>1, TaskFacts
      <4>3. sessionPending[s] \in Int
        BY <1>0 DEF PoolTypes
      <4> QED
        BY <1>1, <4>2, <4>3
    <3> QED
      BY <1>1, <3>1
  <2>6. laneOf' \in Seq(Lanes) /\ cancelled' \subseteq Lanes /\ nextWorker' \in Nat
    BY <1>0 DEF PoolTypes
  <2>7. started' \subseteq Tasks /\ detached' \subseteq Tasks /\ removed' \subseteq Tasks
    BY <1>0, <1>2 DEF PoolTypes
  <2>8. DOMAIN laneWorker' \subseteq Lanes /\ \A l \in DOMAIN laneWorker' : laneWorker'[l] \in Workers
    BY <1>0, <1>3 DEF PoolTypes
  <2> QED
    BY <1>0, <1>4, <2>1, <2>2, <2>3, <2>4, <2>5, <2>6, <2>7, <2>8 DEF PoolTypes
<1>13. OnePlace'
  BY <1>0, <1>4 DEF OnePlace
<1>14. CountsExact'
  <2>1. ASSUME NEW l \in Lanes
        PROVE  lanePending'[l] = Cardinality({x \in InSystem' : laneOf'[x] = l})
    <3> DEFINE S == {x \in InSystem : laneOf[x] = l}
               D == {x \in gone : laneOf[x] = l}
    <3>1. lanePending[l] = Cardinality(S)
      BY DEF PoolInv, CountsExact
    <3>2. {x \in InSystem' : laneOf'[x] = l} = S \ D
      BY <1>0, <1>8
    <3>3. IsFiniteSet(S) /\ D \subseteq S
      BY <1>0, <1>7, TaskFacts
    <3>4. lanePending'[l] = lanePending[l] - Cardinality(D)
      BY <1>1
    <3> HIDE DEF S, D
    <3> QED
      BY <3>1, <3>2, <3>3, <3>4, Less
  <2>2. ASSUME NEW s \in Sessions
        PROVE  sessionPending'[s] = Cardinality({x \in InSystem' : laneOf'[x][1] = s})
    <3> DEFINE S == {x \in InSystem : laneOf[x][1] = s}
               D == {x \in gone : laneOf[x][1] = s}
    <3>1. sessionPending[s] = Cardinality(S)
      BY DEF PoolInv, CountsExact
    <3>2. {x \in InSystem' : laneOf'[x][1] = s} = S \ D
      BY <1>0, <1>8
    <3>3. IsFiniteSet(S) /\ D \subseteq S
      BY <1>0, <1>7, TaskFacts
    <3>4. sessionPending'[s] = sessionPending[s] - Cardinality(D)
      BY <1>1
    <3> HIDE DEF S, D
    <3> QED
      BY <3>1, <3>2, <3>3, <3>4, Less
  <2> QED
    BY <1>4, <2>1, <2>2 DEF CountsExact, Busy
<1>15. Capped'
  <2>1. ASSUME NEW s \in Sessions PROVE sessionPending'[s] <= SessionCap
    <3>1. Cardinality({t \in gone : laneOf[t][1] = s}) \in Nat
      <4>1. {t \in gone : laneOf[t][1] = s} \subseteq Tasks
        BY <1>7
      <4> QED
        BY <1>0, <4>1, TaskFacts
    <3>2. sessionPending[s] \in Int /\ sessionPending[s] <= SessionCap
      BY <1>0 DEF PoolInv, Capped, PoolTypes
    <3>3. sessionPending'[s] = sessionPending[s] - Cardinality({t \in gone : laneOf[t][1] = s})
      BY <1>1
    <3> QED
      BY <3>1, <3>2, <3>3, PoolAssumption
  <2> QED
    BY <2>1 DEF Capped
<1>16. ASSUME NEW v \in Workers PROVE Stage(v)'
  <2>1. Stage(v)
    BY DEF PoolInv
  <2>2. ASSUME NEW x \in ToSet(jobs'[v]) PROVE Waiting(x)'
    <3>1. x \in ToSet(jobs[v]) /\ laneOf[x] \notin lanes
      BY <1>4
    <3>2. Waiting(x)
      BY <2>1, <3>1 DEF Stage
    <3> QED
      BY <1>0, <1>2, <1>11, <3>1, <3>2 DEF Waiting
  <2>3. ASSUME NEW x, worker'[v].at = "popped", worker'[v].task = x PROVE Popped(x)'
    <3>1. \/ worker[v] = worker'[v] /\ Popped(x)
          \/ x \in ToSet(jobs[v]) /\ Waiting(x)
      BY <1>4, <1>5, <2>1, <2>3 DEF Stage
    <3>2. Popped(x)
      BY <3>1 DEF Popped, Waiting
    <3>3. x \in At(v) /\ x \in Tasks /\ Unbegun(x)
      <4>1. CASE worker[v] = worker'[v]
        <5>1. x \in At(v) /\ x \in Tasks
          BY <1>0, <2>3, <4>1, WorkerFacts
        <5>2. worker[v] = [at |-> "popped", task |-> x]
          BY <1>0, <2>3, <4>1, WorkerFacts
        <5> QED
          BY <5>1, <5>2 DEF Unbegun
      <4>2. CASE x \in ToSet(jobs[v])
        BY <1>5, <4>2 DEF Unbegun
      <4> QED
        BY <3>1, <4>1, <4>2
    <3>4. CASE laneOf[x] \notin lanes
      BY <1>0, <1>2, <1>11, <3>2, <3>4 DEF Popped
    <3>5. CASE laneOf[x] \in lanes
      <4>1. x \in removed'
        BY <1>10, <3>3, <3>5
      <4>2. laneOf[x] \in cancelled' \/ x \in revived
        <5>1. CASE laneOf[x] \in DOMAIN laneWorker
          BY <3>5, <5>1
        <5>2. CASE laneOf[x] \notin DOMAIN laneWorker
          <6>1. x \in detached
            BY <3>3, <5>2 DEF PoolInv, BoundTo
          <6> QED
            BY <3>2, <6>1 DEF Popped
        <5> QED
          BY <5>1, <5>2
      <4> QED
        BY <1>0, <1>2, <3>2, <4>1, <4>2 DEF Popped
    <3> QED
      BY <3>4, <3>5
  <2>4. worker'[v].at = "running" => worker'[v].task \in started'
    BY <1>2, <1>4, <2>1 DEF Stage
  <2>5. worker'[v].at \in {"skipping", "ending"} => worker'[v].task \in started' \union removed'
    BY <1>2, <1>4, <2>1 DEF Stage
  <2> QED
    BY <2>2, <2>3, <2>4, <2>5, StageNext
<1>17. ASSUME NEW v \in Workers PROVE BoundTo(v)'
  <2>1. BoundTo(v)
    BY DEF PoolInv
  <2>2. ASSUME NEW x \in At(v)', x \notin detached'
        PROVE  laneOf[x] \in DOMAIN laneWorker' /\ laneWorker'[laneOf[x]] = v
    <3>1. x \in At(v) /\ x \in InSystem
      <4>1. x \in At(v)
        BY <1>4
      <4>2. x \in Tasks
        BY <4>1 DEF At
      <4> QED
        BY <4>1, <4>2, Inside
    <3>2. laneOf[x] \notin lanes /\ x \notin detached
      BY <1>2, <1>9, <2>2, <3>1
    <3> QED
      BY <1>3, <2>1, <3>1, <3>2 DEF BoundTo
  <2> QED
    BY <1>0, <2>2 DEF BoundTo
<1>18. EarlierToo'
  <2>1. ASSUME NEW x \in InSystem', NEW y \in InSystem', laneOf[x] = laneOf[y], x < y, y \in detached'
        PROVE  x \in detached'
    <3>1. x \in InSystem /\ y \in InSystem
      BY <1>8
    <3>2. CASE laneOf[y] \in lanes
      BY <1>9, <2>1, <3>1, <3>2
    <3>3. CASE laneOf[y] \notin lanes
      BY <1>2, <1>11, <2>1, <3>1, <3>3 DEF PoolInv, EarlierToo
    <3> QED
      BY <3>2, <3>3
  <2> QED
    BY <1>0, <2>1 DEF EarlierToo
<1>19. Ledger'
  <2>1. ASSUME NEW x \in Tasks, Unbegun(x) PROVE x \notin started
    <3>1. CASE Queued(x)
      BY <1>5, <3>1 DEF Queued, Waiting
    <3>2. CASE ~Queued(x)
      <4>1. PICK v \in Workers : worker[v] = [at |-> "popped", task |-> x]
        BY <2>1, <3>2 DEF Unbegun
      <4>2. worker[v].at = "popped" /\ worker[v].task = x
        BY <4>1
      <4>3. Popped(x)
        BY <4>2 DEF PoolInv, Stage
      <4> QED
        BY <4>3 DEF Popped
    <3> QED
      BY <3>1, <3>2
  <2>2. RemovedStaysRemoved'
    BY <1>2, <2>1 DEF PoolInv, Ledger, RemovedStaysRemoved
  <2>3. ASSUME NEW x \in gone PROVE x \in removed'
    <3>1. laneOf[x] \in lanes /\ x \in Tasks /\ Queued(x)
      BY <1>6 DEF gone
    <3> QED
      BY <1>10, <3>1 DEF Unbegun
  <2>4. AcceptedRuns'
    BY <1>0, <1>2, <1>8, <2>3 DEF PoolInv, Ledger, AcceptedRuns
  <2> QED
    BY <2>2, <2>4 DEF Ledger
<1> QED
  BY <1>12, <1>13, <1>14, <1>15, <1>16, <1>17, <1>18, <1>19 DEF PoolInv

LEMMA RemoveSteps ==
  ASSUME PoolInv, NEW taken \in Takings,
         \/ \E lane \in Lanes : RemoveLane(lane, taken)
         \/ \E s \in Sessions : RemoveSession(s, taken)
         \/ \E w \in Workers : FinalizeLane(w, taken)
  PROVE  PoolInv'
<1>1. ASSUME NEW lane \in Lanes, RemoveLane(lane, taken) PROVE PoolInv'
  <2>1. /\ Compact(taken, {lane}) /\ Recorded({lane}) /\ Unbound({lane})
        /\ cancelled' = cancelled \union {lane} /\ UNCHANGED <<nextWorker, laneOf>>
    BY <1>1 DEF RemoveLane
  <2>2. {lane} \subseteq Lanes /\ {lane} \intersect DOMAIN laneWorker \subseteq {lane}
    OBVIOUS
  <2> QED
    BY <2>1, <2>2, RemovalStep
<1>2. ASSUME NEW s \in Sessions, RemoveSession(s, taken) PROVE PoolInv'
  <2> DEFINE lanes == {lane \in Lanes : lane[1] = s}
             marked == lanes \intersect DOMAIN laneWorker
  <2>1. /\ Compact(taken, lanes) /\ Recorded(lanes) /\ Unbound(lanes)
        /\ cancelled' = cancelled \union marked /\ UNCHANGED <<nextWorker, laneOf>>
    BY <1>2 DEF RemoveSession
  <2>2. lanes \subseteq Lanes /\ marked \subseteq lanes /\ lanes \intersect DOMAIN laneWorker \subseteq marked
    OBVIOUS
  <2> HIDE DEF lanes, marked
  <2> QED
    BY <2>1, <2>2, RemovalStep
<1>3. ASSUME NEW w \in Workers, FinalizeLane(w, taken) PROVE PoolInv'
  <2> DEFINE lane == laneOf[worker[w].task]
  <2>1. /\ Compact(taken, {lane}) /\ Recorded({lane}) /\ Unbound({lane}) /\ worker[w].at = "running"
        /\ cancelled' = cancelled \union {lane} /\ UNCHANGED <<nextWorker, laneOf>>
    BY <1>3 DEF FinalizeLane
  <2>2. lane \in Lanes
    BY <2>1, WorkerFacts, TaskFacts DEF PoolInv
  <2> HIDE DEF lane
  <2>3. {lane} \subseteq Lanes /\ {lane} \intersect DOMAIN laneWorker \subseteq {lane}
    BY <2>2
  <2> QED
    BY <2>1, <2>3, RemovalStep
<1> QED
  BY <1>1, <1>2, <1>3

------------------------------------------------------------------------------
(* A task is handed in. *)

LEMMA LeastLoadedIsOne ==
  ASSUME PoolInv
  PROVE  LeastLoaded \in Workers
<1> DEFINE Turn(w) == (w - nextWorker) % WorkerCount
           loads == {pending[w] : w \in Workers}
<1>1. Workers # {} /\ WorkerCount \in Nat \ {0} /\ nextWorker \in Nat
  <2>1. 0 \in Workers
    BY PoolAssumption DEF Workers
  <2> QED
    BY <2>1, PoolAssumption DEF PoolInv, PoolTypes
<1>2. ASSUME NEW w \in Workers PROVE pending[w] \in Nat /\ Turn(w) \in Nat
  <2>1. pending[w] = Len(jobs[w]) + Busy(w) /\ Len(jobs[w]) \in Nat /\ Busy(w) \in {0, 1}
    BY Load, WorkerFacts DEF PoolInv, Busy
  <2>2. w - nextWorker \in Int
    BY <1>1 DEF Workers
  <2>3. Turn(w) \in Nat
    BY <1>1, <2>2
  <2> QED
    BY <2>1, <2>3
<1> HIDE DEF Turn
<1>3. PICK m \in loads : \A n \in loads : m <= n
  <2>1. loads \subseteq Nat /\ loads # {}
    BY <1>1, <1>2
  <2> HIDE DEF loads
  <2> QED
    BY <2>1, Least
<1> DEFINE turns == {Turn(w) : w \in {v \in Workers : pending[v] = m}}
<1>4. PICK k \in turns : \A n \in turns : k <= n
  <2>1. turns \subseteq Nat /\ turns # {}
    BY <1>2, <1>3
  <2> HIDE DEF turns
  <2> QED
    BY <2>1, Least
<1>5. PICK w \in Workers : pending[w] = m /\ Turn(w) = k
  BY <1>4
<1>6. ASSUME NEW v \in Workers
      PROVE  pending[w] < pending[v] \/ (pending[w] = pending[v] /\ Turn(w) <= Turn(v))
  BY <1>2, <1>3, <1>4, <1>5
<1>7. \E x \in Workers : \A v \in Workers :
        \/ pending[x] < pending[v]
        \/ pending[x] = pending[v] /\ (x - nextWorker) % WorkerCount <= (v - nextWorker) % WorkerCount
  BY <1>6 DEF Turn
<1> QED
  BY <1>7 DEF LeastLoaded

LEMMA Refused ==
  ASSUME PoolInv, NEW lane \in Lanes,
         cancelled' = cancelled \ {lane}, revived' = revived \union {t \in removed : laneOf[t] = lane},
         UNCHANGED <<jobs, laneOf, pending, lanePending, sessionPending, laneWorker, worker,
                     started, detached, removed>>,
         nextWorker' \in Nat
  PROVE  PoolInv'
<1>1. Tasks' = Tasks /\ \A w \in Workers : At(w)' = At(w)
  BY DEF Tasks, At
<1>2. InSystem' = InSystem
  BY DEF InSystem, Tasks, Queued, Held
<1>3. PoolTypes' /\ OnePlace'
  BY <1>1 DEF PoolInv, PoolTypes, OnePlace
<1>4. CountsExact' /\ Capped' /\ EarlierToo'
  BY <1>2 DEF PoolInv, CountsExact, Capped, EarlierToo
<1>5. ASSUME NEW w \in Workers PROVE Stage(w)' /\ BoundTo(w)'
  <2>1. Stage(w) /\ BoundTo(w)
    BY DEF PoolInv
  <2>2. \A x : Waiting(x) => Waiting(x)'
    BY DEF Waiting
  <2>3. \A x : Popped(x) => Popped(x)'
    BY DEF Popped
  <2>4. Stage(w)'
    BY <2>1, <2>2, <2>3, StageNext DEF Stage
  <2> QED
    BY <1>1, <2>1, <2>4 DEF BoundTo
<1>6. Ledger'
  BY <1>1, <1>2 DEF PoolInv, Ledger, RemovedStaysRemoved, AcceptedRuns
<1> QED
  BY <1>3, <1>4, <1>5, <1>6 DEF PoolInv

LEMMA Accepted ==
  ASSUME PoolInv, NEW lane \in Lanes, NEW w \in Workers, HasRoom(w), TryEnqueue(w, lane),
         lane \in DOMAIN laneWorker => w = laneWorker[lane],
         sessionPending[lane[1]] < SessionCap,
         cancelled' = cancelled \ {lane}, revived' = revived \union {t \in removed : laneOf[t] = lane},
         UNCHANGED <<worker, started, detached, removed>>,
         nextWorker' \in Nat
  PROVE  PoolInv'
<1> DEFINE n == Len(laneOf) + 1
<1>0. PoolTypes /\ OnePlace /\ lane[1] \in Sessions
  BY DEF PoolInv, Sessions
<1>1. /\ jobs' = [jobs EXCEPT ![w] = Append(jobs[w], n)]
      /\ laneOf' = Append(laneOf, lane)
      /\ pending' = [pending EXCEPT ![w] = pending[w] + 1]
      /\ lanePending' = [lanePending EXCEPT ![lane] = lanePending[lane] + 1]
      /\ sessionPending' = [sessionPending EXCEPT ![lane[1]] = sessionPending[lane[1]] + 1]
      /\ laneWorker' = [l \in DOMAIN laneWorker \union {lane} |-> IF l = lane THEN w ELSE laneWorker[l]]
  BY DEF TryEnqueue
<1>2. Len(laneOf) \in Nat /\ laneOf \in Seq(Lanes) /\ Tasks \subseteq Nat /\ 0 \notin Tasks
  BY <1>0, TaskFacts DEF PoolTypes
<1>3. /\ laneOf' \in Seq(Lanes) /\ Len(laneOf') = n /\ laneOf'[n] = lane
      /\ \A t \in Tasks : laneOf'[t] = laneOf[t]
  BY <1>1, <1>2, AppendProperties DEF Tasks
<1>4. n \in Nat /\ n # 0 /\ n \notin Tasks /\ Tasks' = Tasks \union {n} /\ \A t \in Tasks : t < n
  BY <1>2, <1>3 DEF Tasks
<1> HIDE DEF n
<1>5. ASSUME NEW v \in Workers
      PROVE  /\ jobs[v] \in Seq(Tasks) /\ jobs[v] \in Seq(Tasks') /\ ToSet(jobs[v]) \subseteq Tasks
             /\ IsInjective(jobs[v]) /\ Len(jobs[v]) \in Nat
             /\ worker[v].task \notin ToSet(jobs[v]) /\ worker[v].task \in Tasks \union {0}
  <2>1. jobs[v] \in Seq(Tasks) /\ ToSet(jobs[v]) \subseteq Tasks /\ Len(jobs[v]) \in Nat
        /\ worker[v].task \in Tasks \union {0}
    BY <1>0, WorkerFacts
  <2>2. jobs[v] \in Seq(Tasks')
    BY <1>4, <2>1, SeqMonotonic
  <2> QED
    BY <1>0, <2>1, <2>2 DEF OnePlace
<1>6. /\ Append(jobs[w], n) \in Seq(Tasks') /\ IsInjective(Append(jobs[w], n))
      /\ ToSet(Append(jobs[w], n)) = ToSet(jobs[w]) \union {n}
      /\ Len(Append(jobs[w], n)) = Len(jobs[w]) + 1
  <2>1. n \in Tasks' /\ n \notin ToSet(jobs[w])
    BY <1>4, <1>5
  <2> QED
    BY <1>5, <2>1, Appended
<1>7. jobs' \in [Workers -> Seq(Tasks')] /\ \A v \in Workers : jobs'[v] = IF v = w THEN Append(jobs[w], n) ELSE jobs[v]
  <2>1. \A v \in Workers : jobs'[v] = IF v = w THEN Append(jobs[w], n) ELSE jobs[v]
    BY <1>0, <1>1 DEF PoolTypes
  <2>2. DOMAIN jobs' = Workers /\ jobs' = [v \in Workers |-> jobs'[v]]
    BY <1>0, <1>1 DEF PoolTypes
  <2> QED
    BY <1>5, <1>6, <2>1, <2>2
<1>7a. ASSUME NEW v \in Workers
       PROVE  ToSet(jobs'[v]) = IF v = w THEN ToSet(jobs[v]) \union {n} ELSE ToSet(jobs[v])
  <2>1. CASE v = w
    <3>1. jobs'[v] = Append(jobs[w], n)
      BY <1>7, <2>1
    <3> QED
      BY <1>6, <2>1, <3>1
  <2>2. CASE v # w
    <3>1. jobs'[v] = jobs[v]
      BY <1>7, <2>2
    <3> QED
      BY <2>2, <3>1
  <2> QED
    BY <2>1, <2>2
<1>8. ASSUME NEW v \in Workers PROVE At(v)' = IF v = w THEN At(v) \union {n} ELSE At(v)
  <2>1. worker'[v].task = worker[v].task /\ worker[v].task # n
    BY <1>4, <1>5
  <2>2. CASE v = w
    BY <1>4, <1>6, <1>7, <2>1, <2>2 DEF At
  <2>3. CASE v # w
    BY <1>4, <1>5, <1>7, <2>1, <2>3 DEF At
  <2> QED
    BY <2>2, <2>3
<1>9. InSystem' = InSystem \union {n} /\ n \notin InSystem /\ InSystem \subseteq Tasks
  <2>1. InSystem' = {x \in Tasks' : \E v \in Workers : x \in At(v)'}
    BY DEF InSystem, Queued, Held, At
  <2>2. InSystem = {x \in Tasks : \E v \in Workers : x \in At(v)}
    BY Inside
  <2>3. \A v \in Workers : At(v) \subseteq Tasks
    BY DEF At
  <2> QED
    BY <1>4, <1>8, <2>1, <2>2, <2>3
<1>10. ASSUME NEW v \in Workers PROVE pending'[v] = IF v = w THEN pending[v] + 1 ELSE pending[v]
  BY <1>0, <1>1 DEF PoolTypes
<1>11. PoolTypes'
  <2>1. worker' \in [Workers -> [at : Stages, task : Tasks' \union {0}]]
    <3>1. \A v \in Workers : worker[v] \in [at : Stages, task : Tasks' \union {0}]
      BY <1>0, <1>4 DEF PoolTypes
    <3> QED
      BY <1>0, <3>1 DEF PoolTypes
  <2>2. \A v \in Workers : worker'[v].at = "idle" <=> worker'[v].task = 0
    BY <1>0 DEF PoolTypes
  <2>3. pending' \in [Workers -> Int] /\ lanePending' \in [Lanes -> Int] /\ sessionPending' \in [Sessions -> Int]
    BY <1>0, <1>1 DEF PoolTypes
  <2>4. DOMAIN laneWorker' \subseteq Lanes /\ \A l \in DOMAIN laneWorker' : laneWorker'[l] \in Workers
    BY <1>0, <1>1 DEF PoolTypes
  <2>5. /\ cancelled' \subseteq Lanes
        /\ started' \subseteq Tasks' /\ detached' \subseteq Tasks' /\ removed' \subseteq Tasks'
    BY <1>0, <1>4 DEF PoolTypes
  <2> QED
    BY <1>3, <1>7, <2>1, <2>2, <2>3, <2>4, <2>5 DEF PoolTypes
<1>12. OnePlace'
  <2>1. ASSUME NEW u \in Workers, NEW v \in Workers, NEW x \in At(u)', x \in At(v)' PROVE u = v
    <3>1. \A y \in Workers : At(y) \subseteq Tasks
      BY DEF At
    <3>2. CASE x = n
      BY <1>4, <1>8, <2>1, <3>1, <3>2
    <3>3. CASE x # n
      <4>1. x \in At(u) /\ x \in At(v)
        BY <1>8, <2>1, <3>3
      <4> QED
        BY <1>0, <4>1, Apart
    <3> QED
      BY <3>2, <3>3
  <2>2. \A v \in Workers : IsInjective(jobs'[v])
    BY <1>5, <1>6, <1>7
  <2>3. ASSUME NEW v \in Workers PROVE worker'[v].task \notin ToSet(jobs'[v])
    <3>1. worker'[v].task = worker[v].task /\ worker[v].task # n
      BY <1>4, <1>5
    <3> QED
      BY <1>5, <1>7a, <3>1
  <2> QED
    BY <2>1, <2>2, <2>3 DEF OnePlace
<1>13. CountsExact'
  <2>1. ASSUME NEW l \in Lanes
        PROVE  lanePending'[l] = Cardinality({x \in InSystem' : laneOf'[x] = l})
    <3> DEFINE S == {x \in InSystem : laneOf[x] = l}
    <3>1. lanePending[l] = Cardinality(S) /\ lanePending'[l] = IF l = lane THEN lanePending[l] + 1 ELSE lanePending[l]
      BY <1>0, <1>1 DEF PoolInv, CountsExact, PoolTypes
    <3>2. {x \in InSystem' : laneOf'[x] = l} = IF l = lane THEN S \union {n} ELSE S
      BY <1>3, <1>4, <1>9
    <3>3. IsFiniteSet(S) /\ n \notin S
      BY <1>0, <1>9, TaskFacts
    <3> HIDE DEF S
    <3>4. Cardinality(S \union {n}) = Cardinality(S) + 1
      BY <3>3, FS_AddElement
    <3> QED
      BY <3>1, <3>2, <3>4
  <2>2. ASSUME NEW s \in Sessions
        PROVE  sessionPending'[s] = Cardinality({x \in InSystem' : laneOf'[x][1] = s})
    <3> DEFINE S == {x \in InSystem : laneOf[x][1] = s}
    <3>1. /\ sessionPending[s] = Cardinality(S)
          /\ sessionPending'[s] = IF s = lane[1] THEN sessionPending[s] + 1 ELSE sessionPending[s]
      BY <1>0, <1>1 DEF PoolInv, CountsExact, PoolTypes
    <3>2. {x \in InSystem' : laneOf'[x][1] = s} = IF s = lane[1] THEN S \union {n} ELSE S
      BY <1>3, <1>4, <1>9
    <3>3. IsFiniteSet(S) /\ n \notin S
      BY <1>0, <1>9, TaskFacts
    <3> HIDE DEF S
    <3>4. Cardinality(S \union {n}) = Cardinality(S) + 1
      BY <3>3, FS_AddElement
    <3> QED
      BY <3>1, <3>2, <3>4
  <2>3. ASSUME NEW v \in Workers PROVE pending'[v] = Len(jobs'[v]) + Busy(v)'
    <3>1. pending[v] = Len(jobs[v]) + Busy(v) /\ Busy(v)' = Busy(v) /\ Busy(v) \in {0, 1}
      BY Load DEF PoolInv, Busy
    <3> QED
      BY <1>5, <1>6, <1>7, <1>10, <3>1
  <2> QED
    BY <2>1, <2>2, <2>3 DEF CountsExact, Busy
<1>14. Capped'
  <2>1. ASSUME NEW s \in Sessions PROVE sessionPending'[s] <= SessionCap
    <3>1. sessionPending[s] \in Int /\ sessionPending[s] <= SessionCap
      BY <1>0 DEF PoolInv, Capped, PoolTypes
    <3>2. sessionPending'[s] = IF s = lane[1] THEN sessionPending[s] + 1 ELSE sessionPending[s]
      BY <1>0, <1>1 DEF PoolTypes
    <3> QED
      BY <3>1, <3>2, PoolAssumption
  <2> QED
    BY <2>1 DEF Capped
<1>15. ASSUME NEW v \in Workers PROVE Stage(v)'
  <2>1. Stage(v)
    BY DEF PoolInv
  <2>2. ASSUME NEW x \in ToSet(jobs'[v]) PROVE Waiting(x)'
    <3>1. CASE x = n
      BY <1>0, <1>3, <1>4, <3>1 DEF Waiting, PoolTypes
    <3>2. CASE x # n
      <4>1. x \in ToSet(jobs[v]) /\ x \in Tasks
        BY <1>5, <1>7a, <3>2
      <4> QED
        BY <1>3, <2>1, <4>1 DEF Stage, Waiting
    <3> QED
      BY <3>1, <3>2
  <2>3. ASSUME NEW x, worker'[v].at = "popped", worker'[v].task = x PROVE Popped(x)'
    <3>1. Popped(x) /\ x \in Tasks
      BY <1>0, <2>1, <2>3, WorkerFacts DEF Stage
    <3> QED
      BY <1>3, <3>1 DEF Popped
  <2> QED
    BY <2>1, <2>2, <2>3, StageNext DEF Stage
<1>16. ASSUME NEW v \in Workers PROVE BoundTo(v)'
  <2>1. ASSUME NEW x \in At(v)', x \notin detached
        PROVE  laneOf'[x] \in DOMAIN laneWorker' /\ laneWorker'[laneOf'[x]] = v
    <3>1. CASE x = n
      <4>1. v = w
        BY <1>4, <1>8, <2>1, <3>1 DEF At
      <4> QED
        BY <1>1, <1>3, <3>1, <4>1
    <3>2. CASE x # n
      <4>1. x \in At(v) /\ x \in Tasks
        BY <1>8, <2>1, <3>2 DEF At
      <4>2. laneOf[x] \in DOMAIN laneWorker /\ laneWorker[laneOf[x]] = v /\ laneOf'[x] = laneOf[x]
        BY <1>3, <2>1, <4>1 DEF PoolInv, BoundTo
      <4> QED
        BY <1>1, <4>2
    <3> QED
      BY <3>1, <3>2
  <2> QED
    BY <2>1 DEF BoundTo
<1>17. EarlierToo'
  <2>1. ASSUME NEW x \in InSystem', NEW y \in InSystem', laneOf'[x] = laneOf'[y], x < y, y \in detached
        PROVE  x \in detached
    <3>1. y \in Tasks /\ y \in InSystem
      BY <1>0, <1>4, <1>9, <2>1 DEF PoolTypes
    <3>2. x # n
      BY <1>2, <1>4, <2>1, <3>1
    <3>3. x \in InSystem /\ x \in Tasks
      BY <1>9, <3>2
    <3> QED
      BY <1>3, <2>1, <3>1, <3>3 DEF PoolInv, EarlierToo
  <2> QED
    BY <2>1 DEF EarlierToo
<1>18. Ledger'
  BY <1>4, <1>9 DEF PoolInv, Ledger, RemovedStaysRemoved, AcceptedRuns
<1> QED
  BY <1>11, <1>12, <1>13, <1>14, <1>15, <1>16, <1>17, <1>18 DEF PoolInv

LEMMA EnqueueStep ==
  ASSUME PoolInv, NEW lane \in Lanes, Enqueue(lane)
  PROVE  PoolInv'
<1>0. /\ cancelled' = cancelled \ {lane} /\ revived' = revived \union {t \in removed : laneOf[t] = lane}
      /\ UNCHANGED <<worker, started, detached, removed>>
      /\ nextWorker \in Nat /\ LeastLoaded \in Workers
  BY LeastLoadedIsOne DEF Enqueue, PoolInv, PoolTypes
<1>1. CASE ~CanAcceptSession(lane[1])
  BY <1>0, <1>1, Refused DEF Enqueue, bookkeeping
<1>2. ASSUME CanAcceptSession(lane[1]), NEW w \in Workers, TryEnqueue(w, lane), nextWorker' \in Nat,
             lane \in DOMAIN laneWorker => w = laneWorker[lane]
      PROVE  PoolInv'
  <2>1. CASE HasRoom(w)
    BY <1>0, <1>2, <2>1, Accepted DEF CanAcceptSession
  <2>2. CASE ~HasRoom(w)
    BY <1>0, <1>2, <2>2, Refused DEF TryEnqueue
  <2> QED
    BY <2>1, <2>2
<1>3. CASE CanAcceptSession(lane[1]) /\ lane \in DOMAIN laneWorker
  <2>1. TryEnqueue(laneWorker[lane], lane) /\ nextWorker' \in Nat /\ laneWorker[lane] \in Workers
    BY <1>0, <1>3 DEF Enqueue, PoolInv, PoolTypes
  <2> QED
    BY <1>2, <1>3, <2>1
<1>4. CASE CanAcceptSession(lane[1]) /\ lane \notin DOMAIN laneWorker
  <2>1. TryEnqueue(LeastLoaded, lane) /\ nextWorker' = (LeastLoaded + 1) % WorkerCount
    BY <1>4 DEF Enqueue
  <2>2. nextWorker' \in Nat
    BY <1>0, <2>1, PoolAssumption DEF Workers
  <2> QED
    BY <1>0, <1>2, <1>4, <2>1, <2>2
<1> QED
  BY <1>1, <1>3, <1>4

------------------------------------------------------------------------------
(* The theorems. *)

LEMMA PoolInitInv == Init => PoolInv
<1> SUFFICES ASSUME Init PROVE PoolInv
  OBVIOUS
<1>1. laneOf \in Seq(Lanes) /\ Len(laneOf) = 0 /\ Tasks = {}
  <2>1. laneOf \in Seq(Lanes) /\ Len(laneOf) = 0
    BY EmptySeq DEF Init
  <2> QED
    BY <2>1 DEF Tasks
<1>2. ASSUME NEW w \in Workers
      PROVE  /\ jobs[w] \in Seq(Tasks) /\ Len(jobs[w]) = 0 /\ DOMAIN jobs[w] = {} /\ ToSet(jobs[w]) = {}
             /\ worker[w] = Idle /\ worker[w].at = "idle" /\ worker[w].task = 0
             /\ pending[w] = 0
  <2>1. jobs[w] = <<>> /\ worker[w] = Idle /\ pending[w] = 0
    BY DEF Init
  <2>2. jobs[w] \in Seq(Tasks) /\ Len(jobs[w]) = 0
    BY <2>1, EmptySeq
  <2>3. DOMAIN jobs[w] = 1 .. 0 /\ ToSet(jobs[w]) \subseteq Tasks
    BY <2>2, Elements
  <2> QED
    BY <1>1, <2>1, <2>2, <2>3 DEF Idle
<1>3. PoolTypes
  <2>1. jobs \in [Workers -> Seq(Tasks)] /\ pending \in [Workers -> Int]
    BY <1>2 DEF Init
  <2>2. worker \in [Workers -> [at : Stages, task : Tasks \union {0}]]
    <3>1. Idle \in [at : Stages, task : Tasks \union {0}]
      BY DEF Idle, Stages
    <3> QED
      BY <3>1 DEF Init
  <2>3. lanePending \in [Lanes -> Int] /\ sessionPending \in [Sessions -> Int]
    BY DEF Init
  <2>4. DOMAIN laneWorker = {}
    BY DEF Init
  <2>5. cancelled \subseteq Lanes /\ nextWorker \in Nat
        /\ started \subseteq Tasks /\ detached \subseteq Tasks /\ removed \subseteq Tasks
    BY DEF Init
  <2> QED
    BY <1>1, <1>2, <2>1, <2>2, <2>3, <2>4, <2>5 DEF PoolTypes
<1>4. OnePlace
  BY <1>1, <1>2 DEF OnePlace, At, IsInjective
<1>5. InSystem = {}
  BY <1>1 DEF InSystem
<1>6. CountsExact /\ Capped
  <2>1. Cardinality({}) = 0
    BY FS_EmptySet
  <2>2. \A lane \in Lanes : lanePending[lane] = 0
    BY DEF Init
  <2>3. \A s \in Sessions : sessionPending[s] = 0
    BY DEF Init
  <2>4. \A lane \in Lanes : {t \in InSystem : laneOf[t] = lane} = {}
    BY <1>5
  <2>5. \A s \in Sessions : {t \in InSystem : laneOf[t][1] = s} = {}
    BY <1>5
  <2>6. ASSUME NEW w \in Workers PROVE pending[w] = Len(jobs[w]) + Busy(w)
    <3>1. Busy(w) = 0
      BY <1>2 DEF Busy
    <3>2. pending[w] = 0 /\ Len(jobs[w]) = 0
      BY <1>2
    <3> QED
      BY <3>1, <3>2
  <2>7. CountsExact
    BY <2>1, <2>2, <2>3, <2>4, <2>5, <2>6 DEF CountsExact, Busy
  <2> QED
    BY <2>3, <2>7, PoolAssumption DEF Capped
<1>7. \A w \in Workers : Stage(w) /\ BoundTo(w)
  BY <1>1, <1>2 DEF Stage, BoundTo, At
<1>8. EarlierToo /\ Ledger
  BY <1>1, <1>5 DEF Init, EarlierToo, Ledger, RemovedStaysRemoved, AcceptedRuns
<1> QED
  BY <1>3, <1>4, <1>6, <1>7, <1>8 DEF PoolInv

LEMMA PoolStep == PoolInv /\ [Next]_vars => PoolInv'
<1> SUFFICES ASSUME PoolInv, [Next]_vars PROVE PoolInv'
  OBVIOUS
<1>1. ASSUME NEW lane \in Lanes, Enqueue(lane) PROVE PoolInv'
  BY <1>1, EnqueueStep
<1>2. ASSUME NEW taken \in Takings,
             \/ \E lane \in Lanes : RemoveLane(lane, taken)
             \/ \E s \in Sessions : RemoveSession(s, taken)
             \/ \E w \in Workers : FinalizeLane(w, taken)
      PROVE  PoolInv'
  BY <1>2, RemoveSteps
<1>3. ASSUME NEW w \in Workers, WorkerStep(w) PROVE PoolInv'
  BY <1>3, PopStep, BeginStep, ReturnStep, FinishStep DEF WorkerStep
<1>4. CASE UNCHANGED vars
  <2>1. UNCHANGED <<jobs, pending, laneWorker, lanePending, sessionPending, nextWorker, cancelled,
                    worker, laneOf, started, detached, removed, revived>>
    BY <1>4 DEF vars, bookkeeping, marks, history
  <2>2. Tasks' = Tasks /\ InSystem' = InSystem /\ \A w \in Workers : At(w)' = At(w)
    BY <2>1 DEF Tasks, InSystem, Queued, Held, At
  <2>3. PoolTypes' /\ OnePlace' /\ CountsExact' /\ Capped' /\ EarlierToo'
    BY <2>1, <2>2 DEF PoolInv, PoolTypes, OnePlace, CountsExact, Capped, EarlierToo
  <2>4. ASSUME NEW w \in Workers PROVE Stage(w)' /\ BoundTo(w)'
    <3>1. Stage(w) /\ BoundTo(w)
      BY DEF PoolInv
    <3> QED
      BY <2>1, <2>2, <3>1 DEF Stage, BoundTo, Waiting, Popped
  <2>5. Ledger'
    BY <2>1, <2>2 DEF PoolInv, Ledger, RemovedStaysRemoved, AcceptedRuns
  <2> QED
    BY <2>3, <2>4, <2>5 DEF PoolInv
<1> QED
  BY <1>1, <1>2, <1>3, <1>4 DEF Next

(* Every state of the pool keeps the invariant: each task is in one place   *)
(* and counted there, where its lane is bound, and what is known of it      *)
(* agrees with its lane's mark.                                             *)
THEOREM PoolInvariant == Spec => []PoolInv
<1> QED
  BY PoolInitInv, PoolStep, PTL DEF Spec

(* The counters of lanes, sessions and workers agree with the tasks there   *)
(* are, whatever is refused, removed, skipped or ended (enqueueLocked,      *)
(* compactQueuesLocked, finishLane).                                        *)
THEOREM CountersAreExact == Spec => []CountsExact
<1>1. PoolInv => CountsExact
  BY DEF PoolInv
<1> QED
  BY <1>1, PoolInvariant, PTL

(* No session has more tasks in the pool than its cap (Enqueue).            *)
THEOREM CapIsKept == Spec => []SessionWithinCap
<1>1. PoolInv => SessionWithinCap
  BY DEF PoolInv, CountsExact, Capped, SessionWithinCap
<1> QED
  BY <1>1, PoolInvariant, PTL

(* A task whose lane is removed before it begins is not run unless the lane *)
(* is used again (beginTaskContext, finishLane).                            *)
THEOREM RemovedIsNotRun == Spec => []RemovedStaysRemoved
<1>1. PoolInv => RemovedStaysRemoved
  BY DEF PoolInv, Ledger
<1> QED
  BY <1>1, PoolInvariant, PTL

(* An accepted task that has left the pool was run or removed.              *)
THEOREM NothingAcceptedIsLost == Spec => []AcceptedRuns
<1>1. PoolInv => AcceptedRuns
  BY DEF PoolInv, Ledger
<1> QED
  BY <1>1, PoolInvariant, PTL

(* Two tasks of a lane run at once only if the lane was removed while the   *)
(* earlier was under way (Enqueue, finishLane).                             *)
THEOREM LanesAreSerial == Spec => []LaneIsSerial
<1>1. PoolInv => LaneIsSerial
  <2> SUFFICES ASSUME PoolInv, NEW v \in Workers, NEW w \in Workers,
                      worker[v].at = "running", worker[w].at = "running",
                      worker[v].task < worker[w].task,
                      laneOf[worker[v].task] = laneOf[worker[w].task],
                      worker[v].task \notin detached
               PROVE  FALSE
    BY DEF LaneIsSerial
  <2> DEFINE t == worker[v].task
             u == worker[w].task
  <2>1. t \in At(v) /\ u \in At(w) /\ t \in Tasks /\ u \in Tasks
    BY WorkerFacts DEF PoolInv
  <2>2. t \in InSystem /\ u \in InSystem
    BY <2>1, Inside
  <2>3. u \notin detached
    BY <2>2 DEF PoolInv, EarlierToo
  <2>4. laneWorker[laneOf[t]] = v /\ laneWorker[laneOf[u]] = w
    BY <2>1, <2>3 DEF PoolInv, BoundTo
  <2>5. t < t /\ t \in Nat
    BY <2>1, <2>4, TaskFacts DEF PoolInv
  <2> QED
    BY <2>5
<1> QED
  BY <1>1, PoolInvariant, PTL
=============================================================================
