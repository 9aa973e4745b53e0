------------------------ MODULE MultiLevelQueueProofs ------------------------
(***************************************************************************)
(* The invariants of the priority queue, proved for every set of keys and  *)
(* of items.  The inductive invariant is the conjunction of the three that *)
(* the model checker examines, with the finiteness of the census, which    *)
(* the count needs and a bounded instance cannot miss.                     *)
(***************************************************************************)
EXTENDS MultiLevelQueue, FiniteSetTheorems, SequenceTheorems,
        WellFoundedInduction, TLAPS

Exact(m) ==
  /\ WellFormed(m)
  /\ ExactCensus(m)
  /\ ExactSummary(m)
  /\ IsFiniteSet(DOMAIN m.census)

------------------------------------------------------------------------------
(* Min of the community modules chooses a least element, when the set has  *)
(* natural numbers and is not empty.                                       *)
LEMMA MinOfNaturals ==
  ASSUME NEW S, S \subseteq Nat, S # {}
  PROVE  Min(S) \in S /\ \A y \in S : Min(S) <= y
<1>1. PICK x \in S : \A y \in S : ~ (<<y, x>> \in OpToRel(<, Nat))
  <2>1. IsWellFoundedOn(OpToRel(<, Nat), Nat)
    BY NatLessThanWellFounded
  <2> QED
    BY <2>1, WFMin
<1>2. \A y \in S : x <= y
  <2> SUFFICES ASSUME NEW y \in S, ~ (x <= y) PROVE FALSE
    OBVIOUS
  <2>1. y < x /\ <<y, x>> \in Nat \X Nat
    OBVIOUS
  <2>2. <<y, x>> \in OpToRel(<, Nat)
    BY <2>1 DEF OpToRel
  <2> QED
    BY <1>1, <2>2
<1> QED
  BY <1>2 DEF Min

(* A sequence with one element removed: the elements before the hole keep  *)
(* their place and those after it move up by one.                          *)
LEMMA RemoveAtProperties ==
  ASSUME NEW T, NEW s \in Seq(T), NEW i \in 1 .. Len(s)
  PROVE  /\ RemoveAt(s, i) \in Seq(T)
         /\ Len(RemoveAt(s, i)) = Len(s) - 1
         /\ \A j \in 1 .. Len(s) - 1 :
              RemoveAt(s, i)[j] = IF j < i THEN s[j] ELSE s[j + 1]
<1> DEFINE l == SubSeq(s, 1, i - 1)
           r == SubSeq(s, i + 1, Len(s))
<1>1. Len(s) \in Nat /\ i \in Int
  BY LenProperties
<1>2. /\ l \in Seq(T)
      /\ Len(l) = i - 1
      /\ \A j \in 1 .. i - 1 : l[j] = s[j]
  <2>1. \A j \in 1 .. i - 1 : s[j] \in T
    BY <1>1, ElementOfSeq
  <2>2. /\ l \in Seq(T)
        /\ Len(l) = IF 1 <= i - 1 THEN (i - 1) - 1 + 1 ELSE 0
        /\ \A j \in 1 .. (i - 1) - 1 + 1 : l[j] = s[1 + j - 1]
    BY <1>1, <2>1, SubSeqProperties
  <2> QED
    BY <1>1, <2>2
<1>3. /\ r \in Seq(T)
      /\ Len(r) = Len(s) - i
      /\ \A j \in 1 .. Len(s) - i : r[j] = s[i + j]
  <2>1. \A j \in i + 1 .. Len(s) : s[j] \in T
    BY <1>1, ElementOfSeq
  <2>2. i + 1 \in Int
    BY <1>1
  <2>3. /\ r \in Seq(T)
        /\ Len(r) = IF i + 1 <= Len(s) THEN Len(s) - (i + 1) + 1 ELSE 0
        /\ \A j \in 1 .. Len(s) - (i + 1) + 1 : r[j] = s[(i + 1) + j - 1]
    BY <1>1, <2>1, <2>2, SubSeqProperties
  <2> QED
    BY <1>1, <2>3
<1>4. /\ l \o r \in Seq(T)
      /\ Len(l \o r) = Len(l) + Len(r)
      /\ \A j \in 1 .. Len(l) + Len(r) :
           (l \o r)[j] = IF j <= Len(l) THEN l[j] ELSE r[j - Len(l)]
  BY <1>2, <1>3, ConcatProperties
<1>5. RemoveAt(s, i) = l \o r
  BY DEF RemoveAt
<1> HIDE DEF l, r
<1>6. Len(l \o r) = Len(s) - 1
  BY <1>1, <1>2, <1>3, <1>4
<1>7. ASSUME NEW j \in 1 .. Len(s) - 1
      PROVE  (l \o r)[j] = IF j < i THEN s[j] ELSE s[j + 1]
  <2>1. j \in 1 .. Len(l) + Len(r) /\ j \in Int
    BY <1>1, <1>2, <1>3
  <2>2. CASE j < i
    BY <1>1, <1>2, <1>4, <2>1, <2>2
  <2>3. CASE ~ (j < i)
    <3>1. j - Len(l) \in 1 .. Len(s) - i /\ i + (j - Len(l)) = j + 1 /\ ~ (j <= Len(l))
      BY <1>1, <1>2, <2>1, <2>3
    <3> QED
      BY <1>3, <1>4, <2>1, <2>3, <3>1
  <2> QED
    BY <2>2, <2>3
<1> QED
  BY <1>4, <1>5, <1>6, <1>7

------------------------------------------------------------------------------
(* A well-formed value, field by field, as the proofs below use it. *)
LEMMA Fields ==
  ASSUME NEW m, WellFormed(m)
  PROVE  /\ m = [ queues |-> m.queues, bitmask |-> m.bitmask,
                  census |-> m.census, fastSize |-> m.fastSize ]
         /\ m.queues \in [Levels -> Seq(Entry)]
         /\ \A p \in Levels :
              /\ m.queues[p] \in Seq(Entry)
              /\ Len(m.queues[p]) \in Nat
              /\ DOMAIN m.queues[p] = 1 .. Len(m.queues[p])
              /\ m.queues[p] # <<>> <=> DOMAIN m.queues[p] # {}
         /\ m.bitmask \subseteq Levels
         /\ DOMAIN m.census \subseteq Keys
         /\ m.census \in [DOMAIN m.census -> Levels]
         /\ m.fastSize \in Nat
<1>1. m.census \in UNION {[K -> Levels] : K \in SUBSET Keys}
  BY DEF WellFormed
<1>2. PICK K \in SUBSET Keys : m.census \in [K -> Levels]
  BY <1>1
<1>3. ASSUME NEW p \in Levels
      PROVE  /\ m.queues[p] \in Seq(Entry)
             /\ Len(m.queues[p]) \in Nat
             /\ DOMAIN m.queues[p] = 1 .. Len(m.queues[p])
             /\ m.queues[p] # <<>> <=> DOMAIN m.queues[p] # {}
  <2>1. m.queues[p] \in Seq(Entry)
    BY DEF WellFormed
  <2>2. Len(m.queues[p]) \in Nat /\ DOMAIN m.queues[p] = 1 .. Len(m.queues[p])
    BY <2>1, LenProperties
  <2>3. m.queues[p] # <<>> => Len(m.queues[p]) \in Nat \ {0}
    BY <2>1, EmptySeq
  <2>4. CASE m.queues[p] = <<>>
    <3>1. Len(m.queues[p]) = 0
      BY <2>4, EmptySeq
    <3> QED
      BY <2>1, <2>2, <2>4, <3>1
  <2>5. CASE m.queues[p] # <<>>
    <3>1. 1 \in 1 .. Len(m.queues[p])
      BY <2>2, <2>3, <2>5
    <3> QED
      BY <2>1, <2>2, <2>5, <3>1
  <2> QED
    BY <2>4, <2>5
<1> QED
  BY <1>2, <1>3 DEF WellFormed

(* Push keeps the queue exact, for any priority and any new key. *)
LEMMA PushedExact ==
  ASSUME NEW m, Exact(m), NEW priority \in Int, NEW key \in Keys,
         NEW item \in Items, ~ Has(m, key)
  PROVE  Exact(Pushed(m, priority, key, item)) /\ KeepsOrder(m, Pushed(m, priority, key, item))
<1> DEFINE n == Pushed(m, priority, key, item)
           p == LevelOf(priority)
           e == [key |-> key, item |-> item]
<1>1. p \in Levels
  BY DEF LevelOf, Levels, DefaultLevel
<1>2. e \in Entry
  BY DEF Entry
<1>3. /\ n.queues = [m.queues EXCEPT ![p] = Append(@, e)]
      /\ n.bitmask = m.bitmask \union {p}
      /\ DOMAIN n.census = DOMAIN m.census \union {key}
      /\ n.census = [k \in DOMAIN m.census \union {key} |->
                        IF k = key THEN p ELSE m.census[k]]
      /\ n.fastSize = m.fastSize + 1
      /\ n = [ queues |-> n.queues, bitmask |-> n.bitmask,
               census |-> n.census, fastSize |-> n.fastSize ]
  BY DEF Pushed
<1>4. WellFormed(m) /\ ExactCensus(m) /\ ExactSummary(m) /\ IsFiniteSet(DOMAIN m.census)
  BY DEF Exact
<1>5. key \notin DOMAIN m.census
  BY DEF Has
<1> HIDE DEF n, p, e
<1>6. /\ n.queues[p] = Append(m.queues[p], e)
      /\ n.queues[p] \in Seq(Entry)
      /\ n.queues[p] # <<>>
      /\ DOMAIN n.queues[p] = DOMAIN m.queues[p] \union {Len(m.queues[p]) + 1}
      /\ \A i \in DOMAIN m.queues[p] : n.queues[p][i] = m.queues[p][i]
      /\ n.queues[p][Len(m.queues[p]) + 1] = e
      /\ Len(m.queues[p]) + 1 \notin DOMAIN m.queues[p]
  <2>1. n.queues[p] = Append(m.queues[p], e)
    BY <1>1, <1>3, <1>4, Fields
  <2>2. m.queues[p] \in Seq(Entry) /\ Len(m.queues[p]) \in Nat
        /\ DOMAIN m.queues[p] = 1 .. Len(m.queues[p])
    BY <1>1, <1>4, Fields
  <2>3. /\ n.queues[p] \in Seq(Entry)
        /\ n.queues[p] # <<>>
        /\ Len(n.queues[p]) = Len(m.queues[p]) + 1
        /\ \A i \in 1 .. Len(m.queues[p]) : n.queues[p][i] = m.queues[p][i]
        /\ n.queues[p][Len(m.queues[p]) + 1] = e
    BY <1>2, <2>1, <2>2, AppendProperties
  <2>4. DOMAIN n.queues[p] = 1 .. Len(m.queues[p]) + 1
    BY <2>3, LenProperties
  <2> QED
    BY <2>1, <2>2, <2>3, <2>4
<1>7. \A r \in Levels : r # p => n.queues[r] = m.queues[r]
  BY <1>1, <1>3, <1>4, Fields
<1>8. e.key = key
  BY DEF e
<1>9. n.queues \in [Levels -> Seq(Entry)]
  BY <1>1, <1>3, <1>4, <1>6, <1>7, Fields
<1>10. WellFormed(n)
  <2>1. n.census \in [DOMAIN m.census \union {key} -> Levels]
    BY <1>1, <1>3, <1>4, Fields
  <2>2. DOMAIN m.census \union {key} \in SUBSET Keys
    BY <1>4, Fields
  <2>3. n.census \in UNION {[K -> Levels] : K \in SUBSET Keys}
    BY <2>1, <2>2
  <2>4. n.bitmask \in SUBSET Levels /\ n.fastSize \in Nat
    BY <1>1, <1>3, <1>4, Fields
  <2> QED
    BY <1>3, <1>9, <2>3, <2>4 DEF WellFormed
<1>11. ExactCensus(n)
  <2>1. ASSUME NEW r \in Levels, NEW i \in DOMAIN n.queues[r]
        PROVE  n.queues[r][i].key \in DOMAIN n.census
               /\ n.census[n.queues[r][i].key] = r
    <3>1. CASE r = p /\ i = Len(m.queues[p]) + 1
      BY <1>3, <1>6, <1>8, <3>1
    <3>2. CASE ~ (r = p /\ i = Len(m.queues[p]) + 1)
      <4>1. i \in DOMAIN m.queues[r] /\ n.queues[r][i] = m.queues[r][i]
        BY <1>6, <1>7, <3>2
      <4>2. m.queues[r][i].key \in DOMAIN m.census /\ m.census[m.queues[r][i].key] = r
        BY <1>4, <4>1 DEF ExactCensus
      <4> QED
        BY <1>3, <1>5, <4>1, <4>2
    <3> QED
      BY <3>1, <3>2
  <2>2. ASSUME NEW r \in Levels, NEW i \in DOMAIN n.queues[r], NEW j \in DOMAIN n.queues[r],
               n.queues[r][i].key = n.queues[r][j].key
        PROVE  i = j
    <3>1. \A x \in DOMAIN m.queues[p] : m.queues[p][x].key # key
      BY <1>1, <1>4, <1>5 DEF ExactCensus
    <3>2. CASE r = p
      <4>1. \A x \in DOMAIN m.queues[p] : n.queues[p][x].key = m.queues[p][x].key
        BY <1>6
      <4>2. n.queues[p][Len(m.queues[p]) + 1].key = key
        BY <1>6, <1>8
      <4>3. \A x, y \in DOMAIN m.queues[p] :
              m.queues[p][x].key = m.queues[p][y].key => x = y
        BY <1>1, <1>4 DEF ExactCensus
      <4>4. DOMAIN n.queues[p] = DOMAIN m.queues[p] \union {Len(m.queues[p]) + 1}
        BY <1>6
      <4> QED
        BY <2>2, <3>1, <3>2, <4>1, <4>2, <4>3, <4>4
    <3>3. CASE r # p
      BY <1>4, <1>7, <2>2, <3>3 DEF ExactCensus
    <3> QED
      BY <3>2, <3>3
  <2>3. ASSUME NEW k \in DOMAIN n.census
        PROVE  \E i \in DOMAIN n.queues[n.census[k]] : n.queues[n.census[k]][i].key = k
    <3>1. CASE k = key
      BY <1>3, <1>6, <1>8, <3>1
    <3>2. CASE k # key
      <4>1. k \in DOMAIN m.census /\ n.census[k] = m.census[k] /\ m.census[k] \in Levels
        BY <1>3, <1>4, <3>2, Fields
      <4>2. PICK i \in DOMAIN m.queues[m.census[k]] : m.queues[m.census[k]][i].key = k
        BY <1>4, <4>1 DEF ExactCensus
      <4> QED
        BY <1>6, <1>7, <4>1, <4>2
    <3> QED
      BY <3>1, <3>2
  <2> QED
    BY <2>1, <2>2, <2>3 DEF ExactCensus
<1>12. IsFiniteSet(DOMAIN n.census) /\ Cardinality(DOMAIN n.census) = Cardinality(DOMAIN m.census) + 1
  BY <1>3, <1>4, <1>5, FS_AddElement
<1>13. ExactSummary(n)
  <2>1. \A r \in Levels : r \in n.bitmask <=> n.queues[r] # <<>>
    BY <1>1, <1>3, <1>4, <1>6, <1>7 DEF ExactSummary
  <2>2. n.fastSize = Cardinality(DOMAIN n.census)
    BY <1>3, <1>4, <1>12 DEF ExactSummary
  <2> QED
    BY <2>1, <2>2 DEF ExactSummary
<1>14. KeepsOrder(m, n)
  <2> SUFFICES ASSUME NEW r \in Levels,
                      NEW i1 \in DOMAIN m.queues[r], NEW i2 \in DOMAIN m.queues[r],
                      NEW j1 \in DOMAIN n.queues[r], NEW j2 \in DOMAIN n.queues[r],
                      i1 < i2,
                      m.queues[r][i1].key = n.queues[r][j1].key,
                      m.queues[r][i2].key = n.queues[r][j2].key
               PROVE  j1 < j2
    BY DEF KeepsOrder
  <2>1. i1 \in DOMAIN n.queues[r] /\ n.queues[r][i1] = m.queues[r][i1]
    BY <1>6, <1>7
  <2>2. i2 \in DOMAIN n.queues[r] /\ n.queues[r][i2] = m.queues[r][i2]
    BY <1>6, <1>7
  <2>3. j1 = i1 /\ j2 = i2
    BY <1>11, <2>1, <2>2 DEF ExactCensus
  <2> QED
    BY <2>3
<1> QED
  BY <1>10, <1>11, <1>12, <1>13, <1>14 DEF Exact, n

(* Taking any one element out of any list keeps the queue exact and the    *)
(* remaining elements in their order.                                      *)
LEMMA WithoutExact ==
  ASSUME NEW m, Exact(m), NEW p \in Levels, NEW i \in DOMAIN m.queues[p]
  PROVE  Exact(Without(m, p, i)) /\ KeepsOrder(m, Without(m, p, i))
<1> DEFINE n    == Without(m, p, i)
           key  == m.queues[p][i].key
           rest == RemoveAt(m.queues[p], i)
           from(j) == IF j < i THEN j ELSE j + 1
<1>1. WellFormed(m) /\ ExactCensus(m) /\ ExactSummary(m) /\ IsFiniteSet(DOMAIN m.census)
  BY DEF Exact
<1>2. /\ n.queues = [m.queues EXCEPT ![p] = rest]
      /\ n.bitmask = IF rest = <<>> THEN m.bitmask \ {p} ELSE m.bitmask
      /\ DOMAIN n.census = DOMAIN m.census \ {key}
      /\ n.census = [k \in DOMAIN m.census \ {key} |-> m.census[k]]
      /\ n.fastSize = m.fastSize - 1
      /\ n = [ queues |-> n.queues, bitmask |-> n.bitmask,
               census |-> n.census, fastSize |-> n.fastSize ]
  BY DEF Without, Restrict
<1>3. /\ m.queues[p] \in Seq(Entry)
      /\ Len(m.queues[p]) \in Nat
      /\ DOMAIN m.queues[p] = 1 .. Len(m.queues[p])
      /\ m.queues \in [Levels -> Seq(Entry)]
  BY <1>1, Fields
<1>4. key \in DOMAIN m.census /\ m.census[key] = p
  BY <1>1 DEF ExactCensus
<1>5. /\ rest \in Seq(Entry)
      /\ Len(rest) = Len(m.queues[p]) - 1
      /\ DOMAIN rest = 1 .. Len(m.queues[p]) - 1
      /\ \A j \in 1 .. Len(m.queues[p]) - 1 : rest[j] = m.queues[p][from(j)]
  <2>1. i \in 1 .. Len(m.queues[p])
    BY <1>3
  <2>2. /\ rest \in Seq(Entry)
        /\ Len(rest) = Len(m.queues[p]) - 1
        /\ \A j \in 1 .. Len(m.queues[p]) - 1 :
              rest[j] = IF j < i THEN m.queues[p][j] ELSE m.queues[p][j + 1]
    BY <1>3, <2>1, RemoveAtProperties
  <2>3. DOMAIN rest = 1 .. Len(m.queues[p]) - 1
    BY <2>2, LenProperties
  <2> QED
    BY <2>2, <2>3
<1>6. n.queues[p] = rest /\ \A r \in Levels : r # p => n.queues[r] = m.queues[r]
  BY <1>2, <1>3
<1> HIDE DEF n, rest, key
<1>7. \A j \in DOMAIN rest :
        /\ from(j) \in DOMAIN m.queues[p] /\ from(j) # i
        /\ rest[j] = m.queues[p][from(j)]
        /\ \A l \in DOMAIN rest : j < l <=> from(j) < from(l)
  BY <1>3, <1>5
<1>8. \A x \in DOMAIN m.queues[p] : x # i => \E j \in DOMAIN rest : from(j) = x
  <2> SUFFICES ASSUME NEW x \in DOMAIN m.queues[p], x # i
               PROVE  \E j \in DOMAIN rest : from(j) = x
    OBVIOUS
  <2>1. CASE x < i
    BY <1>3, <1>5, <2>1
  <2>2. CASE x > i
    <3>1. x - 1 \in DOMAIN rest /\ from(x - 1) = x
      BY <1>3, <1>5, <2>2
    <3> QED
      BY <3>1
  <2> QED
    BY <1>3, <2>1, <2>2
<1> HIDE DEF from
<1>9. \A j, l \in DOMAIN rest : rest[j].key = rest[l].key => from(j) = from(l)
  <2>1. \A x, y \in DOMAIN m.queues[p] :
          m.queues[p][x].key = m.queues[p][y].key => x = y
    BY <1>1 DEF ExactCensus
  <2> QED
    BY <1>7, <2>1
<1>10. \A j, l \in DOMAIN rest : from(j) = from(l) => j = l
  BY <1>3, <1>5 DEF from
<1>11. \A j \in DOMAIN rest : rest[j].key # key
  <2>1. \A x \in DOMAIN m.queues[p] : m.queues[p][x].key = key => x = i
    BY <1>1 DEF ExactCensus, key
  <2> QED
    BY <1>7, <2>1
<1>12. \A r \in Levels : r # p => \A j \in DOMAIN m.queues[r] : m.queues[r][j].key # key
  BY <1>1, <1>4 DEF ExactCensus
<1>13. WellFormed(n)
  <2>1. n.queues \in [Levels -> Seq(Entry)]
    BY <1>2, <1>3, <1>5
  <2>2. n.census \in [DOMAIN m.census \ {key} -> Levels]
    BY <1>1, <1>2, Fields
  <2>3. DOMAIN m.census \ {key} \in SUBSET Keys
    BY <1>1, Fields
  <2>4. n.census \in UNION {[K -> Levels] : K \in SUBSET Keys}
    BY <2>2, <2>3
  <2>5. n.bitmask \in SUBSET Levels
    BY <1>1, <1>2, Fields
  <2>6. n.fastSize \in Nat
    <3>1. Cardinality(DOMAIN m.census) \in Nat /\ Cardinality(DOMAIN m.census) # 0
      BY <1>1, <1>4, FS_EmptySet, FS_CardinalityType
    <3> QED
      BY <1>1, <1>2, <3>1 DEF ExactSummary
  <2> QED
    BY <1>2, <2>1, <2>4, <2>5, <2>6 DEF WellFormed
<1>14. ExactCensus(n)
  <2>1. ASSUME NEW r \in Levels, NEW j \in DOMAIN n.queues[r]
        PROVE  n.queues[r][j].key \in DOMAIN n.census
               /\ n.census[n.queues[r][j].key] = r
    <3>1. CASE r = p
      <4>1. rest[j] = m.queues[p][from(j)] /\ from(j) \in DOMAIN m.queues[p]
        BY <1>6, <1>7, <3>1
      <4>2. rest[j].key \in DOMAIN m.census /\ m.census[rest[j].key] = p
        BY <1>1, <4>1 DEF ExactCensus
      <4> QED
        BY <1>2, <1>6, <1>11, <3>1, <4>2
    <3>2. CASE r # p
      <4>1. m.queues[r][j].key \in DOMAIN m.census /\ m.census[m.queues[r][j].key] = r
        BY <1>1, <1>6, <3>2 DEF ExactCensus
      <4> QED
        BY <1>2, <1>6, <1>12, <3>2, <4>1
    <3> QED
      BY <3>1, <3>2
  <2>2. ASSUME NEW r \in Levels, NEW j \in DOMAIN n.queues[r], NEW l \in DOMAIN n.queues[r],
               n.queues[r][j].key = n.queues[r][l].key
        PROVE  j = l
    <3>1. CASE r = p
      BY <1>6, <1>9, <1>10, <2>2, <3>1
    <3>2. CASE r # p
      BY <1>1, <1>6, <2>2, <3>2 DEF ExactCensus
    <3> QED
      BY <3>1, <3>2
  <2>3. ASSUME NEW k \in DOMAIN n.census
        PROVE  \E j \in DOMAIN n.queues[n.census[k]] : n.queues[n.census[k]][j].key = k
    <3>1. k \in DOMAIN m.census /\ k # key /\ n.census[k] = m.census[k] /\ m.census[k] \in Levels
      BY <1>1, <1>2, Fields
    <3>2. PICK x \in DOMAIN m.queues[m.census[k]] : m.queues[m.census[k]][x].key = k
      BY <1>1, <3>1 DEF ExactCensus
    <3>3. CASE m.census[k] = p
      <4>1. x # i
        BY <3>1, <3>2, <3>3 DEF key
      <4>2. PICK j \in DOMAIN rest : from(j) = x
        BY <1>8, <3>2, <3>3, <4>1
      <4> QED
        BY <1>6, <1>7, <3>1, <3>2, <3>3, <4>2
    <3>4. CASE m.census[k] # p
      BY <1>6, <3>1, <3>2, <3>4
    <3> QED
      BY <3>3, <3>4
  <2> QED
    BY <2>1, <2>2, <2>3 DEF ExactCensus
<1>15. /\ IsFiniteSet(DOMAIN n.census)
       /\ Cardinality(DOMAIN n.census) = Cardinality(DOMAIN m.census) - 1
  BY <1>1, <1>2, <1>4, FS_RemoveElement
<1>16. ExactSummary(n)
  <2>1. \A r \in Levels : r \in n.bitmask <=> n.queues[r] # <<>>
    <3>1. m.queues[p] # <<>>
      BY <1>1, Fields
    <3>2. p \in m.bitmask
      BY <1>1, <3>1 DEF ExactSummary
    <3> QED
      BY <1>1, <1>2, <1>6, <3>2 DEF ExactSummary
  <2>2. n.fastSize = Cardinality(DOMAIN n.census)
    BY <1>1, <1>2, <1>15 DEF ExactSummary
  <2> QED
    BY <2>1, <2>2 DEF ExactSummary
<1>17. KeepsOrder(m, n)
  <2> SUFFICES ASSUME NEW r \in Levels,
                      NEW i1 \in DOMAIN m.queues[r], NEW i2 \in DOMAIN m.queues[r],
                      NEW j1 \in DOMAIN n.queues[r], NEW j2 \in DOMAIN n.queues[r],
                      i1 < i2,
                      m.queues[r][i1].key = n.queues[r][j1].key,
                      m.queues[r][i2].key = n.queues[r][j2].key
               PROVE  j1 < j2
    BY DEF KeepsOrder
  <2>1. \A x, y \in DOMAIN m.queues[r] :
          m.queues[r][x].key = m.queues[r][y].key => x = y
    BY <1>1 DEF ExactCensus
  <2>2. CASE r = p
    <3>1. from(j1) = i1 /\ from(j2) = i2
      BY <1>6, <1>7, <2>1, <2>2
    <3> QED
      BY <1>6, <1>7, <2>2, <3>1
  <2>3. CASE r # p
    BY <1>6, <2>1, <2>3
  <2> QED
    BY <2>2, <2>3
<1> QED
  BY <1>13, <1>14, <1>15, <1>16, <1>17 DEF Exact, n

(* In an exact queue the scan of Pop meets no bit of an empty list. *)
LEMMA UnmaskedExact ==
  ASSUME NEW m, Exact(m), m.bitmask # {}
  PROVE  Live(m) # {} /\ Min(Live(m)) \in m.bitmask /\ Unmasked(m) = m
<1>1. WellFormed(m) /\ ExactSummary(m)
  BY DEF Exact
<1>2. m.bitmask \subseteq Levels
  BY <1>1, Fields
<1>3. Live(m) = m.bitmask
  BY <1>1, <1>2 DEF Live, ExactSummary
<1>4. Min(m.bitmask) \in m.bitmask
  BY <1>2, MinOfNaturals DEF Levels
<1>5. {p \in m.bitmask : \E r \in m.bitmask : r <= p} = m.bitmask
  BY <1>2 DEF Levels
<1>6. Unmasked(m) = [m EXCEPT !.bitmask = m.bitmask]
  BY <1>3, <1>5 DEF Unmasked
<1>7. m = [ queues |-> m.queues, bitmask |-> m.bitmask,
           census |-> m.census, fastSize |-> m.fastSize ]
  BY <1>1, Fields
<1> QED
  BY <1>3, <1>4, <1>6, <1>7

(* The empty queue is exact, and clearing a queue reorders nothing. *)
LEMMA EmptyExact == Exact(Empty) /\ \A m : KeepsOrder(m, Empty)
<1>1. /\ Empty.queues \in [Levels -> Seq(Entry)]
      /\ \A p \in Levels : Empty.queues[p] = <<>> /\ DOMAIN Empty.queues[p] = {}
      /\ Empty.bitmask = {} /\ DOMAIN Empty.census = {} /\ Empty.fastSize = 0
  BY EmptySeq DEF Empty
<1>2. Empty.census \in [{} -> Levels]
  BY DEF Empty
<1>3. Empty.census \in UNION {[K -> Levels] : K \in SUBSET Keys}
  BY <1>2
<1>4. Empty = [ queues |-> Empty.queues, bitmask |-> Empty.bitmask,
               census |-> Empty.census, fastSize |-> Empty.fastSize ]
  BY DEF Empty
<1>5. WellFormed(Empty)
  BY <1>1, <1>3, <1>4 DEF WellFormed
<1>6. IsFiniteSet(DOMAIN Empty.census) /\ Cardinality(DOMAIN Empty.census) = 0
  BY <1>1, FS_EmptySet
<1>7. ExactCensus(Empty)
  BY <1>1 DEF ExactCensus
<1>8. ExactSummary(Empty)
  BY <1>1, <1>6 DEF ExactSummary
<1>9. \A m : KeepsOrder(m, Empty)
  BY <1>1 DEF KeepsOrder
<1> QED
  BY <1>5, <1>6, <1>7, <1>8, <1>9 DEF Exact

------------------------------------------------------------------------------
(* Every method keeps the queue exact and lets no packet overtake another. *)
LEMMA NextExact ==
  ASSUME Exact(q), [Next]_q
  PROVE  Exact(q') /\ (q' # q => KeepsOrder(q, q'))
<1>1. WellFormed(q) /\ ExactCensus(q) /\ ExactSummary(q)
  BY DEF Exact
<1>2. ASSUME NEW priority \in -1 .. 6, NEW key \in Keys, NEW item \in Items,
             Push(priority, key, item)
      PROVE  Exact(q') /\ KeepsOrder(q, q')
  BY <1>2, PushedExact DEF Push
<1>3. ASSUME NEW p \in Levels, NEW i \in DOMAIN q.queues[p], q' = Without(q, p, i)
      PROVE  Exact(q') /\ KeepsOrder(q, q')
  BY <1>3, WithoutExact
<1>4. ASSUME NEW p \in q.bitmask
      PROVE  p \in Levels /\ q.queues[p] # <<>> /\ 1 \in DOMAIN q.queues[p]
  <2>1. p \in Levels /\ q.queues[p] # <<>>
    BY <1>1, <1>4, Fields DEF ExactSummary
  <2> QED
    BY <1>1, <2>1, Fields
<1>5. CASE Pop
  <2>1. Live(q) # {} /\ Min(Live(q)) \in q.bitmask /\ Unmasked(q) = q
    BY <1>5, UnmaskedExact DEF Pop
  <2>2. q' = Without(q, Min(Live(q)), 1)
    BY <1>5, <2>1 DEF Pop, Popped
  <2> QED
    BY <1>3, <1>4, <2>1, <2>2
<1>6. ASSUME NEW key \in Keys, RemoveByKey(key)
      PROVE  Exact(q') /\ KeepsOrder(q, q')
  <2>1. key \in DOMAIN q.census /\ q.census[key] \in Levels
    BY <1>1, <1>6, Fields DEF RemoveByKey, Has
  <2>2. \E i \in DOMAIN q.queues[q.census[key]] : q.queues[q.census[key]][i].key = key
    BY <1>1, <2>1 DEF ExactCensus
  <2>3. ElementOf(q, key) \in DOMAIN q.queues[q.census[key]]
    BY <2>2 DEF ElementOf
  <2> QED
    BY <1>3, <1>6, <2>1, <2>3 DEF RemoveByKey, WithoutKey
<1>7. ASSUME NEW p \in Levels, NEW Wanted \in SUBSET Items, PopIf(p, Wanted)
      PROVE  Exact(q') /\ KeepsOrder(q, q')
  <2>1. q' = Without(q, p, 1)
    BY <1>4, <1>7 DEF PopIf
  <2> QED
    BY <1>3, <1>4, <1>7, <2>1 DEF PopIf
<1>8. ASSUME NEW maxPriority \in Levels, NEW Wanted \in SUBSET Items,
             PopAnyIf(maxPriority, Wanted)
      PROVE  Exact(q') /\ KeepsOrder(q, q')
  <2> DEFINE levels == WantedLevels(q, maxPriority, Wanted)
             p      == Min(levels)
             places == WantedAt(q, p, Wanted)
  <2>1. levels # {} /\ q' = Without(q, p, Min(places))
    BY <1>8 DEF PopAnyIf
  <2>2. levels \subseteq q.bitmask /\ \A r \in levels : WantedAt(q, r, Wanted) # {}
    BY DEF WantedLevels
  <2>3. q.bitmask \subseteq Nat
    <3>1. q.bitmask \subseteq Levels
      BY <1>4
    <3> QED
      BY <3>1 DEF Levels
  <2> HIDE DEF levels
  <2>4. p \in levels
    BY <2>1, <2>2, <2>3, MinOfNaturals
  <2>5. p \in Levels /\ places # {}
    BY <1>4, <2>2, <2>4
  <2> HIDE DEF p
  <2>6. places \subseteq DOMAIN q.queues[p] /\ places \subseteq Nat
    <3>1. DOMAIN q.queues[p] = 1 .. Len(q.queues[p]) /\ Len(q.queues[p]) \in Nat
      BY <1>1, <2>5, Fields
    <3> QED
      BY <3>1 DEF WantedAt
  <2> HIDE DEF places
  <2>7. Min(places) \in places
    BY <2>5, <2>6, MinOfNaturals
  <2> QED
    BY <1>3, <2>1, <2>5, <2>6, <2>7
<1>9. CASE Clear
  BY <1>9, EmptyExact DEF Clear
<1>10. CASE q' = q
  BY <1>10
<1> QED
  BY <1>2, <1>5, <1>6, <1>7, <1>8, <1>9, <1>10 DEF Next

(* The invariant that the properties below follow from. *)
THEOREM AlwaysExact == Spec => []Exact(q)
<1>1. Init => Exact(q)
  BY EmptyExact DEF Init
<1>2. Exact(q) /\ [Next]_q => Exact(q)'
  BY NextExact
<1> QED
  BY <1>1, <1>2, PTL DEF Spec

(* The lists, the bitmask, the census and the counter keep their shape     *)
(* under every sequence of method calls.                                   *)
THEOREM TypeCorrect == Spec => []TypeOK
<1>1. Exact(q) => TypeOK
  BY DEF Exact, TypeOK
<1> QED
  BY <1>1, AlwaysExact, PTL

(* RemoveByKey finds exactly the queued packets, and Push refuses exactly  *)
(* the keys that are queued: at most one packet of a key is ever queued.   *)
THEOREM CensusCorrect == Spec => []CensusExact
<1>1. Exact(q) => CensusExact
  BY DEF Exact, CensusExact
<1> QED
  BY <1>1, AlwaysExact, PTL

(* No queued packet is hidden from FastSize or from the bitmask scan. *)
THEOREM SummaryCorrect == Spec => []SummaryExact
<1>1. Exact(q) => SummaryExact
  BY DEF Exact, SummaryExact
<1> QED
  BY <1>1, AlwaysExact, PTL

(* Two packets of one level leave in the order they were pushed in. *)
THEOREM OrderKept == Spec => NoOvertaking
<1>1. Exact(q) /\ [Next]_q => [KeepsOrder(q, q')]_q
  BY NextExact
<1> QED
  BY <1>1, AlwaysExact, PTL DEF Spec, NoOvertaking
=============================================================================
