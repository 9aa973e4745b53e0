--------------------------- MODULE MultiLevelQueue ---------------------------
(***************************************************************************)
(* The six-level priority queue of masterdns/internal/mlq/mlq.go, which    *)
(* holds every packet a stream or a session has ready to send.             *)
(*                                                                         *)
(* The lists hold the packets; three summaries of them are kept beside     *)
(* the lists and are what the callers really consult: the census (which    *)
(* keys are queued, and in which list), the bitmask (which lists are not   *)
(* empty) and fastSize (an atomic counter read without the lock).  Every   *)
(* method runs under the queue's own mutex, so every method is one step.   *)
(*                                                                         *)
(* The operators take and return a whole queue value, so that a component  *)
(* which calls several methods under a mutex of its own can compose them.  *)
(***************************************************************************)
EXTENDS Integers, FiniteSets, SequencesExt

CONSTANTS
  Keys,   (* packet identity keys                                          *)
  Items   (* packets, as far as a predicate can tell them apart            *)

VARIABLE q

Levels == 0 .. 5

(* Pushes with a priority outside the levels go to the normal level. *)
DefaultLevel == 3

Entry == [key : Keys, item : Items]

Empty ==
  [ queues   |-> [p \in Levels |-> <<>>],
    bitmask  |-> {},
    census   |-> [k \in {} |-> 0],
    fastSize |-> 0 ]

Has(m, key) == key \in DOMAIN m.census

(* Variant for the checks: the clamp of an out-of-range priority is left out. *)
LevelOfUnclamped(priority) == priority

LevelOf(priority) == IF priority \in Levels THEN priority ELSE DefaultLevel

(* What a Push does once the key is known to be new. *)
Pushed(m, priority, key, item) ==
  LET p == LevelOf(priority)
  IN [ queues   |-> [m.queues EXCEPT ![p] = Append(@, [key |-> key, item |-> item])],
       bitmask  |-> m.bitmask \union {p},
       census   |-> [k \in DOMAIN m.census \union {key} |->
                       IF k = key THEN p ELSE m.census[k]],
       fastSize |-> m.fastSize + 1 ]

(* Variant: a removal that leaves the removed key in the census. *)
WithoutStaleCensus(m, p, i) ==
  LET rest == RemoveAt(m.queues[p], i)
  IN [ queues   |-> [m.queues EXCEPT ![p] = rest],
       bitmask  |-> IF rest = <<>> THEN m.bitmask \ {p} ELSE m.bitmask,
       census   |-> m.census,
       fastSize |-> m.fastSize - 1 ]

(* Variant: a removal that clears the bit although elements remain. *)
WithoutEagerMask(m, p, i) ==
  [ queues   |-> [m.queues EXCEPT ![p] = RemoveAt(@, i)],
    bitmask  |-> m.bitmask \ {p},
    census   |-> Restrict(m.census, DOMAIN m.census \ {m.queues[p][i].key}),
    fastSize |-> m.fastSize - 1 ]

(* Variant: a removal that moves the last element into the hole. *)
WithoutSwap(m, p, i) ==
  LET n    == Len(m.queues[p])
      rest == SubSeq([m.queues[p] EXCEPT ![i] = m.queues[p][n]], 1, n - 1)
  IN [ queues   |-> [m.queues EXCEPT ![p] = rest],
       bitmask  |-> IF rest = <<>> THEN m.bitmask \ {p} ELSE m.bitmask,
       census   |-> Restrict(m.census, DOMAIN m.census \ {m.queues[p][i].key}),
       fastSize |-> m.fastSize - 1 ]

(* Every removal takes one element out of one list and settles the three   *)
(* summaries the same way.                                                 *)
Without(m, p, i) ==
  LET rest == RemoveAt(m.queues[p], i)
  IN [ queues   |-> [m.queues EXCEPT ![p] = rest],
       bitmask  |-> IF rest = <<>> THEN m.bitmask \ {p} ELSE m.bitmask,
       census   |-> Restrict(m.census, DOMAIN m.census \ {m.queues[p][i].key}),
       fastSize |-> m.fastSize - 1 ]

(* The list element a census entry points at. *)
ElementOf(m, key) ==
  CHOOSE i \in DOMAIN m.queues[m.census[key]] :
    m.queues[m.census[key]][i].key = key

WithoutKey(m, key) == Without(m, m.census[key], ElementOf(m, key))

(* The most urgent level whose bit is set and whose list has an element;   *)
(* set bits of empty lists that the scan meets first are cleared.          *)
Live(m) == {p \in m.bitmask : m.queues[p] # <<>>}

Unmasked(m) ==
  [m EXCEPT !.bitmask = {p \in m.bitmask : \E r \in Live(m) : r <= p}]

Popped(m) == Without(Unmasked(m), Min(Live(m)), 1)

(* The key of the element it takes. *)
NextKey(m) == Head(m.queues[Min(Live(m))]).key

(* PopAnyIf scans the levels up to a bound in order, each list from its    *)
(* front, for an item that satisfies the predicate.                        *)
WantedAt(m, p, Wanted) == {i \in DOMAIN m.queues[p] : m.queues[p][i].item \in Wanted}

WantedLevels(m, maxPriority, Wanted) ==
  {p \in m.bitmask : p <= maxPriority /\ WantedAt(m, p, Wanted) # {}}

------------------------------------------------------------------------------
(* The methods that change the queue. *)

Init == q = Empty

Push(priority, key, item) ==
  /\ ~ Has(q, key)
  /\ q' = Pushed(q, priority, key, item)

Pop ==
  /\ q.bitmask # {}
  /\ q' = IF Live(q) = {} THEN Unmasked(q) ELSE Popped(q)

RemoveByKey(key) ==
  /\ Has(q, key)
  /\ q' = WithoutKey(q, key)

PopIf(p, Wanted) ==
  /\ p \in q.bitmask
  /\ q.queues[p] # <<>> => Head(q.queues[p]).item \in Wanted
  /\ q' = IF q.queues[p] = <<>>
          THEN [q EXCEPT !.bitmask = @ \ {p}]
          ELSE Without(q, p, 1)

PopAnyIf(maxPriority, Wanted) ==
  LET levels == WantedLevels(q, maxPriority, Wanted)
  IN /\ levels # {}
     /\ q' = Without(q, Min(levels), Min(WantedAt(q, Min(levels), Wanted)))

Clear == q' = Empty

(* Callers pass priorities outside the levels too: -1 and 6 stand for them. *)
Next ==
  \/ \E priority \in -1 .. 6, key \in Keys, item \in Items : Push(priority, key, item)
  \/ Pop
  \/ \E key \in Keys : RemoveByKey(key)
  \/ \E p \in Levels, Wanted \in SUBSET Items : PopIf(p, Wanted)
  \/ \E maxPriority \in Levels, Wanted \in SUBSET Items : PopAnyIf(maxPriority, Wanted)
  \/ Clear

Spec == Init /\ [][Next]_q

------------------------------------------------------------------------------
(* The three facts below are stated for any queue value, so that they can  *)
(* be used for a queue inside another component as well.                   *)

WellFormed(m) ==
  m \in [ queues   : [Levels -> Seq(Entry)],
          bitmask  : SUBSET Levels,
          census   : UNION {[K -> Levels] : K \in SUBSET Keys},
          fastSize : Nat ]

ExactCensus(m) ==
  /\ \A p \in Levels : \A i \in DOMAIN m.queues[p] :
       LET k == m.queues[p][i].key
       IN k \in DOMAIN m.census /\ m.census[k] = p
  /\ \A p \in Levels : \A i, j \in DOMAIN m.queues[p] :
       m.queues[p][i].key = m.queues[p][j].key => i = j
  /\ \A k \in DOMAIN m.census :
       \E i \in DOMAIN m.queues[m.census[k]] : m.queues[m.census[k]][i].key = k

ExactSummary(m) ==
  /\ \A p \in Levels : p \in m.bitmask <=> m.queues[p] # <<>>
  /\ m.fastSize = Cardinality(DOMAIN m.census)

(* The queue value has the shape the methods rely on: every list holds     *)
(* entries, every recorded level exists and the counter is never negative. *)
TypeOK == WellFormed(q)

(* The census is exact: it knows every queued key, in the list it is in,   *)
(* it knows no other key, and no key is queued twice in all the lists.     *)
(* RemoveByKey and the duplicate check of Push rest on it.                 *)
CensusExact == ExactCensus(q)

(* The bitmask and the counter are exact: a bit is set exactly for a list  *)
(* that has an element, and fastSize counts the queued keys.  A reader of  *)
(* FastSize that sees zero skips the stream, and Pop looks only at lists   *)
(* whose bit is set: a packet either one misses is never sent.             *)
SummaryExact == ExactSummary(q)

KeepsOrder(m, n) ==
  \A p \in Levels :
    \A i1, i2 \in DOMAIN m.queues[p], j1, j2 \in DOMAIN n.queues[p] :
      /\ i1 < i2
      /\ m.queues[p][i1].key = n.queues[p][j1].key
      /\ m.queues[p][i2].key = n.queues[p][j2].key
      => j1 < j2

(* Packets of one level keep the order they were pushed in, whichever of   *)
(* the removal methods takes others from between them.                     *)
NoOvertaking == [][KeepsOrder(q, q')]_q
=============================================================================
