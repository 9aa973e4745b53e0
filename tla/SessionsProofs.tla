---------------------------- MODULE SessionsProofs ----------------------------
(***************************************************************************)
(* What the sessions promise, proved for every number of slots, handshakes,*)
(* sessions, streams, tasks, handlers and packets, and for every clock: the*)
(* store never gives one session to two peers, an upstream connection is   *)
(* never leaked, the table of streams keeps its books, and wrong cookies   *)
(* are answered no more often than the window allows.                      *)
(***************************************************************************)
EXTENDS Sessions, FiniteSetTheorems, SequenceTheorems, WellFoundedInduction, TLAPS

------------------------------------------------------------------------------
(* The store of sessions. *)

Session == [sig : Signatures, reuseUntil : Nat \ {0}, lastActivity : Nat, deferredCleanup : Nat]

(* The property with the types it needs; Slots being finite bounds Live.    *)
StoreTyped ==
  /\ byID \in [Slots -> Session \union {Free}]
  /\ bySig \in [Signatures -> {0} \union Slots]
  /\ recentClosed \in [Slots -> Nat]
  /\ activeCount \in Nat /\ nextReuseSweep \in Nat
  /\ nextID \in Slots /\ notice \in {0} \union Slots
  /\ now \in Nat \ {0}

StoreInv == StoreTyped /\ NoSharedSession

------------------------------------------------------------------------------
(* A set of natural numbers that is not empty has a least element. *)
LEMMA LeastExists ==
  ASSUME NEW S, S \subseteq Nat, S # {}
  PROVE  \E x \in S : \A y \in S : x <= y
<1>1. PICK x \in S : \A y \in S : ~ (<<y, x>> \in OpToRel(<, Nat))
  <2>1. IsWellFoundedOn(OpToRel(<, Nat), Nat)
    BY NatLessThanWellFounded
  <2> QED
    BY <2>1, WFMin
<1>2. \A y \in S : x <= y
  <2> SUFFICES ASSUME NEW y \in S, ~ (x <= y) PROVE FALSE
    OBVIOUS
  <2>1. y < x
    BY x \in Nat, y \in Nat
  <2>2. <<y, x>> \in OpToRel(<, Nat)
    BY <2>1 DEF OpToRel
  <2> QED
    BY <1>1, <2>2
<1> QED
  BY <1>2

LEMMA MinIsLeast ==
  ASSUME NEW S, S \subseteq Nat, S # {}
  PROVE  Min(S) \in S /\ \A y \in S : Min(S) <= y
BY LeastExists DEF Min

(* A slot that holds a session is not free. *)
LEMMA SessionNotFree ==
  ASSUME NEW r \in Session
  PROVE  r # Free
<1>1. "reuseUntil" \in DOMAIN r
  BY DEF Session
<1>2. DOMAIN Free = {"sig"}
  BY DEF Free
<1> QED
  BY <1>1, <1>2

(* The slots are finite, and with them those that hold a session. *)
LEMMA LiveFinite ==
  IsFiniteSet(Slots) /\ IsFiniteSet(Live) /\ Live \subseteq Slots
<1>1. IsFiniteSet(Slots)
  BY FS_Interval, SlotsAssumption DEF Slots
<1> QED
  BY <1>1, FS_Subset DEF Live

(* The index that findOrCreate and Cleanup go on with: it has only entries  *)
(* it had before, all of them live, and its next sweep is not too late.     *)
LEMMA IndexSound ==
  ASSUME StoreInv
  PROVE  /\ expireReuseLocked.bySig \in [Signatures -> {0} \union Slots]
         /\ expireReuseLocked.next \in Nat
         /\ \A g \in Signatures : expireReuseLocked.bySig[g] # 0 =>
              /\ expireReuseLocked.bySig[g] = bySig[g]
              /\ expireReuseLocked.next \in 1 .. byID[bySig[g]].reuseUntil
<1> DEFINE kept == {g \in Signatures : bySig[g] \in Live /\ now <= byID[bySig[g]].reuseUntil}
           ends == {byID[bySig[g]].reuseUntil : g \in kept}
<1>1. CASE \A g \in Signatures : bySig[g] = 0
  BY <1>1 DEF expireReuseLocked, StoreInv, StoreTyped
<1>2. CASE (\E g \in Signatures : bySig[g] # 0) /\ nextReuseSweep # 0 /\ now < nextReuseSweep
  BY <1>2 DEF expireReuseLocked, StoreInv, StoreTyped, NoSharedSession
<1>3. CASE (\E g \in Signatures : bySig[g] # 0) /\ ~(nextReuseSweep # 0 /\ now < nextReuseSweep)
  <2>1. expireReuseLocked = [bySig |-> [g \in Signatures |-> IF g \in kept THEN bySig[g] ELSE 0],
                             next |-> IF kept = {} THEN 0 ELSE Min(ends)]
    BY <1>3 DEF expireReuseLocked
  <2>2. \A g \in kept : byID[bySig[g]].reuseUntil \in Nat \ {0}
    BY DEF StoreInv, StoreTyped, Live, Session
  <2>3. kept # {} => Min(ends) \in ends /\ \A y \in ends : Min(ends) <= y
    <3>1. ends \subseteq Nat /\ (kept # {} => ends # {})
      BY <2>2
    <3> HIDE DEF ends, kept
    <3> QED
      BY <3>1, MinIsLeast
  <2>4. kept # {} => Min(ends) \in Nat \ {0}
    BY <2>2, <2>3
  <2>5. \A g \in kept : Min(ends) \in 1 .. byID[bySig[g]].reuseUntil
    <3> SUFFICES ASSUME NEW g \in kept PROVE Min(ends) \in 1 .. byID[bySig[g]].reuseUntil
      OBVIOUS
    <3>1. Min(ends) <= byID[bySig[g]].reuseUntil
      BY <2>3
    <3> QED
      BY <3>1, <2>2, <2>4
  <2> HIDE DEF ends
  <2> QED
    BY <2>1, <2>4, <2>5 DEF StoreInv, StoreTyped
<1> QED
  BY <1>1, <1>2, <1>3

(* allocateSlotLocked gives a slot that is free, and only below the limit.  *)
LEMMA SlotSound ==
  ASSUME StoreInv, allocateSlotLocked # 0
  PROVE  /\ allocateSlotLocked \in Slots \ Live
         /\ activeCount < maxActiveSessions
<1> DEFINE Distance(i) == IF i >= nextID THEN i - nextID ELSE i - nextID + maxServerSessionID
           free == Slots \ Live
           ds == {Distance(i) : i \in free}
<1>1. activeCount < maxActiveSessions /\ free # {}
  BY SlotsAssumption DEF allocateSlotLocked, StoreInv, StoreTyped
<1>2. ds \subseteq Nat
  BY SlotsAssumption DEF Slots, StoreInv, StoreTyped
<1>3. PICK x \in ds : \A y \in ds : x <= y
  <2>1. ds # {}
    BY <1>1
  <2> HIDE DEF ds
  <2> QED
    BY <1>2, <2>1, LeastExists
<1>4. \E i \in free : \A j \in free : Distance(i) <= Distance(j)
  BY <1>3
<1>5. allocateSlotLocked = CHOOSE i \in free : \A j \in free : Distance(i) <= Distance(j)
  BY <1>1 DEF allocateSlotLocked
<1> HIDE DEF Distance
<1> QED
  BY <1>1, <1>4, <1>5

------------------------------------------------------------------------------
(* The session store's invariant is inductive: one lemma per kind of step.  *)

LEMMA StoreInitInv == StoreInit => StoreInv
<1> SUFFICES ASSUME StoreInit PROVE StoreInv
  OBVIOUS
<1>1. StoreTyped
  BY SlotsAssumption DEF StoreInit, StoreTyped, Slots
<1>2. Live = {}
  BY DEF StoreInit, Live
<1> QED
  BY <1>1, <1>2, FS_EmptySet, SlotsAssumption DEF StoreInit, StoreInv, NoSharedSession

(* Steps that leave the index alone and change no more of a session than    *)
(* when it was used.                                                        *)
LEMMA TouchKeeps ==
  ASSUME StoreInv, StoreTyped', Live' = Live,
         \A i \in Live : byID'[i].sig = byID[i].sig /\ byID'[i].reuseUntil = byID[i].reuseUntil,
         \A g \in Signatures : bySig'[g] # 0 =>
           bySig'[g] = bySig[g] /\ nextReuseSweep' \in 1 .. byID[bySig[g]].reuseUntil,
         UNCHANGED <<recentClosed, activeCount>>
  PROVE  StoreInv'
<1>1. \A g \in Signatures : bySig'[g] # 0 =>
        /\ bySig'[g] \in Live' /\ byID'[bySig'[g]].sig = g
        /\ nextReuseSweep' \in 1 .. byID'[bySig'[g]].reuseUntil
  BY DEF StoreInv, NoSharedSession
<1> QED
  BY <1>1 DEF StoreInv, NoSharedSession

LEMMA InitKeeps ==
  ASSUME StoreInv, NEW g \in Signatures, findOrCreate(g)
  PROVE  StoreInv'
<1> DEFINE index == expireReuseLocked
           s == index.bySig[g]
           slot == allocateSlotLocked
           until == now + sessionInitTTL
<1>i. /\ index.bySig \in [Signatures -> {0} \union Slots] /\ index.next \in Nat
      /\ \A h \in Signatures : index.bySig[h] # 0 =>
           index.bySig[h] = bySig[h] /\ index.next \in 1 .. byID[bySig[h]].reuseUntil
  BY IndexSound
<1>t. StoreTyped /\ NoSharedSession
  BY DEF StoreInv
<1>1. CASE /\ s \in Live /\ now <= byID[s].reuseUntil
           /\ byID' = [byID EXCEPT ![s].lastActivity = now]
           /\ bySig' = index.bySig /\ nextReuseSweep' = index.next
           /\ UNCHANGED <<recentClosed, activeCount, nextID>>
  <2>1. s \in Slots /\ byID[s] \in Session
    BY <1>1, <1>t DEF Live, StoreTyped
  <2>2. [byID[s] EXCEPT !.lastActivity = now] \in Session
    BY <2>1, <1>t DEF Session, StoreTyped
  <2>3. /\ byID' \in [Slots -> Session \union {Free}]
        /\ byID'[s] \in Session
        /\ \A i \in Slots : i # s => byID'[i] = byID[i]
        /\ byID'[s].sig = byID[s].sig /\ byID'[s].reuseUntil = byID[s].reuseUntil
    BY <1>1, <1>t, <2>1, <2>2 DEF StoreTyped, Session
  <2>4. Live' = Live
    BY <2>1, <2>3, SessionNotFree DEF Live
  <2>5. StoreTyped'
    BY <1>1, <1>t, <1>i, <2>3 DEF StoreTyped, findOrCreate
  <2>6. \A i \in Live : byID'[i].sig = byID[i].sig /\ byID'[i].reuseUntil = byID[i].reuseUntil
    BY <2>3 DEF Live
  <2>7. \A h \in Signatures : bySig'[h] # 0 =>
          bySig'[h] = bySig[h] /\ nextReuseSweep' \in 1 .. byID[bySig[h]].reuseUntil
    BY <1>1, <1>i
  <2> QED
    BY <1>1, <2>4, <2>5, <2>6, <2>7, TouchKeeps
<1>2. CASE /\ bySig' = [index.bySig EXCEPT ![g] = 0] /\ nextReuseSweep' = index.next
           /\ UNCHANGED <<byID, recentClosed, activeCount, nextID>>
  <2>1. StoreTyped' /\ Live' = Live
    BY <1>2, <1>t, <1>i DEF StoreTyped, findOrCreate, Live
  <2>2. \A h \in Signatures : bySig'[h] # 0 =>
          bySig'[h] = bySig[h] /\ nextReuseSweep' \in 1 .. byID[bySig[h]].reuseUntil
    BY <1>2, <1>i
  <2> QED
    BY <1>2, <2>1, <2>2, TouchKeeps
<1>3. CASE /\ slot # 0
           /\ byID' = [byID EXCEPT ![slot] = [sig |-> g, reuseUntil |-> until,
                                              lastActivity |-> now, deferredCleanup |-> 0]]
           /\ activeCount' = activeCount + 1
           /\ bySig' = [index.bySig EXCEPT ![g] = slot]
           /\ nextReuseSweep' = updateNextReuseSweepLocked(index.next, until)
           /\ recentClosed' = [recentClosed EXCEPT ![slot] = 0]
           /\ nextID' = nextSessionID(slot)
  <2>1. slot \in Slots \ Live /\ activeCount < maxActiveSessions
    BY <1>3, SlotSound
  <2>2. until \in Nat \ {0}
    BY <1>t, SlotsAssumption DEF StoreTyped
  <2>3. /\ byID'[slot] \in Session /\ byID'[slot].sig = g /\ byID'[slot].reuseUntil = until
        /\ \A i \in Slots : i # slot => byID'[i] = byID[i]
        /\ byID' \in [Slots -> Session \union {Free}]
    <3> HIDE DEF slot, until
    <3> QED
      BY <1>3, <1>t, <2>1, <2>2 DEF StoreTyped, Session
  <2>4. Live' = Live \union {slot}
    <3> HIDE DEF slot
    <3> QED
      BY <2>1, <2>3, SessionNotFree DEF Live
  <2>5. Cardinality(Live') = Cardinality(Live) + 1
    BY <2>1, <2>4, LiveFinite, FS_AddElement
  <2>6. nextReuseSweep' \in 1 .. until /\ (index.next # 0 => nextReuseSweep' <= index.next)
    <3> HIDE DEF until, index
    <3> QED
      BY <1>3, <1>i, <2>2 DEF updateNextReuseSweepLocked, index
  <2>7. StoreTyped'
    <3> HIDE DEF slot, until, index
    <3>1. nextID' \in Slots
      BY <1>3, <2>1, SlotsAssumption DEF nextSessionID, Slots
    <3>2. bySig' \in [Signatures -> {0} \union Slots]
      BY <1>3, <1>i, <2>1 DEF index
    <3>3. notice' = notice /\ now' = now
      BY DEF findOrCreate
    <3> QED
      BY <1>3, <1>t, <2>1, <2>2, <2>3, <2>6, <3>1, <3>2, <3>3 DEF StoreTyped
  <2>8. ASSUME NEW h \in Signatures, bySig'[h] # 0
        PROVE  /\ bySig'[h] \in Live' /\ byID'[bySig'[h]].sig = h
               /\ nextReuseSweep' \in 1 .. byID'[bySig'[h]].reuseUntil
    <3> HIDE DEF slot, until, index
    <3>1. CASE h = g
      BY <1>3, <1>i, <2>1, <2>3, <2>4, <2>6, <3>1 DEF index
    <3>2. CASE h # g
      <4>1. bySig'[h] = bySig[h] /\ bySig[h] # 0 /\ index.next \in 1 .. byID[bySig[h]].reuseUntil
        BY <1>3, <1>i, <2>8, <3>2 DEF index
      <4>2. bySig[h] \in Live /\ byID[bySig[h]].sig = h
        BY <1>t, <4>1 DEF NoSharedSession
      <4>3. bySig[h] # slot /\ byID'[bySig[h]] = byID[bySig[h]]
        BY <2>1, <2>3, <4>2 DEF Live
      <4>4. byID[bySig[h]].reuseUntil \in Nat
        BY <1>t, <4>2 DEF StoreTyped, Live, Session
      <4> QED
        BY <2>4, <2>6, <2>2, <4>1, <4>2, <4>3, <4>4
    <3> QED
      BY <3>1, <3>2
  <2>9. activeCount' = Cardinality(Live') /\ activeCount' <= maxActiveSessions
    BY <1>3, <1>t, <2>1, <2>5, SlotsAssumption DEF NoSharedSession, StoreTyped
  <2>10. \A i \in Live' : recentClosed'[i] = 0
    <3> HIDE DEF slot
    <3> QED
      BY <1>3, <1>t, <2>1, <2>4 DEF NoSharedSession, StoreTyped, Live
  <2> QED
    BY <2>7, <2>8, <2>9, <2>10 DEF StoreInv, NoSharedSession
<1> QED
  BY <1>1, <1>2, <1>3 DEF findOrCreate

(* The sessions of a set of slots end: their handshakes leave the index,    *)
(* and they are remembered as closed.                                       *)
LEMMA EndKeeps ==
  ASSUME StoreInv, StoreTyped', NEW gone \in SUBSET Live,
         byID' = [i \in Slots |-> IF i \in gone THEN Free ELSE byID[i]],
         activeCount' = Less(Cardinality(gone)),
         \A g \in Signatures : bySig'[g] # 0 =>
           /\ bySig'[g] = bySig[g] /\ nextReuseSweep' \in 1 .. byID[bySig[g]].reuseUntil
           /\ \A i \in gone : byID[i].sig # g,
         \A i \in Slots : i \notin gone /\ recentClosed[i] = 0 => recentClosed'[i] = 0
  PROVE  StoreInv'
<1>t. StoreTyped /\ NoSharedSession
  BY DEF StoreInv
<1>1. Live' = Live \ gone
  BY DEF Live
<1>2. IsFiniteSet(gone) /\ Cardinality(gone) \in Nat /\ Cardinality(Live) \in Nat
  BY LiveFinite, FS_Subset, FS_CardinalityType
<1>3. Cardinality(Live') = Cardinality(Live) - Cardinality(gone) /\ Cardinality(Live') \in Nat
  <2>1. Live \intersect gone = gone
    OBVIOUS
  <2>2. IsFiniteSet(Live \ gone)
        /\ Cardinality(Live \ gone) = Cardinality(Live) - Cardinality(gone)
    <3>1. IsFiniteSet(Live)
      BY LiveFinite
    <3>2. IsFiniteSet(Live \ gone)
          /\ Cardinality(Live \ gone) = Cardinality(Live) - Cardinality(Live \cap gone)
      BY <3>1, FS_Difference, Zenon
    <3> QED
      BY <2>1, <3>2
  <2>3. Cardinality(Live \ gone) \in Nat
    BY <2>2, FS_CardinalityType
  <2> QED
    BY <1>1, <2>2, <2>3
<1>4. activeCount' = Cardinality(Live') /\ activeCount' <= maxActiveSessions
  BY <1>t, <1>2, <1>3, SlotsAssumption DEF NoSharedSession, Less
<1>5. \A i \in Live' : recentClosed'[i] = 0
  BY <1>t, <1>1 DEF NoSharedSession, Live
<1>6. ASSUME NEW g \in Signatures, bySig'[g] # 0
      PROVE  /\ bySig'[g] \in Live' /\ byID'[bySig'[g]].sig = g
             /\ nextReuseSweep' \in 1 .. byID'[bySig'[g]].reuseUntil
  <2>1. bySig[g] \in Live /\ byID[bySig[g]].sig = g /\ bySig'[g] = bySig[g]
    BY <1>t, <1>6 DEF NoSharedSession
  <2>2. bySig[g] \notin gone /\ byID'[bySig[g]] = byID[bySig[g]]
    BY <1>6, <2>1 DEF Live
  <2> QED
    BY <1>1, <1>6, <2>1, <2>2
<1> QED
  BY <1>4, <1>5, <1>6 DEF StoreInv, NoSharedSession

LEMMA CloseKeeps ==
  ASSUME StoreInv, handleSessionCloseNotice
  PROVE  StoreInv'
<1>t. StoreTyped /\ NoSharedSession
  BY DEF StoreInv
<1>1. CASE notice \in Live
  <2>1. /\ Close(notice)
        /\ notice' = 0 /\ UNCHANGED <<nextID, nextReuseSweep, now>>
    BY <1>1 DEF handleSessionCloseNotice
  <2>2. notice \in Slots /\ byID[notice] \in Session
    BY <1>1, <1>t DEF Live, StoreTyped
  <2>3. byID' = [i \in Slots |-> IF i \in {notice} THEN Free ELSE byID[i]]
    BY <1>t, <2>1 DEF Close, StoreTyped
  <2>4. activeCount' = Less(Cardinality({notice})) /\ activeCount' \in Nat
    <3>1. Cardinality({notice}) = 1
      BY FS_Singleton
    <3>2. activeCount' = Less(1)
      BY <2>1 DEF Close
    <3>3. Less(1) \in Nat
      BY <1>t DEF Less, StoreTyped
    <3> QED
      BY <3>1, <3>2, <3>3
  <2>5. bySig' = [bySig EXCEPT ![byID[notice].sig] = 0] /\ byID[notice].sig \in Signatures
    BY <2>1, <2>2 DEF Close, Session
  <2>6. recentClosed' = [recentClosed EXCEPT ![notice] = now + ClosedSessionRetention]
    BY <2>1 DEF Close
  <2>7. StoreTyped'
    <3>1. byID' \in [Slots -> Session \union {Free}]
      BY <1>t, <2>3 DEF StoreTyped
    <3>2. bySig' \in [Signatures -> {0} \union Slots]
      BY <1>t, <2>5 DEF StoreTyped
    <3>3. recentClosed' \in [Slots -> Nat]
      <4>1. now + ClosedSessionRetention \in Nat
        BY <1>t, SlotsAssumption DEF StoreTyped
      <4>2. recentClosed \in [Slots -> Nat]
        BY <1>t DEF StoreTyped
      <4> QED
        BY <2>6, <4>1, <4>2
    <3> QED
      BY <1>t, <2>1, <2>4, <3>1, <3>2, <3>3 DEF StoreTyped
  <2>8. ASSUME NEW g \in Signatures, bySig'[g] # 0
        PROVE  /\ bySig'[g] = bySig[g] /\ nextReuseSweep' \in 1 .. byID[bySig[g]].reuseUntil
               /\ \A i \in {notice} : byID[i].sig # g
    <3>1. g # byID[notice].sig /\ bySig'[g] = bySig[g]
      BY <1>t, <2>5, <2>8 DEF StoreTyped
    <3> QED
      BY <1>t, <2>1, <2>8, <3>1 DEF NoSharedSession
  <2>9. \A i \in Slots : i \notin {notice} /\ recentClosed[i] = 0 => recentClosed'[i] = 0
    BY <1>t, <2>6 DEF StoreTyped
  <2> QED
    BY <1>1, <2>3, <2>4, <2>7, <2>8, <2>9, EndKeeps
<1>2. CASE notice \notin Live
  <2>1. UNCHANGED <<byID, bySig, recentClosed, activeCount, nextID, nextReuseSweep, now>>
        /\ notice' = 0
    BY <1>2 DEF handleSessionCloseNotice
  <2>2. StoreTyped' /\ Live' = Live
    BY <1>t, <2>1 DEF StoreTyped, Live
  <2> QED
    BY <1>t, <2>1, <2>2 DEF StoreInv, NoSharedSession
<1> QED
  BY <1>1, <1>2

LEMMA CleanupKeeps ==
  ASSUME StoreInv, Cleanup
  PROVE  StoreInv'
<1> DEFINE index == expireReuseLocked
           idle == {i \in Live : now - byID[i].lastActivity >= SessionTimeout}
<1>t. StoreTyped /\ NoSharedSession
  BY DEF StoreInv
<1>i. /\ index.bySig \in [Signatures -> {0} \union Slots] /\ index.next \in Nat
      /\ \A h \in Signatures : index.bySig[h] # 0 =>
           index.bySig[h] = bySig[h] /\ index.next \in 1 .. byID[bySig[h]].reuseUntil
  BY IndexSound
<1>1. /\ bySig' = [g \in Signatures |-> IF \E i \in idle : byID[i].sig = g THEN 0 ELSE index.bySig[g]]
      /\ nextReuseSweep' = index.next
      /\ byID' = [i \in Slots |-> IF i \in idle THEN Free ELSE byID[i]]
      /\ activeCount' = Less(Cardinality(idle))
      /\ recentClosed' = [i \in Slots |->
                            IF i \in idle THEN now + ClosedSessionRetention
                            ELSE IF now >= recentClosed[i] THEN 0 ELSE recentClosed[i]]
      /\ UNCHANGED <<nextID, notice, now>>
  BY DEF Cleanup
<1>2. idle \in SUBSET Live
  OBVIOUS
<1> HIDE DEF index, idle
<1>3. activeCount' \in Nat
  BY <1>t, <1>1, <1>2, LiveFinite, FS_Subset, FS_CardinalityType DEF Less, StoreTyped
<1>4. StoreTyped'
  <2>1. byID' \in [Slots -> Session \union {Free}]
    BY <1>t, <1>1 DEF StoreTyped
  <2>2. bySig' \in [Signatures -> {0} \union Slots]
    BY <1>1, <1>i
  <2>3. recentClosed' \in [Slots -> Nat]
    BY <1>t, <1>1, SlotsAssumption DEF StoreTyped
  <2> QED
    BY <1>t, <1>1, <1>i, <1>3, <2>1, <2>2, <2>3 DEF StoreTyped
<1>5. \A g \in Signatures : bySig'[g] # 0 =>
        /\ bySig'[g] = bySig[g] /\ nextReuseSweep' \in 1 .. byID[bySig[g]].reuseUntil
        /\ \A i \in idle : byID[i].sig # g
  BY <1>1, <1>i
<1>6. \A i \in Slots : i \notin idle /\ recentClosed[i] = 0 => recentClosed'[i] = 0
  BY <1>t, <1>1 DEF StoreTyped
<1> QED
  BY <1>1, <1>2, <1>4, <1>5, <1>6, EndKeeps

(* A packet of a session and the clean-up of its deferred tasks change only *)
(* when it was used and when it was cleaned.                                *)
LEMMA UseKeeps ==
  ASSUME StoreInv, ValidateAndTouch \/ CollectIdleDeferredSessions
  PROVE  StoreInv'
<1>t. StoreTyped /\ NoSharedSession
  BY DEF StoreInv
<1>1. /\ byID' \in [Slots -> Session \union {Free}]
      /\ \A i \in Slots : i \notin Live => byID'[i] = Free
      /\ \A i \in Live : /\ byID'[i] \in Session /\ byID'[i].sig = byID[i].sig
                        /\ byID'[i].reuseUntil = byID[i].reuseUntil
      /\ UNCHANGED <<bySig, recentClosed, activeCount, nextID, nextReuseSweep, notice, now>>
  <2>1. CASE ValidateAndTouch
    <3>1. PICK i \in Live : byID' = [byID EXCEPT ![i].lastActivity = now]
      BY <2>1 DEF ValidateAndTouch
    <3>2. byID[i] \in Session /\ i \in Slots
      BY <1>t DEF StoreTyped, Live
    <3>3. [byID[i] EXCEPT !.lastActivity = now] \in Session
      BY <1>t, <3>2 DEF Session, StoreTyped
    <3> QED
      BY <1>t, <2>1, <3>1, <3>2, <3>3 DEF ValidateAndTouch, StoreTyped, Live, Session
  <2>2. CASE CollectIdleDeferredSessions
    <3>1. \A i \in Live : byID[i] \in Session
      BY <1>t DEF StoreTyped, Live
    <3>2. \A i \in Live : [byID[i] EXCEPT !.deferredCleanup = byID[i].lastActivity] \in Session
      BY <3>1 DEF Session
    <3> QED
      BY <1>t, <2>2, <3>1, <3>2 DEF CollectIdleDeferredSessions, StoreTyped, Live, Session
  <2> QED
    BY <2>1, <2>2
<1>2. Live' = Live
  BY <1>1, SessionNotFree DEF Live
<1>3. StoreTyped'
  BY <1>t, <1>1 DEF StoreTyped
<1> QED
  BY <1>t, <1>1, <1>2, <1>3, TouchKeeps DEF NoSharedSession

LEMMA StoreStep ==
  ASSUME StoreInv, StoreNext
  PROVE  StoreInv'
<1>1. CASE handleSessionInitRequest
  BY <1>1, InitKeeps DEF handleSessionInitRequest
<1>2. CASE ValidateAndTouch \/ CollectIdleDeferredSessions
  BY <1>2, UseKeeps
<1>3. CASE handleSessionCloseNotice
  BY <1>3, CloseKeeps
<1>4. CASE Cleanup
  BY <1>4, CleanupKeeps
<1>5. CASE Lookup \/ Tick
  <2>1. UNCHANGED <<byID, bySig, recentClosed, activeCount, nextID, nextReuseSweep>>
    BY <1>5 DEF Lookup, Tick
  <2>2. notice' \in {0} \union Slots /\ now' \in Nat \ {0}
    BY <1>5 DEF Lookup, Tick, StoreInv, StoreTyped, Live
  <2> QED
    BY <2>1, <2>2 DEF StoreInv, StoreTyped, NoSharedSession, Live
<1> QED
  BY <1>1, <1>2, <1>3, <1>4, <1>5 DEF StoreNext

(* No two clients share a session, whatever the sizes: a handshake that is  *)
(* repeated gets its own session or a new one (findOrCreate, Close,         *)
(* Cleanup).                                                                *)
THEOREM SessionsNotShared == Spec => []NoSharedSession
<1>1. Init => StoreInv
  BY StoreInitInv DEF Init
<1>2. StoreInv /\ [Next]_vars => StoreInv'
  <2> SUFFICES ASSUME StoreInv, [Next]_vars PROVE StoreInv'
    OBVIOUS
  <2>1. CASE StoreNext
    BY <2>1, StoreStep
  <2>2. CASE UNCHANGED storeVars
    BY <2>2 DEF storeVars, StoreInv, StoreTyped, NoSharedSession, Live
  <2> QED
    BY <2>1, <2>2 DEF Next, vars
<1>3. StoreInv => NoSharedSession
  BY DEF StoreInv
<1> QED
  BY <1>1, <1>2, <1>3, PTL DEF Spec

------------------------------------------------------------------------------
(* The streams and their upstream connections. *)

Finals == {"no", "cleanup", "remove", "note", "done"}
StreamRecord == [id : Ids \union {None}, conn : Nat, gone : BOOLEAN, arqClosed : BOOLEAN,
                 final : Finals]
TaskSteps == {"idle", "create", "dial", "dialled", "attached", "clear", "finish"}
HandlerSteps == {"idle", "syn", "enqueue", "ack", "reset", "abort", "note", "forget"}
TaskRecord == [at : TaskSteps, id : Ids \union {None}, s : Nat, conn : Nat, cancelled : BOOLEAN,
               bound : BOOLEAN]
HandlerRecord == [at : HandlerSteps, id : Ids \union {None}, s : Nat]

StreamsTyped ==
  /\ stream \in Seq(StreamRecord)
  /\ Streams \in [Ids -> 0 .. Len(stream)]

(* Only a stream that has ended is finalised. *)
FinalAfterEnd ==
  \A s \in DOMAIN stream : stream[s].final # "no" => stream[s].gone \/ stream[s].arqClosed

TasksTyped ==
  /\ open \in Seq(BOOLEAN)
  /\ task \in [Workers -> TaskRecord]
  /\ handler \in [Handlers -> HandlerRecord]

(* A task that dials does so for a stream that was made. *)
TasksAim ==
  \A w \in Workers :
    /\ task[w].at = "create" => task[w].id \in Ids
    /\ task[w].at \in {"dial", "dialled"} => task[w].s \in DOMAIN stream

UpstreamInv == StreamsTyped /\ FinalAfterEnd /\ TasksTyped /\ TasksAim /\ UpstreamOwned

------------------------------------------------------------------------------
LEMMA UpstreamInitInv == ConnectInit => UpstreamInv
<1> SUFFICES ASSUME ConnectInit PROVE UpstreamInv
  OBVIOUS
<1> USE DEF ConnectInit, TableInit
<1>1. StreamsTyped
  BY DEF StreamsTyped, None
<1>2. TasksTyped
  <2>1. Idle \in TaskRecord
    BY DEF Idle, TaskRecord, TaskSteps, None
  <2>2. NoPacket \in HandlerRecord
    BY DEF NoPacket, None, HandlerRecord, HandlerSteps
  <2> QED
    BY <2>1, <2>2 DEF TasksTyped
<1>3. TasksAim
  BY DEF TasksAim, Idle
<1> QED
  BY <1>1, <1>2, <1>3 DEF UpstreamInv, FinalAfterEnd, UpstreamOwned

(* Changing one stream changes no other, and makes none. *)
LEMMA ChangeOne ==
  ASSUME NEW q \in Seq(StreamRecord), NEW s, NEW r, s \in DOMAIN q => r \in StreamRecord
  PROVE  /\ [q EXCEPT ![s] = r] \in Seq(StreamRecord)
         /\ Len([q EXCEPT ![s] = r]) = Len(q)
         /\ DOMAIN [q EXCEPT ![s] = r] = DOMAIN q
         /\ \A x \in DOMAIN q : [q EXCEPT ![s] = r][x] = IF x = s THEN r ELSE q[x]
<1> DEFINE e == [q EXCEPT ![s] = r]
<1>1. DOMAIN q = 1 .. Len(q) /\ Len(q) \in Nat
  OBVIOUS
<1>2. \A x \in DOMAIN q : e[x] = IF x = s THEN r ELSE q[x]
  OBVIOUS
<1>3. \A x \in 1 .. Len(q) : e[x] \in StreamRecord
  BY <1>1, <1>2
<1>4. DOMAIN e = 1 .. Len(q)
  BY <1>1
<1>5. e \in [1 .. Len(q) -> StreamRecord]
  BY <1>3, <1>4
<1>6. e \in Seq(StreamRecord)
  BY <1>1, <1>5
<1> QED
  BY <1>1, <1>2, <1>4, <1>6

(* getOrCreateStream, whoever calls it, leaves the streams there are alone. *)
LEMMA MakeStream ==
  ASSUME StreamsTyped, FinalAfterEnd, NEW id \in Ids \union {None},
         Created(id, getOrCreateStream(id))
  PROVE  /\ StreamsTyped' /\ FinalAfterEnd'
         /\ DOMAIN stream \subseteq DOMAIN stream'
         /\ \A s \in DOMAIN stream : stream'[s] = stream[s]
         /\ id \in Ids /\ getOrCreateStream(id) # None => getOrCreateStream(id) \in DOMAIN stream'
<1> USE DEF None
<1>1. CASE getOrCreateStream(id) = Len(stream) + 1
  <2>1. stream' = Append(stream, NewStreamServer(id))
        /\ Streams' = [Streams EXCEPT ![id] = Len(stream) + 1]
    BY <1>1 DEF Created
  <2>2. NewStreamServer(id) \in StreamRecord /\ NewStreamServer(id).final = "no"
    BY DEF NewStreamServer, StreamRecord, Finals
  <2>3. stream' \in Seq(StreamRecord) /\ Len(stream') = Len(stream) + 1
    BY <2>1, <2>2 DEF StreamsTyped
  <2>4. /\ \A s \in DOMAIN stream : stream'[s] = stream[s]
        /\ DOMAIN stream' = DOMAIN stream \union {Len(stream) + 1}
        /\ stream'[Len(stream) + 1].final = "no"
    BY <2>1, <2>2, <2>3 DEF StreamsTyped
  <2>5. Streams' \in [Ids -> 0 .. Len(stream')]
    <3>1. \A i \in Ids : Streams[i] \in 0 .. Len(stream) /\ Len(stream) \in Nat
      BY DEF StreamsTyped
    <3>2. \A i \in Ids : Streams'[i] \in 0 .. Len(stream')
      BY <2>1, <2>3, <3>1 DEF StreamsTyped
    <3> QED
      BY <2>1, <3>2 DEF StreamsTyped
  <2>6. StreamsTyped'
    BY <2>3, <2>5 DEF StreamsTyped
  <2> QED
    BY <1>1, <2>4, <2>6 DEF FinalAfterEnd
<1>2. CASE getOrCreateStream(id) # Len(stream) + 1
  <2>1. UNCHANGED <<stream, Streams>>
    BY <1>2 DEF Created, tableVars
  <2>2. id \in Ids /\ getOrCreateStream(id) # None => getOrCreateStream(id) = Streams[id]
    BY <1>2 DEF getOrCreateStream
  <2> QED
    BY <2>1, <2>2 DEF StreamsTyped, FinalAfterEnd
<1> QED
  BY <1>1, <1>2

(* What the other parts of a session do to the streams keeps the invariant  *)
(* when it ends no stream that still has its connection.                    *)
LEMMA StreamsMayChange ==
  ASSUME UpstreamInv, StreamsTyped', FinalAfterEnd', TasksTyped',
         DOMAIN stream \subseteq DOMAIN stream',
         NEW conns, Shut(conns),
         \A s \in DOMAIN stream :
            \/ stream[s].conn \in conns
            \/ stream[s].final \notin {"no", "cleanup"}
            \/ stream'[s].conn = stream[s].conn /\ stream'[s].final \in {"no", "cleanup"},
         \A w \in Workers :
            /\ task'[w].conn = task[w].conn /\ task'[w].at = task[w].at
            /\ task'[w].id = task[w].id /\ task'[w].s = task[w].s
  PROVE  UpstreamInv'
<1>1. TasksAim'
  BY DEF UpstreamInv, TasksAim
<1>2. UpstreamOwned'
  <2> SUFFICES ASSUME NEW c \in DOMAIN open', open'[c]
               PROVE  \/ \E w \in Workers : task'[w].conn = c /\ task'[w].at = "dialled"
                      \/ \E s \in DOMAIN stream' : stream'[s].conn = c
                                                  /\ stream'[s].final \in {"no", "cleanup"}
    BY DEF UpstreamOwned
  <2>1. c \in DOMAIN open /\ open[c] /\ c \notin conns
    BY DEF Shut
  <2> QED
    BY <2>1 DEF UpstreamInv, UpstreamOwned
<1> QED
  BY <1>1, <1>2 DEF UpstreamInv

------------------------------------------------------------------------------
(* A step that connects nothing: what tasks do and for whom stays the same. *)
SameTasks ==
  /\ task' \in [Workers -> TaskRecord]
  /\ \A w \in Workers :
       /\ task'[w].conn = task[w].conn /\ task'[w].at = task[w].at
       /\ task'[w].id = task[w].id /\ task'[w].s = task[w].s

LEMMA Cancelling ==
  ASSUME UpstreamInv, \/ UNCHANGED task
                      \/ \E ids : task' = CancelTasks(ids, task)
  PROVE  SameTasks
<1> USE DEF UpstreamInv, TasksTyped
<1>1. CASE UNCHANGED task
  BY <1>1 DEF SameTasks
<1>2. CASE \E ids : task' = CancelTasks(ids, task)
  <2>1. PICK ids : task' = CancelTasks(ids, task)
    BY <1>2
  <2>2. DOMAIN task = Workers
    OBVIOUS
  <2>3. ASSUME NEW w \in Workers
        PROVE  task'[w] = task[w] \/ task'[w] = [task[w] EXCEPT !.cancelled = TRUE, !.bound = FALSE]
    BY <2>1, <2>2 DEF CancelTasks
  <2>4. ASSUME NEW w \in Workers
        PROVE  /\ task'[w] \in TaskRecord
               /\ task'[w].conn = task[w].conn /\ task'[w].at = task[w].at
               /\ task'[w].id = task[w].id /\ task'[w].s = task[w].s
    <3>1. task[w] \in TaskRecord
      OBVIOUS
    <3> QED
      BY <2>3, <3>1 DEF TaskRecord
  <2>5. task' \in [Workers -> TaskRecord]
    BY <2>1, <2>2, <2>4 DEF CancelTasks
  <2> QED
    BY <2>4, <2>5 DEF SameTasks
<1> QED
  BY <1>1, <1>2

LEMMA Shutting ==
  ASSUME open \in Seq(BOOLEAN)
  PROVE  /\ UNCHANGED open => Shut({})
         /\ \A conns : Shut(conns) => open' \in Seq(BOOLEAN) /\ DOMAIN open' = DOMAIN open
<1>1. DOMAIN open = 1 .. Len(open) /\ Len(open) \in Nat /\ open \in [1 .. Len(open) -> BOOLEAN]
  OBVIOUS
<1>2. UNCHANGED open => Shut({})
  BY <1>1 DEF Shut
<1>3. ASSUME NEW conns, Shut(conns)
      PROVE  open' \in Seq(BOOLEAN) /\ DOMAIN open' = DOMAIN open
  <2>1. open' \in [1 .. Len(open) -> BOOLEAN]
    BY <1>1, <1>3 DEF Shut
  <2> QED
    BY <1>1, <2>1
<1> QED
  BY <1>2, <1>3

(* Packets and timers that touch no stream. *)
LEMMA StreamsUntouched ==
  ASSUME UpstreamInv, UNCHANGED <<stream, Streams, open>>, SameTasks,
         handler' \in [Handlers -> HandlerRecord]
  PROVE  UpstreamInv'
<1>1. StreamsTyped' /\ FinalAfterEnd'
  BY DEF UpstreamInv, StreamsTyped, FinalAfterEnd
<1>2. TasksTyped' /\ Shut({})
  BY Shutting DEF UpstreamInv, TasksTyped, SameTasks
<1>3. \A s \in DOMAIN stream :
         \/ stream[s].final \notin {"no", "cleanup"}
         \/ stream'[s].conn = stream[s].conn /\ stream'[s].final \in {"no", "cleanup"}
  OBVIOUS
<1> QED
  BY <1>1, <1>2, <1>3, StreamsMayChange DEF SameTasks

(* One stream changes, and keeps its connection or has it closed.           *)
LEMMA OneStreamChanges ==
  ASSUME UpstreamInv, SameTasks, Streams' \in [Ids -> 0 .. Len(stream)],
         handler' \in [Handlers -> HandlerRecord],
         NEW s, NEW r, stream' = [stream EXCEPT ![s] = r],
         s \in DOMAIN stream =>
            /\ r \in StreamRecord
            /\ r.final # "no" => r.gone \/ r.arqClosed,
         NEW conns, Shut(conns),
         s \in DOMAIN stream =>
            \/ stream[s].conn \in conns
            \/ stream[s].final \notin {"no", "cleanup"}
            \/ r.conn = stream[s].conn /\ r.final \in {"no", "cleanup"}
  PROVE  UpstreamInv'
<1>1. stream \in Seq(StreamRecord)
  BY DEF UpstreamInv, StreamsTyped
<1>2. /\ stream' \in Seq(StreamRecord) /\ Len(stream') = Len(stream)
      /\ DOMAIN stream' = DOMAIN stream
      /\ \A x \in DOMAIN stream : stream'[x] = IF x = s THEN r ELSE stream[x]
  BY <1>1, ChangeOne
<1>3. StreamsTyped'
  BY <1>2 DEF StreamsTyped
<1>4. FinalAfterEnd'
  BY <1>2 DEF UpstreamInv, FinalAfterEnd
<1>5. TasksTyped'
  BY Shutting DEF UpstreamInv, TasksTyped, SameTasks
<1>6. \A x \in DOMAIN stream :
         \/ stream[x].conn \in conns
         \/ stream[x].final \notin {"no", "cleanup"}
         \/ stream'[x].conn = stream[x].conn /\ stream'[x].final \in {"no", "cleanup"}
  BY <1>2
<1> QED
  BY <1>2, <1>3, <1>4, <1>5, <1>6, StreamsMayChange DEF SameTasks

------------------------------------------------------------------------------
LEMMA HandlerMoves ==
  ASSUME UpstreamInv, NEW h \in Handlers
  PROVE  /\ UNCHANGED handler => handler' \in [Handlers -> HandlerRecord]
         /\ Done(h) => handler' \in [Handlers -> HandlerRecord]
         /\ \A step \in HandlerSteps : Next_(h, step) => handler' \in [Handlers -> HandlerRecord]
<1> USE DEF UpstreamInv, TasksTyped
<1>1. Done(h) => handler' \in [Handlers -> HandlerRecord]
  <2>1. NoPacket \in HandlerRecord
    BY DEF NoPacket, None, HandlerRecord, HandlerSteps
  <2> QED
    BY <2>1 DEF Done
<1>2. ASSUME NEW step \in HandlerSteps, Next_(h, step)
      PROVE  handler' \in [Handlers -> HandlerRecord]
  <2>1. handler[h] \in HandlerRecord
    OBVIOUS
  <2>2. [handler[h] EXCEPT !.at = step] \in HandlerRecord
    BY <2>1 DEF HandlerRecord
  <2> QED
    BY <1>2, <2>2 DEF Next_
<1> QED
  BY <1>1, <1>2

(* Packets that arrive, and what forgets tasks.                             *)
LEMMA ArrivalKeeps ==
  ASSUME UpstreamInv,
         \/ \E h \in Handlers : SynArrives(h) \/ RstArrives(h)
         \/ PeerCloses \/ cleanupIdleDeferredSession \/ SweepTerminalStreams
         \/ Age /\ UNCHANGED procVars
  PROVE  UpstreamInv'
<1> USE DEF UpstreamInv, TasksTyped
<1>1. CASE \E h \in Handlers : SynArrives(h) \/ RstArrives(h)
  <2>1. PICK h \in Handlers : SynArrives(h) \/ RstArrives(h)
    BY <1>1
  <2>2. UNCHANGED <<stream, Streams, open, task>>
    BY <2>1 DEF SynArrives, RstArrives, tableVars
  <2>3. PICK id \in SynIds, step \in HandlerSteps, s \in Nat :
           handler' = [handler EXCEPT ![h] = [at |-> step, id |-> id, s |-> s]]
    <3>1. CASE SynArrives(h)
      <4>1. PICK id \in SynIds :
              handler' = [handler EXCEPT ![h] = [at |-> "syn", id |-> id, s |-> None]]
        BY <3>1 DEF SynArrives
      <4> QED
        BY <4>1 DEF HandlerSteps, None
    <3>2. CASE RstArrives(h)
      <4>1. PICK id \in SynIds :
              handler' = [handler EXCEPT ![h] =
                     [at |-> IF Streams[id] = None THEN "note" ELSE "reset", id |-> id,
                      s |-> Streams[id]]]
        BY <3>2 DEF RstArrives
      <4>2. Streams[id] \in Nat
        BY StreamsAssumption DEF StreamsTyped
      <4> QED
        BY <4>1, <4>2 DEF HandlerSteps
    <3> QED
      BY <2>1, <3>1, <3>2
  <2>4. [at |-> step, id |-> id, s |-> s] \in HandlerRecord
    BY StreamsAssumption DEF HandlerRecord
  <2>5. handler' \in [Handlers -> HandlerRecord]
    BY <2>3, <2>4
  <2> QED
    BY <2>2, <2>5, Cancelling, StreamsUntouched
<1>2. CASE PeerCloses
  BY <1>2, Cancelling, StreamsUntouched
     DEF PeerCloses, clearDeferredPacketsForStream, tableVars
<1>3. CASE cleanupIdleDeferredSession
  BY <1>3, Cancelling, StreamsUntouched
     DEF cleanupIdleDeferredSession, cleanupDeferredSessionState, tableVars
<1>4. CASE SweepTerminalStreams \/ (Age /\ UNCHANGED procVars)
  BY <1>4, Cancelling, StreamsUntouched DEF SweepTerminalStreams, Age, procVars, tableVars
<1> QED
  BY <1>1, <1>2, <1>3, <1>4

(* The ARQ of a stream is closed: its record, whoever does it.              *)
Ended(r) == [r EXCEPT !.arqClosed = TRUE, !.final = IF @ = "no" THEN "cleanup" ELSE @]

LEMMA EndedRecord ==
  ASSUME NEW r \in StreamRecord
  PROVE  /\ Ended(r) \in StreamRecord /\ Ended(r).arqClosed
         /\ r.final \in {"no", "cleanup"} =>
              Ended(r).conn = r.conn /\ Ended(r).final \in {"no", "cleanup"}
BY DEF Ended, StreamRecord, Finals

LEMMA CloseARQKeeps ==
  ASSUME UpstreamInv, NEW s, CloseARQ(s), UNCHANGED <<Streams, open>>, SameTasks,
         handler' \in [Handlers -> HandlerRecord]
  PROVE  UpstreamInv'
<1>1. stream' = [stream EXCEPT ![s] = Ended(stream[s])]
  BY DEF CloseARQ, Ended
<1>2. s \in DOMAIN stream => stream[s] \in StreamRecord
  BY DEF UpstreamInv, StreamsTyped
<1>3. s \in DOMAIN stream =>
        /\ Ended(stream[s]) \in StreamRecord /\ Ended(stream[s]).arqClosed
        /\ stream[s].final \in {"no", "cleanup"} =>
             /\ Ended(stream[s]).conn = stream[s].conn
             /\ Ended(stream[s]).final \in {"no", "cleanup"}
  BY <1>2, EndedRecord
<1>4. Shut({})
  BY Shutting DEF UpstreamInv, TasksTyped
<1>5. Streams' \in [Ids -> 0 .. Len(stream)]
  BY DEF UpstreamInv, StreamsTyped
<1> QED
  BY <1>1, <1>3, <1>4, <1>5, OneStreamChanges

LEMMA HandlerKeeps ==
  ASSUME UpstreamInv, NEW h \in Handlers, HandlerStep(h)
  PROVE  UpstreamInv'
<1> DEFINE id == handler[h].id
<1>id. id \in Ids \union {None}
  BY DEF UpstreamInv, TasksTyped, HandlerRecord
<1>1. CASE handleStreamSynRequest(h)
  <2>1. UNCHANGED <<stream, Streams, open>>
    BY <1>1 DEF handleStreamSynRequest, tableVars
  <2>2. SameTasks
    BY <1>1, Cancelling
       DEF handleStreamSynRequest, rejectNewStreamBecauseLimit, tryHandleImmediate,
           clearDeferredPacketsForStream
  <2>3. handler' \in [Handlers -> HandlerRecord]
    BY <1>1, HandlerMoves
       DEF handleStreamSynRequest, rejectNewStreamBecauseLimit, tryHandleImmediate, HandlerSteps
  <2> QED
    BY <2>1, <2>2, <2>3, StreamsUntouched
<1>2. CASE dispatchDeferredSessionPacketTracked(h)
  <2>1. handler' \in [Handlers -> HandlerRecord]
    BY <1>2, HandlerMoves DEF dispatchDeferredSessionPacketTracked, HandlerSteps
  <2> QED
    BY <1>2, <2>1, Cancelling, StreamsUntouched
       DEF dispatchDeferredSessionPacketTracked, tableVars
<1>3. CASE queueImmediateControlAck(h)
  <2>1. Created(id, getOrCreateStream(id)) /\ UNCHANGED <<task, open>>
    BY <1>3 DEF queueImmediateControlAck
  <2>2. /\ StreamsTyped' /\ FinalAfterEnd'
        /\ DOMAIN stream \subseteq DOMAIN stream'
        /\ \A s \in DOMAIN stream : stream'[s] = stream[s]
    <3> HIDE DEF id
    <3> QED
      BY <1>id, <2>1, MakeStream DEF UpstreamInv
  <2>3. SameTasks
    BY <2>1, Cancelling
  <2>4. TasksTyped' /\ Shut({})
    BY <1>3, <2>1, <2>3, HandlerMoves, Shutting
       DEF queueImmediateControlAck, UpstreamInv, TasksTyped, SameTasks
  <2>5. \A s \in DOMAIN stream :
           \/ stream[s].final \notin {"no", "cleanup"}
           \/ stream'[s].conn = stream[s].conn /\ stream'[s].final \in {"no", "cleanup"}
    BY <2>2
  <2> QED
    BY <2>2, <2>3, <2>4, <2>5, StreamsMayChange DEF SameTasks
<1>4. CASE handleStreamRSTRequest(h)
  <2>1. handler' \in [Handlers -> HandlerRecord]
    BY <1>4, HandlerMoves DEF handleStreamRSTRequest, HandlerSteps
  <2>2. SameTasks
    BY <1>4, Cancelling DEF handleStreamRSTRequest, clearDeferredPacketsForStream
  <2>3. UNCHANGED <<Streams, open>>
    BY <1>4 DEF handleStreamRSTRequest
  <2>4. CASE UNCHANGED stream
    BY <2>1, <2>2, <2>3, <2>4, StreamsUntouched
  <2>5. CASE CloseARQ(handler[h].s)
    BY <2>1, <2>2, <2>3, <2>5, CloseARQKeeps
  <2> QED
    BY <1>4, <2>4, <2>5 DEF handleStreamRSTRequest
<1> QED
  BY <1>1, <1>2, <1>3, <1>4 DEF HandlerStep

------------------------------------------------------------------------------
(* The end of a stream. *)

LEMMA HandlersStay ==
  ASSUME UpstreamInv, UNCHANGED <<handler, Streams>>
  PROVE  handler' \in [Handlers -> HandlerRecord] /\ Streams' \in [Ids -> 0 .. Len(stream)]
BY DEF UpstreamInv, TasksTyped, StreamsTyped

LEMMA ARQEndsKeeps ==
  ASSUME UpstreamInv, NEW s, ARQEnds(s)
  PROVE  UpstreamInv'
BY CloseARQKeeps, Cancelling, HandlersStay DEF ARQEnds, procVars

LEMMA LastAckKeeps ==
  ASSUME UpstreamInv, consumeInboundStreamAck
  PROVE  UpstreamInv'
<1>1. PICK id \in InTable :
        /\ clearDeferredPacketsForStream(id)
        /\ stream' = [stream EXCEPT ![Streams[id]].gone = TRUE]
  BY DEF consumeInboundStreamAck
<1> DEFINE s == Streams[id]
           r == [stream[s] EXCEPT !.gone = TRUE]
<1>2. stream' = [stream EXCEPT ![s] = r]
  BY <1>1
<1>3. s \in DOMAIN stream =>
        /\ r \in StreamRecord /\ r.gone
        /\ r.conn = stream[s].conn /\ r.final = stream[s].final
  <2> SUFFICES ASSUME s \in DOMAIN stream
               PROVE  /\ r \in StreamRecord /\ r.gone
                      /\ r.conn = stream[s].conn /\ r.final = stream[s].final
    OBVIOUS
  <2>1. stream[s] \in StreamRecord
    BY DEF UpstreamInv, StreamsTyped
  <2> QED
    BY <2>1 DEF StreamRecord
<1>4. SameTasks
  BY <1>1, Cancelling DEF clearDeferredPacketsForStream
<1>5. UNCHANGED <<handler, Streams, open>>
  BY DEF consumeInboundStreamAck
<1>6. Shut({})
  BY <1>5, Shutting DEF UpstreamInv, TasksTyped
<1> HIDE DEF r, s
<1> QED
  BY <1>2, <1>3, <1>4, <1>5, <1>6, HandlersStay, OneStreamChanges

LEMMA FinalizeKeeps ==
  ASSUME UpstreamInv, NEW s, finalizeAfterARQClose(s)
  PROVE  UpstreamInv'
<1>1. s \in DOMAIN stream /\ stream[s] \in StreamRecord
  BY DEF finalizeAfterARQClose, UpstreamInv, StreamsTyped
<1>2. CASE cleanupResources(s)
  <2> DEFINE r == [stream[s] EXCEPT !.gone = TRUE, !.conn = None, !.final = "remove"]
  <2>1. stream' = [stream EXCEPT ![s] = r] /\ Shut({stream[s].conn})
    BY <1>2 DEF cleanupResources
  <2>2. r \in StreamRecord /\ r.gone
    BY <1>1 DEF StreamRecord, Finals, None
  <2>3. SameTasks /\ UNCHANGED <<handler, Streams>>
    BY <1>2, Cancelling DEF cleanupResources
  <2> HIDE DEF r
  <2> QED
    BY <2>1, <2>2, <2>3, HandlersStay, OneStreamChanges
<1>3. CASE onStreamClosed(s)
  <2>1. PICK step \in {"note", "done"} :
          /\ stream' = [stream EXCEPT ![s] = [stream[s] EXCEPT !.final = step]]
          /\ stream[s].final \in {"remove", "note"}
    BY <1>3 DEF onStreamClosed
  <2> DEFINE r == [stream[s] EXCEPT !.final = step]
  <2>2. r \in StreamRecord /\ r.gone = stream[s].gone /\ r.arqClosed = stream[s].arqClosed
    BY <1>1 DEF StreamRecord, Finals
  <2>3. r.gone \/ r.arqClosed
    BY <1>1, <2>1, <2>2 DEF UpstreamInv, FinalAfterEnd
  <2>4. SameTasks
    BY <1>3, Cancelling DEF onStreamClosed, clearDeferredPacketsForStream
  <2>5. UNCHANGED <<handler, open>>
    BY <1>3 DEF onStreamClosed
  <2>6. Streams' \in [Ids -> 0 .. Len(stream)] /\ handler' \in [Handlers -> HandlerRecord]
    <3>1. Streams \in [Ids -> 0 .. Len(stream)] /\ Len(stream) \in Nat
      BY DEF UpstreamInv, StreamsTyped
    <3>2. Streams' = Streams \/ Streams' = [Streams EXCEPT ![stream[s].id] = 0]
      BY <1>3 DEF onStreamClosed, removeStream, None
    <3> QED
      BY <2>5, <3>1, <3>2 DEF UpstreamInv, TasksTyped
  <2>7. Shut({}) /\ stream[s].final \notin {"no", "cleanup"}
    BY <2>1, <2>5, Shutting DEF UpstreamInv, TasksTyped
  <2>8. stream' = [stream EXCEPT ![s] = r]
    BY <2>1
  <2> HIDE DEF r
  <2> QED
    BY <2>2, <2>3, <2>4, <2>6, <2>7, <2>8, OneStreamChanges
<1> QED
  BY <1>2, <1>3 DEF finalizeAfterARQClose

LEMMA SweepKeeps ==
  ASSUME UpstreamInv, cleanupTerminalStreams
  PROVE  UpstreamInv'
<1> DEFINE s == sweep.s
<1>1. SameTasks /\ UNCHANGED handler
  BY Cancelling DEF cleanupTerminalStreams
<1>2. CASE CloseStream(s) /\ UNCHANGED Streams
  <2> DEFINE r == [stream[s] EXCEPT !.gone = TRUE, !.conn = None,
                                    !.final = IF @ = "no" THEN "cleanup" ELSE @]
  <2>1. stream' = [stream EXCEPT ![s] = r] /\ Shut({stream[s].conn})
    BY <1>2 DEF CloseStream
  <2>2. s \in DOMAIN stream => r \in StreamRecord /\ r.gone
    <3> SUFFICES ASSUME s \in DOMAIN stream PROVE r \in StreamRecord /\ r.gone
      OBVIOUS
    <3>1. stream[s] \in StreamRecord
      BY DEF UpstreamInv, StreamsTyped
    <3> QED
      BY <3>1 DEF StreamRecord, Finals, None
  <2> HIDE DEF r, s
  <2> QED
    BY <1>1, <1>2, <2>1, <2>2, HandlersStay, OneStreamChanges
<1>3. CASE UNCHANGED <<stream, open>>
  <2>1. Streams' = Streams \/ Streams' = [Streams EXCEPT ![sweep.id] = None]
    BY <1>3 DEF cleanupTerminalStreams, removeStream
  <2>2. StreamsTyped' /\ FinalAfterEnd'
    BY <1>3, <2>1 DEF UpstreamInv, StreamsTyped, FinalAfterEnd, None
  <2>3. TasksTyped' /\ Shut({})
    BY <1>1, <1>3, Shutting DEF UpstreamInv, TasksTyped, SameTasks
  <2>4. \A x \in DOMAIN stream :
           \/ stream[x].final \notin {"no", "cleanup"}
           \/ stream'[x].conn = stream[x].conn /\ stream'[x].final \in {"no", "cleanup"}
    BY <1>3
  <2> QED
    BY <1>1, <1>3, <2>2, <2>3, <2>4, StreamsMayChange DEF SameTasks
<1> QED
  BY <1>2, <1>3 DEF cleanupTerminalStreams

LEMMA SessionEndKeeps ==
  ASSUME UpstreamInv, SessionEnds \/ cleanupClosedSession
  PROVE  UpstreamInv'
<1>1. UNCHANGED <<handler, open>>
  BY DEF SessionEnds, cleanupClosedSession
<1>2. SameTasks
  BY Cancelling DEF SessionEnds, cleanupClosedSession, cleanupDeferredSessionState
<1>3. CASE UNCHANGED stream /\ (UNCHANGED Streams \/ Streams' = [id \in Ids |-> None])
  <2>1. StreamsTyped' /\ FinalAfterEnd'
    BY <1>3 DEF UpstreamInv, StreamsTyped, FinalAfterEnd, None
  <2>2. TasksTyped' /\ Shut({})
    BY <1>1, <1>2, Shutting DEF UpstreamInv, TasksTyped, SameTasks
  <2>3. \A s \in DOMAIN stream :
           \/ stream[s].final \notin {"no", "cleanup"}
           \/ stream'[s].conn = stream[s].conn /\ stream'[s].final \in {"no", "cleanup"}
    BY <1>3
  <2> QED
    BY <1>2, <1>3, <2>1, <2>2, <2>3, StreamsMayChange DEF SameTasks
<1>4. CASE \E s : CloseARQ(s) /\ UNCHANGED Streams
  BY <1>1, <1>2, <1>4, HandlersStay, CloseARQKeeps
<1> QED
  BY <1>3, <1>4 DEF SessionEnds, cleanupClosedSession, closeAllStreams

------------------------------------------------------------------------------
(* Tasks. *)

(* A task that holds no open connection may go on to another step.          *)
LEMMA TaskMoves ==
  ASSUME UpstreamInv, NEW w \in Workers, NEW r \in TaskRecord,
         r.at = "create" => r.id \in Ids,
         task' \in [Workers -> TaskRecord], task'[w] = r,
         \A v \in Workers \ {w} :
            /\ task'[v].conn = task[v].conn /\ task'[v].at = task[v].at
            /\ task'[v].id = task[v].id /\ task'[v].s = task[v].s,
         UNCHANGED handler, StreamsTyped', FinalAfterEnd',
         DOMAIN stream \subseteq DOMAIN stream',
         r.at \in {"dial", "dialled"} => r.s \in DOMAIN stream',
         \A s \in DOMAIN stream : stream'[s] = stream[s],
         \/ task[w].at # "dialled" /\ \E conns : Shut(conns)
         \/ Shut({task[w].conn})
  PROVE  UpstreamInv'
<1>1. PICK conns : /\ Shut(conns)
                   /\ task[w].at = "dialled" => task[w].conn \in conns
  OBVIOUS
<1>2. open' \in Seq(BOOLEAN) /\ DOMAIN open' = DOMAIN open
  BY <1>1, Shutting DEF UpstreamInv, TasksTyped
<1>3. TasksTyped'
  BY <1>2 DEF UpstreamInv, TasksTyped
<1>4. TasksAim'
  BY DEF UpstreamInv, TasksAim
<1>5. UpstreamOwned'
  <2> SUFFICES ASSUME NEW c \in DOMAIN open', open'[c]
               PROVE  \/ \E v \in Workers : task'[v].conn = c /\ task'[v].at = "dialled"
                      \/ \E s \in DOMAIN stream' : stream'[s].conn = c
                                                  /\ stream'[s].final \in {"no", "cleanup"}
    BY DEF UpstreamOwned
  <2>1. c \in DOMAIN open /\ open[c] /\ c \notin conns
    BY <1>1 DEF Shut
  <2>2. CASE \E v \in Workers : task[v].conn = c /\ task[v].at = "dialled"
    BY <1>1, <2>1, <2>2
  <2>3. CASE \E s \in DOMAIN stream : stream[s].conn = c
                                       /\ stream[s].final \in {"no", "cleanup"}
    BY <2>3
  <2> QED
    BY <2>1, <2>2, <2>3 DEF UpstreamInv, UpstreamOwned
<1> QED
  BY <1>3, <1>4, <1>5 DEF UpstreamInv

(* A task whose step alone changes. *)
LEMMA TaskGoesOn ==
  ASSUME UpstreamInv, NEW w \in Workers, NEW step \in TaskSteps \ {"create", "dial", "dialled"},
         Goto(w, step), UNCHANGED <<handler, stream, Streams>>,
         \/ task[w].at # "dialled" /\ \E conns : Shut(conns)
         \/ Shut({task[w].conn})
  PROVE  UpstreamInv'
<1> DEFINE r == [task[w] EXCEPT !.at = step]
<1>1. task[w] \in TaskRecord /\ task \in [Workers -> TaskRecord]
  BY DEF UpstreamInv, TasksTyped
<1>2. r \in TaskRecord /\ r.at = step
  BY <1>1 DEF TaskRecord
<1>3. task' = [task EXCEPT ![w] = r]
  BY DEF Goto
<1> HIDE DEF r
<1>4. task' \in [Workers -> TaskRecord] /\ task'[w] = r
      /\ \A v \in Workers \ {w} : task'[v] = task[v]
  BY <1>1, <1>2, <1>3
<1>5. StreamsTyped' /\ FinalAfterEnd'
  BY DEF UpstreamInv, StreamsTyped, FinalAfterEnd
<1>6. step \notin {"create", "dial", "dialled"}
  OBVIOUS
<1> QED
  BY <1>2, <1>4, <1>5, <1>6, TaskMoves

LEMMA BeginKeeps ==
  ASSUME UpstreamInv, NEW w \in Workers, Begin(w)
  PROVE  UpstreamInv'
<1>1. PICK id \in Ids, step \in {"create", "finish"} :
        task' = [task EXCEPT ![w] = [Idle EXCEPT !.at = step, !.id = id, !.bound = TRUE]]
  BY DEF Begin
<1> DEFINE r == [Idle EXCEPT !.at = step, !.id = id, !.bound = TRUE]
<1>2. r \in TaskRecord /\ r.at = step /\ r.id = id
  BY DEF Idle, TaskRecord, TaskSteps, None
<1>3. task \in [Workers -> TaskRecord] /\ task' = [task EXCEPT ![w] = r]
  BY <1>1 DEF UpstreamInv, TasksTyped
<1> HIDE DEF r
<1>4. task' \in [Workers -> TaskRecord] /\ task'[w] = r
      /\ \A v \in Workers \ {w} : task'[v] = task[v]
  BY <1>2, <1>3
<1>5. UNCHANGED <<handler, stream, Streams, open>> /\ task[w].at # "dialled"
  BY DEF Begin, At, tableVars
<1>6. StreamsTyped' /\ FinalAfterEnd'
  BY <1>5 DEF UpstreamInv, StreamsTyped, FinalAfterEnd
<1>7. Shut({})
  BY <1>5, Shutting DEF UpstreamInv, TasksTyped
<1>8. step \notin {"dial", "dialled"}
  OBVIOUS
<1> QED
  BY <1>2, <1>4, <1>5, <1>6, <1>7, <1>8, TaskMoves

LEMMA CreateKeeps ==
  ASSUME UpstreamInv, NEW w \in Workers, Create(w)
  PROVE  UpstreamInv'
<1> DEFINE id == task[w].id
           s == getOrCreateStream(id)
           step == IF s = None THEN "clear" ELSE IF stream'[s].conn # None THEN "clear" ELSE "dial"
           r == [task[w] EXCEPT !.s = s, !.at = step]
<1>1. task \in [Workers -> TaskRecord] /\ task[w] \in TaskRecord /\ task[w].at = "create"
  BY DEF UpstreamInv, TasksTyped, Create, At
<1>2. id \in Ids
  BY <1>1 DEF UpstreamInv, TasksAim
<1>3. Created(id, s)
  BY DEF Create
<1>4. /\ StreamsTyped' /\ FinalAfterEnd'
      /\ DOMAIN stream \subseteq DOMAIN stream'
      /\ \A x \in DOMAIN stream : stream'[x] = stream[x]
      /\ s # None => s \in DOMAIN stream'
  <2> HIDE DEF id
  <2> QED
    BY <1>2, <1>3, MakeStream DEF UpstreamInv
<1>5. s \in Nat
  <2> HIDE DEF s
  <2> QED
    BY <1>4 DEF StreamsTyped, None
<1>6. /\ r \in TaskRecord /\ r.at \in {"clear", "dial"}
      /\ r.at = "dial" => r.s \in DOMAIN stream'
  <2>1. step \in {"clear", "dial"} /\ (step = "dial" => s # None)
    OBVIOUS
  <2> HIDE DEF s, step
  <2> QED
    BY <1>1, <1>4, <1>5, <2>1 DEF TaskRecord, TaskSteps
<1>7. task' = [task EXCEPT ![w] = r] /\ UNCHANGED <<handler, open>>
  BY <1>1 DEF Create
<1> HIDE DEF r
<1>8. task' \in [Workers -> TaskRecord] /\ task'[w] = r
      /\ \A v \in Workers \ {w} : task'[v] = task[v]
  BY <1>1, <1>6, <1>7
<1>9. Shut({})
  BY <1>7, Shutting DEF UpstreamInv, TasksTyped
<1> HIDE DEF s, id
<1> QED
  BY <1>1, <1>4, <1>6, <1>7, <1>8, <1>9, TaskMoves

LEMMA DialKeeps ==
  ASSUME UpstreamInv, NEW w \in Workers, Dial(w)
  PROVE  UpstreamInv'
<1>1. task \in [Workers -> TaskRecord] /\ task[w] \in TaskRecord /\ task[w].at = "dial"
  BY DEF UpstreamInv, TasksTyped, Dial, At
<1>2. UNCHANGED <<handler, stream, Streams>>
  BY DEF Dial, tableVars
<1>3. CASE UNCHANGED open /\ \E step \in {"clear", "finish"} : Goto(w, step)
  <2>1. Shut({})
    BY <1>3, Shutting DEF UpstreamInv, TasksTyped
  <2>2. PICK step \in TaskSteps \ {"create", "dial", "dialled"} : Goto(w, step)
    BY <1>3 DEF TaskSteps
  <2> QED
    BY <1>1, <1>2, <2>1, <2>2, TaskGoesOn
<1>4. CASE /\ open' = Append(open, TRUE)
           /\ task' = [task EXCEPT ![w].conn = Len(open) + 1, ![w].at = "dialled"]
  <2> DEFINE n == Len(open) + 1
             r == [task[w] EXCEPT !.conn = n, !.at = "dialled"]
  <2>1. open \in Seq(BOOLEAN) /\ n \in Nat
    BY DEF UpstreamInv, TasksTyped
  <2>2. task' = [task EXCEPT ![w] = r]
    BY <1>4
  <2>3. open' \in Seq(BOOLEAN) /\ DOMAIN open' = DOMAIN open \union {n}
        /\ \A c \in DOMAIN open : open'[c] = open[c]
    <3>1. open' = Append(open, TRUE)
      BY <1>4
    <3>2. open' \in Seq(BOOLEAN) /\ Len(open') = n
      BY <2>1, <3>1
    <3>3. \A c \in 1 .. Len(open) : open'[c] = open[c]
      BY <2>1, <3>1, AppendProperties
    <3>4. DOMAIN open' = 1 .. n
      BY <3>2
    <3>5. DOMAIN open = 1 .. Len(open) /\ Len(open) \in Nat
      BY <2>1
    <3> QED
      BY <3>2, <3>3, <3>4, <3>5
  <2> HIDE DEF n
  <2>4. r \in TaskRecord /\ r.at = "dialled" /\ r.conn = n /\ r.s = task[w].s
    BY <1>1, <2>1 DEF TaskRecord, TaskSteps
  <2> HIDE DEF r
  <2>5. task' \in [Workers -> TaskRecord] /\ task'[w] = r
        /\ \A v \in Workers \ {w} : task'[v] = task[v]
    BY <1>1, <2>4, <2>2
  <2>6. StreamsTyped' /\ FinalAfterEnd' /\ TasksTyped'
    BY <1>2, <2>5, <2>3 DEF UpstreamInv, StreamsTyped, FinalAfterEnd, TasksTyped
  <2>7. TasksAim'
    BY <1>1, <1>2, <2>4, <2>5 DEF UpstreamInv, TasksAim
  <2>8. UpstreamOwned'
    <3> SUFFICES ASSUME NEW c \in DOMAIN open', open'[c]
                 PROVE  \/ \E v \in Workers : task'[v].conn = c /\ task'[v].at = "dialled"
                        \/ \E x \in DOMAIN stream' : stream'[x].conn = c
                                                    /\ stream'[x].final \in {"no", "cleanup"}
      BY DEF UpstreamOwned
    <3>1. CASE c = n
      BY <2>4, <2>5, <3>1
    <3>2. CASE c \in DOMAIN open
      <4>1. open[c]
        BY <2>3, <3>2
      <4>2. CASE \E v \in Workers : task[v].conn = c /\ task[v].at = "dialled"
        BY <1>1, <2>5, <4>2
      <4>3. CASE \E x \in DOMAIN stream : stream[x].conn = c
                                         /\ stream[x].final \in {"no", "cleanup"}
        BY <1>2, <4>3
      <4> QED
        BY <3>2, <4>1, <4>2, <4>3 DEF UpstreamInv, UpstreamOwned
    <3> QED
      BY <2>3, <3>1, <3>2
  <2> QED
    BY <2>6, <2>7, <2>8 DEF UpstreamInv
<1> QED
  BY <1>3, <1>4 DEF Dial

(* The connection changes hands: from the task to the stream, which has not *)
(* ended and has none yet.                                                  *)
LEMMA AttachKeeps ==
  ASSUME UpstreamInv, NEW w \in Workers, attachUpstreamConn(w)
  PROVE  UpstreamInv'
<1> DEFINE s == task[w].s
<1>1. task \in [Workers -> TaskRecord] /\ task[w] \in TaskRecord /\ task[w].at = "dialled"
  BY DEF UpstreamInv, TasksTyped, attachUpstreamConn, At
<1>2. UNCHANGED <<handler, Streams>>
  BY DEF attachUpstreamConn
<1>3. CASE /\ Attachable(s) /\ Goto(w, "attached") /\ UNCHANGED open
           /\ stream' = [stream EXCEPT ![s].conn = task[w].conn]
  <2>1. s \in DOMAIN stream /\ stream[s] \in StreamRecord
    BY <1>1 DEF UpstreamInv, TasksAim, StreamsTyped
  <2> DEFINE r == [stream[s] EXCEPT !.conn = task[w].conn]
             t == [task[w] EXCEPT !.at = "attached"]
  <2>2. stream[s].final = "no" /\ stream[s].conn = 0
    BY <1>3, <2>1 DEF Attachable, UpstreamInv, FinalAfterEnd, StreamRecord, None
  <2>3. r \in StreamRecord /\ r.final = "no" /\ r.conn = task[w].conn
    BY <1>1, <2>1, <2>2 DEF StreamRecord, TaskRecord
  <2>4. t \in TaskRecord /\ t.at = "attached"
    BY <1>1 DEF TaskRecord, TaskSteps
  <2>5. stream' = [stream EXCEPT ![s] = r] /\ task' = [task EXCEPT ![w] = t]
    BY <1>3 DEF Goto
  <2> HIDE DEF r, t, s
  <2>6. task' \in [Workers -> TaskRecord] /\ task'[w] = t
        /\ \A v \in Workers \ {w} : task'[v] = task[v]
    BY <1>1, <2>4, <2>5
  <2>7. stream \in Seq(StreamRecord)
    BY DEF UpstreamInv, StreamsTyped
  <2>8. /\ stream' \in Seq(StreamRecord) /\ Len(stream') = Len(stream)
        /\ DOMAIN stream' = DOMAIN stream
        /\ \A x \in DOMAIN stream : stream'[x] = IF x = s THEN r ELSE stream[x]
    BY <2>3, <2>5, <2>7, ChangeOne
  <2>9. StreamsTyped' /\ FinalAfterEnd' /\ TasksTyped'
    BY <1>2, <1>3, <2>3, <2>6, <2>8 DEF UpstreamInv, StreamsTyped, FinalAfterEnd, TasksTyped
  <2>10. TasksAim'
    BY <2>4, <2>6, <2>8 DEF UpstreamInv, TasksAim
  <2>11. UpstreamOwned'
    <3> SUFFICES ASSUME NEW c \in DOMAIN open', open'[c]
                 PROVE  \/ \E v \in Workers : task'[v].conn = c /\ task'[v].at = "dialled"
                        \/ \E x \in DOMAIN stream' : stream'[x].conn = c
                                                    /\ stream'[x].final \in {"no", "cleanup"}
      BY DEF UpstreamOwned
    <3>1. c \in DOMAIN open /\ open[c] /\ c # 0
      BY <1>3 DEF UpstreamInv, TasksTyped
    <3>2. CASE \E v \in Workers : task[v].conn = c /\ task[v].at = "dialled"
      <4>1. PICK v \in Workers : task[v].conn = c /\ task[v].at = "dialled"
        BY <3>2
      <4>2. CASE v = w
        BY <2>1, <2>3, <2>8, <4>1, <4>2
      <4> QED
        BY <2>6, <4>1, <4>2
    <3>3. CASE \E x \in DOMAIN stream : stream[x].conn = c
                                       /\ stream[x].final \in {"no", "cleanup"}
      <4>1. PICK x \in DOMAIN stream : stream[x].conn = c /\ stream[x].final \in {"no", "cleanup"}
        BY <3>3
      <4>2. x # s
        BY <2>2, <3>1, <4>1
      <4> QED
        BY <2>8, <4>1, <4>2
    <3> QED
      BY <3>1, <3>2, <3>3 DEF UpstreamInv, UpstreamOwned
  <2> QED
    BY <2>9, <2>10, <2>11 DEF UpstreamInv
<1>4. CASE /\ \E step \in {"finish", "clear"} : Goto(w, step)
           /\ Shut({task[w].conn}) /\ UNCHANGED stream
  <2>1. PICK step \in TaskSteps \ {"create", "dial", "dialled"} : Goto(w, step)
    BY <1>4 DEF TaskSteps
  <2> QED
    BY <1>2, <1>4, <2>1, TaskGoesOn
<1> QED
  BY <1>3, <1>4 DEF attachUpstreamConn

LEMMA LastStepsKeep ==
  ASSUME UpstreamInv, NEW w \in Workers,
         Attached(w) \/ Clear(w) \/ finishDeferredPacket(w)
  PROVE  UpstreamInv'
<1>1. task \in [Workers -> TaskRecord] /\ task[w] \in TaskRecord /\ task[w].at # "dialled"
  BY DEF UpstreamInv, TasksTyped, Attached, Clear, finishDeferredPacket, At
<1>2. UNCHANGED <<handler, stream, Streams>>
  BY DEF Attached, Clear, finishDeferredPacket, tableVars
<1>3. \E conns : Shut(conns)
  <2>1. UNCHANGED open => Shut({})
    BY Shutting DEF UpstreamInv, TasksTyped
  <2> QED
    BY <2>1 DEF Attached, Clear, finishDeferredPacket
<1>4. StreamsTyped' /\ FinalAfterEnd'
  BY <1>2 DEF UpstreamInv, StreamsTyped, FinalAfterEnd
<1>5. CASE Attached(w)
  <2>1. "clear" \in TaskSteps \ {"create", "dial", "dialled"} /\ Goto(w, "clear")
    BY <1>5 DEF Attached, TaskSteps
  <2> QED
    BY <1>1, <1>2, <1>3, <2>1, TaskGoesOn
<1>6. CASE finishDeferredPacket(w)
  <2>1. Idle \in TaskRecord /\ Idle.at = "idle"
    BY DEF Idle, TaskRecord, TaskSteps, None
  <2>2. task' = [task EXCEPT ![w] = Idle]
    BY <1>6 DEF finishDeferredPacket
  <2>3. task' \in [Workers -> TaskRecord] /\ task'[w] = Idle
        /\ \A v \in Workers \ {w} : task'[v] = task[v]
    BY <1>1, <2>1, <2>2
  <2> QED
    BY <1>1, <1>2, <1>3, <1>4, <2>1, <2>3, TaskMoves
<1>7. CASE Clear(w)
  <2> DEFINE r == [Idle EXCEPT !.at = "finish", !.id = task[w].id]
             Freed(v) == [task[v] EXCEPT !.bound = @ /\ task[v].id # task[w].id]
  <2>1. r \in TaskRecord /\ r.at = "finish"
    BY <1>1 DEF Idle, TaskRecord, TaskSteps, None
  <2>2. task' = [v \in Workers |-> IF v = w THEN r ELSE Freed(v)]
    BY <1>7 DEF Clear
  <2>3. ASSUME NEW v \in Workers
        PROVE  /\ Freed(v) \in TaskRecord
               /\ Freed(v).conn = task[v].conn /\ Freed(v).at = task[v].at
               /\ Freed(v).id = task[v].id /\ Freed(v).s = task[v].s
    <3>1. task[v] \in TaskRecord
      BY <1>1
    <3> QED
      BY <3>1 DEF TaskRecord
  <2> HIDE DEF r, Freed
  <2>4. task' \in [Workers -> TaskRecord] /\ task'[w] = r
        /\ \A v \in Workers \ {w} : task'[v] = Freed(v)
    BY <2>1, <2>2, <2>3
  <2>5. \A v \in Workers \ {w} :
           /\ task'[v].conn = task[v].conn /\ task'[v].at = task[v].at
           /\ task'[v].id = task[v].id /\ task'[v].s = task[v].s
    BY <2>3, <2>4
  <2>6. r.at \notin {"create", "dial", "dialled"}
    BY <2>1
  <2> QED
    BY <1>1, <1>2, <1>3, <1>4, <2>1, <2>4, <2>5, <2>6, TaskMoves
<1> QED
  BY <1>5, <1>6, <1>7

------------------------------------------------------------------------------
LEMMA ConnectStep ==
  ASSUME UpstreamInv, ConnectNext
  PROVE  UpstreamInv'
<1>1. CASE Event
  BY <1>1, ArrivalKeeps, LastAckKeeps, ARQEndsKeeps DEF Event
<1>2. CASE GoesOn
  <2>1. CASE \E w \in Workers : TaskStep(w)
    BY <2>1, CreateKeeps, DialKeeps, AttachKeeps, LastStepsKeep DEF TaskStep
  <2>2. CASE \E s \in 1 .. MaxStreams : GivesUp(s) \/ finalizeAfterARQClose(s)
    BY <2>2, ARQEndsKeeps, FinalizeKeeps DEF GivesUp
  <2> QED
    BY <1>2, <2>1, <2>2, SessionEndKeeps DEF GoesOn
<1> QED
  BY <1>1, <1>2, BeginKeeps, HandlerKeeps, SweepKeeps, SessionEndKeeps DEF ConnectNext

LEMMA TableStep ==
  ASSUME UpstreamInv, TableNext, UNCHANGED procVars
  PROVE  UpstreamInv'
<1>1. SameTasks /\ UNCHANGED <<handler, open>>
  BY Cancelling DEF procVars
<1>2. TasksTyped' /\ Shut({})
  BY <1>1, Shutting DEF UpstreamInv, TasksTyped, SameTasks
<1>3. /\ StreamsTyped' /\ FinalAfterEnd'
      /\ DOMAIN stream \subseteq DOMAIN stream'
      /\ \A s \in DOMAIN stream : stream'[s] = stream[s]
  <2>1. CASE \E id \in Ids : Created(id, getOrCreateStream(id))
    BY <2>1, MakeStream DEF UpstreamInv
  <2>2. CASE /\ UNCHANGED stream
             /\ UNCHANGED Streams \/ \E id \in Ids : Streams' = [Streams EXCEPT ![id] = None]
    BY <2>2 DEF UpstreamInv, StreamsTyped, FinalAfterEnd, None
  <2> QED
    BY <2>1, <2>2 DEF TableNext, removeStream, deactivateStream, Age, SweepRecentlyClosedStreams
<1>4. \A s \in DOMAIN stream :
         \/ stream[s].final \notin {"no", "cleanup"}
         \/ stream'[s].conn = stream[s].conn /\ stream'[s].final \in {"no", "cleanup"}
  BY <1>3
<1> QED
  BY <1>1, <1>2, <1>3, <1>4, StreamsMayChange DEF SameTasks

(* No upstream connection is leaked, whatever the sizes: while it is open,  *)
(* the task that dialled it or a stream that is still to be cleaned up has  *)
(* it (attachUpstreamConn, cleanupResources, CloseStream).                  *)
THEOREM UpstreamAlwaysOwned == Spec => []UpstreamOwned
<1>1. Init => UpstreamInv
  BY UpstreamInitInv DEF Init
<1>2. UpstreamInv /\ [Next]_vars => UpstreamInv'
  <2> SUFFICES ASSUME UpstreamInv, [Next]_vars PROVE UpstreamInv'
    OBVIOUS
  <2>1. CASE ConnectNext
    BY <2>1, ConnectStep
  <2>2. CASE TableNext /\ UNCHANGED procVars
    BY <2>2, TableStep
  <2>3. CASE UNCHANGED connectVars
    BY <2>3 DEF connectVars, tableVars, procVars, UpstreamInv, StreamsTyped, FinalAfterEnd,
                TasksTyped, TasksAim, UpstreamOwned
  <2> QED
    BY <2>1, <2>2, <2>3 DEF Next, vars
<1>3. UpstreamInv => UpstreamOwned
  BY DEF UpstreamInv
<1> QED
  BY <1>1, <1>2, <1>3, PTL DEF Spec

------------------------------------------------------------------------------
(* The table of streams and the tombstones. *)

Closing == [id : Ids \union {None}, at : Nat]

(* The types a tombstone record needs, and the part of StreamBook that      *)
(* survives every operation on it: who is remembered has an entry that ends *)
(* it.                                                                      *)
Covered(t) ==
  /\ t.map \in [Ids -> Nat] /\ t.heap \in Seq(Closing)
  /\ \A id \in Tombs(t.map) : \E i \in DOMAIN t.heap : t.heap[i] = [id |-> id, at |-> t.map[id]]

(* A handler and the sweep are at a stream number.                          *)
SweepRecord == [at : {"idle", "abort", "finalise", "note"}, id : Ids \union {None}, s : Nat]

PacketsNamed ==
  /\ sweep \in SweepRecord
  /\ \A h \in Handlers : handler[h].at # "idle" => handler[h].id \in Ids

BookInv ==
  /\ Covered(Tombstones) /\ closings \in Nat
  /\ Cardinality(Tombs(RecentlyClosed)) <= RecentlyClosedCap
  /\ Cardinality(InTable) <= MaxActiveStreamsPerSession
  /\ ActiveStreams \subseteq InTable
  /\ PacketsNamed

LEMMA TombsFinite ==
  /\ \A r : IsFiniteSet(Tombs(r)) /\ Cardinality(Tombs(r)) \in Nat
  /\ IsFiniteSet(InTable) /\ Cardinality(InTable) \in Nat
<1>1. ASSUME NEW S, S \subseteq Ids PROVE IsFiniteSet(S) /\ Cardinality(S) \in Nat
  BY <1>1, TableAssumption, FS_Subset, FS_CardinalityType
<1>2. \A r : Tombs(r) \subseteq Ids
  BY DEF Tombs
<1>3. InTable \subseteq Ids
  BY DEF InTable
<1> QED
  BY <1>1, <1>2, <1>3

(* Fewer tombstones are no more than there were. *)
LEMMA FewerTombs ==
  ASSUME NEW r, NEW s, Tombs(s) \subseteq Tombs(r)
  PROVE  Cardinality(Tombs(s)) <= Cardinality(Tombs(r))
BY TombsFinite, FS_Subset

LEMMA PruneCovered ==
  ASSUME NEW t, Covered(t)
  PROVE  /\ Covered(pruneRecentlyClosedLocked(t))
         /\ Tombs(pruneRecentlyClosedLocked(t).map) \subseteq Tombs(t.map)
<1> DEFINE Goes(i) == ~Counts(t, i) \/ t.heap[i].at <= expired
           stays == {i \in DOMAIN t.heap : ~Goes(i)}
           first == IF stays = {} THEN Len(t.heap) + 1
                    ELSE CHOOSE i \in stays : \A j \in stays : i <= j
           map == [id \in Ids |-> IF \E i \in 1 .. first - 1 : t.heap[i].id = id /\ Counts(t, i)
                                  THEN 0 ELSE t.map[id]]
           heap == SubSeq(t.heap, first, Len(t.heap))
<1>1. pruneRecentlyClosedLocked(t) = [map |-> map, heap |-> heap]
  BY DEF pruneRecentlyClosedLocked
<1>2. t.map \in [Ids -> Nat] /\ t.heap \in Seq(Closing) /\ Len(t.heap) \in Nat
      /\ DOMAIN t.heap = 1 .. Len(t.heap)
  BY DEF Covered
<1>3. first \in 1 .. Len(t.heap) + 1
  <2>1. stays \subseteq 1 .. Len(t.heap)
    BY <1>2
  <2> HIDE DEF stays
  <2>2. CASE stays = {}
    BY <1>2, <2>2
  <2>3. CASE stays # {}
    <3>1. stays \subseteq Nat
      BY <1>2, <2>1
    <3>2. \E i \in stays : \A j \in stays : i <= j
      BY <2>3, <3>1, LeastExists
    <3>3. first \in stays
      BY <2>3, <3>2
    <3> HIDE DEF first
    <3> QED
      BY <1>2, <2>1, <3>3
  <2> QED
    BY <2>2, <2>3
<1> HIDE DEF first
<1>4. map \in [Ids -> Nat] /\ Tombs(map) \subseteq Tombs(t.map)
  BY <1>2 DEF Tombs
<1>5. /\ heap \in Seq(Closing)
      /\ Len(heap) = Len(t.heap) - first + 1
      /\ DOMAIN heap = 1 .. Len(heap)
      /\ \A i \in first .. Len(t.heap) :
            i - first + 1 \in DOMAIN heap /\ heap[i - first + 1] = t.heap[i]
  <2>1. \A i \in first .. Len(t.heap) : t.heap[i] \in Closing
    BY <1>2, <1>3
  <2>2. heap \in Seq(Closing)
    BY <1>2, <1>3, <2>1, SubSeqProperties
  <2>3. Len(heap) = IF first <= Len(t.heap) THEN Len(t.heap) - first + 1 ELSE 0
    BY <1>2, <1>3, SubSeqProperties
  <2>4. Len(heap) = Len(t.heap) - first + 1
    BY <1>2, <1>3, <2>3
  <2>5. DOMAIN heap = 1 .. Len(heap)
    BY <2>2
  <2>6. ASSUME NEW i \in first .. Len(t.heap)
        PROVE  i - first + 1 \in DOMAIN heap /\ heap[i - first + 1] = t.heap[i]
    <3>1. i - first + 1 \in 1 .. Len(t.heap) - first + 1 /\ first + (i - first + 1) - 1 = i
      BY <1>2, <1>3
    <3>2. i - first + 1 \in DOMAIN heap
      BY <2>4, <2>5, <3>1
    <3>3. heap[i - first + 1] = t.heap[first + (i - first + 1) - 1]
      BY <1>2, <1>3, <3>1
    <3> QED
      BY <3>1, <3>2, <3>3
  <2> QED
    BY <2>2, <2>4, <2>5, <2>6
<1> HIDE DEF heap
<1>6. ASSUME NEW id \in Tombs(map)
      PROVE  \E i \in DOMAIN heap : heap[i] = [id |-> id, at |-> map[id]]
  <2>1. id \in Ids /\ map[id] = t.map[id] /\ id \in Tombs(t.map)
        /\ ~ \E i \in 1 .. first - 1 : t.heap[i].id = id /\ Counts(t, i)
    BY <1>2 DEF Tombs
  <2>2. PICK i \in DOMAIN t.heap : t.heap[i] = [id |-> id, at |-> t.map[id]]
    BY <2>1 DEF Covered
  <2>3. Counts(t, i) /\ t.heap[i].id = id
    BY <2>2 DEF Counts
  <2>4. i \in first .. Len(t.heap)
    BY <1>2, <1>3, <2>1, <2>3
  <2> QED
    BY <1>5, <2>1, <2>2, <2>4
<1> HIDE DEF map
<1> DEFINE c == [map |-> map, heap |-> heap]
<1>7. c.map = map /\ c.heap = heap
  OBVIOUS
<1>8. pruneRecentlyClosedLocked(t) = c
  BY <1>1
<1> HIDE DEF c
<1>9. Covered(c)
  BY <1>4, <1>5, <1>6, <1>7 DEF Covered
<1> QED
  BY <1>4, <1>7, <1>8, <1>9

(* One entry taken off the heap. *)
Taken(u) == [map |-> IF Counts(u, 1) THEN [u.map EXCEPT ![u.heap[1].id] = 0] ELSE u.map,
             heap |-> Tail(u.heap)]

LEMMA TakenCovered ==
  ASSUME NEW u, Covered(u), Len(u.heap) # 0
  PROVE  Covered(Taken(u)) /\ Len(Taken(u).heap) = Len(u.heap) - 1
<1> DEFINE map == IF Counts(u, 1) THEN [u.map EXCEPT ![u.heap[1].id] = 0] ELSE u.map
           heap == Tail(u.heap)
<1>1. u.map \in [Ids -> Nat] /\ u.heap \in Seq(Closing) /\ Len(u.heap) \in Nat
      /\ DOMAIN u.heap = 1 .. Len(u.heap) /\ u.heap # <<>>
  BY DEF Covered
<1>2. map \in [Ids -> Nat] /\ \A id \in Ids : map[id] # 0 => map[id] = u.map[id]
  BY <1>1
<1>3. /\ heap \in Seq(Closing) /\ Len(heap) = Len(u.heap) - 1
      /\ DOMAIN heap = 1 .. Len(heap)
      /\ \A i \in 1 .. Len(heap) : heap[i] = u.heap[i + 1]
  BY <1>1, HeadTailProperties
<1> HIDE DEF heap
<1>4. ASSUME NEW id \in Tombs(map)
      PROVE  \E i \in DOMAIN heap : heap[i] = [id |-> id, at |-> map[id]]
  <2>1. id \in Ids /\ map[id] # 0 /\ map[id] = u.map[id] /\ id \in Tombs(u.map)
    BY <1>2 DEF Tombs
  <2>2. PICK i \in DOMAIN u.heap : u.heap[i] = [id |-> id, at |-> u.map[id]]
    BY <2>1 DEF Covered
  <2>3. i # 1
    <3> SUFFICES ASSUME i = 1 PROVE FALSE
      OBVIOUS
    <3>1. u.heap[1].id = id /\ Counts(u, 1)
      BY <2>2 DEF Counts
    <3>2. map = [u.map EXCEPT ![id] = 0]
      BY <3>1
    <3>3. map[id] = 0
      BY <1>1, <2>1, <3>2
    <3> QED
      BY <2>1, <3>3
  <2>4. i - 1 \in 1 .. Len(heap) /\ (i - 1) + 1 = i
    BY <1>1, <1>3, <2>3
  <2> QED
    BY <1>3, <2>1, <2>2, <2>4
<1>5. Taken(u) = [map |-> map, heap |-> heap]
  BY DEF Taken, heap
<1> HIDE DEF map
<1> DEFINE c == [map |-> map, heap |-> heap]
<1>6. c.map = map /\ c.heap = heap
  OBVIOUS
<1>7. Taken(u) = c
  BY <1>5
<1> HIDE DEF c
<1>8. Covered(c)
  BY <1>2, <1>3, <1>4, <1>6 DEF Covered
<1> QED
  BY <1>3, <1>6, <1>7, <1>8

LEMMA EvictCovered ==
  ASSUME NEW t, Covered(t)
  PROVE  /\ Covered(evictOldestRecentlyClosedLocked(t))
         /\ Cardinality(Tombs(evictOldestRecentlyClosedLocked(t).map)) <= RecentlyClosedCap
<1> DEFINE size == Len(t.heap)
           Rec(f, n) == f = [i \in 0 .. n |-> IF i = 0 THEN t ELSE Taken(f[i - 1])]
           After == CHOOSE f : Rec(f, size)
           enough == {n \in DOMAIN After : Cardinality(Tombs(After[n].map)) <= RecentlyClosedCap}
<1>1. size \in Nat
  BY DEF Covered
<1>2. evictOldestRecentlyClosedLocked(t)
        = IF enough = {} THEN After[size]
          ELSE After[CHOOSE n \in enough : \A m \in enough : n <= m]
  BY DEF evictOldestRecentlyClosedLocked, Taken
<1>3. \A n \in Nat : \E f : Rec(f, n)
  <2> DEFINE None_ == {n \in Nat : ~ \E f : Rec(f, n)}
  <2>1. ASSUME NEW n \in None_, \A k \in None_ : n <= k PROVE FALSE
    <3>1. CASE n = 0
      <4> DEFINE f == [i \in 0 .. 0 |-> t]
      <4>1. \A i \in 0 .. 0 : i = 0
        OBVIOUS
      <4>2. Rec(f, 0)
        BY <4>1
      <4> HIDE DEF f, Rec
      <4> QED
        BY <2>1, <3>1, <4>2
    <3>2. CASE n # 0
      <4>1. n \in Nat /\ n - 1 \in Nat /\ ~ (n <= n - 1)
        BY <3>2
      <4>2. PICK g : Rec(g, n - 1)
        BY <2>1, <4>1
      <4> DEFINE f == [i \in 0 .. n |-> IF i < n THEN g[i] ELSE Taken(g[i - 1])]
      <4>3. ASSUME NEW i \in 0 .. n PROVE f[i] = IF i = 0 THEN t ELSE Taken(f[i - 1])
        <5>1. CASE i = 0
          <6>1. 0 \in 0 .. n - 1 /\ i < n /\ f[i] = g[i]
            BY <3>2, <4>1, <5>1
          <6>2. g[0] = t
            BY <4>2, <6>1
          <6> QED
            BY <5>1, <6>1, <6>2
        <5>2. CASE i # 0 /\ i < n
          <6>1. i \in 0 .. n - 1 /\ i - 1 \in 0 .. n /\ i - 1 < n /\ i - 1 \in 0 .. n - 1
            BY <4>1, <5>2
          <6>2. f[i] = g[i] /\ f[i - 1] = g[i - 1]
            BY <5>2, <6>1
          <6>3. g[i] = Taken(g[i - 1])
            BY <4>2, <5>2, <6>1
          <6> HIDE DEF f, Rec
          <6> QED
            BY <5>2, <6>2, <6>3
        <5>3. CASE i = n
          <6>1. i - 1 \in 0 .. n /\ i - 1 < n /\ ~ (i < n) /\ i # 0
            BY <3>2, <4>1, <5>3
          <6>2. f[i - 1] = g[i - 1]
            BY <6>1
          <6>3. f[i] = Taken(g[i - 1])
            BY <6>1
          <6> HIDE DEF f, Rec
          <6> QED
            BY <6>1, <6>2, <6>3
        <5> QED
          BY <4>1, <5>1, <5>2, <5>3
      <4>4. f = [i \in 0 .. n |-> f[i]]
        OBVIOUS
      <4> HIDE DEF f
      <4>5. Rec(f, n)
        BY <4>3, <4>4
      <4> HIDE DEF Rec
      <4> QED
        BY <2>1, <4>5
    <3> QED
      BY <3>1, <3>2
  <2>2. None_ = {}
    <3>1. None_ \subseteq Nat
      OBVIOUS
    <3> HIDE DEF None_
    <3> QED
      BY <2>1, <3>1, LeastExists
  <2> HIDE DEF Rec
  <2> QED
    BY <2>2
<1>4. Rec(After, size)
  <2> HIDE DEF Rec
  <2> QED
    BY <1>1, <1>3
<1> HIDE DEF After
<1>5. /\ DOMAIN After = 0 .. size /\ After[0] = t
      /\ \A i \in 1 .. size : After[i] = Taken(After[i - 1])
  <2>1. 0 \in 0 .. size /\ \A i \in 1 .. size : i \in 0 .. size /\ i # 0
    BY <1>1
  <2>2. DOMAIN After = 0 .. size /\ After[0] = t
    BY <1>4, <2>1
  <2>3. ASSUME NEW i \in 1 .. size PROVE After[i] = Taken(After[i - 1])
    BY <1>4, <2>1
  <2> QED
    BY <2>2, <2>3
<1> HIDE DEF Rec
<1> DEFINE Good(n) == Covered(After[n]) /\ Len(After[n].heap) = size - n
           Bad == {n \in 0 .. size : ~ Good(n)}
<1>6. ASSUME NEW n \in Bad, \A k \in Bad : n <= k PROVE FALSE
  <2>1. n # 0
    BY <1>1, <1>5, <1>6
  <2>2. n \in 1 .. size /\ n - 1 \in 0 .. size /\ ~ (n <= n - 1) /\ size - (n - 1) # 0
        /\ (size - (n - 1)) - 1 = size - n
    BY <1>1, <2>1
  <2>3. Good(n - 1)
    BY <1>6, <2>2
  <2>4. After[n] = Taken(After[n - 1])
    BY <1>5, <2>2
  <2>5. Covered(After[n]) /\ Len(After[n].heap) = Len(After[n - 1].heap) - 1
    BY <2>2, <2>3, <2>4, TakenCovered
  <2> QED
    BY <1>6, <2>2, <2>3, <2>5
<1>7. Bad = {}
  <2>1. Bad \subseteq Nat
    OBVIOUS
  <2> HIDE DEF Bad
  <2> QED
    BY <1>6, <2>1, LeastExists
<1>8. \A n \in DOMAIN After : Covered(After[n])
  BY <1>5, <1>7
<1>9. Tombs(After[size].map) = {}
  <2>1. Covered(After[size]) /\ Len(After[size].heap) = 0
    BY <1>1, <1>7
  <2>2. DOMAIN After[size].heap = {}
    BY <2>1 DEF Covered
  <2> QED
    BY <2>1, <2>2 DEF Covered
<1>10. size \in enough
  <2>1. Cardinality(Tombs(After[size].map)) = 0
    BY <1>9, FS_EmptySet
  <2> QED
    BY <1>1, <1>5, <2>1, TableAssumption
<1>11. enough \subseteq Nat
  BY <1>1, <1>5
<1> DEFINE n == CHOOSE n \in enough : \A m \in enough : n <= m
<1>12. n \in enough
  <2> HIDE DEF enough
  <2>1. \E m \in enough : \A k \in enough : m <= k
    BY <1>10, <1>11, LeastExists
  <2> QED
    BY <2>1
<1>13. evictOldestRecentlyClosedLocked(t) = After[n]
  BY <1>2, <1>10
<1> HIDE DEF n
<1> QED
  BY <1>8, <1>12, <1>13

LEMMA PushCovered ==
  ASSUME NEW t, Covered(t), closings \in Nat, NEW id \in Ids \union {None}
  PROVE  Covered(Push(t, id))
<1> DEFINE e == [id |-> id, at |-> closings + 1]
           map == [t.map EXCEPT ![id] = closings + 1]
           heap == Append(t.heap, e)
<1>1. t.map \in [Ids -> Nat] /\ t.heap \in Seq(Closing) /\ Len(t.heap) \in Nat
      /\ DOMAIN t.heap = 1 .. Len(t.heap)
  BY DEF Covered
<1>2. map \in [Ids -> Nat] /\ e \in Closing
  <2>1. closings + 1 \in Nat
    OBVIOUS
  <2>2. e \in Closing
    BY <2>1 DEF Closing
  <2> QED
    BY <1>1, <2>1, <2>2
<1>3. /\ heap \in Seq(Closing) /\ Len(heap) = Len(t.heap) + 1
      /\ \A i \in 1 .. Len(t.heap) : heap[i] = t.heap[i]
      /\ heap[Len(t.heap) + 1] = e
  BY <1>1, <1>2, AppendProperties
<1>4. DOMAIN heap = 1 .. Len(t.heap) + 1
  BY <1>3
<1> HIDE DEF heap
<1>5. ASSUME NEW x \in Tombs(map)
      PROVE  \E i \in DOMAIN heap : heap[i] = [id |-> x, at |-> map[x]]
  <2>1. x \in Ids /\ map[x] # 0
    BY DEF Tombs
  <2>2. CASE x = id
    <3>1. map[x] = closings + 1
      BY <1>1, <2>1, <2>2
    <3>2. Len(t.heap) + 1 \in DOMAIN heap
      BY <1>1, <1>4
    <3> QED
      BY <1>3, <2>2, <3>1, <3>2
  <2>3. CASE x # id
    <3>1. map[x] = t.map[x] /\ x \in Tombs(t.map)
      BY <1>1, <2>1, <2>3 DEF Tombs
    <3>2. PICK i \in DOMAIN t.heap : t.heap[i] = [id |-> x, at |-> t.map[x]]
      BY <3>1 DEF Covered
    <3>3. i \in DOMAIN heap /\ heap[i] = t.heap[i]
      BY <1>1, <1>3, <1>4
    <3> QED
      BY <3>1, <3>2, <3>3
  <2> QED
    BY <2>2, <2>3
<1>6. Push(t, id) = [map |-> map, heap |-> heap]
  BY DEF Push, heap
<1> HIDE DEF map
<1> QED
  BY <1>2, <1>3, <1>5, <1>6 DEF Covered

------------------------------------------------------------------------------
(* The operations on the table. *)

LEMMA TombstonesNext ==
  ASSUME NEW t, RecentlyClosed' = t.map, RecentlyClosedHeap' = t.heap, Covered(t),
         Cardinality(Tombs(t.map)) <= RecentlyClosedCap
  PROVE  Covered(Tombstones)' /\ Cardinality(Tombs(RecentlyClosed)') <= RecentlyClosedCap
<1>1. Tombstones' = [map |-> t.map, heap |-> t.heap]
  BY DEF Tombstones
<1> QED
  BY <1>1 DEF Covered, Tombs

LEMMA NoteKeeps ==
  ASSUME BookInv, NEW id \in Ids \union {None}, noteStreamClosed(id),
         UNCHANGED <<Streams, ActiveStreams>>, PacketsNamed'
  PROVE  BookInv'
<1>1. CASE closed
  <2>1. UNCHANGED <<RecentlyClosed, RecentlyClosedHeap, closings>>
    BY <1>1 DEF noteStreamClosed, tombVars
  <2> QED
    BY <2>1 DEF BookInv, Covered, Tombstones, Tombs, InTable
<1>2. CASE ~ closed
  <2> DEFINE p == pruneRecentlyClosedLocked(Tombstones)
             u == Push(p, id)
             t == evictOldestRecentlyClosedLocked(u)
  <2>1. RecentlyClosed' = t.map /\ RecentlyClosedHeap' = t.heap /\ closings' = closings + 1
    BY <1>2 DEF noteStreamClosed
  <2>2. Covered(p)
    BY PruneCovered DEF BookInv
  <2> HIDE DEF p
  <2>3. Covered(u)
    BY <2>2, PushCovered DEF BookInv
  <2> HIDE DEF u
  <2>4. Covered(t) /\ Cardinality(Tombs(t.map)) <= RecentlyClosedCap
    BY <2>3, EvictCovered
  <2> HIDE DEF t
  <2>5. Covered(Tombstones)' /\ Cardinality(Tombs(RecentlyClosed)') <= RecentlyClosedCap
    BY <2>1, <2>4, TombstonesNext
  <2> QED
    BY <2>1, <2>5 DEF BookInv, InTable
<1> QED
  BY <1>1, <1>2

LEMMA SweepTombsKeeps ==
  ASSUME BookInv, SweepRecentlyClosedStreams, PacketsNamed'
  PROVE  BookInv'
<1> DEFINE t == pruneRecentlyClosedLocked(Tombstones)
<1>1. /\ RecentlyClosed' = t.map /\ RecentlyClosedHeap' = t.heap
      /\ UNCHANGED <<Streams, ActiveStreams, closings>>
  BY DEF SweepRecentlyClosedStreams
<1>2. Covered(t) /\ Tombs(t.map) \subseteq Tombs(RecentlyClosed)
  <2>1. Tombstones.map = RecentlyClosed
    BY DEF Tombstones
  <2> QED
    BY <2>1, PruneCovered DEF BookInv
<1> HIDE DEF t
<1>3. Cardinality(Tombs(t.map)) <= RecentlyClosedCap
  BY <1>2, FewerTombs, TombsFinite, TableAssumption DEF BookInv
<1>4. Covered(Tombstones)' /\ Cardinality(Tombs(RecentlyClosed)') <= RecentlyClosedCap
  BY <1>1, <1>2, <1>3, TombstonesNext
<1> QED
  BY <1>1, <1>4 DEF BookInv, InTable

LEMMA CreatedKeeps ==
  ASSUME BookInv, StreamsTyped, NEW id \in Ids, Created(id, getOrCreateStream(id)),
         PacketsNamed'
  PROVE  BookInv'
<1>1. CASE getOrCreateStream(id) # Len(stream) + 1
  <2>1. UNCHANGED <<Streams, ActiveStreams, RecentlyClosed, RecentlyClosedHeap, closings>>
    BY <1>1 DEF Created, tableVars
  <2> QED
    BY <2>1 DEF BookInv, Covered, Tombstones, Tombs, InTable
<1>2. CASE getOrCreateStream(id) = Len(stream) + 1
  <2>1. /\ Streams' = [Streams EXCEPT ![id] = Len(stream) + 1]
        /\ ActiveStreams' = ActiveStreams \union {id}
        /\ RecentlyClosed' = [RecentlyClosed EXCEPT ![id] = 0]
        /\ UNCHANGED <<RecentlyClosedHeap, closings>>
    BY <1>2 DEF Created
  <2>2. Streams \in [Ids -> 0 .. Len(stream)] /\ Len(stream) \in Nat
    BY DEF StreamsTyped
  <2>3. Streams[id] = None /\ Cardinality(InTable) < MaxActiveStreamsPerSession
    <3>1. Streams[id] # Len(stream) + 1 /\ None # Len(stream) + 1
      BY <2>2 DEF None
    <3>2. Streams[id] = None /\ canCreateAdditionalStreamLocked(id)
      BY <1>2, <3>1 DEF getOrCreateStream
    <3> QED
      BY <3>2 DEF canCreateAdditionalStreamLocked
  <2>4. InTable' = InTable \union {id} /\ id \notin InTable
    BY <2>1, <2>2, <2>3 DEF InTable, None
  <2>5. Cardinality(InTable') <= MaxActiveStreamsPerSession
    <3>1. Cardinality(InTable \union {id}) = Cardinality(InTable) + 1
      BY <2>4, TombsFinite, FS_AddElement
    <3> HIDE DEF InTable
    <3> QED
      BY <2>3, <2>4, <3>1, TombsFinite, TableAssumption
  <2>6. ActiveStreams' \subseteq InTable'
    BY <2>1, <2>4 DEF BookInv
  <2> DEFINE t == [map |-> [RecentlyClosed EXCEPT ![id] = 0], heap |-> RecentlyClosedHeap]
  <2>7. Covered(t) /\ Tombs(t.map) \subseteq Tombs(RecentlyClosed)
    <3>1. /\ RecentlyClosed \in [Ids -> Nat] /\ RecentlyClosedHeap \in Seq(Closing)
          /\ \A x \in Tombs(RecentlyClosed) :
                \E i \in DOMAIN RecentlyClosedHeap :
                  RecentlyClosedHeap[i] = [id |-> x, at |-> RecentlyClosed[x]]
      BY DEF BookInv, Covered, Tombstones
    <3>2. t.map \in [Ids -> Nat] /\ t.heap = RecentlyClosedHeap
      BY <3>1
    <3>3. \A x \in Tombs(t.map) : x \in Tombs(RecentlyClosed) /\ t.map[x] = RecentlyClosed[x]
      BY <3>1 DEF Tombs
    <3> HIDE DEF t
    <3> QED
      BY <3>1, <3>2, <3>3 DEF Covered
  <2>8. RecentlyClosed' = t.map /\ RecentlyClosedHeap' = t.heap
    BY <2>1
  <2> HIDE DEF t
  <2>9. Cardinality(Tombs(t.map)) <= RecentlyClosedCap
    BY <2>7, FewerTombs, TombsFinite, TableAssumption DEF BookInv
  <2>10. Covered(Tombstones)' /\ Cardinality(Tombs(RecentlyClosed)') <= RecentlyClosedCap
    BY <2>7, <2>8, <2>9, TombstonesNext
  <2> QED
    BY <2>1, <2>5, <2>6, <2>10 DEF BookInv
<1> QED
  BY <1>1, <1>2

(* What takes streams out of the table, or out of the round robin.          *)
LEMMA RemovedKeeps ==
  ASSUME BookInv, UNCHANGED tombVars, PacketsNamed',
         \/ UNCHANGED Streams /\ ActiveStreams' \subseteq ActiveStreams
         \/ \E id \in Ids \union {None} : removeStream(id)
         \/ Streams' = [id \in Ids |-> None] /\ ActiveStreams' = {}
  PROVE  BookInv'
<1>1. UNCHANGED <<RecentlyClosed, RecentlyClosedHeap, closings>>
  BY DEF tombVars
<1>2. Covered(Tombstones)' /\ closings' \in Nat
      /\ Cardinality(Tombs(RecentlyClosed)') <= RecentlyClosedCap
  BY <1>1 DEF BookInv, Covered, Tombstones, Tombs
<1>3. InTable' \subseteq InTable /\ ActiveStreams' \subseteq InTable'
  <2>1. CASE UNCHANGED Streams /\ ActiveStreams' \subseteq ActiveStreams
    BY <2>1 DEF BookInv, InTable
  <2>2. CASE \E id \in Ids \union {None} : removeStream(id)
    <3>1. PICK id \in Ids \union {None} : removeStream(id)
      BY <2>2
    <3>2. CASE closed
      BY <3>1, <3>2 DEF removeStream, BookInv, InTable
    <3>3. CASE ~ closed
      <4>1. Streams' = [Streams EXCEPT ![id] = None] /\ ActiveStreams' = ActiveStreams \ {id}
        BY <3>1, <3>3 DEF removeStream
      <4>2. ASSUME NEW x \in Ids
            PROVE  /\ x # id => Streams'[x] = Streams[x]
                   /\ Streams'[x] # None => Streams[x] # None
        BY <4>1 DEF None, StreamsTyped
      <4> QED
        BY <4>1, <4>2 DEF BookInv, InTable
    <3> QED
      BY <3>2, <3>3
  <2>3. CASE Streams' = [id \in Ids |-> None] /\ ActiveStreams' = {}
    BY <2>3 DEF InTable, None
  <2> QED
    BY <2>1, <2>2, <2>3
<1>4. Cardinality(InTable') <= Cardinality(InTable)
  <2> HIDE DEF InTable
  <2> QED
    BY <1>3, TombsFinite, FS_Subset
<1>5. Cardinality(InTable') \in Nat
  <2>1. InTable' \subseteq Ids
    BY DEF InTable
  <2> HIDE DEF InTable
  <2> QED
    BY <2>1, TableAssumption, FS_Subset, FS_CardinalityType
<1>6. Cardinality(InTable') <= MaxActiveStreamsPerSession
  BY <1>4, <1>5, TombsFinite, TableAssumption DEF BookInv
<1> QED
  BY <1>2, <1>3, <1>6 DEF BookInv

LEMMA BookInitInv == Init => BookInv
<1> SUFFICES ASSUME Init PROVE BookInv
  OBVIOUS
<1> USE DEF Init, ConnectInit, TableInit
<1>1. Tombs(RecentlyClosed) = {} /\ InTable = {}
  BY DEF Tombs, InTable, None
<1>2. Covered(Tombstones)
  <2>1. Tombstones.map = RecentlyClosed /\ Tombstones.heap = <<>> /\ <<>> \in Seq(Closing)
    BY DEF Tombstones
  <2> QED
    BY <1>1, <2>1 DEF Covered
<1>3. Cardinality(Tombs(RecentlyClosed)) <= RecentlyClosedCap
      /\ Cardinality(InTable) <= MaxActiveStreamsPerSession
  <2>1. Cardinality({}) = 0
    BY FS_EmptySet
  <2>2. \A n \in Nat : 0 <= n
    OBVIOUS
  <2>3. 0 <= RecentlyClosedCap /\ 0 <= MaxActiveStreamsPerSession
    BY <2>2, TableAssumption
  <2>4. Cardinality(Tombs(RecentlyClosed)) = 0 /\ Cardinality(InTable) = 0
    BY <1>1, <2>1
  <2> HIDE DEF Init, ConnectInit, TableInit
  <2> QED
    BY <2>3, <2>4
<1>4. PacketsNamed
  <2>1. sweep = NoPacket /\ \A h \in Handlers : handler[h] = NoPacket
    OBVIOUS
  <2> QED
    BY <2>1 DEF PacketsNamed, NoPacket, None, SweepRecord
<1> QED
  BY <1>2, <1>3, <1>4 DEF BookInv

LEMMA NamedKeeps ==
  ASSUME UpstreamInv, PacketsNamed, ConnectNext
  PROVE  PacketsNamed'
<1>1. SynIds \subseteq Ids /\ handler \in [Handlers -> HandlerRecord]
  BY StreamsAssumption DEF UpstreamInv, TasksTyped
<1>2. CASE UNCHANGED <<sweep, handler>>
  BY <1>2 DEF PacketsNamed
<1>3. ASSUME UNCHANGED sweep, NEW h \in Handlers, NEW r, handler' = [handler EXCEPT ![h] = r],
             r.at # "idle" => r.id \in Ids
      PROVE  PacketsNamed'
  <2>1. handler'[h] = r /\ \A x \in Handlers \ {h} : handler'[x] = handler[x]
    BY <1>1, <1>3
  <2> QED
    BY <1>3, <2>1 DEF PacketsNamed
<1>4. ASSUME NEW h \in Handlers, SynArrives(h) \/ RstArrives(h) PROVE PacketsNamed'
  <2>1. UNCHANGED sweep
    BY <1>4 DEF SynArrives, RstArrives
  <2>2. ASSUME NEW id \in SynIds, NEW step, NEW s,
               handler' = [handler EXCEPT ![h] = [at |-> step, id |-> id, s |-> s]]
        PROVE  PacketsNamed'
    <3> DEFINE r == [at |-> step, id |-> id, s |-> s]
    <3>1. r.id \in Ids
      BY <1>1
    <3> QED
      BY <1>3, <2>1, <2>2, <3>1
  <2> QED
    BY <1>4, <2>2 DEF SynArrives, RstArrives
<1>5. ASSUME NEW h \in Handlers, UNCHANGED sweep, handler[h].at # "idle",
             Done(h) \/ \E step \in HandlerSteps : Next_(h, step)
      PROVE  PacketsNamed'
  <2>1. CASE Done(h)
    BY <1>3, <1>5, <2>1 DEF Done, NoPacket
  <2>2. CASE \E step \in HandlerSteps : Next_(h, step)
    <3>1. PICK step \in HandlerSteps : handler' = [handler EXCEPT ![h] = [handler[h] EXCEPT !.at = step]]
      BY <2>2 DEF Next_
    <3> DEFINE r == [handler[h] EXCEPT !.at = step]
    <3>2. r.id = handler[h].id /\ handler[h].id \in Ids
      BY <1>1, <1>5 DEF HandlerRecord, PacketsNamed
    <3> QED
      BY <1>3, <1>5, <3>1, <3>2
  <2> QED
    BY <1>5, <2>1, <2>2
<1>6. ASSUME NEW h \in Handlers, HandlerStep(h) PROVE PacketsNamed'
  <2>1. UNCHANGED sweep /\ handler[h].at # "idle"
    BY <1>6 DEF HandlerStep, handleStreamSynRequest, dispatchDeferredSessionPacketTracked,
                queueImmediateControlAck, handleStreamRSTRequest, Handling
  <2>2. Done(h) \/ \E step \in HandlerSteps : Next_(h, step)
    BY <1>6 DEF HandlerStep, handleStreamSynRequest, dispatchDeferredSessionPacketTracked,
                queueImmediateControlAck, handleStreamRSTRequest,
                rejectNewStreamBecauseLimit, tryHandleImmediate, HandlerSteps
  <2> QED
    BY <1>5, <2>1, <2>2
<1>7. CASE SweepTerminalStreams
  <2>1. PICK id \in Ids : sweep' = [at |-> "abort", id |-> id, s |-> Streams[id]]
    BY <1>7 DEF SweepTerminalStreams, InTable
  <2>2. Streams[id] \in Nat
    BY DEF UpstreamInv, StreamsTyped
  <2>3. sweep' \in SweepRecord
    BY <2>1, <2>2 DEF SweepRecord
  <2> QED
    BY <1>7, <2>3 DEF SweepTerminalStreams, PacketsNamed
<1>8. CASE cleanupTerminalStreams
  <2>1. sweep' = NoPacket \/ \E step \in {"finalise", "note"} : sweep' = [sweep EXCEPT !.at = step]
    BY <1>8 DEF cleanupTerminalStreams
  <2>2. sweep' \in SweepRecord
    BY <2>1 DEF PacketsNamed, SweepRecord, NoPacket, None
  <2>3. UNCHANGED handler
    BY <1>8 DEF cleanupTerminalStreams
  <2> QED
    BY <2>2, <2>3 DEF PacketsNamed
<1>9. CASE PeerCloses \/ consumeInboundStreamAck \/ cleanupIdleDeferredSession
           \/ (\E s : ARQEnds(s)) \/ (Age /\ UNCHANGED procVars)
  BY <1>2, <1>9 DEF PeerCloses, consumeInboundStreamAck, cleanupIdleDeferredSession, ARQEnds, procVars
<1>10. CASE GoesOn
  BY <1>2, <1>10 DEF GoesOn, TaskStep, Create, Dial, attachUpstreamConn, Attached, Clear,
                     finishDeferredPacket, GivesUp, ARQEnds, procVars, finalizeAfterARQClose,
                     cleanupResources, onStreamClosed, cleanupClosedSession
<1>11. CASE (\E w \in Workers : Begin(w)) \/ SessionEnds
  BY <1>2, <1>11 DEF Begin, SessionEnds
<1> QED
  BY <1>4, <1>6, <1>7, <1>8, <1>9, <1>10, <1>11 DEF ConnectNext, Event

(* What leaves the table and the tombstones alone. *)
LEMMA BookUntouched ==
  ASSUME BookInv, UNCHANGED <<Streams, ActiveStreams, RecentlyClosed, RecentlyClosedHeap, closings>>,
         PacketsNamed'
  PROVE  BookInv'
BY DEF BookInv, Covered, Tombstones, Tombs, InTable

LEMMA BookOfTasks ==
  ASSUME UpstreamInv, BookInv, PacketsNamed', NEW w \in Workers, TaskStep(w) \/ Begin(w)
  PROVE  BookInv'
<1>1. CASE Create(w)
  <2>1. task[w].id \in Ids /\ StreamsTyped
    BY <1>1 DEF Create, At, UpstreamInv, TasksAim
  <2>2. Created(task[w].id, getOrCreateStream(task[w].id))
    BY <1>1 DEF Create
  <2> QED
    BY <2>1, <2>2, CreatedKeeps
<1>2. ASSUME ~ Create(w)
      PROVE  UNCHANGED <<Streams, ActiveStreams, RecentlyClosed, RecentlyClosedHeap, closings>>
  BY <1>2 DEF TaskStep, Dial, attachUpstreamConn, Attached, Clear, finishDeferredPacket, Begin,
              tableVars, tombVars
<1> QED
  BY <1>1, <1>2, BookUntouched

LEMMA BookOfHandlers ==
  ASSUME UpstreamInv, BookInv, PacketsNamed', NEW h \in Handlers,
         SynArrives(h) \/ RstArrives(h) \/ HandlerStep(h)
  PROVE  BookInv'
<1>1. handler[h].at # "idle" => handler[h].id \in Ids
  BY DEF BookInv, PacketsNamed
<1>2. CASE \/ SynArrives(h) \/ RstArrives(h) \/ handleStreamSynRequest(h)
           \/ dispatchDeferredSessionPacketTracked(h)
  <2>1. UNCHANGED tableVars
    BY <1>2 DEF SynArrives, RstArrives, handleStreamSynRequest, dispatchDeferredSessionPacketTracked
  <2> QED
    BY <2>1, BookUntouched DEF tableVars
<1>3. CASE queueImmediateControlAck(h)
  <2>1. handler[h].id \in Ids
    BY <1>1, <1>3 DEF queueImmediateControlAck, Handling
  <2>2. Created(handler[h].id, getOrCreateStream(handler[h].id)) /\ StreamsTyped
    BY <1>3 DEF queueImmediateControlAck, UpstreamInv
  <2> QED
    BY <2>1, <2>2, CreatedKeeps
<1>4. CASE handleStreamRSTRequest(h)
  <2>1. CASE Handling(h, "note")
    <3>1. handler[h].id \in Ids
      BY <1>1, <2>1 DEF Handling
    <3>2. noteStreamClosed(handler[h].id) /\ UNCHANGED <<Streams, ActiveStreams>>
      BY <1>4, <2>1 DEF handleStreamRSTRequest, Handling
    <3> QED
      BY <3>1, <3>2, NoteKeeps
  <2>2. CASE ~ Handling(h, "note")
    <3>1. UNCHANGED tombVars /\ UNCHANGED Streams /\ ActiveStreams' \subseteq ActiveStreams
      BY <1>4, <2>2 DEF handleStreamRSTRequest, deactivateStream
    <3> QED
      BY <3>1, RemovedKeeps
  <2> QED
    BY <2>1, <2>2
<1> QED
  BY <1>2, <1>3, <1>4 DEF HandlerStep

LEMMA BookOfEnds ==
  ASSUME UpstreamInv, BookInv, PacketsNamed',
         (\E s : finalizeAfterARQClose(s)) \/ cleanupTerminalStreams \/ cleanupClosedSession
  PROVE  BookInv'
<1>1. ASSUME NEW s \in DOMAIN stream, cleanupResources(s) PROVE BookInv'
  <2>1. UNCHANGED <<Streams, ActiveStreams, tombVars>>
    BY <1>1 DEF cleanupResources
  <2> QED
    BY <2>1, BookUntouched DEF tombVars
<1>2. ASSUME NEW s \in DOMAIN stream, onStreamClosed(s) PROVE BookInv'
  <2>1. stream[s].id \in Ids \union {None}
    <3>1. stream[s] \in StreamRecord
      BY DEF UpstreamInv, StreamsTyped
    <3> HIDE DEF UpstreamInv
    <3> QED
      BY <3>1 DEF StreamRecord
  <2>2. CASE removeStream(stream[s].id) /\ UNCHANGED tombVars
    BY <2>1, <2>2, RemovedKeeps
  <2>3. CASE noteStreamClosed(stream[s].id) /\ UNCHANGED <<Streams, ActiveStreams>>
    BY <2>1, <2>3, NoteKeeps
  <2> QED
    BY <1>2, <2>2, <2>3 DEF onStreamClosed
<1>3. CASE cleanupTerminalStreams
  <2>1. sweep.id \in Ids \union {None}
    BY DEF BookInv, PacketsNamed, SweepRecord
  <2>2. CASE UNCHANGED <<Streams, ActiveStreams, tombVars>>
    BY <2>2, BookUntouched DEF tombVars
  <2>3. CASE removeStream(sweep.id) /\ UNCHANGED tombVars
    BY <2>1, <2>3, RemovedKeeps
  <2>4. CASE noteStreamClosed(sweep.id) /\ UNCHANGED <<Streams, ActiveStreams>>
    BY <2>1, <2>4, NoteKeeps
  <2> QED
    BY <1>3, <2>2, <2>3, <2>4 DEF cleanupTerminalStreams
<1>4. CASE cleanupClosedSession
  <2>1. /\ UNCHANGED tombVars
        /\ \/ UNCHANGED Streams /\ ActiveStreams' \subseteq ActiveStreams
           \/ Streams' = [id \in Ids |-> None] /\ ActiveStreams' = {}
    BY <1>4 DEF cleanupClosedSession
  <2> QED
    BY <2>1, RemovedKeeps
<1> QED
  BY <1>1, <1>2, <1>3, <1>4 DEF finalizeAfterARQClose

LEMMA BookStep ==
  ASSUME UpstreamInv, BookInv, ConnectNext
  PROVE  BookInv'
<1>1. PacketsNamed'
  BY NamedKeeps DEF BookInv
<1>2. CASE \E h \in Handlers : SynArrives(h) \/ RstArrives(h) \/ HandlerStep(h)
  BY <1>1, <1>2, BookOfHandlers
<1>3. CASE \E w \in Workers : TaskStep(w) \/ Begin(w)
  BY <1>1, <1>3, BookOfTasks
<1>4. CASE (\E s : finalizeAfterARQClose(s)) \/ cleanupTerminalStreams \/ cleanupClosedSession
  BY <1>1, <1>4, BookOfEnds
<1>5. CASE \/ PeerCloses \/ cleanupIdleDeferredSession \/ SweepTerminalStreams \/ Age
           \/ SessionEnds \/ \E s : ARQEnds(s)
  <2>1. UNCHANGED <<Streams, ActiveStreams, RecentlyClosed, RecentlyClosedHeap, closings>>
    BY <1>5 DEF PeerCloses, cleanupIdleDeferredSession, SweepTerminalStreams, Age, SessionEnds,
                ARQEnds, tableVars, tombVars
  <2> QED
    BY <1>1, <2>1, BookUntouched
<1>6. CASE consumeInboundStreamAck
  <2>1. UNCHANGED tombVars /\ UNCHANGED Streams /\ ActiveStreams' \subseteq ActiveStreams
    BY <1>6 DEF consumeInboundStreamAck, deactivateStream
  <2> QED
    BY <1>1, <2>1, RemovedKeeps
<1> QED
  BY <1>2, <1>3, <1>4, <1>5, <1>6 DEF ConnectNext, Event, GoesOn, GivesUp

LEMMA BookTableStep ==
  ASSUME UpstreamInv, BookInv, TableNext, UNCHANGED procVars
  PROVE  BookInv'
<1>1. PacketsNamed'
  BY DEF BookInv, PacketsNamed, procVars
<1>2. StreamsTyped
  BY DEF UpstreamInv
<1>3. CASE \E id \in Ids : Created(id, getOrCreateStream(id))
  BY <1>1, <1>2, <1>3, CreatedKeeps
<1>4. CASE \E id \in Ids : removeStream(id) /\ UNCHANGED tombVars
  BY <1>1, <1>4, RemovedKeeps
<1>5. CASE \E id \in Ids : noteStreamClosed(id) /\ UNCHANGED <<Streams, ActiveStreams>>
  BY <1>1, <1>5, NoteKeeps
<1>6. CASE \E id \in Ids : deactivateStream(id) /\ UNCHANGED <<Streams, tombVars>>
  <2>1. UNCHANGED tombVars /\ UNCHANGED Streams /\ ActiveStreams' \subseteq ActiveStreams
    BY <1>6 DEF deactivateStream
  <2> QED
    BY <1>1, <2>1, RemovedKeeps
<1>7. CASE Age
  <2>1. UNCHANGED <<Streams, ActiveStreams, RecentlyClosed, RecentlyClosedHeap, closings>>
    BY <1>7 DEF Age
  <2> QED
    BY <1>1, <2>1, BookUntouched
<1>8. CASE SweepRecentlyClosedStreams
  BY <1>1, <1>8, SweepTombsKeeps
<1> QED
  BY <1>3, <1>4, <1>5, <1>6, <1>7, <1>8 DEF TableNext

(* The books of a session's streams stay right, whatever the sizes: the     *)
(* table keeps its limit, only streams of the table are scheduled, and what *)
(* is remembered of closed streams is bounded and has the entry that will   *)
(* let it go (getOrCreateStream, removeStream, noteStreamClosed).           *)
THEOREM StreamsAreBooked == Spec => []StreamBook
<1>1. Init => UpstreamInv /\ BookInv
  BY UpstreamInitInv, BookInitInv DEF Init
<1>2. UpstreamInv /\ BookInv /\ [Next]_vars => (UpstreamInv /\ BookInv)'
  <2> SUFFICES ASSUME UpstreamInv, BookInv, [Next]_vars PROVE (UpstreamInv /\ BookInv)'
    OBVIOUS
  <2>1. CASE ConnectNext
    BY <2>1, ConnectStep, BookStep
  <2>2. CASE TableNext /\ UNCHANGED procVars
    BY <2>2, TableStep, BookTableStep
  <2>3. CASE UNCHANGED connectVars
    <3>1. UpstreamInv'
      BY <2>3 DEF connectVars, tableVars, procVars, UpstreamInv, StreamsTyped, FinalAfterEnd,
                  TasksTyped, TasksAim, UpstreamOwned
    <3>2. UNCHANGED <<Streams, ActiveStreams, RecentlyClosed, RecentlyClosedHeap, closings>>
      BY <2>3 DEF connectVars, tableVars
    <3>3. PacketsNamed'
      BY <2>3 DEF connectVars, procVars, BookInv, PacketsNamed
    <3> QED
      BY <3>1, <3>2, <3>3, BookUntouched
  <2> QED
    BY <2>1, <2>2, <2>3 DEF Next, vars
<1>3. BookInv => StreamBook
  <2> SUFFICES ASSUME BookInv PROVE StreamBook
    OBVIOUS
  <2>1. ASSUME NEW id \in Tombs(RecentlyClosed)
        PROVE  Contains(RecentlyClosedHeap, [id |-> id, at |-> RecentlyClosed[id]])
    <3>1. \E i \in DOMAIN RecentlyClosedHeap :
            RecentlyClosedHeap[i] = [id |-> id, at |-> RecentlyClosed[id]]
      BY DEF BookInv, Covered, Tombstones
    <3>2. DOMAIN RecentlyClosedHeap = 1 .. Len(RecentlyClosedHeap)
      BY DEF BookInv, Covered, Tombstones
    <3> QED
      BY <3>1, <3>2 DEF Contains
  <2> QED
    BY <2>1 DEF BookInv, StreamBook
<1> QED
  BY <1>1, <1>2, <1>3, PTL DEF Spec

------------------------------------------------------------------------------
(* The tracker of wrong cookies. *)

CookieRecord == [attempts : Seq(Nat), lastEmitAt : Nat]

(* The times a record keeps are the last of those noted. *)
EndOf(kept, all) ==
  /\ kept \in Seq(Nat) /\ Len(kept) <= Len(all)
  /\ \A i \in 1 .. Len(kept) : kept[i] = all[i + (Len(all) - Len(kept))]

Ascending(all, time) ==
  /\ all \in Seq(Nat) /\ Len(all) <= invalidCookieThreshold
  /\ \A i, j \in 1 .. Len(all) : i <= j => all[i] <= all[j]
  /\ \A i \in 1 .. Len(all) : all[i] <= time

(* A record remembers the last answer until it does not matter any more.    *)
Remembers(r, answered, time) ==
  /\ r.lastEmitAt # 0 => answered # <<>> /\ Last(answered) = r.lastEmitAt
  /\ answered # <<>> /\ r.lastEmitAt = 0 => Last(answered) + invalidCookieWindow < time

KeyInv(r, all, answered, time) ==
  /\ r \in CookieRecord /\ Ascending(all, time) /\ EndOf(r.attempts, all)
  /\ answered \in Seq(Nat) /\ Remembers(r, answered, time)

CookieInv ==
  /\ clock \in Nat \ {0}
  /\ records = [k \in Keys |-> records[k]] /\ noted = [k \in Keys |-> noted[k]]
  /\ answers = [k \in Keys |-> answers[k]]
  /\ \A k \in Keys : KeyInv(records[k], noted[k], answers[k], clock)

LEMMA Pruned ==
  ASSUME NEW values \in Seq(Nat), clock \in Nat
  PROVE  \E i \in 1 .. Len(values) + 1 :
           /\ pruneAttemptTimes(values) = SubSeq(values, i, Len(values))
           /\ i <= Len(values) => values[i] + invalidCookieWindow >= clock
<1> DEFINE Kept(i) == i > Len(values) \/ values[i] + invalidCookieWindow >= clock
           S == {i \in 1 .. Len(values) + 1 : Kept(i)}
<1>1. Len(values) \in Nat
  OBVIOUS
<1>2. Len(values) + 1 \in S
  BY <1>1
<1>3. PICK x \in S : \A y \in S : x <= y
  <2>1. S \subseteq Nat /\ S # {}
    BY <1>1, <1>2
  <2> HIDE DEF S
  <2> QED
    BY <2>1, LeastExists
<1>4. x \in 1 .. Len(values) + 1 /\ Kept(x) /\ \A j \in 1 .. x - 1 : ~ Kept(j)
  <2>1. x \in 1 .. Len(values) + 1 /\ Kept(x)
    OBVIOUS
  <2>2. ASSUME NEW j \in 1 .. x - 1 PROVE ~ Kept(j)
    <3>1. j \in 1 .. Len(values) + 1 /\ ~ (x <= j)
      BY <1>1, <2>1
    <3> HIDE DEF Kept
    <3>2. j \notin S
      BY <1>3, <3>1
    <3> QED
      BY <3>1, <3>2
  <2> QED
    BY <2>1, <2>2
<1> DEFINE idx == CHOOSE i \in 1 .. Len(values) + 1 : Kept(i) /\ \A j \in 1 .. i - 1 : ~ Kept(j)
<1>5. idx \in 1 .. Len(values) + 1 /\ Kept(idx)
  <2> HIDE DEF Kept
  <2> QED
    BY <1>4
<1>6. pruneAttemptTimes(values) = SubSeq(values, idx, Len(values))
  BY DEF pruneAttemptTimes
<1> HIDE DEF idx
<1>7. idx <= Len(values) => values[idx] + invalidCookieWindow >= clock
  BY <1>1, <1>5
<1> QED
  BY <1>5, <1>6, <1>7

(* What is left after pruning begins within the window. *)
LEMMA PruneKeeps ==
  ASSUME NEW values, NEW all, EndOf(values, all), Ascending(all, clock), clock \in Nat,
         NEW kept, kept = pruneAttemptTimes(values)
  PROVE  EndOf(kept, all) /\ (kept # <<>> => kept[1] + invalidCookieWindow >= clock)
<1>1. values \in Seq(Nat) /\ Len(values) \in Nat /\ all \in Seq(Nat) /\ Len(all) \in Nat
      /\ Len(values) <= Len(all)
  BY DEF EndOf, Ascending
<1>2. PICK i \in 1 .. Len(values) + 1 :
         /\ kept = SubSeq(values, i, Len(values))
         /\ i <= Len(values) => values[i] + invalidCookieWindow >= clock
  BY <1>1, Pruned
<1>3. kept \in Seq(Nat) /\ Len(kept) = Len(values) - i + 1
      /\ \A j \in 1 .. Len(kept) : kept[j] = values[i + j - 1]
  <2>1. CASE i <= Len(values)
    <3>1. i \in 1 .. Len(values) /\ Len(values) \in 1 .. Len(values)
      BY <1>1, <2>1
    <3>2. /\ SubSeq(values, i, Len(values)) \in Seq(Nat)
          /\ Len(SubSeq(values, i, Len(values))) = Len(values) - i + 1
      BY <1>1, <3>1, SMTT(30)
    <3>3. \A j \in 1 .. Len(values) - i + 1 : SubSeq(values, i, Len(values))[j] = values[i + j - 1]
      BY <1>1, <3>1, SMTT(30)
    <3> QED
      BY <1>2, <3>2, <3>3
  <2>2. CASE i = Len(values) + 1
    <3>1. kept = <<>>
      BY <1>1, <1>2, <2>2
    <3> QED
      BY <1>1, <2>2, <3>1
  <2> QED
    BY <1>1, <1>2, <2>1, <2>2
<1>4. Len(kept) <= Len(all)
  BY <1>1, <1>2, <1>3
<1>5. ASSUME NEW j \in 1 .. Len(kept) PROVE kept[j] = all[j + (Len(all) - Len(kept))]
  <2>1. i + j - 1 \in 1 .. Len(values)
    BY <1>1, <1>2, <1>3
  <2>2. values[i + j - 1] = all[(i + j - 1) + (Len(all) - Len(values))]
    BY <2>1 DEF EndOf
  <2>3. (i + j - 1) + (Len(all) - Len(values)) = j + (Len(all) - Len(kept))
    BY <1>1, <1>2, <1>3
  <2> QED
    BY <1>3, <2>2, <2>3
<1>6. EndOf(kept, all)
  BY <1>3, <1>4, <1>5 DEF EndOf
<1>7. kept # <<>> => kept[1] + invalidCookieWindow >= clock
  <2> SUFFICES ASSUME kept # <<>> PROVE kept[1] + invalidCookieWindow >= clock
    OBVIOUS
  <2>1. Len(kept) >= 1
    BY <1>3
  <2>2. i <= Len(values) /\ kept[1] = values[i]
    BY <1>1, <1>2, <1>3, <2>1
  <2> QED
    BY <1>2, <2>2
<1> QED
  BY <1>6, <1>7

(* At the threshold the first time goes. *)
LEMMA BoundedIs ==
  ASSUME clock \in Nat, NEW s \in Seq(Nat), Len(s) <= invalidCookieThreshold,
         NEW d, d = IF Len(s) < invalidCookieThreshold THEN 0 ELSE 1,
         NEW t, t = appendBoundedAttempt(s)
  PROVE  /\ t \in Seq(Nat) /\ Len(t) = Len(s) + 1 - d /\ t[Len(t)] = clock
         /\ \A i \in 1 .. Len(t) - 1 : t[i] = s[i + d]
<1>1. invalidCookieThreshold \in Nat \ {0} /\ Len(s) \in Nat
  BY CookieAssumption
<1>2. CASE Len(s) < invalidCookieThreshold
  <2>1. t = Append(s, clock) /\ d = 0
    BY <1>2 DEF appendBoundedAttempt
  <2>2. t \in Seq(Nat) /\ Len(t) = Len(s) + 1 /\ t[Len(t)] = clock
    BY <1>1, <2>1
  <2>3. \A i \in 1 .. Len(t) - 1 : t[i] = s[i]
    BY <1>1, <2>1, <2>2
  <2>4. \A i \in 1 .. Len(t) - 1 : i + d = i
    BY <2>1, <2>2
  <2> QED
    BY <1>1, <2>1, <2>2, <2>3, <2>4
<1>3. CASE ~ (Len(s) < invalidCookieThreshold)
  <2>1. t = Append(Tail(s), clock) /\ d = 1
    BY <1>3 DEF appendBoundedAttempt
  <2>2. s # <<>> /\ Len(s) >= 1
    BY <1>1, <1>3
  <2> DEFINE rest == Tail(s)
  <2>3. rest \in Seq(Nat) /\ Len(rest) = Len(s) - 1 /\ \A i \in 1 .. Len(s) - 1 : rest[i] = s[i + 1]
    BY <2>2
  <2>4. t = Append(rest, clock)
    BY <2>1
  <2> HIDE DEF rest
  <2>5. t \in Seq(Nat) /\ Len(t) = Len(s) /\ t[Len(t)] = clock
    BY <1>1, <2>2, <2>3, <2>4
  <2>6. \A i \in 1 .. Len(t) - 1 : t[i] = rest[i]
    BY <1>1, <2>3, <2>4, <2>5
  <2> QED
    BY <1>1, <2>1, <2>3, <2>5, <2>6
<1> QED
  BY <1>2, <1>3

(* Where the entries move: x times kept of y, u of v once one is added.     *)
LEMMA Shift ==
  ASSUME NEW T \in Nat \ {0}, NEW x \in Nat, NEW y \in Nat, x <= y, y <= T,
         NEW d, d = IF x < T THEN 0 ELSE 1, NEW b, b = IF y < T THEN 0 ELSE 1,
         NEW u, u = x + 1 - d, NEW v, v = y + 1 - b
  PROVE  /\ u \in Nat /\ v \in Nat /\ u <= v /\ v <= T /\ v >= 1 /\ u >= 1
         /\ \A i \in 1 .. u - 1 : i + d \in 1 .. x /\ (i + d) + (y - x) = (i + (v - u)) + b
         /\ \A i \in 1 .. v - 1 : i + b \in 1 .. y
<1>1. CASE y < T
  <2>1. b = 0 /\ d = 0
    BY <1>1
  <2> QED
    BY <2>1, <1>1
<1>2. CASE y = T /\ x < T
  <2>1. b = 1 /\ d = 0
    BY <1>2
  <2> QED
    BY <2>1, <1>2
<1>3. CASE y = T /\ x = T
  <2>1. b = 1 /\ d = 1
    BY <1>3
  <2> QED
    BY <2>1, <1>3
<1> QED
  BY <1>1, <1>2, <1>3

(* A packet is noted, in the history and in the record.                     *)
LEMMA AppendKeeps ==
  ASSUME NEW values, NEW all, EndOf(values, all), Ascending(all, clock), clock \in Nat,
         NEW more, more = appendBoundedAttempt(values),
         NEW longer, longer = appendBoundedAttempt(all)
  PROVE  EndOf(more, longer) /\ Ascending(longer, clock) /\ Len(longer) >= 1
<1> DEFINE T == invalidCookieThreshold
           d == IF Len(values) < T THEN 0 ELSE 1
           b == IF Len(all) < T THEN 0 ELSE 1
<1>1. T \in Nat \ {0}
  BY CookieAssumption
<1>2. /\ values \in Seq(Nat) /\ Len(values) \in Nat /\ all \in Seq(Nat) /\ Len(all) \in Nat
      /\ Len(values) <= Len(all) /\ Len(all) <= T /\ Len(values) <= T
  BY <1>1 DEF EndOf, Ascending
<1>3. d = IF Len(values) < invalidCookieThreshold THEN 0 ELSE 1
  OBVIOUS
<1>6. b = IF Len(all) < invalidCookieThreshold THEN 0 ELSE 1
  OBVIOUS
<1> HIDE DEF d, b
<1>4. /\ more \in Seq(Nat) /\ Len(more) = Len(values) + 1 - d /\ more[Len(more)] = clock
      /\ \A i \in 1 .. Len(more) - 1 : more[i] = values[i + d]
  BY <1>2, <1>3, BoundedIs, SMTT(30)
<1>5. /\ longer \in Seq(Nat) /\ Len(longer) = Len(all) + 1 - b /\ longer[Len(longer)] = clock
      /\ \A i \in 1 .. Len(longer) - 1 : longer[i] = all[i + b]
  BY <1>2, <1>6, BoundedIs, SMTT(30)
<1> DEFINE x == Len(values)
           y == Len(all)
           u == Len(more)
           v == Len(longer)
<1>7. /\ u \in Nat /\ v \in Nat /\ u <= v /\ v <= T /\ v >= 1 /\ u >= 1
      /\ \A i \in 1 .. u - 1 : i + d \in 1 .. x /\ (i + d) + (y - x) = (i + (v - u)) + b
      /\ \A i \in 1 .. v - 1 : i + b \in 1 .. y
  <2>1. /\ x \in Nat /\ y \in Nat /\ x <= y /\ y <= T /\ u = x + 1 - d /\ v = y + 1 - b
        /\ d = (IF x < T THEN 0 ELSE 1) /\ b = (IF y < T THEN 0 ELSE 1)
    BY <1>2, <1>3, <1>4, <1>5, <1>6
  <2> HIDE DEF x, y, u, v, T
  <2> QED
    BY <1>1, <2>1, Shift
<1> HIDE DEF T
<1>8. ASSUME NEW i \in 1 .. Len(more) PROVE more[i] = longer[i + (Len(longer) - Len(more))]
  <2> DEFINE j == i + (Len(longer) - Len(more))
  <2>1. CASE i = Len(more)
    <3>1. j = Len(longer)
      BY <1>7, <2>1
    <3> QED
      BY <1>4, <1>5, <2>1, <3>1
  <2>2. CASE i # Len(more)
    <3>1. i \in 1 .. Len(more) - 1 /\ j \in 1 .. Len(longer) - 1
      BY <1>7, <2>2
    <3>2. more[i] = values[i + d] /\ longer[j] = all[j + b]
      <4> HIDE DEF j
      <4> QED
        BY <1>4, <1>5, <3>1
    <3>3. i + d \in 1 .. Len(values)
      BY <1>7, <3>1
    <3>4. values[i + d] = all[(i + d) + (Len(all) - Len(values))]
      BY <3>3 DEF EndOf
    <3>5. (i + d) + (Len(all) - Len(values)) = j + b
      BY <1>7, <3>1
    <3> QED
      BY <3>2, <3>4, <3>5
  <2> QED
    BY <2>1, <2>2
<1>9. EndOf(more, longer)
  BY <1>4, <1>7, <1>8 DEF EndOf
<1>10. ASSUME NEW i \in 1 .. Len(longer) PROVE longer[i] <= clock
  <2>1. CASE i = Len(longer)
    BY <1>5, <2>1
  <2>2. CASE i # Len(longer)
    <3>1. i \in 1 .. Len(longer) - 1
      BY <1>7, <2>2
    <3>2. i + b \in 1 .. Len(all)
      BY <1>7, <3>1
    <3> QED
      BY <1>5, <3>1, <3>2 DEF Ascending
  <2> QED
    BY <2>1, <2>2
<1>11. ASSUME NEW i \in 1 .. Len(longer), NEW j \in 1 .. Len(longer), i <= j
       PROVE  longer[i] <= longer[j]
  <2>1. CASE j = Len(longer)
    BY <1>5, <1>10, <2>1
  <2>2. CASE j # Len(longer)
    <3>1. i \in 1 .. Len(longer) - 1 /\ j \in 1 .. Len(longer) - 1
      BY <1>7, <1>11, <2>2
    <3>2. \A n \in 1 .. Len(longer) - 1 : n + b \in 1 .. Len(all)
      BY <1>7
    <3>3. b \in Nat
      BY <1>6
    <3>4. i + b <= j + b
      BY <1>11, <3>3
    <3> QED
      BY <1>5, <3>1, <3>2, <3>4 DEF Ascending
  <2> QED
    BY <2>1, <2>2
<1>12. Ascending(longer, clock)
  BY <1>5, <1>7, <1>10, <1>11 DEF Ascending, T
<1> QED
  BY <1>7, <1>9, <1>12

(* What the record and the history are after a packet was noted.            *)
LEMMA Noted ==
  ASSUME NEW values, NEW all, EndOf(values, all), Ascending(all, clock), clock \in Nat,
         NEW more, more = appendBoundedAttempt(pruneAttemptTimes(values)),
         NEW longer, longer = appendBoundedAttempt(all)
  PROVE  /\ EndOf(more, longer) /\ Ascending(longer, clock)
         /\ Len(more) >= invalidCookieThreshold =>
              Len(longer) = invalidCookieThreshold /\ clock - Head(longer) <= invalidCookieWindow
<1> DEFINE kept == pruneAttemptTimes(values)
           T == invalidCookieThreshold
           W == invalidCookieWindow
<1>1. EndOf(kept, all) /\ (kept # <<>> => kept[1] + W >= clock)
  <2> HIDE DEF W
  <2> QED
    BY PruneKeeps DEF W
<1>2. more = appendBoundedAttempt(kept)
  OBVIOUS
<1> HIDE DEF kept
<1>3. EndOf(more, longer) /\ Ascending(longer, clock) /\ Len(longer) >= 1
  BY <1>1, <1>2, AppendKeeps
<1>4. T \in Nat \ {0} /\ W \in Nat
  BY CookieAssumption
<1>5. SUFFICES ASSUME Len(more) >= T PROVE Len(longer) = T /\ clock - Head(longer) <= W
  BY <1>3
<1> DEFINE d == IF Len(kept) < T THEN 0 ELSE 1
<1>6. kept \in Seq(Nat) /\ Len(kept) \in Nat /\ Len(kept) <= Len(all) /\ Len(all) <= T
      /\ Len(kept) <= T /\ all \in Seq(Nat)
  BY <1>1, <1>4 DEF EndOf, Ascending
<1>7. d = IF Len(kept) < invalidCookieThreshold THEN 0 ELSE 1
  OBVIOUS
<1> HIDE DEF d
<1>8. /\ more \in Seq(Nat) /\ Len(more) = Len(kept) + 1 - d /\ more[Len(more)] = clock
      /\ \A i \in 1 .. Len(more) - 1 : more[i] = kept[i + d]
  BY <1>2, <1>6, <1>7, BoundedIs, SMTT(30)
<1>9. Len(longer) = T /\ Len(more) = T /\ longer \in Seq(Nat) /\ longer # <<>>
  <2>1. Len(longer) \in Nat /\ Len(more) \in Nat /\ longer \in Seq(Nat)
        /\ Len(longer) <= T /\ Len(more) <= Len(longer)
    BY <1>3, <1>8 DEF EndOf, Ascending
  <2> QED
    BY <1>3, <1>4, <1>5, <2>1
<1>10. Head(longer) = longer[1] /\ longer[1] = more[1] /\ more[1] \in Nat
  <2>1. more[1] = longer[1 + (Len(longer) - Len(more))]
    BY <1>3, <1>4, <1>9 DEF EndOf
  <2>2. 1 + (Len(longer) - Len(more)) = 1
    BY <1>4, <1>9
  <2> QED
    BY <1>4, <1>8, <1>9, <2>1, <2>2
<1>11. CASE Len(more) = 1
  <2>1. Head(longer) = clock
    BY <1>8, <1>10, <1>11
  <2>2. clock - clock <= W
    BY <1>4
  <2> QED
    BY <1>9, <2>1, <2>2
<1>12. CASE Len(more) # 1
  <2>1. 1 \in 1 .. Len(more) - 1
    BY <1>4, <1>9, <1>12
  <2>2. more[1] = kept[1 + d]
    BY <1>8, <2>1
  <2>3. d = 0 \/ d = 1
    BY <1>7
  <2>4. Len(kept) = T + d - 1 /\ 1 + d <= Len(kept) /\ 1 <= Len(kept)
    BY <1>4, <1>6, <1>8, <1>9, <1>12, <2>3
  <2>5. kept # <<>>
    BY <2>4
  <2>6. kept[1] = all[1 + (Len(all) - Len(kept))]
        /\ kept[1 + d] = all[(1 + d) + (Len(all) - Len(kept))]
    <3>1. 1 \in 1 .. Len(kept) /\ 1 + d \in 1 .. Len(kept)
      BY <1>6, <2>3, <2>4
    <3> QED
      BY <1>1, <3>1 DEF EndOf
  <2>7. kept[1] <= kept[1 + d]
    <3> DEFINE i == 1 + (Len(all) - Len(kept))
               j == (1 + d) + (Len(all) - Len(kept))
    <3>1. i \in 1 .. Len(all) /\ j \in 1 .. Len(all) /\ i <= j
      BY <1>6, <2>3, <2>4
    <3>2. kept[1] = all[i] /\ kept[1 + d] = all[j]
      BY <2>6
    <3> HIDE DEF i, j
    <3> QED
      BY <3>1, <3>2 DEF Ascending
  <2>8. kept[1] \in Nat /\ kept[1] + W >= clock
    BY <1>1, <1>6, <2>4, <2>5
  <2> QED
    BY <1>4, <1>9, <1>10, <2>2, <2>7, <2>8
<1> QED
  BY <1>9, <1>11, <1>12

LEMMA NothingPruned ==
  ASSUME clock \in Nat
  PROVE  pruneAttemptTimes(<<>>) = <<>>
<1>1. PICK i \in 1 .. Len(<<>>) + 1 : pruneAttemptTimes(<<>>) = SubSeq(<<>>, i, Len(<<>>))
  BY Pruned, <<>> \in Seq(Nat)
<1> QED
  BY <1>1

(* A cleanup forgets of a key only what does not matter any more.           *)
LEMMA CookieCleanupKeeps ==
  ASSUME CookieInv, NEW k \in Keys
  PROVE  /\ KeyInv(cleanupLocked[k], noted[k], answers[k], clock)
         /\ records[k] = NoRecord => cleanupLocked[k].attempts = <<>>
<1> DEFINE kept == pruneAttemptTimes(records[k].attempts)
           W == invalidCookieWindow
           r == records[k]
<1>1. clock \in Nat /\ KeyInv(r, noted[k], answers[k], clock) /\ W \in Nat
  BY CookieAssumption DEF CookieInv
<1>2. EndOf(kept, noted[k])
  <2>1. EndOf(r.attempts, noted[k]) /\ Ascending(noted[k], clock)
    BY <1>1 DEF KeyInv
  <2> QED
    BY <1>1, <2>1, PruneKeeps
<1>3. cleanupLocked[k] = IF kept = <<>> /\ r.lastEmitAt + W < clock THEN NoRecord
                         ELSE [r EXCEPT !.attempts = kept]
  BY DEF cleanupLocked
<1>4. r = NoRecord => kept = <<>>
  BY <1>1, NothingPruned DEF NoRecord
<1> HIDE DEF kept, r, W
<1>5. CASE kept = <<>> /\ r.lastEmitAt + W < clock
  <2>1. cleanupLocked[k] = NoRecord
    BY <1>3, <1>5
  <2>2. NoRecord \in CookieRecord /\ NoRecord.attempts = <<>> /\ NoRecord.lastEmitAt = 0
    BY DEF NoRecord, CookieRecord
  <2>3. EndOf(<<>>, noted[k])
    BY <1>1 DEF EndOf, KeyInv, Ascending
  <2>4. answers[k] # <<>> => Last(answers[k]) + W < clock
    BY <1>1, <1>5 DEF KeyInv, Remembers, W
  <2>5. Remembers(NoRecord, answers[k], clock)
    BY <2>2, <2>4 DEF Remembers, W
  <2> QED
    BY <1>1, <2>1, <2>2, <2>3, <2>5 DEF KeyInv
<1>6. CASE ~ (kept = <<>> /\ r.lastEmitAt + W < clock)
  <2>1. cleanupLocked[k] = [r EXCEPT !.attempts = kept]
    BY <1>3, <1>6
  <2>2. r \in CookieRecord /\ kept \in Seq(Nat)
    BY <1>1, <1>2 DEF KeyInv, EndOf
  <2>3. /\ cleanupLocked[k] \in CookieRecord /\ cleanupLocked[k].attempts = kept
        /\ cleanupLocked[k].lastEmitAt = r.lastEmitAt
    BY <2>1, <2>2 DEF CookieRecord
  <2>4. Remembers(cleanupLocked[k], answers[k], clock)
    BY <1>1, <2>3 DEF Remembers, KeyInv
  <2> QED
    BY <1>1, <1>2, <1>4, <2>3, <2>4 DEF KeyInv, r
<1> QED
  BY <1>5, <1>6

(* One key after a packet for it was noted in a record there was room for.  *)
LEMMA KeyNoted ==
  ASSUME clock \in Nat \ {0}, NEW q, NEW all, NEW answered, KeyInv(q, all, answered, clock),
         NEW r, r = [q EXCEPT !.attempts = appendBoundedAttempt(pruneAttemptTimes(@))],
         NEW longer, longer = appendBoundedAttempt(all)
  PROVE  /\ KeyInv(r, longer, answered, clock)
         /\ KeyInv([r EXCEPT !.lastEmitAt = clock], longer, Append(answered, clock), clock)
         /\ ~ Suppressed(r) =>
              /\ Len(longer) = invalidCookieThreshold
              /\ clock - Head(longer) <= invalidCookieWindow
              /\ answered # <<>> => clock - Last(answered) >= invalidCookieWindow
<1> DEFINE more == appendBoundedAttempt(pruneAttemptTimes(q.attempts))
           W == invalidCookieWindow
           T == invalidCookieThreshold
           e == [r EXCEPT !.lastEmitAt = clock]
           given == Append(answered, clock)
<1>1. /\ q \in CookieRecord /\ EndOf(q.attempts, all) /\ Ascending(all, clock)
      /\ answered \in Seq(Nat) /\ Remembers(q, answered, clock) /\ W \in Nat /\ T \in Nat
      /\ q.lastEmitAt \in Nat
  BY CookieAssumption DEF KeyInv, CookieRecord
<1>2. /\ EndOf(more, longer) /\ Ascending(longer, clock)
      /\ Len(more) >= T => Len(longer) = T /\ clock - Head(longer) <= W
  <2> DEFINE values == q.attempts
  <2>1. EndOf(values, all) /\ more = appendBoundedAttempt(pruneAttemptTimes(values))
    BY <1>1
  <2> HIDE DEF values, more
  <2> QED
    BY <1>1, <2>1, Noted DEF W, T
<1>3. r = [q EXCEPT !.attempts = more]
  OBVIOUS
<1> HIDE DEF more
<1>4. more \in Seq(Nat) /\ Len(more) \in Nat
  BY <1>2 DEF EndOf
<1>5. r \in CookieRecord /\ r.attempts = more /\ r.lastEmitAt = q.lastEmitAt
  BY <1>1, <1>3, <1>4 DEF CookieRecord
<1>6. KeyInv(r, longer, answered, clock)
  <2>1. Remembers(r, answered, clock)
    BY <1>1, <1>5 DEF Remembers
  <2> QED
    BY <1>1, <1>2, <1>5, <2>1 DEF KeyInv
<1>7. KeyInv(e, longer, given, clock)
  <2>1. e \in CookieRecord /\ e.attempts = more /\ e.lastEmitAt = clock
    BY <1>5 DEF CookieRecord
  <2>2. given \in Seq(Nat) /\ given # <<>> /\ Last(given) = clock
    BY <1>1 DEF Last
  <2> HIDE DEF e, given
  <2>3. Remembers(e, given, clock)
    BY <2>1, <2>2 DEF Remembers
  <2> QED
    BY <1>2, <2>1, <2>2, <2>3 DEF KeyInv
<1>8. ASSUME ~ Suppressed(r)
      PROVE  /\ Len(longer) = T /\ clock - Head(longer) <= W
             /\ answered # <<>> => clock - Last(answered) >= W
  <2>1. /\ ~ (Len(more) < T)
        /\ ~ (q.lastEmitAt # 0 /\ clock - q.lastEmitAt < W)
    BY <1>5, <1>8 DEF Suppressed
  <2>2. Len(more) >= T
    BY <1>1, <1>4, <2>1
  <2>3. Len(longer) = T /\ clock - Head(longer) <= W
    BY <1>2, <2>2
  <2>4. ASSUME answered # <<>> PROVE clock - Last(answered) >= W
    <3>1. Last(answered) \in Nat
      BY <1>1, <2>4 DEF Last
    <3>2. CASE q.lastEmitAt = 0
      <4>1. Last(answered) + W < clock
        BY <1>1, <2>4, <3>2 DEF Remembers
      <4> QED
        BY <1>1, <3>1, <4>1
    <3>3. CASE q.lastEmitAt # 0
      <4>1. Last(answered) = q.lastEmitAt
        BY <1>1, <2>4, <3>3 DEF Remembers
      <4> QED
        BY <1>1, <2>1, <3>3, <4>1
    <3> QED
      BY <3>2, <3>3
  <2> QED
    BY <2>3, <2>4
<1> QED
  BY <1>6, <1>7, <1>8

(* The records a packet finds, after the cleanup that makes room.           *)
LEMMA Found ==
  ASSUME CookieInv, NEW k \in Keys, NEW rs, rs \in {records, cleanupLocked}
  PROVE  /\ \A j \in Keys : KeyInv(rs[j], noted[j], answers[j], clock)
         /\ records[k] = NoRecord => rs[k].attempts = <<>>
         /\ rs = [j \in Keys |-> rs[j]]
<1>1. CASE rs = records
  BY <1>1 DEF CookieInv, NoRecord
<1>2. CASE rs = cleanupLocked
  <2>1. rs = [j \in Keys |-> rs[j]]
    BY <1>2 DEF cleanupLocked
  <2> QED
    BY <1>2, <2>1, CookieCleanupKeeps
<1> QED
  BY <1>1, <1>2

(* What a packet does: the record and the history of its key, and an answer *)
(* only within what the property allows.                                    *)
LEMMA CookieNoteKeeps ==
  ASSUME CookieInv, NEW k \in Keys, Note(k)
  PROVE  CookieInv' /\ (answers'[k] # answers[k] =>
                          /\ Len(noted'[k]) = invalidCookieThreshold
                          /\ clock - Head(noted'[k]) <= invalidCookieWindow
                          /\ answers[k] # <<>> => clock - Last(answers[k]) >= invalidCookieWindow)
         /\ \A j \in Keys \ {k} : answers'[j] = answers[j]
<1> DEFINE rs == IF k \notin Records /\ Cardinality(Records) >= maxRecords THEN cleanupLocked
                 ELSE records
           room == k \in Records \/ Cardinality({j \in Keys : rs[j] # NoRecord}) < maxRecords
           r == [rs[k] EXCEPT !.attempts = appendBoundedAttempt(pruneAttemptTimes(@))]
           longer == appendBoundedAttempt(noted[k])
<1>1. /\ noted' = [noted EXCEPT ![k] = longer]
      /\ \/ ~ room /\ records' = rs /\ answers' = answers
         \/ /\ room /\ Suppressed(r)
            /\ records' = [rs EXCEPT ![k] = r] /\ answers' = answers
         \/ /\ room /\ ~ Suppressed(r)
            /\ records' = [rs EXCEPT ![k] = [r EXCEPT !.lastEmitAt = clock]]
            /\ answers' = [answers EXCEPT ![k] = Append(@, clock)]
      /\ clock' = clock
  BY DEF Note
<1>2. rs \in {records, cleanupLocked}
  OBVIOUS
<1>3. r = [rs[k] EXCEPT !.attempts = appendBoundedAttempt(pruneAttemptTimes(@))]
      /\ longer = appendBoundedAttempt(noted[k])
  OBVIOUS
<1>4. ~ room => records[k] = NoRecord
  BY DEF Records
<1> HIDE DEF rs, room, r, longer
<1>5. /\ \A j \in Keys : KeyInv(rs[j], noted[j], answers[j], clock)
      /\ records[k] = NoRecord => rs[k].attempts = <<>>
      /\ rs = [j \in Keys |-> rs[j]]
  BY <1>2, Found
<1>6. /\ clock \in Nat \ {0} /\ noted = [j \in Keys |-> noted[j]]
      /\ answers = [j \in Keys |-> answers[j]]
  BY DEF CookieInv
<1>7. /\ KeyInv(r, longer, answers[k], clock)
      /\ KeyInv([r EXCEPT !.lastEmitAt = clock], longer, Append(answers[k], clock), clock)
      /\ ~ Suppressed(r) =>
           /\ Len(longer) = invalidCookieThreshold
           /\ clock - Head(longer) <= invalidCookieWindow
           /\ answers[k] # <<>> => clock - Last(answers[k]) >= invalidCookieWindow
  <2> DEFINE q == rs[k]
             all == noted[k]
             answered == answers[k]
  <2>1. /\ KeyInv(q, all, answered, clock) /\ longer = appendBoundedAttempt(all)
        /\ r = [q EXCEPT !.attempts = appendBoundedAttempt(pruneAttemptTimes(@))]
    BY <1>3, <1>5
  <2> HIDE DEF q, all, answered
  <2>2. /\ KeyInv(r, longer, answered, clock)
        /\ KeyInv([r EXCEPT !.lastEmitAt = clock], longer, Append(answered, clock), clock)
        /\ ~ Suppressed(r) =>
             /\ Len(longer) = invalidCookieThreshold
             /\ clock - Head(longer) <= invalidCookieWindow
             /\ answered # <<>> => clock - Last(answered) >= invalidCookieWindow
    BY <1>6, <2>1, KeyNoted
  <2> QED
    BY <2>2 DEF answered
<1>8. noted' = [j \in Keys |-> noted'[j]] /\ noted'[k] = longer
      /\ \A j \in Keys \ {k} : noted'[j] = noted[j]
  BY <1>1, <1>6
<1> DEFINE Kept == /\ records' = [j \in Keys |-> records'[j]] /\ answers' = [j \in Keys |-> answers'[j]]
                   /\ KeyInv(records'[k], longer, answers'[k], clock)
                   /\ \A j \in Keys \ {k} : records'[j] = rs[j] /\ answers'[j] = answers[j]
<1>9. ASSUME ~ room, records' = rs, answers' = answers
      PROVE  Kept
  <2>1. rs[k].attempts = <<>>
    BY <1>4, <1>5, <1>9
  <2>2. EndOf(<<>>, longer)
    BY <1>7 DEF KeyInv, EndOf, Ascending
  <2>3. KeyInv(rs[k], longer, answers[k], clock)
    BY <1>5, <1>7, <2>1, <2>2 DEF KeyInv
  <2> QED
    BY <1>5, <1>6, <1>9, <2>3
<1>10. ASSUME Suppressed(r), records' = [rs EXCEPT ![k] = r], answers' = answers
       PROVE  Kept
  <2>1. records'[k] = r
    BY <1>5, <1>10
  <2> QED
    BY <1>5, <1>6, <1>7, <1>10, <2>1
<1>11. ASSUME ~ Suppressed(r), records' = [rs EXCEPT ![k] = [r EXCEPT !.lastEmitAt = clock]],
              answers' = [answers EXCEPT ![k] = Append(@, clock)]
       PROVE  Kept
  <2>1. records'[k] = [r EXCEPT !.lastEmitAt = clock]
    BY <1>5, <1>11
  <2>2. answers'[k] = Append(answers[k], clock)
    BY <1>6, <1>11
  <2> QED
    BY <1>5, <1>6, <1>7, <1>11, <2>1, <2>2
<1>12. Kept /\ (answers'[k] # answers[k] => ~ Suppressed(r))
  <2> HIDE DEF Kept
  <2> QED
    BY <1>1, <1>9, <1>10, <1>11
<1>13. ASSUME NEW j \in Keys PROVE KeyInv(records'[j], noted'[j], answers'[j], clock)
  <2>1. CASE j = k
    BY <1>8, <1>12, <2>1
  <2>2. CASE j # k
    BY <1>5, <1>8, <1>12, <2>2
  <2> QED
    BY <2>1, <2>2
<1>14. CookieInv'
  <2>1. clock' = clock
    BY <1>1
  <2> QED
    BY <1>6, <1>8, <1>12, <1>13, <2>1 DEF CookieInv, KeyInv, Ascending, Remembers
<1> QED
  BY <1>7, <1>8, <1>12, <1>14

LEMMA CookieNext ==
  ASSUME CookieInv, TrackerNext \/ UNCHANGED trackerVars
  PROVE  CookieInv' /\ (\A k \in Keys : answers'[k] # answers[k] =>
                          /\ Len(noted'[k]) = invalidCookieThreshold
                          /\ clock - Head(noted'[k]) <= invalidCookieWindow
                          /\ answers[k] # <<>> => clock - Last(answers[k]) >= invalidCookieWindow)
<1>1. ASSUME NEW k \in Keys, Note(k)
      PROVE  CookieInv' /\ \A j \in Keys : answers'[j] # answers[j] =>
                             /\ Len(noted'[j]) = invalidCookieThreshold
                             /\ clock - Head(noted'[j]) <= invalidCookieWindow
                             /\ answers[j] # <<>> => clock - Last(answers[j]) >= invalidCookieWindow
  BY <1>1, CookieNoteKeeps
<1>2. CASE CleanupCookies
  <2>1. records' = cleanupLocked /\ clock' = clock /\ noted' = noted /\ answers' = answers
    BY <1>2 DEF CleanupCookies
  <2>2. records' = [k \in Keys |-> records'[k]]
    BY <2>1 DEF cleanupLocked
  <2>3. \A k \in Keys : KeyInv(records'[k], noted[k], answers[k], clock)
    BY <2>1, CookieCleanupKeeps
  <2> QED
    BY <2>1, <2>2, <2>3 DEF CookieInv, KeyInv, Ascending, Remembers
<1>3. CASE TrackerTick
  <2>1. clock' = clock + 1 /\ records' = records /\ noted' = noted /\ answers' = answers
    BY <1>3 DEF TrackerTick
  <2>2. clock \in Nat \ {0} /\ clock' \in Nat \ {0} /\ invalidCookieWindow \in Nat
    BY <2>1, CookieAssumption DEF CookieInv
  <2>3. ASSUME NEW k \in Keys PROVE KeyInv(records[k], noted[k], answers[k], clock')
    <3> DEFINE all == noted[k]
               r == records[k]
               answered == answers[k]
    <3>1. KeyInv(r, all, answered, clock)
      BY DEF CookieInv
    <3> HIDE DEF all, r, answered
    <3>2. Ascending(all, clock')
      <4>1. \A i \in 1 .. Len(all) : all[i] \in Nat /\ all[i] <= clock
        BY <3>1 DEF KeyInv, Ascending
      <4>2. \A i \in 1 .. Len(all) : all[i] <= clock'
        BY <2>1, <2>2, <4>1
      <4> QED
        BY <3>1, <4>2 DEF KeyInv, Ascending
    <3>3. Remembers(r, answered, clock')
      <4>1. answered # <<>> => Last(answered) \in Nat
        BY <3>1 DEF KeyInv, Last
      <4> QED
        BY <2>1, <2>2, <3>1, <4>1 DEF KeyInv, Remembers
    <3>4. KeyInv(r, all, answered, clock')
      BY <3>1, <3>2, <3>3 DEF KeyInv
    <3> QED
      BY <3>4 DEF all, r, answered
  <2> QED
    BY <2>1, <2>2, <2>3 DEF CookieInv, KeyInv, Ascending, Remembers
<1>4. CASE UNCHANGED trackerVars
  <2>1. clock' = clock /\ records' = records /\ noted' = noted /\ answers' = answers
    BY <1>4 DEF trackerVars
  <2> QED
    BY <2>1 DEF CookieInv, KeyInv, Ascending, Remembers
<1> QED
  BY <1>1, <1>2, <1>3, <1>4 DEF TrackerNext

LEMMA CookieStart == TrackerInit => CookieInv
<1> SUFFICES ASSUME TrackerInit PROVE CookieInv
  OBVIOUS
<1>1. ASSUME NEW k \in Keys PROVE KeyInv(records[k], noted[k], answers[k], clock)
  <2>1. records[k] = NoRecord /\ noted[k] = <<>> /\ answers[k] = <<>> /\ clock = 1
    BY DEF TrackerInit
  <2>2. /\ NoRecord \in CookieRecord /\ NoRecord.attempts = <<>> /\ NoRecord.lastEmitAt = 0
    BY DEF NoRecord, CookieRecord
  <2>3. EndOf(<<>>, <<>>) /\ Ascending(<<>>, 1)
    BY CookieAssumption DEF EndOf, Ascending
  <2> QED
    BY <2>1, <2>2, <2>3 DEF KeyInv, Remembers
<1> QED
  BY <1>1 DEF TrackerInit, CookieInv

(* A wrong cookie is answered only after the threshold of such packets, all *)
(* within the window, and at least a window after the answer before, also   *)
(* when the record made room for another in between (Note, cleanupLocked).  *)
THEOREM AnswersAreApart == Spec => EmitsApart
<1>1. Init => CookieInv
  BY CookieStart DEF Init
<1>2. [Next]_vars => TrackerNext \/ UNCHANGED trackerVars
  BY DEF Next, vars, trackerVars, connectVars, tableVars, procVars, storeVars
<1>3. CookieInv /\ [Next]_vars => CookieInv'
  BY <1>2, CookieNext
<1>4. CookieInv /\ [Next]_vars =>
        [\A k \in Keys : answers'[k] # answers[k] =>
           /\ Len(noted'[k]) = invalidCookieThreshold
           /\ clock - Head(noted'[k]) <= invalidCookieWindow
           /\ answers[k] # <<>> => clock - Last(answers[k]) >= invalidCookieWindow]_trackerVars
  BY <1>2, CookieNext
<1> QED
  BY <1>1, <1>3, <1>4, PTL DEF Spec, EmitsApart
==============================================================================
