---------------------------- MODULE FragmentStore ----------------------------
(***************************************************************************)
(* Fragments of a packet are collected until all are there                 *)
(* (masterdns/internal/fragmentstore/store.go, with its caller             *)
(* collectDNSQueryFragments).  Every method runs under the store's lock.   *)
(*                                                                         *)
(* A fragment is its length: contents are never looked at.  "partial" and  *)
(* "completed" are kept oldest first, which is all that their times decide: *)
(* what has expired when a purge runs is a beginning of the sequence.      *)
(***************************************************************************)
EXTENDS ByteSums, SequencesExt

CONSTANTS
  FragKeys,           (* session and sequence number                         *)
  Totals,             (* numbers of fragments a packet claims                *)
  Lengths,            (* lengths of a fragment                               *)
  maxPartial, maxCompleted,
  maxFragmentBytes, maxAssembledBytes, maxStoreBytes,
  CountRange,         (* what the count of an entry wraps at: 256            *)
  MaxCollects         (* bound: fragments that arrive                        *)

ASSUME FragmentAssumption ==
  /\ CountRange \in Nat /\ Totals \subseteq 1 .. CountRange - 1 /\ Lengths \subseteq Nat
  /\ maxPartial \in Nat \ {0} /\ maxCompleted \in Nat \ {0} /\ maxStoreBytes \in Nat

VARIABLES
  partial,    (* s.items: [key, total, chunks, count, bytes], oldest first,  *)
              (* with a history: whether the count has wrapped               *)
  completed,  (* s.completed: keys, oldest first                             *)
  bytes,      (* s.bytes                                                     *)
  collects    (* bound: fragments so far                                     *)

fragVars == <<partial, completed, bytes, collects>>

Nil == -1   (* the slot of a fragment that has not come *)

FragInit == partial = <<>> /\ completed = <<>> /\ bytes = 0 /\ collects = 0

Holds(items, key) == \E i \in DOMAIN items : items[i].key = key
Place(items, key) == CHOOSE i \in DOMAIN items : items[i].key = key
Others(items, key) == IF Holds(items, key) THEN RemoveAt(items, Place(items, key)) ELSE items
Bytes(items) == Total([i \in DOMAIN items |-> items[i].bytes])

(* A store is [items, bytes].  Variant: the bytes are not given back. *)
DeleteKeepsBytes(st, key) == [items |-> Others(st.items, key), bytes |-> st.bytes]

deleteItemLocked(st, key) ==
  LET held == st.items[Place(st.items, key)].bytes
  IN IF ~Holds(st.items, key) THEN st
     ELSE [items |-> Others(st.items, key),
           bytes |-> IF st.bytes > held THEN st.bytes - held ELSE 0]

(* The oldest entry but the one of "key". *)
evictOldestPartialExceptLocked(st, key) ==
  deleteItemLocked(st, Others(st.items, key)[1].key)

(* Entries go, the oldest other first, until there is room; with none left  *)
(* to go the fragment is refused, and those that went are gone.             *)
MakeRoom(st, key, delta) ==
  LET others == Others(st.items, key)
      After[n \in 0 .. Len(others)] ==
        IF n = 0 THEN st ELSE evictOldestPartialExceptLocked(After[n - 1], key)
      enough == {n \in 0 .. Len(others) : After[n].bytes + delta <= maxStoreBytes}
  IN IF enough = {} THEN After[Len(others)]
     ELSE After[CHOOSE n \in enough : \A m \in enough : n <= m]

evictOldestCompletedLocked(done) == Tail(done)

Unmarked(done, key) ==
  IF Contains(done, key) THEN RemoveAt(done, CHOOSE i \in DOMAIN done : done[i] = key) ELSE done

Mark(done, key) ==
  Append(IF ~Contains(done, key) /\ Len(done) >= maxCompleted
         THEN evictOldestCompletedLocked(done) ELSE Unmarked(done, key), key)

(* purgeLocked, once a second at most: what has expired goes. *)
Purged(p, c) ==
  [st |-> [items |-> SubSeq(partial, p + 1, Len(partial)),
           bytes |-> bytes - Bytes(SubSeq(partial, 1, p))],
   done |-> SubSeq(completed, c + 1, Len(completed))]

Publish(st, done) == partial' = st.items /\ bytes' = st.bytes /\ completed' = done

(* The entry a fragment goes to: a new one if there is none of this total.  *)
Opened(st, key, total) ==
  LET room == IF ~Holds(st.items, key) /\ Len(st.items) >= maxPartial
              THEN evictOldestPartialExceptLocked(st, key) ELSE st
      without == deleteItemLocked(room, key)
      current == [key |-> key, total |-> total, chunks |-> [i \in 0 .. total - 1 |-> Nil],
                  count |-> 0, bytes |-> 0, wrapped |-> FALSE]
  IN IF Holds(st.items, key) /\ st.items[Place(st.items, key)].total = total THEN st
     ELSE [items |-> Append(without.items, current), bytes |-> without.bytes]

(* An empty fragment leaves a new slot as it is, and counts nevertheless;   *)
(* the count is one byte wide.                                              *)
Counted(e) == IF e.count + 1 = CountRange THEN 0 ELSE e.count + 1

Whole(e) == e.count >= e.total /\ \A i \in DOMAIN e.chunks : e.chunks[i] # Nil

Filled(e, id, len) ==
  LET empty == e.chunks[id] = Nil
  IN [e EXCEPT !.chunks[id] = IF empty /\ len = 0 THEN Nil ELSE len,
               !.count = IF empty THEN Counted(e) ELSE @,
               !.bytes = @ + len - (IF empty THEN 0 ELSE e.chunks[id]),
               !.wrapped = @ \/ (empty /\ Counted(e) = 0)]

(* Collect for a packet of several fragments. *)
CollectOne(key, total, id, len, st, done) ==
  LET opened == Opened(st, key, total)
      entry == opened.items[Place(opened.items, key)]
      filled == Filled(entry, id, len)
      delta == filled.bytes - entry.bytes
      room == MakeRoom(opened, key, delta)
      kept == [items |-> [room.items EXCEPT ![Place(room.items, key)] = filled],
               bytes |-> room.bytes + delta]
  IN IF filled.bytes > maxAssembledBytes THEN Publish(opened, done)
     ELSE IF room.bytes + delta > maxStoreBytes THEN Publish(room, done)
     ELSE IF Whole(filled) THEN Publish(deleteItemLocked(kept, key), Mark(done, key))
     ELSE Publish(kept, done)

(* A packet in one fragment is complete at once.  The mark of a finished    *)
(* packet refuses it; one that is over and not purged yet does not.         *)
Collect ==
  /\ collects < MaxCollects
  /\ \E key \in FragKeys, total \in Totals, len \in Lengths, p \in 0 .. Len(partial),
        c \in 0 .. Len(completed) :
       LET after == Purged(p, c)
       IN /\ len <= maxFragmentBytes
          /\ \/ Contains(after.done, key) /\ Publish(after.st, after.done)
             \/ total = 1 /\ Publish(deleteItemLocked(after.st, key), Mark(after.done, key))
             \/ /\ total > 1
                /\ \E id \in 0 .. total - 1 : CollectOne(key, total, id, len, after.st, after.done)
  /\ collects' = collects + 1

Purge ==
  /\ \E p \in 0 .. Len(partial), c \in 0 .. Len(completed) :
       p + c > 0 /\ Publish(Purged(p, c).st, Purged(p, c).done)
  /\ UNCHANGED collects

(* All that a closed session has collected goes. *)
RemoveIf ==
  \E key \in FragKeys :
    /\ Publish(deleteItemLocked([items |-> partial, bytes |-> bytes], key), Unmarked(completed, key))
    /\ UNCHANGED collects

FragNext == Collect \/ Purge \/ RemoveIf

------------------------------------------------------------------------------
(* The bytes of the fragments of an entry that have come. *)
Held(e) == [i \in 1 .. e.total |-> IF e.chunks[i - 1] = Nil THEN 0 ELSE e.chunks[i - 1]]

(* The budgets are kept to the byte: after any mixture of duplicates, empty *)
(* fragments, changed totals, evictions and expiry s.bytes is what the      *)
(* entries hold and no limit is passed; and a packet that has all its       *)
(* fragments does not take room any more, unless empty fragments have made  *)
(* its count wrap (Collect, deleteItemLocked).                              *)
FragmentBudget ==
  /\ bytes = Bytes(partial) /\ bytes <= maxStoreBytes
  /\ Len(partial) <= maxPartial /\ Len(completed) <= maxCompleted
  /\ \A i \in DOMAIN partial :
       LET e == partial[i]
       IN e.bytes = Total(Held(e)) /\ (e.wrapped \/ \E n \in DOMAIN e.chunks : e.chunks[n] = Nil)
=============================================================================
