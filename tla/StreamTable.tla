----------------------------- MODULE StreamTable -----------------------------
(***************************************************************************)
(* The streams of one session and what it remembers of closed ones         *)
(* (sessionRecord in masterdns/internal/udpserver/session.go, Stream_server *)
(* in stream_server.go).  A client may use a stream's number again: each   *)
(* stream made is an element of "stream", and the table holds its index.   *)
(*                                                                         *)
(* A stream is closed in steps, by whoever runs finalizeAfterARQClose      *)
(* first: "final" is the step that comes next.                             *)
(***************************************************************************)
EXTENDS Naturals, SequencesExt

CONSTANTS
  Ids,                          (* stream numbers, without the virtual stream 0 *)
  MaxActiveStreamsPerSession,
  RecentlyClosedCap,
  MaxStreams, MaxClosings       (* bounds: streams made, tombstones written     *)

ASSUME TableAssumption == /\ IsFiniteSet(Ids)
                          /\ MaxActiveStreamsPerSession \in Nat /\ RecentlyClosedCap \in Nat

VARIABLES
  closed,              (* r.closedFlag                                         *)
  Streams,             (* id -> index in stream, 0 for none                    *)
  ActiveStreams,       (* set of ids                                           *)
  stream,              (* every stream made                                    *)
  RecentlyClosed,      (* id -> its closing, 0 for none                        *)
  RecentlyClosedHeap,  (* [id, at], oldest first                               *)
  closings,            (* closings so far: the time of the last one            *)
  expired              (* closings whose time to live is over                  *)

tableVars == <<closed, Streams, ActiveStreams, stream, RecentlyClosed, RecentlyClosedHeap,
               closings, expired>>
tombVars == <<RecentlyClosed, RecentlyClosedHeap, closings, expired>>

None == 0

(* conn: UpstreamConn, which is there exactly while Connected is set, and   *)
(* which the ARQ knows as its localConn; gone: CloseTime is set.            *)
NewStreamServer(id) ==
  [id |-> id, conn |-> None, gone |-> FALSE, arqClosed |-> FALSE, final |-> "no"]

TableInit ==
  /\ closed = FALSE
  /\ Streams = [id \in Ids |-> None] /\ ActiveStreams = {} /\ stream = <<>>
  /\ RecentlyClosed = [id \in Ids |-> 0] /\ RecentlyClosedHeap = <<>>
  /\ closings = 0 /\ expired = 0

InTable == {id \in Ids : Streams[id] # None}
Tombs(r) == {id \in Ids : r[id] # 0}

isRecentlyClosed(id) == RecentlyClosed[id] > expired

canCreateAdditionalStreamLocked(id) ==
  Streams[id] # None \/ Cardinality(InTable) < MaxActiveStreamsPerSession

(* The stream of the number, a new one if there is room; None otherwise.    *)
getOrCreateStream(id) ==
  IF closed THEN None
  ELSE IF Streams[id] # None THEN Streams[id]
  ELSE IF canCreateAdditionalStreamLocked(id) THEN Len(stream) + 1 ELSE None

(* What getOrCreateStream leaves behind when it returned "s".               *)
Created(id, s) ==
  IF s = Len(stream) + 1
  THEN /\ s <= MaxStreams
       /\ stream' = Append(stream, NewStreamServer(id))
       /\ Streams' = [Streams EXCEPT ![id] = s]
       /\ ActiveStreams' = ActiveStreams \union {id}
       /\ RecentlyClosed' = [RecentlyClosed EXCEPT ![id] = 0]
       /\ UNCHANGED <<closed, RecentlyClosedHeap, closings, expired>>
  ELSE UNCHANGED tableVars

------------------------------------------------------------------------------
(* Tombstones: [map, heap].  An entry of the heap counts only while the map *)
(* has it with the same time.                                               *)

Counts(t, i) == t.map[t.heap[i].id] = t.heap[i].at

(* The first entries that no longer count or whose time is over.            *)
pruneRecentlyClosedLocked(t) ==
  LET Goes(i) == ~Counts(t, i) \/ t.heap[i].at <= expired
      stays == {i \in DOMAIN t.heap : ~Goes(i)}
      first == IF stays = {} THEN Len(t.heap) + 1
               ELSE CHOOSE i \in stays : \A j \in stays : i <= j
  IN [map |-> [id \in Ids |-> IF \E i \in 1 .. first - 1 :
                                   t.heap[i].id = id /\ Counts(t, i)
                              THEN 0 ELSE t.map[id]],
      heap |-> SubSeq(t.heap, first, Len(t.heap))]

(* The oldest go until the map is not above its capacity.                   *)
evictOldestRecentlyClosedLocked(t) ==
  LET After[n \in 0 .. Len(t.heap)] ==
        IF n = 0 THEN t
        ELSE LET u == After[n - 1]
             IN [map |-> IF Counts(u, 1) THEN [u.map EXCEPT ![u.heap[1].id] = 0] ELSE u.map,
                 heap |-> Tail(u.heap)]
      enough == {n \in DOMAIN After : Cardinality(Tombs(After[n].map)) <= RecentlyClosedCap}
  IN IF enough = {} THEN After[Len(t.heap)]
     ELSE After[CHOOSE n \in enough : \A m \in enough : n <= m]

Tombstones == [map |-> RecentlyClosed, heap |-> RecentlyClosedHeap]

(* Variant: a number that is remembered already has its entry in the heap.  *)
PushOnce(t, id) ==
  [map |-> [t.map EXCEPT ![id] = closings + 1],
   heap |-> IF t.map[id] # 0 THEN t.heap ELSE Append(t.heap, [id |-> id, at |-> closings + 1])]

Push(t, id) ==
  [map |-> [t.map EXCEPT ![id] = closings + 1],
   heap |-> Append(t.heap, [id |-> id, at |-> closings + 1])]

noteStreamClosed(id) ==
  IF closed THEN UNCHANGED tombVars
  ELSE LET t == evictOldestRecentlyClosedLocked(Push(pruneRecentlyClosedLocked(Tombstones), id))
       IN /\ closings < MaxClosings
          /\ RecentlyClosed' = t.map /\ RecentlyClosedHeap' = t.heap
          /\ closings' = closings + 1
          /\ UNCHANGED expired

(* Time passes; the tombstones are swept now and then. *)
Age == /\ ~closed /\ expired < closings /\ expired' = expired + 1
       /\ UNCHANGED <<closed, Streams, ActiveStreams, stream, RecentlyClosed,
                      RecentlyClosedHeap, closings>>

SweepRecentlyClosedStreams ==
  LET t == pruneRecentlyClosedLocked(Tombstones)
  IN /\ ~closed /\ t # Tombstones
     /\ RecentlyClosed' = t.map /\ RecentlyClosedHeap' = t.heap
     /\ UNCHANGED <<closed, Streams, ActiveStreams, stream, closings, expired>>

(* removeStream, before the tombstone: whatever stream has the number goes. *)
removeStream(id) ==
  IF closed THEN UNCHANGED <<Streams, ActiveStreams>>
  ELSE Streams' = [Streams EXCEPT ![id] = None] /\ ActiveStreams' = ActiveStreams \ {id}

deactivateStream(id) ==
  ActiveStreams' = IF closed THEN ActiveStreams ELSE ActiveStreams \ {id}

(* The table alone, whoever calls it: its callers are module StreamConnect. *)
TableNext ==
  \/ \E id \in Ids : Created(id, getOrCreateStream(id))
  \/ /\ \E id \in Ids :
          \/ removeStream(id) /\ UNCHANGED tombVars
          \/ noteStreamClosed(id) /\ UNCHANGED <<Streams, ActiveStreams>>
          \/ deactivateStream(id) /\ UNCHANGED <<Streams, tombVars>>
     /\ UNCHANGED <<closed, stream>>
  \/ Age \/ SweepRecentlyClosedStreams

------------------------------------------------------------------------------
(* The table keeps its limit; only streams of the table take part in the    *)
(* round robin; and what is remembered of closed streams is bounded and has *)
(* the heap entry that will let it go, however often a number is closed,    *)
(* opened and closed again (getOrCreateStream, noteStreamClosed).           *)
StreamBook ==
  /\ Cardinality(InTable) <= MaxActiveStreamsPerSession
  /\ ActiveStreams \subseteq InTable
  /\ Cardinality(Tombs(RecentlyClosed)) <= RecentlyClosedCap
  /\ \A id \in Tombs(RecentlyClosed) :
       Contains(RecentlyClosedHeap, [id |-> id, at |-> RecentlyClosed[id]])
=============================================================================
