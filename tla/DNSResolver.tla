----------------------------- MODULE DNSResolver -----------------------------
(***************************************************************************)
(* Queries of clients answered by the server: from its cache, by waiting   *)
(* for another query for the same name, or by asking upstream              *)
(* (buildDNSQueryResponsePayload in udpserver/dns_tunnel.go, the in-flight *)
(* manager and the cache, dnscache/store.go).  A handler is a worker that  *)
(* serves one query; it reads the clock once, when it begins, and goes on  *)
(* using that time.                                                        *)
(*                                                                         *)
(* An answer is the time it was obtained, the life its records give it and *)
(* its length.  Timers fire on time: the clock waits for them.             *)
(***************************************************************************)
EXTENDS ByteSums, SequencesExt

CONSTANTS
  Workers, Keys,
  TTLs, Sizes,            (* what upstream may answer                          *)
  cacheTTL,
  inflightTimeout,        (* age at which an entry has no leader any more      *)
  DNSInflightWaitTimeout,
  shardLimit,             (* records one shard keeps; the keys share a shard   *)
  maxResponseBytes,
  MaxClock, MaxQueries    (* bounds                                            *)

ASSUME TimesAssumption ==
  /\ TTLs \subseteq Nat /\ Sizes \subseteq Nat
  /\ cacheTTL \in Nat /\ inflightTimeout \in Nat /\ DNSInflightWaitTimeout \in Nat
  /\ shardLimit \in Nat /\ maxResponseBytes \in Nat

VARIABLES
  clock,
  inflight,       (* m.items: for each key the entries made and not forgotten  *)
  entries,        (* every entry made: [born, done, answer]                    *)
  cache,          (* the shard, least recently used first: [key, answer, expires] *)
  responseBytes,
  worker,         (* what each worker is doing                                 *)
  late,           (* history: time the last answer from the cache had outlived *)
  queries         (* bound: queries so far                                     *)

dnsVars == <<clock, inflight, entries, cache, responseBytes, worker, late, queries>>

NoAnswer == [obtained |-> 0, ttl |-> 0, size |-> 0]
Free == [at |-> "free", key |-> 0, now |-> 0, since |-> 0, entry |-> 0,
         answer |-> NoAnswer]

DNSInit ==
  /\ clock = 0
  /\ inflight = [k \in Keys |-> 0] /\ entries = <<>>
  /\ cache = <<>> /\ responseBytes = 0
  /\ worker = [w \in Workers |-> Free]
  /\ late = 0
  /\ queries = 0

(* Time does not pass over a timer that is due, nor between two steps of a  *)
(* worker that waits for nothing.                                           *)
Tick ==
  /\ clock < MaxClock
  /\ \A w \in Workers : worker[w].at \in {"free", "lookup", "wait"}
  /\ \A w \in Workers : worker[w].at = "wait" => clock < worker[w].since + DNSInflightWaitTimeout
  /\ clock' = clock + 1
  /\ UNCHANGED <<inflight, entries, cache, responseBytes, worker, late, queries>>

Set(w, r) == worker' = [worker EXCEPT ![w] = r]

------------------------------------------------------------------------------
(* The cache. *)

Cached(key) == {i \in DOMAIN cache : cache[i].key = key}
CacheBytes(c) == Total([i \in DOMAIN c |-> c[i].answer.size])

(* How long ago the records of an answer lost their life. *)
Outlived(answer) ==
  LET life == answer.obtained + answer.ttl IN IF clock > life THEN clock - life ELSE 0

(* GetReady: an entry that has expired is removed, one that is served has   *)
(* been used last.  "served" and "missed" are what the worker does next.    *)
GetReady(key, now, served, missed) ==
  \/ /\ Cached(key) = {}
     /\ UNCHANGED <<cache, responseBytes, late>> /\ missed
  \/ \E i \in Cached(key) :
       IF now >= cache[i].expires
       THEN /\ cache' = RemoveAt(cache, i)
            /\ responseBytes' = responseBytes - cache[i].answer.size
            /\ UNCHANGED late /\ missed
       ELSE /\ cache' = Append(RemoveAt(cache, i), cache[i])
            /\ late' = Outlived(cache[i].answer)
            /\ UNCHANGED responseBytes /\ served

(* Variant: the records' own life does not count. *)
CacheLifeOnly(answer) == cacheTTL

Effective(answer) == IF answer.ttl > cacheTTL THEN cacheTTL ELSE answer.ttl

(* Variant: an entry pushed out keeps its bytes in the count. *)
EvictKeepsBytes(c) == [items |-> SubSeq(c, Len(c) - shardLimit + 1, Len(c)), freed |-> 0]

evictIfNeededLocked(c) ==
  LET over == IF Len(c) > shardLimit THEN Len(c) - shardLimit ELSE 0
  IN [items |-> SubSeq(c, over + 1, Len(c)), freed |-> CacheBytes(SubSeq(c, 1, over))]

(* SetReady: an answer without life, or one the budget has no room for,     *)
(* removes the old one.  The bytes of a new entry are counted before old    *)
(* ones are pushed out.                                                     *)
SetReady(key, answer, now) ==
  LET old == Cached(key)
      place == CHOOSE i \in old : TRUE
      without == IF old = {} THEN cache ELSE RemoveAt(cache, place)
      oldSize == IF old = {} THEN 0 ELSE cache[place].answer.size
      kept == evictIfNeededLocked(
                Append(without, [key |-> key, answer |-> answer, expires |-> now + Effective(answer)]))
      full == answer.size > oldSize /\ responseBytes + answer.size - oldSize > maxResponseBytes
  IN IF answer.ttl = 0 \/ full
     THEN cache' = without /\ responseBytes' = responseBytes - oldSize
     ELSE cache' = kept.items /\ responseBytes' = responseBytes + answer.size - oldSize - kept.freed

------------------------------------------------------------------------------
(* A query. *)

Ask(w) ==
  /\ worker[w].at = "free" /\ queries < MaxQueries
  /\ queries' = queries + 1
  /\ \E key \in Keys :
       GetReady(key, clock, UNCHANGED worker,
                Set(w, [Free EXCEPT !.at = "acquire", !.key = key, !.now = clock]))
  /\ UNCHANGED <<clock, inflight, entries>>

(* Acquire: an entry that is too old has no leader; a clean-up now and then *)
(* removes it for every key.                                                *)
Acquire(w) ==
  LET now == worker[w].now
      Fresh(e) == e # 0 /\ now < entries[e].born + inflightTimeout
      mine == inflight[worker[w].key]
  IN /\ worker[w].at = "acquire"
     /\ \E cleanUp \in BOOLEAN :
          LET kept == [k \in Keys |-> IF cleanUp /\ ~Fresh(inflight[k]) THEN 0 ELSE inflight[k]]
          IN IF Fresh(mine)
             THEN /\ inflight' = kept /\ UNCHANGED entries
                  /\ Set(w, [worker[w] EXCEPT !.at = "wait", !.entry = mine, !.since = clock])
             ELSE /\ entries' = Append(entries, [born |-> now, done |-> FALSE, answer |-> NoAnswer])
                  /\ inflight' = [kept EXCEPT ![worker[w].key] = Len(entries')]
                  /\ Set(w, [worker[w] EXCEPT !.at = "lookup", !.entry = Len(entries')])
     /\ UNCHANGED <<clock, cache, responseBytes, late, queries>>

(* resolveDNSUpstream, which is module DNSUpstream: an answer or none. *)
Lookup(w) ==
  /\ worker[w].at = "lookup"
  /\ \E answer \in {NoAnswer} \union [obtained : {clock}, ttl : TTLs, size : Sizes] :
       Set(w, [worker[w] EXCEPT !.at = "resolve", !.answer = answer])
  /\ UNCHANGED <<clock, inflight, entries, cache, responseBytes, late, queries>>

(* Variant: whoever leads an entry of the key is its leader. *)
AnyLeader(w) == inflight[worker[w].key] # 0

CurrentLeader(w) == inflight[worker[w].key] = worker[w].entry

(* Resolve: only the leader that is still the key's wakes those who wait.   *)
Resolve(w) ==
  LET key == worker[w].key
      mine == worker[w].entry
      current == CurrentLeader(w)
  IN /\ worker[w].at = "resolve"
     /\ inflight' = IF current THEN [inflight EXCEPT ![key] = 0] ELSE inflight
     /\ entries' = IF current THEN [entries EXCEPT ![mine].done = TRUE, ![mine].answer = worker[w].answer]
                   ELSE entries
     /\ Set(w, IF current /\ worker[w].answer.size > 0 THEN [worker[w] EXCEPT !.at = "store"] ELSE Free)
     /\ UNCHANGED <<clock, cache, responseBytes, late, queries>>

Store(w) ==
  /\ worker[w].at = "store"
  /\ SetReady(worker[w].key, worker[w].answer, worker[w].now)
  /\ Set(w, Free)
  /\ UNCHANGED <<clock, inflight, entries, late, queries>>

(* Wait: the leader's answer, or the timer.  Without an answer the cache is *)
(* looked at again, as of the time the query began; then it is a failure.   *)
Wait(w) ==
  LET e == entries[worker[w].entry]
  IN /\ worker[w].at = "wait"
     /\ \/ e.done /\ e.answer.size > 0
           /\ Set(w, Free)
           /\ UNCHANGED <<cache, responseBytes, late>>
        \/ /\ \/ e.done /\ e.answer.size = 0
              \/ clock >= worker[w].since + DNSInflightWaitTimeout
           /\ GetReady(worker[w].key, worker[w].now, Set(w, Free), Set(w, Free))
     /\ UNCHANGED <<clock, inflight, entries, queries>>

DNSNext ==
  \/ Tick
  \/ \E w \in Workers : Ask(w) \/ Acquire(w) \/ Lookup(w) \/ Resolve(w) \/ Store(w) \/ Wait(w)

------------------------------------------------------------------------------
(* The cache's budget is kept to the byte, whatever is replaced, pushed out *)
(* or refused, and no limit is passed (SetReady, removeElementLocked).      *)
CacheBudget ==
  /\ responseBytes = CacheBytes(cache) /\ responseBytes <= maxResponseBytes
  /\ Len(cache) <= shardLimit

(* What the cache serves has not outlived its records by more than a query  *)
(* may have waited: the second look at the cache is taken with the time the *)
(* query began (buildDNSQueryResponsePayload, SetReady, isExpired).         *)
ServedInLife == late <= DNSInflightWaitTimeout

(* One query upstream for a name: as long as an entry is young its leader   *)
(* is the only one of the key, also when leaders that were given up come    *)
(* back, and an entry that others wait for has a leader at work (Acquire,   *)
(* Resolve).                                                                *)
Leads(w) == worker[w].at \in {"lookup", "resolve"}
SingleFlight ==
  /\ \A w \in Workers : Leads(w) /\ clock < entries[worker[w].entry].born + inflightTimeout
       => inflight[worker[w].key] = worker[w].entry
  /\ \A key \in Keys : inflight[key] # 0
       => \E w \in Workers : Leads(w) /\ worker[w].entry = inflight[key]
=============================================================================
