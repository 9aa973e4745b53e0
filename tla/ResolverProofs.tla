---------------------------- MODULE ResolverProofs ----------------------------
(***************************************************************************)
(* DNS through the tunnel, proved for any number of upstream servers,      *)
(* workers and names, and any life, size and timer.  The three parts are   *)
(* run side by side, so each has an invariant of its own.                  *)
(***************************************************************************)
EXTENDS Resolver, FiniteSetTheorems, SequenceTheorems, WellFoundedInduction, TLAPS

(***************************************************************************)
(* The upstream servers.                                                   *)
(***************************************************************************)

(* Until there is an outcome, every server asked and not taken note of      *)
(* either is waited for or has its result in the channel; a failure before  *)
(* the time is up leaves neither.                                           *)
UpInv ==
  /\ next \in Nat /\ inFlight \in Nat /\ asking \in Nat
  /\ resultCh \in Seq({"answer", "nothing"}) /\ timeUp \in BOOLEAN
  /\ next <= dnsUpstreamServers /\ inFlight <= maxConcurrentDNSUpstreamQueries
  /\ outcome = "none" => inFlight = asking + Len(resultCh)
  /\ outcome = "failed" /\ ~timeUp => next = dnsUpstreamServers /\ asking = 0 /\ resultCh = <<>>

(***************************************************************************)
(* The cache and the queries in flight.                                    *)
(***************************************************************************)

Answers == [obtained : Nat, ttl : Nat, size : Nat]
Flights == [born : Nat, done : BOOLEAN, answer : Answers]
Places == {"free", "acquire", "lookup", "resolve", "store", "wait"}
WorkerStates == [at : Places, key : Keys \union {0}, now : Nat, since : Nat, entry : Nat, answer : Answers]

(* A record of the cache expires no later than what it holds. *)
Lasting == {c \in [key : Keys, answer : Answers, expires : Nat] :
           c.expires <= c.answer.obtained + c.answer.ttl}

DNSTypes ==
  /\ clock \in Nat /\ late \in Nat
  /\ inflight \in [Keys -> Nat] /\ entries \in Seq(Flights)
  /\ cache \in Seq(Lasting)
  /\ worker \in [Workers -> WorkerStates]

(* Time stands still between the steps of a worker that waits for nothing,  *)
(* and one that waits does not wait longer than its timer.                  *)
Timed(s, time) ==
  /\ s.now <= time
  /\ s.at # "free" => s.key \in Keys
  /\ s.at = "acquire" => s.now = time
  /\ s.at = "wait" => s.now = s.since /\ time <= s.since + DNSInflightWaitTimeout
  /\ s.at = "resolve" => s.answer = NoAnswer \/ s.now <= s.answer.obtained
  /\ s.at = "store" => s.now <= s.answer.obtained

Going(s) == s.at \in {"lookup", "resolve"}

(* A leader's entry was born when its query began. *)
Led(s, made) == Going(s) => s.entry \in DOMAIN made /\ made[s.entry].born = s.now

LifeInv ==
  /\ \A w \in Workers : Timed(worker[w], clock) /\ Led(worker[w], entries)
  /\ late <= DNSInflightWaitTimeout

FlightInv ==
  /\ \A w, x \in Workers : Going(worker[w]) /\ Going(worker[x]) /\ worker[w].entry = worker[x].entry => w = x
  /\ \A w \in Workers : Going(worker[w]) /\ clock < worker[w].now + inflightTimeout
       => inflight[worker[w].key] = worker[w].entry
  /\ \A k \in Keys : inflight[k] # 0
       => \E w \in Workers : Going(worker[w]) /\ worker[w].key = k /\ worker[w].entry = inflight[k]

DNSInv == DNSTypes /\ LifeInv /\ FlightInv

------------------------------------------------------------------------------
(* The upstream servers, one step at a time.                                *)

LEMMA Launched ==
  ASSUME UpInv, NEW done \in 0 .. inFlight, launchNext(done)
  PROVE  /\ next' \in Nat /\ inFlight' \in Nat /\ asking' \in Nat
         /\ next' <= dnsUpstreamServers /\ inFlight' <= maxConcurrentDNSUpstreamQueries
         /\ inFlight' - asking' = inFlight - done - asking
         /\ inFlight' = 0 /\ ~timeUp => next' = dnsUpstreamServers /\ asking' = asking
BY UpstreamAssumption DEF UpInv, launchNext

LEMMA UpInitInv == UpInit => UpInv
<1> SUFFICES ASSUME UpInit PROVE UpInv
  OBVIOUS
<1>1. resultCh \in Seq({"answer", "nothing"}) /\ Len(resultCh) = 0
  BY EmptySeq DEF UpInit
<1>2. 1 <= dnsUpstreamServers /\ 1 <= maxConcurrentDNSUpstreamQueries
  BY UpstreamAssumption
<1>3. next = 1 /\ inFlight = 1 /\ asking = 1 /\ timeUp = FALSE /\ outcome = "none"
  BY DEF UpInit
<1>4. inFlight = asking + Len(resultCh)
  BY <1>1, <1>3
<1>5. timeUp \in BOOLEAN /\ outcome # "failed"
  BY <1>3
<1>6. next \in Nat /\ inFlight \in Nat /\ asking \in Nat
      /\ next <= dnsUpstreamServers /\ inFlight <= maxConcurrentDNSUpstreamQueries
  BY <1>2, <1>3
<1> QED
  BY <1>1, <1>4, <1>5, <1>6 DEF UpInv

LEMMA UpStep ==
  ASSUME UpInv, [UpNext]_upVars
  PROVE  UpInv'
<1> USE UpstreamAssumption
<1>1. CASE queryOneUpstream
  <2>1. PICK r \in {"answer", "nothing"} : resultCh' = Append(resultCh, r)
    BY <1>1 DEF queryOneUpstream
  <2>2. resultCh' \in Seq({"answer", "nothing"}) /\ Len(resultCh') = Len(resultCh) + 1 /\ Len(resultCh) \in Nat
    BY <2>1 DEF UpInv
  <2>3. /\ asking > 0 /\ asking' = asking - 1
        /\ UNCHANGED <<next, inFlight, timeUp, outcome>>
    BY <1>1 DEF queryOneUpstream
  <2> QED
    BY <2>2, <2>3 DEF UpInv
<1>2. CASE TakeResult
  <2>1. /\ resultCh' \in Seq({"answer", "nothing"}) /\ Len(resultCh') = Len(resultCh) - 1
        /\ Len(resultCh) \in Nat /\ Len(resultCh) >= 1
        /\ Len(resultCh') = 0 => resultCh' = <<>>
    BY <1>2 DEF TakeResult, UpInv
  <2>2. outcome = "none" /\ inFlight > 0 /\ UNCHANGED timeUp /\ inFlight = asking + Len(resultCh)
    BY <1>2 DEF TakeResult, UpInv
  <2>3. CASE Head(resultCh) = "answer"
    <3>1. outcome' = "answer" /\ inFlight' = inFlight - 1 /\ UNCHANGED <<next, asking>>
      BY <1>2, <2>3 DEF TakeResult
    <3> QED
      BY <2>1, <2>2, <3>1 DEF UpInv
  <2>4. CASE Head(resultCh) # "answer"
    <3>1. launchNext(1) /\ outcome' = IF inFlight' = 0 THEN "failed" ELSE "none"
      BY <1>2, <2>4 DEF TakeResult, Failed
    <3>2. /\ next' \in Nat /\ inFlight' \in Nat /\ asking' \in Nat
          /\ next' <= dnsUpstreamServers /\ inFlight' <= maxConcurrentDNSUpstreamQueries
          /\ inFlight' - asking' = inFlight - 1 - asking
          /\ inFlight' = 0 /\ ~timeUp => next' = dnsUpstreamServers /\ asking' = asking
      <4>1. 1 \in 0 .. inFlight
        BY <2>2 DEF UpInv
      <4> QED
        BY <3>1, <4>1, Launched
    <3>3. inFlight' = asking' + Len(resultCh')
      BY <2>1, <2>2, <3>2 DEF UpInv
    <3>4. inFlight' = 0 => asking' = 0 /\ resultCh' = <<>>
      BY <2>1, <3>2, <3>3
    <3> QED
      BY <2>1, <2>2, <3>1, <3>2, <3>3, <3>4 DEF UpInv
  <2> QED
    BY <2>3, <2>4
<1>3. CASE Hedge
  <2>1. outcome = "none" /\ launchNext(0) /\ UNCHANGED <<resultCh, timeUp, outcome>> /\ 0 \in 0 .. inFlight
    BY <1>3 DEF Hedge, UpInv
  <2>2. Len(resultCh) \in Nat
    BY DEF UpInv
  <2> QED
    BY <2>1, <2>2, Launched DEF UpInv
<1>4. CASE TimeUp
  BY <1>4 DEF TimeUp, UpInv
<1>5. CASE Deadline
  BY <1>5 DEF Deadline, UpInv
<1>6. CASE UNCHANGED upVars
  BY <1>6 DEF upVars, UpInv
<1> QED
  BY <1>1, <1>2, <1>3, <1>4, <1>5, <1>6 DEF UpNext

------------------------------------------------------------------------------
(* The cache: it only loses records, or takes one that lasts no longer than *)
(* what it holds.                                                           *)

LEMMA RemoveAtKeeps ==
  ASSUME NEW T, NEW s \in Seq(T), NEW i \in 1 .. Len(s)
  PROVE  RemoveAt(s, i) \in Seq(T)
<1>1. Len(s) \in Nat /\ i \in Int /\ i + 1 \in Int /\ i - 1 \in Int /\ i - 1 <= Len(s)
  BY LenProperties
<1>2. SubSeq(s, 1, i - 1) \in Seq(T)
  <2>1. \A j \in 1 .. i - 1 : s[j] \in T
    BY <1>1, ElementOfSeq
  <2> QED
    BY <1>1, <2>1, SubSeqProperties
<1>3. SubSeq(s, i + 1, Len(s)) \in Seq(T)
  <2>1. \A j \in i + 1 .. Len(s) : s[j] \in T
    BY <1>1, ElementOfSeq
  <2> QED
    BY <1>1, <2>1, SubSeqProperties
<1> QED
  BY <1>2, <1>3, ConcatProperties DEF RemoveAt

LEMMA EvictKeeps ==
  ASSUME NEW T, NEW s \in Seq(T)
  PROVE  evictIfNeededLocked(s).items \in Seq(T)
<1> DEFINE over == IF Len(s) > shardLimit THEN Len(s) - shardLimit ELSE 0
<1>1. Len(s) \in Nat /\ over \in Nat
  BY TimesAssumption, LenProperties
<1>2. evictIfNeededLocked(s).items = SubSeq(s, over + 1, Len(s))
  BY DEF evictIfNeededLocked
<1> HIDE DEF over
<1>3. \A j \in over + 1 .. Len(s) : s[j] \in T
  BY <1>1, ElementOfSeq
<1>4. SubSeq(s, over + 1, Len(s)) \in Seq(T)
  BY <1>1, <1>3, SubSeqProperties
<1> QED
  BY <1>2, <1>4

(* GetReady serves nothing whose records ran out more than "age" ago, when  *)
(* the time it is given is no older than that.                              *)
LEMMA GetReadyKeeps ==
  ASSUME DNSTypes, NEW key, NEW now \in Nat, clock <= now + DNSInflightWaitTimeout,
         late <= DNSInflightWaitTimeout,
         \/ /\ Cached(key) = {}
            /\ UNCHANGED <<cache, responseBytes, late>>
         \/ \E i \in Cached(key) :
              IF now >= cache[i].expires
              THEN cache' = RemoveAt(cache, i) /\ UNCHANGED late
              ELSE /\ cache' = Append(RemoveAt(cache, i), cache[i])
                   /\ late' = Outlived(cache[i].answer)
  PROVE  cache' \in Seq(Lasting) /\ late' \in Nat /\ late' <= DNSInflightWaitTimeout
<1>0. cache \in Seq(Lasting) /\ late \in Nat /\ clock \in Nat /\ DNSInflightWaitTimeout \in Nat
  BY TimesAssumption DEF DNSTypes
<1>1. CASE UNCHANGED <<cache, responseBytes, late>>
  BY <1>0, <1>1
<1>2. ASSUME NEW i \in Cached(key),
             IF now >= cache[i].expires
             THEN cache' = RemoveAt(cache, i) /\ UNCHANGED late
             ELSE /\ cache' = Append(RemoveAt(cache, i), cache[i])
                  /\ late' = Outlived(cache[i].answer)
      PROVE  cache' \in Seq(Lasting) /\ late' \in Nat /\ late' <= DNSInflightWaitTimeout
  <2>1. i \in 1 .. Len(cache)
    BY <1>0, LenProperties DEF Cached
  <2>2. RemoveAt(cache, i) \in Seq(Lasting) /\ cache[i] \in Lasting
    BY <1>0, <2>1, RemoveAtKeeps, ElementOfSeq
  <2>3. CASE now >= cache[i].expires
    BY <1>0, <1>2, <2>2, <2>3
  <2>4. CASE ~(now >= cache[i].expires)
    <3>1. cache' \in Seq(Lasting)
      BY <1>2, <2>2, <2>4, AppendProperties
    <3> DEFINE a == cache[i].answer
    <3>2. /\ cache[i].expires \in Nat /\ a.obtained \in Nat /\ a.ttl \in Nat
          /\ cache[i].expires <= a.obtained + a.ttl
      BY <2>2 DEF Lasting, Answers
    <3>3. late' = Outlived(a)
      BY <1>2, <2>4
    <3> HIDE DEF a
    <3>4. a.obtained + a.ttl > now
      BY <2>4, <3>2
    <3>5. Outlived(a) \in Nat /\ Outlived(a) <= DNSInflightWaitTimeout
      BY <1>0, <3>2, <3>4 DEF Outlived
    <3> QED
      BY <3>1, <3>3, <3>5
  <2> QED
    BY <2>3, <2>4
<1> QED
  BY <1>1, <1>2

LEMMA SetReadyKeeps ==
  ASSUME DNSTypes, NEW key \in Keys, NEW answer \in Answers, NEW now \in Nat, now <= answer.obtained,
         SetReady(key, answer, now)
  PROVE  cache' \in Seq(Lasting)
<1> DEFINE old == Cached(key)
           i == CHOOSE x \in old : TRUE
           without == IF old = {} THEN cache ELSE RemoveAt(cache, i)
           new == [key |-> key, answer |-> answer, expires |-> now + Effective(answer)]
<1>0. cache \in Seq(Lasting)
  BY DEF DNSTypes
<1>1. without \in Seq(Lasting)
  <2>1. CASE old = {}
    BY <1>0, <2>1
  <2>2. CASE old # {}
    <3>1. i \in old
      BY <2>2
    <3>2. i \in 1 .. Len(cache)
      BY <1>0, <3>1, LenProperties DEF Cached
    <3> QED
      BY <1>0, <2>2, <3>2, RemoveAtKeeps
  <2> QED
    BY <2>1, <2>2
<1>2. new \in Lasting
  <2>1. answer.obtained \in Nat /\ answer.ttl \in Nat /\ cacheTTL \in Nat
    BY TimesAssumption DEF Answers
  <2>2. Effective(answer) \in Nat /\ Effective(answer) <= answer.ttl
    BY <2>1 DEF Effective
  <2>3. new.expires <= new.answer.obtained + new.answer.ttl
    BY <2>1, <2>2
  <2>4. new \in [key : Keys, answer : Answers, expires : Nat]
    BY <2>2
  <2> QED
    BY <2>3, <2>4 DEF Lasting
<1>3. cache' = without \/ cache' = evictIfNeededLocked(Append(without, new)).items
  BY DEF SetReady
<1> HIDE DEF without, new
<1>4. Append(without, new) \in Seq(Lasting)
  BY <1>1, <1>2, AppendProperties
<1>5. evictIfNeededLocked(Append(without, new)).items \in Seq(Lasting)
  BY <1>4, EvictKeeps
<1> QED
  BY <1>1, <1>3, <1>5

------------------------------------------------------------------------------
(* One worker goes on as r. *)

Grown == \A e \in DOMAIN entries : e \in DOMAIN entries' /\ entries'[e].born = entries[e].born

LEMMA Moves ==
  ASSUME DNSTypes, LifeInv, NEW w \in Workers, NEW r \in WorkerStates,
         worker' = [worker EXCEPT ![w] = r], clock' = clock, Grown,
         Timed(r, clock), Led(r, entries'), late' <= DNSInflightWaitTimeout
  PROVE  LifeInv' /\ worker' \in [Workers -> WorkerStates]
<1>1. \A x \in Workers : worker'[x] = IF x = w THEN r ELSE worker[x]
  BY DEF DNSTypes
<1>2. worker' \in [Workers -> WorkerStates]
  BY DEF DNSTypes
<1>3. ASSUME NEW x \in Workers PROVE Timed(worker'[x], clock') /\ Led(worker'[x], entries')
  <2>1. CASE x = w
    BY <1>1, <2>1
  <2>2. CASE x # w
    <3>1. Timed(worker[x], clock) /\ Led(worker[x], entries)
      BY DEF LifeInv
    <3>2. worker'[x] = worker[x]
      BY <1>1, <2>2
    <3> QED
      BY <3>1, <3>2 DEF Led, Grown
  <2> QED
    BY <2>1, <2>2
<1> QED
  BY <1>2, <1>3 DEF LifeInv

(* A step that makes or ends no leader. *)
LEMMA FlightMoves ==
  ASSUME DNSTypes, FlightInv, NEW w \in Workers, NEW r,
         worker' = [worker EXCEPT ![w] = r], UNCHANGED <<clock, inflight>>,
         Going(r) <=> Going(worker[w]),
         Going(r) => r.key = worker[w].key /\ r.entry = worker[w].entry /\ r.now = worker[w].now
  PROVE  FlightInv'
<1>1. \A x \in Workers : worker'[x] = IF x = w THEN r ELSE worker[x]
  BY DEF DNSTypes
<1>2. \A x \in Workers :
        /\ Going(worker'[x]) <=> Going(worker[x])
        /\ Going(worker[x]) => /\ worker'[x].key = worker[x].key
                               /\ worker'[x].entry = worker[x].entry /\ worker'[x].now = worker[x].now
  BY <1>1
<1>3. ASSUME NEW x \in Workers, NEW y \in Workers, Going(worker'[x]), Going(worker'[y]),
             worker'[x].entry = worker'[y].entry
      PROVE  x = y
  BY <1>2, <1>3 DEF FlightInv
<1>4. ASSUME NEW x \in Workers, Going(worker'[x]), clock < worker'[x].now + inflightTimeout
      PROVE  inflight[worker'[x].key] = worker'[x].entry
  BY <1>2, <1>4 DEF FlightInv
<1>5. ASSUME NEW k \in Keys, inflight[k] # 0
      PROVE  \E x \in Workers : Going(worker'[x]) /\ worker'[x].key = k /\ worker'[x].entry = inflight[k]
  BY <1>2, <1>5 DEF FlightInv
<1> QED
  BY <1>3, <1>4, <1>5 DEF FlightInv

LEMMA FreeWorker ==
  Free \in WorkerStates /\ Free.at = "free" /\ Free.now = 0 /\ ~Going(Free)
  /\ NoAnswer \in Answers /\ (\A made : Led(Free, made)) /\ \A time \in Nat : Timed(Free, time)
<1>1. NoAnswer \in Answers
  BY DEF NoAnswer, Answers
<1>2. Free \in WorkerStates
  BY <1>1 DEF Free, WorkerStates, Places
<1>3. Free.at = "free" /\ Free.now = 0
  BY DEF Free
<1> QED
  BY <1>1, <1>2, <1>3 DEF Going, Led, Timed

LEMMA DNSInitInv == DNSInit => DNSInv
<1> SUFFICES ASSUME DNSInit PROVE DNSInv
  OBVIOUS
<1>1. \A w \in Workers : worker[w] = Free
  BY DEF DNSInit
<1>2. DNSTypes
  <2>1. <<>> \in Seq(Lasting) /\ <<>> \in Seq(Flights)
    BY EmptySeq
  <2>2. worker \in [Workers -> WorkerStates]
    BY FreeWorker DEF DNSInit
  <2> QED
    BY <2>1, <2>2 DEF DNSInit, DNSTypes
<1>3. LifeInv
  BY <1>1, FreeWorker, TimesAssumption DEF DNSInit, LifeInv
<1>4. FlightInv
  BY <1>1, FreeWorker DEF DNSInit, FlightInv
<1> QED
  BY <1>2, <1>3, <1>4 DEF DNSInv

LEMMA TickStep ==
  ASSUME DNSInv, Tick
  PROVE  DNSInv'
<1>0. /\ DNSTypes /\ LifeInv /\ FlightInv /\ clock \in Nat /\ clock' = clock + 1
      /\ UNCHANGED <<inflight, entries, cache, worker, late>>
      /\ inflightTimeout \in Nat /\ DNSInflightWaitTimeout \in Nat
  BY TimesAssumption DEF DNSInv, DNSTypes, Tick
<1>1. DNSTypes'
  BY <1>0 DEF DNSTypes
<1>2. ASSUME NEW w \in Workers PROVE Timed(worker[w], clock') /\ Led(worker[w], entries)
  <2>1. Timed(worker[w], clock) /\ Led(worker[w], entries)
    BY <1>0 DEF LifeInv
  <2>2. worker[w].now \in Nat /\ worker[w].since \in Nat
    BY <1>0 DEF DNSTypes, WorkerStates
  <2>3. worker[w].at \in {"free", "lookup", "wait"}
        /\ (worker[w].at = "wait" => clock < worker[w].since + DNSInflightWaitTimeout)
    BY DEF Tick
  <2> QED
    BY <1>0, <2>1, <2>2, <2>3 DEF Timed
<1>3. LifeInv'
  BY <1>0, <1>2 DEF LifeInv
<1>4. ASSUME NEW w \in Workers, Going(worker[w]), clock' < worker[w].now + inflightTimeout
      PROVE  inflight[worker[w].key] = worker[w].entry
  <2>1. worker[w].now \in Nat
    BY <1>0 DEF DNSTypes, WorkerStates
  <2>2. clock < worker[w].now + inflightTimeout
    BY <1>0, <1>4, <2>1
  <2> QED
    BY <1>0, <1>4, <2>2 DEF FlightInv
<1>5. FlightInv'
  BY <1>0, <1>4 DEF FlightInv
<1> QED
  BY <1>1, <1>3, <1>5 DEF DNSInv

LEMMA AskStep ==
  ASSUME DNSInv, NEW w \in Workers, Ask(w)
  PROVE  DNSInv'
<1>0. /\ DNSTypes /\ LifeInv /\ FlightInv /\ clock \in Nat /\ DNSInflightWaitTimeout \in Nat
      /\ worker[w].at = "free" /\ UNCHANGED <<clock, inflight, entries>>
      /\ late <= DNSInflightWaitTimeout
  BY TimesAssumption DEF DNSInv, DNSTypes, Ask, LifeInv
<1>1. PICK key \in Keys :
        GetReady(key, clock, UNCHANGED worker,
                 Set(w, [Free EXCEPT !.at = "acquire", !.key = key, !.now = clock]))
  BY DEF Ask
<1> DEFINE r == [Free EXCEPT !.at = "acquire", !.key = key, !.now = clock]
<1>2. cache' \in Seq(Lasting) /\ late' \in Nat /\ late' <= DNSInflightWaitTimeout
  <2>1. clock <= clock + DNSInflightWaitTimeout
    BY <1>0
  <2>2. \/ /\ Cached(key) = {}
           /\ UNCHANGED <<cache, responseBytes, late>>
        \/ \E i \in Cached(key) :
              IF clock >= cache[i].expires
              THEN cache' = RemoveAt(cache, i) /\ UNCHANGED late
              ELSE /\ cache' = Append(RemoveAt(cache, i), cache[i])
                   /\ late' = Outlived(cache[i].answer)
    BY <1>1 DEF GetReady
  <2> QED
    BY <1>0, <2>1, <2>2, GetReadyKeeps
<1>3. worker' = worker \/ worker' = [worker EXCEPT ![w] = r]
  BY <1>1 DEF GetReady, Set
<1>4. r \in WorkerStates /\ r.at = "acquire" /\ r.key = key /\ r.now = clock
  BY <1>0, FreeWorker DEF Free, WorkerStates, Places
<1> HIDE DEF r
<1>5. Timed(r, clock) /\ Led(r, entries') /\ ~Going(r) /\ ~Going(worker[w])
  BY <1>0, <1>4 DEF Timed, Led, Going
<1>6. CASE worker' = worker
  BY <1>0, <1>2, <1>6 DEF DNSInv, DNSTypes, LifeInv, FlightInv
<1>7. CASE worker' = [worker EXCEPT ![w] = r]
  <2>1. LifeInv' /\ worker' \in [Workers -> WorkerStates]
    BY <1>0, <1>2, <1>4, <1>5, <1>7, Moves DEF Grown
  <2>2. FlightInv'
    BY <1>0, <1>5, <1>7, FlightMoves
  <2>3. DNSTypes'
    BY <1>0, <1>2, <2>1 DEF DNSTypes
  <2> QED
    BY <2>1, <2>2, <2>3 DEF DNSInv
<1> QED
  BY <1>3, <1>6, <1>7

LEMMA AcquireStep ==
  ASSUME DNSInv, NEW w \in Workers, Acquire(w)
  PROVE  DNSInv'
<1> DEFINE now == worker[w].now
           key == worker[w].key
           mine == inflight[key]
           Fresh(e) == e # 0 /\ now < entries[e].born + inflightTimeout
<1>0. /\ DNSTypes /\ LifeInv /\ FlightInv /\ clock \in Nat /\ DNSInflightWaitTimeout \in Nat
      /\ inflightTimeout \in Nat
      /\ worker[w].at = "acquire" /\ UNCHANGED <<clock, cache, late>>
      /\ late <= DNSInflightWaitTimeout /\ key \in Keys /\ now = clock
      /\ worker[w] \in WorkerStates /\ ~Going(worker[w])
  <2>1. worker[w].at = "acquire" /\ UNCHANGED <<clock, cache, late>>
    BY DEF Acquire
  <2>2. Timed(worker[w], clock) /\ late <= DNSInflightWaitTimeout
    BY DEF DNSInv, LifeInv
  <2> QED
    BY <2>1, <2>2, TimesAssumption DEF DNSInv, DNSTypes, Timed, Going
<1>1. PICK cleanUp \in BOOLEAN :
        LET kept == [k \in Keys |-> IF cleanUp /\ ~Fresh(inflight[k]) THEN 0 ELSE inflight[k]]
        IN IF Fresh(mine)
           THEN /\ inflight' = kept /\ UNCHANGED entries
                /\ Set(w, [worker[w] EXCEPT !.at = "wait", !.entry = mine, !.since = clock])
           ELSE /\ entries' = Append(entries, [born |-> now, done |-> FALSE, answer |-> NoAnswer])
                /\ inflight' = [kept EXCEPT ![key] = Len(entries')]
                /\ Set(w, [worker[w] EXCEPT !.at = "lookup", !.entry = Len(entries')])
  BY DEF Acquire
<1> DEFINE kept == [k \in Keys |-> IF cleanUp /\ ~Fresh(inflight[k]) THEN 0 ELSE inflight[k]]
<1>2. /\ kept \in [Keys -> Nat]
      /\ \A k \in Keys : kept[k] # 0 => kept[k] = inflight[k]
      /\ \A k \in Keys : Fresh(inflight[k]) => kept[k] = inflight[k]
  BY <1>0 DEF DNSTypes
<1>3. ASSUME NEW x \in Workers, Going(worker[x])
      PROVE  worker[x].entry \in 1 .. Len(entries) /\ worker[x].key \in Keys /\ worker[x].now \in Nat
             /\ (clock < worker[x].now + inflightTimeout => Fresh(worker[x].entry))
  <2>1. Timed(worker[x], clock) /\ Led(worker[x], entries) /\ worker[x] \in WorkerStates
    BY <1>0 DEF LifeInv, DNSTypes
  <2>2. DOMAIN entries = 1 .. Len(entries)
    BY <1>0, LenProperties DEF DNSTypes
  <2>3. worker[x].entry \in 1 .. Len(entries) /\ entries[worker[x].entry].born = worker[x].now
    BY <1>3, <2>1, <2>2 DEF Led
  <2>4. worker[x].at # "free" /\ worker[x].now \in Nat
    BY <1>3, <2>1 DEF Going, WorkerStates
  <2> QED
    BY <1>0, <2>1, <2>3, <2>4 DEF Timed
<1>4. CASE Fresh(mine)
  <2> DEFINE r == [worker[w] EXCEPT !.at = "wait", !.entry = mine, !.since = clock]
  <2>1. inflight' = kept /\ UNCHANGED entries /\ worker' = [worker EXCEPT ![w] = r]
    BY <1>1, <1>4 DEF Set
  <2>2. mine \in Nat
    BY <1>0 DEF DNSTypes
  <2>3. r \in WorkerStates /\ r.at = "wait" /\ r.key = key /\ r.now = now /\ r.since = clock
    BY <1>0, <2>2 DEF WorkerStates, Places
  <2> HIDE DEF r, kept, Fresh
  <2>4. Timed(r, clock) /\ Led(r, entries') /\ ~Going(r)
    BY <1>0, <2>3 DEF Timed, Led, Going
  <2>5. LifeInv' /\ worker' \in [Workers -> WorkerStates]
    BY <1>0, <2>1, <2>3, <2>4, Moves DEF Grown
  <2>6. DNSTypes'
    BY <1>0, <1>2, <2>1, <2>5 DEF DNSTypes
  <2>7. \A x \in Workers : Going(worker'[x]) => worker'[x] = worker[x] /\ x # w
    BY <1>0, <2>1, <2>4 DEF DNSTypes
  <2>8. \A x \in Workers : Going(worker[x]) => worker'[x] = worker[x]
    BY <1>0, <2>1 DEF DNSTypes
  <2>9. ASSUME NEW x \in Workers, Going(worker'[x]), clock < worker'[x].now + inflightTimeout
        PROVE  inflight'[worker'[x].key] = worker'[x].entry
    <3>1. worker'[x] = worker[x] /\ Going(worker[x]) /\ clock < worker[x].now + inflightTimeout
      BY <2>7, <2>9
    <3>2. inflight[worker[x].key] = worker[x].entry
      BY <1>0, <3>1 DEF FlightInv
    <3> QED
      BY <1>2, <1>3, <2>1, <3>1, <3>2
  <2>10. ASSUME NEW k \in Keys, inflight'[k] # 0
         PROVE  \E x \in Workers : Going(worker'[x]) /\ worker'[x].key = k /\ worker'[x].entry = inflight'[k]
    BY <1>0, <1>2, <2>1, <2>8, <2>10 DEF FlightInv
  <2>11. FlightInv'
    BY <1>0, <2>7, <2>9, <2>10 DEF FlightInv
  <2> QED
    BY <2>5, <2>6, <2>11 DEF DNSInv
<1>5. CASE ~Fresh(mine)
  <2> DEFINE n == Len(entries) + 1
             e == [born |-> now, done |-> FALSE, answer |-> NoAnswer]
             r == [worker[w] EXCEPT !.at = "lookup", !.entry = n]
  <2>1. entries \in Seq(Flights) /\ e \in Flights /\ e.born = now /\ Len(entries) \in Nat
    BY <1>0, FreeWorker, LenProperties DEF DNSTypes, Flights, WorkerStates
  <2>2. entries' = Append(entries, e)
    BY <1>1, <1>5
  <2>3. /\ entries' \in Seq(Flights) /\ Len(entries') = n /\ DOMAIN entries' = 1 .. n
        /\ entries'[n] = e /\ \A i \in 1 .. Len(entries) : entries'[i] = entries[i]
        /\ DOMAIN entries = 1 .. Len(entries)
    <3> HIDE DEF e
    <3> QED
      BY <2>1, <2>2, AppendProperties, LenProperties
  <2>4. inflight' = [kept EXCEPT ![key] = n] /\ worker' = [worker EXCEPT ![w] = r]
    BY <1>1, <1>5, <2>3 DEF Set
  <2>5. n \in Nat /\ n \in DOMAIN entries' /\ n > Len(entries)
    BY <2>1, <2>3
  <2>6. r \in WorkerStates /\ r.at = "lookup" /\ r.key = key /\ r.now = now /\ r.entry = n
    BY <1>0, <2>5 DEF WorkerStates, Places
  <2> HIDE DEF r, kept, n
  <2>7. Timed(r, clock) /\ Led(r, entries') /\ Going(r)
    BY <1>0, <2>1, <2>3, <2>5, <2>6 DEF Timed, Led, Going
  <2>8. Grown
    <3>1. \A i \in 1 .. Len(entries) : i \in 1 .. n
      BY <2>1, <2>5
    <3> QED
      BY <2>3, <3>1 DEF Grown
  <2>9. LifeInv' /\ worker' \in [Workers -> WorkerStates]
    BY <1>0, <2>4, <2>6, <2>7, <2>8, Moves
  <2>10. \A k \in Keys : inflight'[k] = IF k = key THEN n ELSE kept[k]
    BY <1>2, <2>4
  <2>11. DNSTypes'
    <3>1. inflight' \in [Keys -> Nat]
      BY <1>2, <2>4, <2>5
    <3> QED
      BY <1>0, <2>3, <2>9, <3>1 DEF DNSTypes
  <2>12. \A x \in Workers : worker'[x] = IF x = w THEN r ELSE worker[x]
    BY <1>0, <2>4 DEF DNSTypes
  <2>13. ASSUME NEW x \in Workers, NEW y \in Workers, Going(worker'[x]), Going(worker'[y]),
                worker'[x].entry = worker'[y].entry
         PROVE  x = y
    <3>1. \A z \in Workers : Going(worker[z]) => worker[z].entry # n
      BY <1>3, <2>1, <2>5
    <3>2. CASE x # w /\ y # w
      BY <1>0, <2>12, <2>13, <3>2 DEF FlightInv
    <3>3. CASE x = w /\ y # w
      BY <2>6, <2>12, <2>13, <3>1, <3>3
    <3>4. CASE x # w /\ y = w
      BY <2>6, <2>12, <2>13, <3>1, <3>4
    <3> QED
      BY <3>2, <3>3, <3>4
  <2>14. ASSUME NEW x \in Workers, Going(worker'[x]), clock < worker'[x].now + inflightTimeout
         PROVE  inflight'[worker'[x].key] = worker'[x].entry
    <3>1. CASE x = w
      BY <1>0, <2>6, <2>10, <2>12, <3>1
    <3>2. CASE x # w
      <4>1. worker'[x] = worker[x] /\ Going(worker[x]) /\ clock < worker[x].now + inflightTimeout
        BY <2>12, <2>14, <3>2
      <4>2. inflight[worker[x].key] = worker[x].entry /\ Fresh(worker[x].entry) /\ worker[x].key \in Keys
        BY <1>0, <1>3, <4>1 DEF FlightInv
      <4>3. worker[x].key # key
        BY <1>5, <4>2
      <4> HIDE DEF Fresh
      <4> QED
        BY <1>2, <2>10, <4>1, <4>2, <4>3
    <3> QED
      BY <3>1, <3>2
  <2>15. ASSUME NEW k \in Keys, inflight'[k] # 0
         PROVE  \E x \in Workers : Going(worker'[x]) /\ worker'[x].key = k /\ worker'[x].entry = inflight'[k]
    <3>1. CASE k = key
      BY <2>6, <2>7, <2>10, <2>12, <3>1
    <3>2. CASE k # key
      <4> HIDE DEF Fresh
      <4>1. inflight'[k] = inflight[k] /\ inflight[k] # 0
        BY <1>2, <2>10, <2>15, <3>2
      <4>2. PICK x \in Workers : Going(worker[x]) /\ worker[x].key = k /\ worker[x].entry = inflight[k]
        BY <1>0, <4>1 DEF FlightInv
      <4>3. x # w
        BY <1>0, <4>2
      <4> QED
        BY <2>12, <4>1, <4>2, <4>3
    <3> QED
      BY <3>1, <3>2
  <2>16. FlightInv'
    BY <1>0, <2>13, <2>14, <2>15 DEF FlightInv
  <2> QED
    BY <2>9, <2>11, <2>16 DEF DNSInv
<1> QED
  BY <1>4, <1>5

LEMMA LookupStep ==
  ASSUME DNSInv, NEW w \in Workers, Lookup(w)
  PROVE  DNSInv'
<1>0. /\ DNSTypes /\ LifeInv /\ FlightInv /\ clock \in Nat
      /\ worker[w].at = "lookup" /\ UNCHANGED <<clock, inflight, entries, cache, late>>
      /\ late <= DNSInflightWaitTimeout /\ worker[w] \in WorkerStates
      /\ Timed(worker[w], clock) /\ Led(worker[w], entries)
  BY DEF DNSInv, DNSTypes, Lookup, LifeInv
<1>1. PICK answer \in {NoAnswer} \union [obtained : {clock}, ttl : TTLs, size : Sizes] :
        Set(w, [worker[w] EXCEPT !.at = "resolve", !.answer = answer])
  BY DEF Lookup
<1>2. answer \in Answers /\ (answer = NoAnswer \/ answer.obtained = clock)
  BY <1>0, <1>1, FreeWorker, TimesAssumption DEF Answers
<1> DEFINE r == [worker[w] EXCEPT !.at = "resolve", !.answer = answer]
<1>3. worker' = [worker EXCEPT ![w] = r]
  BY <1>1 DEF Set
<1>4. /\ r \in WorkerStates /\ r.at = "resolve" /\ r.key = worker[w].key /\ r.now = worker[w].now
      /\ r.entry = worker[w].entry /\ r.answer = answer
  BY <1>0, <1>2 DEF WorkerStates, Places
<1> HIDE DEF r
<1>5. Timed(r, clock) /\ Led(r, entries') /\ Going(r) /\ Going(worker[w])
  BY <1>0, <1>2, <1>4 DEF Timed, Led, Going
<1>6. LifeInv' /\ worker' \in [Workers -> WorkerStates]
  BY <1>0, <1>3, <1>4, <1>5, Moves DEF Grown
<1>7. FlightInv'
  BY <1>0, <1>3, <1>4, <1>5, FlightMoves
<1>8. DNSTypes'
  BY <1>0, <1>6 DEF DNSTypes
<1> QED
  BY <1>6, <1>7, <1>8 DEF DNSInv

LEMMA SequenceOf ==
  ASSUME NEW T, NEW n \in Nat, NEW s \in [1 .. n -> T]
  PROVE  s \in Seq(T)
BY SeqDef

(* The entry of a leader that is no longer the key's is left as it is.      *)
LEMMA ResolvedEntry ==
  ASSUME entries \in Seq(Flights), NEW i \in DOMAIN entries, NEW answer \in Answers,
         entries' = [entries EXCEPT ![i].done = TRUE, ![i].answer = answer]
  PROVE  /\ entries' \in Seq(Flights) /\ DOMAIN entries' = DOMAIN entries
         /\ \A e \in DOMAIN entries : entries'[e].born = entries[e].born
<1>1. /\ Len(entries) \in Nat /\ DOMAIN entries = 1 .. Len(entries) /\ entries \in [1 .. Len(entries) -> Flights]
  BY LenProperties
<1>2. DOMAIN entries' = DOMAIN entries
  OBVIOUS
<1>3. ASSUME NEW e \in DOMAIN entries PROVE entries'[e] \in Flights /\ entries'[e].born = entries[e].born
  <2>1. entries[e] \in Flights
    BY <1>1
  <2>2. CASE e = i
    BY <2>1, <2>2 DEF Flights
  <2>3. CASE e # i
    BY <2>1, <2>3
  <2> QED
    BY <2>2, <2>3
<1>4. entries' \in [1 .. Len(entries) -> Flights]
  BY <1>1, <1>2, <1>3
<1>5. entries' \in Seq(Flights)
  BY <1>1, <1>4, SequenceOf
<1> QED
  BY <1>2, <1>3, <1>5

LEMMA ResolveStep ==
  ASSUME DNSInv, NEW w \in Workers, Resolve(w)
  PROVE  DNSInv'
<1> DEFINE key == worker[w].key
           mine == worker[w].entry
           current == CurrentLeader(w)
           answer == worker[w].answer
           r == IF current /\ answer.size > 0 THEN [worker[w] EXCEPT !.at = "store"] ELSE Free
<1>0. /\ DNSTypes /\ LifeInv /\ FlightInv /\ clock \in Nat
      /\ worker[w].at = "resolve" /\ UNCHANGED <<clock, cache, late>>
      /\ late <= DNSInflightWaitTimeout /\ worker[w] \in WorkerStates
      /\ Timed(worker[w], clock) /\ Led(worker[w], entries)
  BY DEF DNSInv, DNSTypes, Resolve, LifeInv
<1>1. /\ inflight' = IF current THEN [inflight EXCEPT ![key] = 0] ELSE inflight
      /\ entries' = IF current THEN [entries EXCEPT ![mine].done = TRUE, ![mine].answer = answer] ELSE entries
      /\ worker' = [worker EXCEPT ![w] = r]
  BY DEF Resolve, Set
<1>2. Going(worker[w]) /\ key \in Keys /\ mine \in DOMAIN entries /\ answer \in Answers
  BY <1>0 DEF Going, Timed, Led, WorkerStates
<1>3. r \in WorkerStates /\ ~Going(r) /\ Timed(r, clock) /\ Led(r, entries')
  <2>1. CASE current /\ answer.size > 0
    <3>1. answer # NoAnswer
      BY <2>1 DEF NoAnswer
    <3>2. r \in WorkerStates /\ r.at = "store" /\ r.now = worker[w].now /\ r.answer = answer /\ r.key = key
      BY <1>0, <2>1 DEF WorkerStates, Places
    <3> HIDE DEF r
    <3> QED
      BY <1>0, <1>2, <3>1, <3>2 DEF Timed, Led, Going
  <2>2. CASE ~(current /\ answer.size > 0)
    BY <1>0, <2>2, FreeWorker
  <2> QED
    BY <2>1, <2>2
<1> HIDE DEF r
<1>4. entries' \in Seq(Flights) /\ Grown
  <2>1. CASE current
    <3>1. entries' = [entries EXCEPT ![mine].done = TRUE, ![mine].answer = answer]
      BY <1>1, <2>1
    <3>2. entries \in Seq(Flights)
      BY <1>0 DEF DNSTypes
    <3> HIDE DEF mine, answer, current
    <3>3. /\ entries' \in Seq(Flights) /\ DOMAIN entries' = DOMAIN entries
          /\ \A e \in DOMAIN entries : entries'[e].born = entries[e].born
      BY <1>2, <3>1, <3>2, ResolvedEntry
    <3> QED
      BY <3>3 DEF Grown
  <2>2. CASE ~current
    BY <1>0, <1>1, <2>2 DEF Grown, DNSTypes
  <2> QED
    BY <2>1, <2>2
<1>5. LifeInv' /\ worker' \in [Workers -> WorkerStates]
  BY <1>0, <1>1, <1>3, <1>4, Moves
<1>6. DNSTypes'
  <2>1. inflight' \in [Keys -> Nat]
    BY <1>0, <1>1 DEF DNSTypes
  <2> QED
    BY <1>0, <1>4, <1>5, <2>1 DEF DNSTypes
<1>7. \A x \in Workers : worker'[x] = IF x = w THEN r ELSE worker[x]
  BY <1>0, <1>1 DEF DNSTypes
<1>8. \A k \in Keys : inflight'[k] = IF current /\ k = key THEN 0 ELSE inflight[k]
  BY <1>0, <1>1 DEF DNSTypes
<1>9. current <=> inflight[key] = mine
  BY DEF CurrentLeader
<1> HIDE DEF current
<1>10. ASSUME NEW x \in Workers, Going(worker'[x])
       PROVE  x # w /\ worker'[x] = worker[x] /\ Going(worker[x]) /\ worker[x].key \in Keys
  <2>1. x # w /\ worker'[x] = worker[x] /\ Going(worker[x])
    BY <1>3, <1>7, <1>10
  <2>2. Timed(worker[x], clock)
    BY <1>0 DEF LifeInv
  <2> QED
    BY <2>1, <2>2 DEF Going, Timed
<1>11. ASSUME NEW x \in Workers, NEW y \in Workers, Going(worker'[x]), Going(worker'[y]),
              worker'[x].entry = worker'[y].entry
       PROVE  x = y
  BY <1>0, <1>10, <1>11 DEF FlightInv
<1>12. ASSUME NEW x \in Workers, Going(worker'[x]), clock < worker'[x].now + inflightTimeout
       PROVE  inflight'[worker'[x].key] = worker'[x].entry
  <2>1. x # w /\ worker'[x] = worker[x] /\ Going(worker[x]) /\ worker[x].key \in Keys
    BY <1>10, <1>12
  <2>2. inflight[worker[x].key] = worker[x].entry
    BY <1>0, <1>12, <2>1 DEF FlightInv
  <2>3. worker[x].entry # mine
    BY <1>0, <1>2, <2>1 DEF FlightInv
  <2>4. ~(current /\ worker[x].key = key)
    BY <1>9, <2>2, <2>3
  <2> HIDE DEF key, mine
  <2> QED
    BY <1>8, <2>1, <2>2, <2>4
<1>13. ASSUME NEW k \in Keys, inflight'[k] # 0
       PROVE  \E x \in Workers : Going(worker'[x]) /\ worker'[x].key = k /\ worker'[x].entry = inflight'[k]
  <2>1. inflight'[k] = inflight[k] /\ ~(current /\ k = key)
    BY <1>8, <1>13
  <2>2. PICK x \in Workers : Going(worker[x]) /\ worker[x].key = k /\ worker[x].entry = inflight[k]
    BY <1>0, <1>13, <2>1 DEF FlightInv
  <2>3. x # w
    BY <1>9, <2>1, <2>2
  <2> QED
    BY <1>7, <2>1, <2>2, <2>3
<1>14. FlightInv'
  BY <1>0, <1>11, <1>12, <1>13 DEF FlightInv
<1> QED
  BY <1>5, <1>6, <1>14 DEF DNSInv

LEMMA StoreStep ==
  ASSUME DNSInv, NEW w \in Workers, Store(w)
  PROVE  DNSInv'
<1>0. /\ DNSTypes /\ LifeInv /\ FlightInv /\ clock \in Nat
      /\ worker[w].at = "store" /\ UNCHANGED <<clock, inflight, entries, late>>
      /\ late <= DNSInflightWaitTimeout /\ worker[w] \in WorkerStates
      /\ Timed(worker[w], clock) /\ worker' = [worker EXCEPT ![w] = Free]
      /\ SetReady(worker[w].key, worker[w].answer, worker[w].now)
  BY DEF DNSInv, DNSTypes, Store, LifeInv, Set
<1>1. /\ worker[w].key \in Keys /\ worker[w].answer \in Answers /\ worker[w].now \in Nat
      /\ worker[w].now <= worker[w].answer.obtained /\ ~Going(worker[w])
  BY <1>0 DEF Timed, WorkerStates, Going
<1>2. cache' \in Seq(Lasting)
  BY <1>0, <1>1, SetReadyKeeps
<1>3. LifeInv' /\ worker' \in [Workers -> WorkerStates]
  BY <1>0, FreeWorker, Moves DEF Grown
<1>4. FlightInv'
  BY <1>0, <1>1, FreeWorker, FlightMoves
<1>5. DNSTypes'
  BY <1>0, <1>2, <1>3 DEF DNSTypes
<1> QED
  BY <1>3, <1>4, <1>5 DEF DNSInv

LEMMA WaitStep ==
  ASSUME DNSInv, NEW w \in Workers, Wait(w)
  PROVE  DNSInv'
<1>0. /\ DNSTypes /\ LifeInv /\ FlightInv /\ clock \in Nat
      /\ worker[w].at = "wait" /\ UNCHANGED <<clock, inflight, entries>>
      /\ late <= DNSInflightWaitTimeout /\ worker[w] \in WorkerStates
      /\ Timed(worker[w], clock) /\ ~Going(worker[w])
  BY DEF DNSInv, DNSTypes, Wait, LifeInv, Going
<1>1. \/ Set(w, Free) /\ UNCHANGED <<cache, responseBytes, late>>
      \/ GetReady(worker[w].key, worker[w].now, Set(w, Free), Set(w, Free))
  BY DEF Wait
<1>2. worker' = [worker EXCEPT ![w] = Free]
  BY <1>1 DEF GetReady, Set
<1>3. cache' \in Seq(Lasting) /\ late' \in Nat /\ late' <= DNSInflightWaitTimeout
  <2>1. CASE UNCHANGED <<cache, responseBytes, late>>
    BY <1>0, <2>1 DEF DNSTypes
  <2>2. CASE GetReady(worker[w].key, worker[w].now, Set(w, Free), Set(w, Free))
    <3>1. worker[w].now \in Nat /\ clock <= worker[w].now + DNSInflightWaitTimeout
      BY <1>0 DEF Timed, WorkerStates
    <3>2. \/ /\ Cached(worker[w].key) = {}
             /\ UNCHANGED <<cache, responseBytes, late>>
          \/ \E i \in Cached(worker[w].key) :
                IF worker[w].now >= cache[i].expires
                THEN cache' = RemoveAt(cache, i) /\ UNCHANGED late
                ELSE /\ cache' = Append(RemoveAt(cache, i), cache[i])
                     /\ late' = Outlived(cache[i].answer)
      BY <2>2 DEF GetReady
    <3> QED
      BY <1>0, <3>1, <3>2, GetReadyKeeps
  <2> QED
    BY <1>1, <2>1, <2>2
<1>4. LifeInv' /\ worker' \in [Workers -> WorkerStates]
  BY <1>0, <1>2, <1>3, FreeWorker, Moves DEF Grown
<1>5. FlightInv'
  BY <1>0, <1>2, FreeWorker, FlightMoves
<1>6. DNSTypes'
  BY <1>0, <1>3, <1>4 DEF DNSTypes
<1> QED
  BY <1>4, <1>5, <1>6 DEF DNSInv

LEMMA DNSStep ==
  ASSUME DNSInv, [DNSNext]_dnsVars
  PROVE  DNSInv'
<1>1. CASE UNCHANGED dnsVars
  BY <1>1 DEF dnsVars, DNSInv, DNSTypes, LifeInv, FlightInv
<1> QED
  BY <1>1, TickStep, AskStep, AcquireStep, LookupStep, ResolveStep, StoreStep, WaitStep DEF DNSNext

(***************************************************************************)
(* Sums.                                                                   *)
(***************************************************************************)

(* A set of natural numbers that is not empty has a least element. *)
LEMMA LeastExists ==
  ASSUME NEW S, S \subseteq Nat, S # {}
  PROVE  \E x \in S : \A y \in S : x <= y
<1>1. PICK x \in S : \A y \in S : ~ (<<y, x>> \in OpToRel(<, Nat))
  <2>1. IsWellFoundedOn(OpToRel(<, Nat), Nat)
    BY NatLessThanWellFounded
  <2> QED
    BY <2>1, WFMin
<1>2. \A y \in S : x <= y
  <2> SUFFICES ASSUME NEW y \in S, ~ (x <= y) PROVE FALSE
    OBVIOUS
  <2>1. y < x
    BY x \in Nat, y \in Nat
  <2>2. <<y, x>> \in OpToRel(<, Nat)
    BY <2>1 DEF OpToRel
  <2> QED
    BY <1>1, <2>2
<1> QED
  BY <1>2

LEMMA FunctionIsSeq ==
  ASSUME NEW T, NEW n \in Nat, NEW s \in [1 .. n -> T]
  PROVE  s \in Seq(T) /\ Len(s) = n
<1>1. s \in Seq(T)
  BY SequenceOf
<1>2. Len(s) \in Nat /\ 1 .. Len(s) = 1 .. n
  BY <1>1, LenProperties
<1>3. CASE Len(s) < n
  BY <1>2, <1>3
<1>4. CASE Len(s) > n
  BY <1>2, <1>4
<1> QED
  BY <1>2, <1>3, <1>4

(* The sums of the beginnings of a sequence. *)
Sums(f, sizes) ==
  /\ f = [n \in 0 .. Len(sizes) |-> f[n]]
  /\ f[0] = 0
  /\ \A n \in 1 .. Len(sizes) : f[n] = f[n - 1] + sizes[n]

LEMMA SumsExist ==
  ASSUME NEW sizes \in Seq(Nat)
  PROVE  \E f : Sums(f, sizes) /\ f \in [0 .. Len(sizes) -> Nat]
<1> DEFINE L == Len(sizes)
           Upto(f, m) == /\ f \in [0 .. m -> Nat] /\ f[0] = 0
                         /\ \A n \in 1 .. m : f[n] = f[n - 1] + sizes[n]
           Bad == {m \in 0 .. L : ~ \E f : Upto(f, m)}
<1>1. L \in Nat /\ \A n \in 1 .. L : sizes[n] \in Nat
  OBVIOUS
<1>2. Bad = {}
  <2> SUFFICES ASSUME Bad # {} PROVE FALSE
    OBVIOUS
  <2>1. Bad \subseteq Nat
    BY <1>1
  <2>2. PICK m \in Bad : \A k \in Bad : m <= k
    <3> HIDE DEF Bad
    <3> QED
      BY <2>1, LeastExists
  <2>3. m \in 0 .. L /\ ~ \E f : Upto(f, m)
    BY <2>2
  <2>4. m # 0
    <3>1. Upto([n \in 0 .. 0 |-> 0], 0)
      OBVIOUS
    <3> HIDE DEF Upto
    <3> QED
      BY <2>3, <3>1
  <2>5. m - 1 \in 0 .. L /\ ~ (m <= m - 1)
    BY <1>1, <2>3, <2>4
  <2>6. PICK f : Upto(f, m - 1)
    BY <2>2, <2>5
  <2> DEFINE g == [n \in 0 .. m |-> IF n = m THEN f[m - 1] + sizes[m] ELSE f[n]]
  <2>7. m \in 1 .. L /\ m - 1 \in 0 .. m - 1 /\ \A n \in 0 .. m : n # m => n \in 0 .. m - 1
    BY <1>1, <2>3, <2>4
  <2>8. g \in [0 .. m -> Nat] /\ g[0] = 0
    BY <1>1, <2>4, <2>6, <2>7
  <2>9. ASSUME NEW n \in 1 .. m PROVE g[n] = g[n - 1] + sizes[n]
    <3>1. n - 1 \in 0 .. m - 1 /\ n - 1 # m /\ n - 1 \in 0 .. m /\ n \in 0 .. m
      BY <2>7
    <3>2. g[n - 1] = f[n - 1]
      BY <3>1
    <3>3. CASE n = m
      BY <3>1, <3>2, <3>3
    <3>4. CASE n # m
      <4>1. n \in 1 .. m - 1
        BY <2>7, <3>4
      <4> QED
        BY <2>6, <3>1, <3>2, <3>4, <4>1
    <3> QED
      BY <3>3, <3>4
  <2>10. Upto(g, m)
    BY <2>8, <2>9
  <2> HIDE DEF Upto, g
  <2> QED
    BY <2>3, <2>10
<1>3. L \in 0 .. L
  BY <1>1
<1>4. PICK f : Upto(f, L)
  BY <1>2, <1>3
<1> QED
  BY <1>4 DEF Sums

(* There is one such function, and the total is its last value. *)
LEMMA TotalIs ==
  ASSUME NEW sizes \in Seq(Nat), NEW f, Sums(f, sizes)
  PROVE  Total(sizes) = f[Len(sizes)]
<1> DEFINE L == Len(sizes)
           Rec(h) == h = [n \in 0 .. L |-> IF n = 0 THEN 0 ELSE h[n - 1] + sizes[n]]
           g == CHOOSE h : Rec(h)
<1>1. L \in Nat
  OBVIOUS
<1>2. Rec(f)
  <2>1. f = [n \in 0 .. L |-> f[n]] /\ f[0] = 0 /\ \A n \in 1 .. L : f[n] = f[n - 1] + sizes[n]
    BY DEF Sums
  <2>2. ASSUME NEW n \in 0 .. L PROVE f[n] = IF n = 0 THEN 0 ELSE f[n - 1] + sizes[n]
    <3>1. n = 0 \/ n \in 1 .. L
      BY <1>1
    <3> HIDE DEF L
    <3> QED
      BY <2>1, <3>1
  <2> HIDE DEF L
  <2> QED
    BY <2>1, <2>2
<1>3. Rec(g)
  <2> HIDE DEF Rec
  <2> QED
    BY <1>2
<1>4. Total(sizes) = g[L]
  BY DEF Total
<1> HIDE DEF g
<1> DEFINE Bad == {n \in 0 .. L : f[n] # g[n]}
<1>5. Bad = {}
  <2> SUFFICES ASSUME Bad # {} PROVE FALSE
    OBVIOUS
  <2>1. Bad \subseteq Nat
    BY <1>1
  <2>2. PICK m \in Bad : \A k \in Bad : m <= k
    <3> HIDE DEF Bad
    <3> QED
      BY <2>1, LeastExists
  <2>3. m \in 0 .. L /\ f[m] # g[m]
    BY <2>2
  <2>4. f[m] = (IF m = 0 THEN 0 ELSE f[m - 1] + sizes[m])
        /\ g[m] = (IF m = 0 THEN 0 ELSE g[m - 1] + sizes[m])
    BY <1>2, <1>3, <2>3
  <2>5. m # 0
    BY <2>3, <2>4
  <2>6. m - 1 \in 0 .. L /\ ~ (m <= m - 1)
    BY <1>1, <2>3, <2>5
  <2>7. f[m - 1] = g[m - 1]
    BY <2>2, <2>6
  <2> QED
    BY <2>3, <2>4, <2>5, <2>7
<1>6. L \in 0 .. L
  BY <1>1
<1>7. f[L] = g[L]
  BY <1>5, <1>6
<1> QED
  BY <1>4, <1>7

LEMMA TotalNat ==
  ASSUME NEW sizes \in Seq(Nat)
  PROVE  Total(sizes) \in Nat /\ (sizes = <<>> => Total(sizes) = 0)
<1>1. PICK f : Sums(f, sizes) /\ f \in [0 .. Len(sizes) -> Nat]
  BY SumsExist
<1>2. Total(sizes) = f[Len(sizes)]
  BY <1>1, TotalIs
<1>3. Len(sizes) \in 0 .. Len(sizes) /\ (sizes = <<>> => Len(sizes) = 0)
  OBVIOUS
<1> QED
  BY <1>1, <1>2, <1>3 DEF Sums

LEMMA TotalOfZeros ==
  ASSUME NEW sizes \in Seq(Nat), \A n \in 1 .. Len(sizes) : sizes[n] = 0
  PROVE  Total(sizes) = 0
<1> DEFINE L == Len(sizes)
           f == [n \in 0 .. L |-> 0]
<1>1. L \in Nat
  OBVIOUS
<1>2. \A n \in 1 .. L : n - 1 \in 0 .. L /\ n \in 0 .. L
  BY <1>1
<1>3. 0 \in 0 .. L /\ L \in 0 .. L
  BY <1>1
<1>4. Sums(f, sizes)
  BY <1>2, <1>3 DEF Sums
<1> QED
  BY <1>3, <1>4, TotalIs

(* One more at the end. *)
LEMMA TotalAppended ==
  ASSUME NEW s \in Seq(Nat), NEW t \in Seq(Nat), Len(t) = Len(s) + 1,
         \A n \in 1 .. Len(s) : t[n] = s[n]
  PROVE  Total(t) = Total(s) + t[Len(t)]
<1> DEFINE L == Len(s)
<1>1. L \in Nat /\ Len(t) = L + 1
  OBVIOUS
<1>2. PICK f : Sums(f, s) /\ f \in [0 .. L -> Nat]
  BY SumsExist
<1> DEFINE g == [n \in 0 .. L + 1 |-> IF n = L + 1 THEN f[L] + t[L + 1] ELSE f[n]]
<1>3. Total(s) = f[L]
  BY <1>2, TotalIs
<1>4. 0 \in 0 .. L + 1 /\ 0 # L + 1 /\ L + 1 \in 0 .. L + 1
  BY <1>1
<1>5. ASSUME NEW n \in 1 .. L + 1 PROVE g[n] = g[n - 1] + t[n]
  <2>1. n - 1 \in 0 .. L + 1 /\ n - 1 # L + 1 /\ n \in 0 .. L + 1
    BY <1>1
  <2>2. g[n - 1] = f[n - 1]
    BY <2>1
  <2>3. CASE n = L + 1
    <3>1. n - 1 = L
      BY <1>1, <2>3
    <3> QED
      BY <2>1, <2>2, <2>3, <3>1
  <2>4. CASE n # L + 1
    <3>1. n \in 1 .. L
      BY <1>1, <2>4
    <3>2. g[n] = f[n] /\ f[n] = f[n - 1] + s[n] /\ t[n] = s[n]
      BY <1>2, <2>1, <2>4, <3>1 DEF Sums
    <3> QED
      BY <2>2, <3>2
  <2> QED
    BY <2>3, <2>4
<1>6. Sums(g, t)
  <2>1. g[0] = 0
    BY <1>2, <1>4 DEF Sums
  <2>2. g = [n \in 0 .. L + 1 |-> g[n]]
    OBVIOUS
  <2> HIDE DEF g, L
  <2> QED
    BY <1>1, <1>5, <2>1, <2>2 DEF Sums
<1>7. Total(t) = g[L + 1]
  <2> HIDE DEF g
  <2> QED
    BY <1>1, <1>6, TotalIs
<1> QED
  BY <1>1, <1>3, <1>4, <1>7

(* One changed. *)
LEMMA TotalChanged ==
  ASSUME NEW s \in Seq(Nat), NEW t \in Seq(Nat), Len(t) = Len(s), NEW i \in 1 .. Len(s),
         \A n \in 1 .. Len(s) : n # i => t[n] = s[n]
  PROVE  Total(t) = Total(s) - s[i] + t[i]
<1> DEFINE L == Len(s)
<1>1. L \in Nat /\ Len(t) = L /\ i \in 1 .. L /\ s[i] \in Nat /\ t[i] \in Nat
      /\ \A n \in 1 .. L : s[n] \in Nat
  OBVIOUS
<1>2. PICK f : Sums(f, s) /\ f \in [0 .. L -> Nat]
  BY SumsExist
<1> DEFINE g == [n \in 0 .. L |-> IF n < i THEN f[n] ELSE f[n] - s[i] + t[i]]
<1>3. Total(s) = f[L]
  BY <1>2, TotalIs
<1>4. L \in 0 .. L /\ ~ (L < i) /\ 0 \in 0 .. L /\ 0 < i
  BY <1>1
<1>5. ASSUME NEW n \in 1 .. L PROVE g[n] = g[n - 1] + t[n]
  <2>1. n - 1 \in 0 .. L /\ n \in 0 .. L
    BY <1>1
  <2>2. f[n] = f[n - 1] + s[n] /\ f[n] \in Nat /\ f[n - 1] \in Nat
    BY <1>2, <2>1 DEF Sums
  <2>3. CASE n < i
    <3>1. n - 1 < i /\ t[n] = s[n]
      BY <1>1, <2>3
    <3> QED
      BY <2>1, <2>2, <2>3, <3>1
  <2>4. CASE n = i
    <3>1. n - 1 < i /\ ~ (n < i)
      BY <1>1, <2>4
    <3>2. g[n] = f[n] - s[i] + t[i] /\ g[n - 1] = f[n - 1]
      BY <2>1, <3>1
    <3> QED
      BY <1>1, <2>2, <2>4, <3>2
  <2>5. CASE n > i
    <3>1. ~ (n - 1 < i) /\ ~ (n < i) /\ t[n] = s[n]
      BY <1>1, <2>5
    <3>2. g[n] = f[n] - s[i] + t[i] /\ g[n - 1] = f[n - 1] - s[i] + t[i]
      BY <2>1, <3>1
    <3>3. s[n] \in Nat
      BY <1>1
    <3> DEFINE x == f[n]
               y == f[n - 1]
               z == s[n]
               u == g[n]
               v == g[n - 1]
               c == s[i]
               d == t[i]
    <3>4. x \in Nat /\ y \in Nat /\ z \in Nat /\ x = y + z /\ u = x - c + d /\ v = y - c + d
      BY <2>2, <3>2, <3>3
    <3>6. c \in Nat /\ d \in Nat
      BY <1>1
    <3> HIDE DEF x, y, z, u, v, c, d
    <3>5. u = v + z
      BY <3>4, <3>6
    <3> QED
      BY <3>1, <3>5 DEF u, v, z
  <2> QED
    BY <1>1, <2>3, <2>4, <2>5
<1>6. Sums(g, t)
  <2>1. g[0] = 0
    BY <1>2, <1>4 DEF Sums
  <2>2. g = [n \in 0 .. L |-> g[n]]
    OBVIOUS
  <2> HIDE DEF g, L
  <2> QED
    BY <1>1, <1>5, <2>1, <2>2 DEF Sums
<1>7. Total(t) = g[L]
  <2> HIDE DEF g
  <2> QED
    BY <1>1, <1>6, TotalIs
<1> QED
  BY <1>3, <1>4, <1>7

(* One taken out. *)
LEMMA TotalWithout ==
  ASSUME NEW s \in Seq(Nat), NEW t \in Seq(Nat), NEW i \in 1 .. Len(s), Len(t) = Len(s) - 1,
         \A n \in 1 .. Len(t) : t[n] = IF n < i THEN s[n] ELSE s[n + 1]
  PROVE  Total(t) = Total(s) - s[i]
<1> DEFINE L == Len(s)
           M == L - 1
<1>1. L \in Nat /\ M \in Nat /\ Len(t) = M /\ i \in 1 .. L /\ s[i] \in Nat
      /\ \A n \in 1 .. L : s[n] \in Nat
  OBVIOUS
<1>2. PICK f : Sums(f, s) /\ f \in [0 .. L -> Nat]
  BY SumsExist
<1> DEFINE g == [n \in 0 .. M |-> IF n < i THEN f[n] ELSE f[n + 1] - s[i]]
<1>3. Total(s) = f[L]
  BY <1>2, TotalIs
<1>4. M \in 0 .. M /\ M + 1 = L /\ 0 \in 0 .. M /\ 0 < i
  BY <1>1
<1>5. ASSUME NEW n \in 1 .. M PROVE g[n] = g[n - 1] + t[n]
  <2>1. n - 1 \in 0 .. M /\ n \in 0 .. M /\ n - 1 \in 0 .. L /\ n \in 1 .. L /\ n + 1 \in 1 .. L
        /\ (n + 1) - 1 = n /\ n \in 0 .. L /\ n + 1 \in 0 .. L
    BY <1>1
  <2>2. f[n] = f[n - 1] + s[n] /\ f[n] \in Nat /\ f[n - 1] \in Nat
    BY <1>2, <2>1 DEF Sums
  <2>3. f[n + 1] = f[n] + s[n + 1] /\ f[n + 1] \in Nat
    BY <1>2, <2>1 DEF Sums
  <2>4. s[n] \in Nat /\ s[n + 1] \in Nat
    BY <1>1, <2>1
  <2>5. CASE n < i
    <3>1. n - 1 < i /\ t[n] = s[n]
      BY <1>1, <2>5
    <3> QED
      BY <2>1, <2>2, <2>5, <3>1
  <2>6. CASE n = i
    <3>1. n - 1 < i /\ ~ (n < i) /\ t[n] = s[n + 1]
      BY <1>1, <2>6
    <3>2. g[n] = f[n + 1] - s[i] /\ g[n - 1] = f[n - 1]
      BY <2>1, <3>1
    <3> DEFINE x == f[n]
               y == f[n - 1]
               z == f[n + 1]
               c == s[n]
               d == s[n + 1]
               u == g[n]
               v == g[n - 1]
    <3>3. x \in Nat /\ y \in Nat /\ z \in Nat /\ c \in Nat /\ d \in Nat
          /\ x = y + c /\ z = x + d /\ u = z - c /\ v = y
      BY <2>2, <2>3, <2>4, <2>6, <3>2
    <3> HIDE DEF x, y, z, c, d, u, v
    <3>4. u = v + d
      BY <3>3
    <3> QED
      BY <3>1, <3>4 DEF u, v, d
  <2>7. CASE n > i
    <3>1. ~ (n - 1 < i) /\ ~ (n < i) /\ t[n] = s[n + 1] /\ (n - 1) + 1 = n
      BY <1>1, <2>7
    <3>2. g[n] = f[n + 1] - s[i] /\ g[n - 1] = f[n] - s[i]
      BY <2>1, <3>1
    <3> DEFINE x == f[n]
               z == f[n + 1]
               d == s[n + 1]
               e == s[i]
               u == g[n]
               v == g[n - 1]
    <3>3. x \in Nat /\ z \in Nat /\ d \in Nat /\ e \in Nat /\ z = x + d /\ u = z - e /\ v = x - e
      BY <1>1, <2>2, <2>3, <2>4, <3>2
    <3> HIDE DEF x, z, d, e, u, v
    <3>4. u = v + d
      BY <3>3
    <3> QED
      BY <3>1, <3>4 DEF u, v, d
  <2> QED
    BY <1>1, <2>5, <2>6, <2>7
<1>6. Sums(g, t)
  <2>1. g[0] = 0
    BY <1>2, <1>4 DEF Sums
  <2>2. g = [n \in 0 .. M |-> g[n]]
    OBVIOUS
  <2> HIDE DEF g, M
  <2> QED
    BY <1>1, <1>5, <2>1, <2>2 DEF Sums
<1>7. Total(t) = g[M]
  <2> HIDE DEF g
  <2> QED
    BY <1>1, <1>6, TotalIs
<1>8. g[M] = f[L] - s[i]
  <2>1. CASE M < i
    <3>1. i = L /\ L \in 1 .. L /\ L - 1 = M
      BY <1>1, <2>1
    <3>2. f[L] = f[M] + s[L]
      BY <1>2, <3>1 DEF Sums
    <3>3. g[M] = f[M] /\ M \in 0 .. L
      BY <1>1, <1>4, <2>1
    <3>4. f[M] \in Nat /\ s[L] \in Nat
      BY <1>1, <1>2, <3>1, <3>3
    <3> QED
      BY <3>1, <3>2, <3>3, <3>4
  <2>2. CASE ~ (M < i)
    BY <1>4, <2>2
  <2> QED
    BY <2>1, <2>2
<1> QED
  BY <1>3, <1>7, <1>8

(* A sequence cut in two. *)
LEMMA TotalCut ==
  ASSUME NEW s \in Seq(Nat), NEW h \in Seq(Nat), NEW t \in Seq(Nat), Len(s) = Len(h) + Len(t),
         \A n \in 1 .. Len(h) : h[n] = s[n],
         \A n \in 1 .. Len(t) : t[n] = s[n + Len(h)]
  PROVE  Total(s) = Total(h) + Total(t)
<1> DEFINE L == Len(s)
           p == Len(h)
           M == Len(t)
<1>1. L \in Nat /\ p \in Nat /\ M \in Nat /\ L = p + M
  OBVIOUS
<1>2. PICK f : Sums(f, s) /\ f \in [0 .. L -> Nat]
  BY SumsExist
<1> DEFINE a == [n \in 0 .. p |-> f[n]]
           b == [n \in 0 .. M |-> f[n + p] - f[p]]
<1>3. Total(s) = f[L]
  BY <1>2, TotalIs
<1>4. 0 \in 0 .. p /\ p \in 0 .. p /\ 0 \in 0 .. M /\ M \in 0 .. M /\ p \in 0 .. L /\ M + p = L
      /\ 0 + p = p
  BY <1>1
<1>5. ASSUME NEW n \in 1 .. p PROVE a[n] = a[n - 1] + h[n]
  <2>1. n \in 0 .. p /\ n - 1 \in 0 .. p /\ n \in 1 .. L
    BY <1>1
  <2> QED
    BY <1>2, <2>1 DEF Sums
<1>6. ASSUME NEW n \in 1 .. M PROVE b[n] = b[n - 1] + t[n]
  <2>1. n \in 0 .. M /\ n - 1 \in 0 .. M /\ n + p \in 1 .. L /\ (n + p) - 1 = (n - 1) + p
        /\ n + p \in 0 .. L /\ (n - 1) + p \in 0 .. L
    BY <1>1
  <2>2. f[n + p] = f[(n - 1) + p] + s[n + p]
    BY <1>2, <2>1 DEF Sums
  <2>3. b[n] = f[n + p] - f[p] /\ b[n - 1] = f[(n - 1) + p] - f[p] /\ t[n] = s[n + p]
    BY <2>1
  <2>5. s[n + p] \in Nat
    BY <2>1
  <2>4. f[n + p] \in Nat /\ f[(n - 1) + p] \in Nat /\ f[p] \in Nat
    <3> HIDE DEF L, p, M
    <3> QED
      BY <1>1, <1>2, <1>4, <2>1
  <2> DEFINE x == f[n + p]
             y == f[(n - 1) + p]
             z == s[n + p]
             u == b[n]
             v == b[n - 1]
             q == f[p]
  <2>6. x \in Nat /\ y \in Nat /\ z \in Nat /\ q \in Nat /\ x = y + z /\ u = x - q /\ v = y - q
    BY <2>2, <2>3, <2>4, <2>5
  <2> HIDE DEF x, y, z, u, v, q
  <2>7. u = v + z
    BY <2>6
  <2> QED
    BY <2>3, <2>7 DEF u, v, z
<1>7. Sums(a, h)
  <2>1. a[0] = 0
    BY <1>2, <1>4 DEF Sums
  <2>2. a = [n \in 0 .. p |-> a[n]]
    OBVIOUS
  <2> HIDE DEF a
  <2> QED
    BY <1>5, <2>1, <2>2 DEF Sums
<1>8. Sums(b, t)
  <2>1. b[0] = f[p] - f[p] /\ f[p] \in Nat
    BY <1>2, <1>4
  <2>2. b = [n \in 0 .. M |-> b[n]]
    OBVIOUS
  <2> HIDE DEF b
  <2> QED
    BY <1>6, <2>1, <2>2 DEF Sums
<1>9. Total(h) = f[p]
  <2>1. Total(h) = a[p]
    BY <1>7, TotalIs
  <2> QED
    BY <1>4, <2>1
<1>10. Total(t) = f[L] - f[p]
  <2>1. Total(t) = b[M]
    BY <1>8, TotalIs
  <2> QED
    BY <1>4, <2>1
<1>11. f \in [0 .. L -> Nat] /\ p \in 0 .. L /\ L \in 0 .. L
  BY <1>1, <1>2, <1>4
<1>12. f[p] \in Nat /\ f[L] \in Nat
  <2> HIDE DEF p, L, a, b
  <2> QED
    BY <1>11
<1> HIDE DEF p, a, b, L
<1> QED
  BY <1>3, <1>9, <1>10, <1>12

LEMMA RemovedAt ==
  ASSUME NEW T, NEW s \in Seq(T), NEW i \in 1 .. Len(s), NEW t, t = RemoveAt(s, i)
  PROVE  /\ t \in Seq(T) /\ Len(t) = Len(s) - 1
         /\ \A n \in 1 .. Len(t) : t[n] = IF n < i THEN s[n] ELSE s[n + 1]
<1> DEFINE a == SubSeq(s, 1, i - 1)
           b == SubSeq(s, i + 1, Len(s))
           L == Len(s)
<1>1. L \in Nat /\ i \in 1 .. L
  BY LenProperties
<1>2. a \in Seq(T) /\ Len(a) = i - 1 /\ \A n \in 1 .. i - 1 : a[n] = s[n]
  <2>1. \A j \in 1 .. i - 1 : s[j] \in T
    BY <1>1, ElementOfSeq
  <2>2. a \in Seq(T) /\ Len(a) = IF 1 <= i - 1 THEN (i - 1) - 1 + 1 ELSE 0
    BY <1>1, <2>1, SubSeqProperties
  <2>3. \A n \in 1 .. (i - 1) - 1 + 1 : a[n] = s[1 + n - 1]
    BY <1>1, <2>1, SubSeqProperties
  <2> HIDE DEF a
  <2> QED
    BY <1>1, <2>2, <2>3
<1>3. b \in Seq(T) /\ Len(b) = L - i /\ \A n \in 1 .. L - i : b[n] = s[n + i]
  <2>1. \A j \in i + 1 .. Len(s) : s[j] \in T
    BY <1>1, ElementOfSeq
  <2>2. b \in Seq(T) /\ Len(b) = IF i + 1 <= L THEN L - (i + 1) + 1 ELSE 0
    BY <1>1, <2>1, SubSeqProperties
  <2>3. \A n \in 1 .. L - (i + 1) + 1 : b[n] = s[(i + 1) + n - 1]
    BY <1>1, <2>1, SubSeqProperties
  <2> HIDE DEF b, L
  <2>4. \A n \in 1 .. L - i : b[n] = s[n + i]
    <3>1. \A n \in 1 .. L - i : n \in 1 .. L - (i + 1) + 1 /\ (i + 1) + n - 1 = n + i
      BY <1>1
    <3> QED
      BY <2>3, <3>1
  <2> QED
    BY <1>1, <2>2, <2>4
<1>4. t = a \o b
  BY DEF RemoveAt
<1> HIDE DEF a, b
<1>5. t \in Seq(T) /\ Len(t) = Len(a) + Len(b)
      /\ \A n \in 1 .. Len(a) + Len(b) : t[n] = IF n <= Len(a) THEN a[n] ELSE b[n - Len(a)]
  <2>1. a \in Seq(T) /\ b \in Seq(T)
    BY <1>2, <1>3
  <2>2. a \o b \in Seq(T) /\ Len(a \o b) = Len(a) + Len(b)
        /\ \A n \in 1 .. Len(a) + Len(b) : (a \o b)[n] = IF n <= Len(a) THEN a[n] ELSE b[n - Len(a)]
    BY <2>1, ConcatProperties
  <2> QED
    BY <1>4, <2>2
<1>6. Len(t) = L - 1
  BY <1>1, <1>2, <1>3, <1>5
<1>7. ASSUME NEW n \in 1 .. Len(t) PROVE t[n] = IF n < i THEN s[n] ELSE s[n + 1]
  <2>0. n \in 1 .. Len(a) + Len(b)
    BY <1>5
  <2>1. CASE n < i
    <3>1. n <= Len(a) /\ n \in 1 .. i - 1
      BY <1>1, <1>2, <2>1
    <3> QED
      BY <1>2, <1>5, <2>0, <2>1, <3>1
  <2>2. CASE ~ (n < i)
    <3>1. ~ (n <= Len(a)) /\ n - Len(a) \in 1 .. L - i /\ (n - Len(a)) + i = n + 1
      BY <1>1, <1>2, <1>6, <2>2
    <3>2. t[n] = b[n - Len(a)]
      BY <1>5, <2>0, <3>1
    <3> QED
      BY <1>3, <2>2, <3>1, <3>2
  <2> QED
    BY <2>1, <2>2
<1> QED
  BY <1>5, <1>6, <1>7

LEMMA PartOf ==
  ASSUME NEW T, NEW s \in Seq(T), NEW m \in 1 .. Len(s) + 1, NEW n \in 0 .. Len(s), m <= n + 1,
         NEW t, t = SubSeq(s, m, n)
  PROVE  /\ t \in Seq(T) /\ Len(t) = n - m + 1
         /\ \A k \in 1 .. Len(t) : t[k] = s[m + k - 1]
<1>1. Len(s) \in Nat /\ m \in Int /\ n \in Int
  BY LenProperties
<1>2. \A j \in m .. n : s[j] \in T
  BY <1>1, ElementOfSeq
<1>3. t \in Seq(T) /\ Len(t) = (IF m <= n THEN n - m + 1 ELSE 0)
      /\ \A k \in 1 .. n - m + 1 : t[k] = s[m + k - 1]
  BY <1>1, <1>2, SubSeqProperties
<1> QED
  BY <1>1, <1>3

LEMMA RestOf ==
  ASSUME NEW T, NEW s \in Seq(T), NEW p \in 0 .. Len(s), NEW t, t = SubSeq(s, p + 1, Len(s))
  PROVE  /\ t \in Seq(T) /\ Len(t) = Len(s) - p
         /\ \A n \in 1 .. Len(t) : t[n] = s[n + p]
<1> DEFINE L == Len(s)
<1>1. L \in Nat /\ p \in 0 .. L
  BY LenProperties
<1>2. \A j \in p + 1 .. Len(s) : s[j] \in T
  BY <1>1, ElementOfSeq
<1>3. /\ t \in Seq(T) /\ Len(t) = (IF p + 1 <= L THEN L - (p + 1) + 1 ELSE 0)
      /\ \A k \in 1 .. L - (p + 1) + 1 : t[k] = s[(p + 1) + k - 1]
  BY <1>1, <1>2, SubSeqProperties
<1> HIDE DEF L
<1>4. \A n \in 1 .. L - p : n \in 1 .. L - (p + 1) + 1 /\ (p + 1) + n - 1 = n + p
  BY <1>1
<1>5. Len(t) = L - p
  BY <1>1, <1>3
<1> QED
  BY <1>3, <1>4, <1>5 DEF L

(***************************************************************************)
(* The bytes of the cache.                                                 *)
(***************************************************************************)

LEMMA CacheSizes ==
  ASSUME NEW c \in Seq(Lasting)
  PROVE  \E z \in Seq(Nat) : /\ Len(z) = Len(c) /\ CacheBytes(c) = Total(z)
                             /\ \A i \in 1 .. Len(c) : z[i] = c[i].answer.size
<1> DEFINE z == [i \in DOMAIN c |-> c[i].answer.size]
<1>1. DOMAIN c = 1 .. Len(c) /\ Len(c) \in Nat
  BY LenProperties
<1>2. \A i \in 1 .. Len(c) : c[i].answer.size \in Nat
  BY <1>1, ElementOfSeq DEF Lasting, Answers
<1>3. z \in [1 .. Len(c) -> Nat]
  BY <1>1, <1>2
<1>4. z \in Seq(Nat) /\ Len(z) = Len(c)
  <2> HIDE DEF z
  <2> QED
    BY <1>1, <1>3, FunctionIsSeq
<1>5. CacheBytes(c) = Total(z) /\ \A i \in 1 .. Len(c) : z[i] = c[i].answer.size
  BY <1>1 DEF CacheBytes
<1> QED
  BY <1>4, <1>5

LEMMA CacheBytesNat ==
  ASSUME NEW c \in Seq(Lasting)
  PROVE  CacheBytes(c) \in Nat /\ (Len(c) = 0 => CacheBytes(c) = 0)
<1>1. PICK z \in Seq(Nat) : Len(z) = Len(c) /\ CacheBytes(c) = Total(z)
  BY CacheSizes
<1>2. Len(z) = 0 => z = <<>>
  BY EmptySeq
<1> QED
  BY <1>1, <1>2, TotalNat

LEMMA CacheWithout ==
  ASSUME NEW c \in Seq(Lasting), NEW i \in 1 .. Len(c), NEW d, d = RemoveAt(c, i)
  PROVE  /\ d \in Seq(Lasting) /\ Len(d) = Len(c) - 1 /\ c[i].answer.size \in Nat
         /\ CacheBytes(d) = CacheBytes(c) - c[i].answer.size
<1>1. /\ d \in Seq(Lasting) /\ Len(d) = Len(c) - 1
      /\ \A n \in 1 .. Len(d) : d[n] = IF n < i THEN c[n] ELSE c[n + 1]
  BY RemovedAt
<1>2. PICK z \in Seq(Nat) : /\ Len(z) = Len(c) /\ CacheBytes(c) = Total(z)
                            /\ \A k \in 1 .. Len(c) : z[k] = c[k].answer.size
  BY CacheSizes
<1>3. PICK y \in Seq(Nat) : /\ Len(y) = Len(d) /\ CacheBytes(d) = Total(y)
                            /\ \A k \in 1 .. Len(d) : y[k] = d[k].answer.size
  BY <1>1, CacheSizes
<1>4. Len(c) \in Nat /\ z[i] = c[i].answer.size /\ z[i] \in Nat
  BY <1>2, LenProperties, ElementOfSeq
<1>5. ASSUME NEW n \in 1 .. Len(y) PROVE y[n] = IF n < i THEN z[n] ELSE z[n + 1]
  <2>1. n \in 1 .. Len(d) /\ n \in 1 .. Len(c) /\ n + 1 \in 1 .. Len(c)
    BY <1>1, <1>3, <1>4
  <2> QED
    BY <1>1, <1>2, <1>3, <2>1
<1>6. Total(y) = Total(z) - z[i]
  <2>1. i \in 1 .. Len(z) /\ Len(y) = Len(z) - 1
    BY <1>1, <1>2, <1>3
  <2> QED
    BY <1>5, <2>1, TotalWithout
<1> QED
  BY <1>1, <1>2, <1>3, <1>4, <1>6

LEMMA CacheWith ==
  ASSUME NEW c \in Seq(Lasting), NEW e \in Lasting, NEW d, d = Append(c, e)
  PROVE  /\ d \in Seq(Lasting) /\ Len(d) = Len(c) + 1 /\ e.answer.size \in Nat
         /\ CacheBytes(d) = CacheBytes(c) + e.answer.size
<1>1. /\ d \in Seq(Lasting) /\ Len(d) = Len(c) + 1 /\ d[Len(d)] = e
      /\ \A n \in 1 .. Len(c) : d[n] = c[n]
  BY AppendProperties
<1>2. PICK z \in Seq(Nat) : /\ Len(z) = Len(c) /\ CacheBytes(c) = Total(z)
                            /\ \A k \in 1 .. Len(c) : z[k] = c[k].answer.size
  BY CacheSizes
<1>3. PICK y \in Seq(Nat) : /\ Len(y) = Len(d) /\ CacheBytes(d) = Total(y)
                            /\ \A k \in 1 .. Len(d) : y[k] = d[k].answer.size
  BY <1>1, CacheSizes
<1>4. Len(c) \in Nat /\ Len(d) \in 1 .. Len(d) /\ \A n \in 1 .. Len(c) : n \in 1 .. Len(d)
  BY <1>1, LenProperties
<1>5. \A n \in 1 .. Len(z) : y[n] = z[n]
  BY <1>1, <1>2, <1>3, <1>4
<1>6. Total(y) = Total(z) + y[Len(y)]
  <2>1. Len(y) = Len(z) + 1
    BY <1>1, <1>2, <1>3
  <2> QED
    BY <1>5, <2>1, TotalAppended
<1>7. y[Len(y)] = e.answer.size /\ e.answer.size \in Nat
  BY <1>1, <1>3, <1>4 DEF Lasting, Answers
<1> QED
  BY <1>1, <1>2, <1>3, <1>6, <1>7

LEMMA CacheEvicted ==
  ASSUME NEW c \in Seq(Lasting), NEW k, k = evictIfNeededLocked(c)
  PROVE  /\ k.items \in Seq(Lasting) /\ Len(k.items) <= shardLimit /\ Len(k.items) <= Len(c)
         /\ k.freed \in Nat /\ CacheBytes(k.items) = CacheBytes(c) - k.freed
<1> DEFINE over == IF Len(c) > shardLimit THEN Len(c) - shardLimit ELSE 0
           gone == SubSeq(c, 1, over)
           left == SubSeq(c, over + 1, Len(c))
<1>1. Len(c) \in Nat /\ shardLimit \in Nat /\ over \in 0 .. Len(c) /\ Len(c) - over <= shardLimit
  BY TimesAssumption, LenProperties
<1>2. k.items = left /\ k.freed = CacheBytes(gone)
  BY DEF evictIfNeededLocked
<1> HIDE DEF over
<1>3. /\ gone \in Seq(Lasting) /\ Len(gone) = over
      /\ \A n \in 1 .. Len(gone) : gone[n] = c[n]
  <2>1. 1 \in 1 .. Len(c) + 1 /\ 1 <= over + 1 /\ over - 1 + 1 = over /\ \A n \in 1 .. over : 1 + n - 1 = n
    BY <1>1
  <2>2. /\ gone \in Seq(Lasting) /\ Len(gone) = over - 1 + 1
        /\ \A n \in 1 .. Len(gone) : gone[n] = c[1 + n - 1]
    BY <1>1, <2>1, PartOf
  <2> HIDE DEF gone
  <2> QED
    BY <2>1, <2>2
<1>4. /\ left \in Seq(Lasting) /\ Len(left) = Len(c) - over
      /\ \A n \in 1 .. Len(left) : left[n] = c[n + over]
  <2> DEFINE m == over + 1
  <2>1. m \in 1 .. Len(c) + 1 /\ Len(c) \in 0 .. Len(c) /\ m <= Len(c) + 1
        /\ Len(c) - m + 1 = Len(c) - over
        /\ \A n \in 1 .. Len(c) - over : m + n - 1 = n + over
    BY <1>1
  <2>2. left = SubSeq(c, m, Len(c))
    OBVIOUS
  <2> HIDE DEF m, left
  <2>3. /\ left \in Seq(Lasting) /\ Len(left) = Len(c) - m + 1
        /\ \A n \in 1 .. Len(left) : left[n] = c[m + n - 1]
    BY <2>1, <2>2, PartOf
  <2> QED
    BY <2>1, <2>3
<1> HIDE DEF gone, left
<1>5. PICK z \in Seq(Nat) : /\ Len(z) = Len(c) /\ CacheBytes(c) = Total(z)
                            /\ \A i \in 1 .. Len(c) : z[i] = c[i].answer.size
  BY CacheSizes
<1>6. PICK h \in Seq(Nat) : /\ Len(h) = Len(gone) /\ CacheBytes(gone) = Total(h)
                            /\ \A i \in 1 .. Len(gone) : h[i] = gone[i].answer.size
  BY <1>3, CacheSizes
<1>7. PICK t \in Seq(Nat) : /\ Len(t) = Len(left) /\ CacheBytes(left) = Total(t)
                            /\ \A i \in 1 .. Len(left) : t[i] = left[i].answer.size
  BY <1>4, CacheSizes
<1>8. \A n \in 1 .. Len(h) : h[n] = z[n]
  <2>1. \A n \in 1 .. Len(h) : n \in 1 .. Len(c) /\ n \in 1 .. Len(gone)
    BY <1>1, <1>3, <1>6
  <2> QED
    BY <1>3, <1>5, <1>6, <2>1
<1>9. \A n \in 1 .. Len(t) : t[n] = z[n + Len(h)]
  <2>1. \A n \in 1 .. Len(t) : n + over \in 1 .. Len(c) /\ n \in 1 .. Len(left) /\ Len(h) = over
    BY <1>1, <1>3, <1>4, <1>6, <1>7
  <2> QED
    BY <1>4, <1>5, <1>7, <2>1
<1>10. Len(z) = Len(h) + Len(t)
  BY <1>1, <1>3, <1>4, <1>5, <1>6, <1>7
<1>11. Total(z) = Total(h) + Total(t)
  BY <1>8, <1>9, <1>10, TotalCut
<1>12. Total(h) \in Nat /\ Total(t) \in Nat
  BY TotalNat
<1> QED
  BY <1>1, <1>2, <1>4, <1>5, <1>6, <1>7, <1>11, <1>12

LEMMA GetReadyBudget ==
  ASSUME cache \in Seq(Lasting), CacheBudget, NEW key, NEW now,
         \/ UNCHANGED <<cache, responseBytes>>
         \/ \E i \in Cached(key) :
              IF now >= cache[i].expires
              THEN /\ cache' = RemoveAt(cache, i)
                   /\ responseBytes' = responseBytes - cache[i].answer.size
              ELSE /\ cache' = Append(RemoveAt(cache, i), cache[i])
                   /\ UNCHANGED responseBytes
  PROVE  CacheBudget'
<1>1. responseBytes = CacheBytes(cache) /\ responseBytes <= maxResponseBytes /\ Len(cache) <= shardLimit
      /\ maxResponseBytes \in Nat /\ shardLimit \in Nat /\ CacheBytes(cache) \in Nat /\ Len(cache) \in Nat
  BY TimesAssumption, CacheBytesNat, LenProperties DEF CacheBudget
<1>2. CASE UNCHANGED <<cache, responseBytes>>
  BY <1>1, <1>2 DEF CacheBudget, CacheBytes
<1>3. ASSUME NEW i \in Cached(key),
             IF now >= cache[i].expires
             THEN /\ cache' = RemoveAt(cache, i)
                  /\ responseBytes' = responseBytes - cache[i].answer.size
             ELSE /\ cache' = Append(RemoveAt(cache, i), cache[i])
                  /\ UNCHANGED responseBytes
      PROVE  CacheBudget'
  <2>1. i \in 1 .. Len(cache) /\ cache[i] \in Lasting
    BY LenProperties, ElementOfSeq DEF Cached
  <2> DEFINE d == RemoveAt(cache, i)
             n == cache[i].answer.size
  <2>2. /\ d \in Seq(Lasting) /\ Len(d) = Len(cache) - 1 /\ n \in Nat
        /\ CacheBytes(d) = CacheBytes(cache) - n
    BY <2>1, CacheWithout
  <2>3. CASE now >= cache[i].expires
    <3>1. cache' = d /\ responseBytes' = responseBytes - n
      BY <1>3, <2>3
    <3> HIDE DEF d, n
    <3>2. responseBytes' = CacheBytes(d) /\ responseBytes' <= maxResponseBytes /\ Len(d) <= shardLimit
      BY <1>1, <2>2, <3>1
    <3> QED
      BY <3>1, <3>2 DEF CacheBudget, CacheBytes
  <2>4. CASE ~ (now >= cache[i].expires)
    <3> DEFINE e == cache[i]
               q == Append(d, e)
    <3>1. cache' = q /\ responseBytes' = responseBytes
      BY <1>3, <2>4
    <3>2. /\ Len(q) = Len(d) + 1
          /\ CacheBytes(q) = CacheBytes(d) + e.answer.size
      <4> HIDE DEF d, e
      <4> QED
        BY <2>1, <2>2, CacheWith DEF e
    <3> HIDE DEF d, q
    <3>3. responseBytes' = CacheBytes(q) /\ Len(q) <= shardLimit
      BY <1>1, <2>2, <3>1, <3>2
    <3> QED
      BY <1>1, <3>1, <3>3 DEF CacheBudget, CacheBytes
  <2> QED
    BY <2>3, <2>4
<1> QED
  BY <1>2, <1>3

LEMMA SetReadyBudget ==
  ASSUME cache \in Seq(Lasting), CacheBudget, NEW key \in Keys, NEW answer \in Answers, NEW now \in Nat,
         now <= answer.obtained, SetReady(key, answer, now)
  PROVE  CacheBudget'
<1> DEFINE old == Cached(key)
           i == CHOOSE x \in old : TRUE
           without == IF old = {} THEN cache ELSE RemoveAt(cache, i)
           oldSize == IF old = {} THEN 0 ELSE cache[i].answer.size
           new == [key |-> key, answer |-> answer, expires |-> now + Effective(answer)]
           more == Append(without, new)
           kept == evictIfNeededLocked(more)
           full == answer.size > oldSize /\ responseBytes + answer.size - oldSize > maxResponseBytes
<1>1. responseBytes = CacheBytes(cache) /\ responseBytes <= maxResponseBytes /\ Len(cache) <= shardLimit
      /\ maxResponseBytes \in Nat /\ shardLimit \in Nat /\ CacheBytes(cache) \in Nat /\ Len(cache) \in Nat
  BY TimesAssumption, CacheBytesNat, LenProperties DEF CacheBudget
<1>2. /\ without \in Seq(Lasting) /\ Len(without) <= Len(cache) /\ oldSize \in Nat
      /\ CacheBytes(without) = CacheBytes(cache) - oldSize
  <2>1. CASE old = {}
    BY <1>1, <2>1
  <2>2. CASE old # {}
    <3>1. i \in old
      BY <2>2
    <3>2. i \in 1 .. Len(cache)
      BY <3>1, LenProperties DEF Cached
    <3> DEFINE d == RemoveAt(cache, i)
               n == cache[i].answer.size
    <3> HIDE DEF i
    <3>3. /\ d \in Seq(Lasting) /\ Len(d) = Len(cache) - 1 /\ n \in Nat
          /\ CacheBytes(d) = CacheBytes(cache) - n
      BY <3>2, CacheWithout
    <3>4. without = d /\ oldSize = n
      BY <2>2
    <3> QED
      BY <1>1, <3>3, <3>4
  <2> QED
    BY <2>1, <2>2
<1>3. new \in Lasting /\ new.answer.size = answer.size /\ answer.size \in Nat
  <2>1. answer.obtained \in Nat /\ answer.ttl \in Nat /\ cacheTTL \in Nat /\ answer.size \in Nat
    BY TimesAssumption DEF Answers
  <2>2. Effective(answer) \in Nat /\ Effective(answer) <= answer.ttl
    BY <2>1 DEF Effective
  <2>3. new.expires <= new.answer.obtained + new.answer.ttl
    BY <2>1, <2>2
  <2>4. new \in [key : Keys, answer : Answers, expires : Nat]
    BY <2>2
  <2> QED
    BY <2>1, <2>3, <2>4 DEF Lasting
<1>4. \/ cache' = without /\ responseBytes' = responseBytes - oldSize
      \/ ~ full /\ cache' = kept.items /\ responseBytes' = responseBytes + answer.size - oldSize - kept.freed
  BY DEF SetReady
<1>5. /\ more \in Seq(Lasting) /\ CacheBytes(more) = CacheBytes(without) + answer.size
  <2>1. more = Append(without, new)
    OBVIOUS
  <2> HIDE DEF more, without, new
  <2> QED
    BY <1>2, <1>3, <2>1, CacheWith
<1>6. /\ kept.items \in Seq(Lasting) /\ Len(kept.items) <= shardLimit
      /\ kept.freed \in Nat /\ CacheBytes(kept.items) = CacheBytes(more) - kept.freed
  <2> HIDE DEF more
  <2> QED
    BY <1>5, CacheEvicted
<1>7. full <=> answer.size > oldSize /\ responseBytes + answer.size - oldSize > maxResponseBytes
  OBVIOUS
<1>8. CacheBytes(without) \in Nat /\ Len(without) \in Nat
  <2> HIDE DEF without
  <2> QED
    BY <1>2, CacheBytesNat, LenProperties
<1> DEFINE items == kept.items
           freed == kept.freed
           size == answer.size
<1> HIDE DEF without, oldSize, more, full, kept
<1>9. CASE cache' = without /\ responseBytes' = responseBytes - oldSize
  <2>1. responseBytes' = CacheBytes(without) /\ responseBytes' <= maxResponseBytes /\ Len(without) <= shardLimit
    BY <1>1, <1>2, <1>8, <1>9
  <2> QED
    BY <1>9, <2>1 DEF CacheBudget, CacheBytes
<1>10. CASE ~ full /\ cache' = items /\ responseBytes' = responseBytes + size - oldSize - freed
  <2>1. responseBytes' = CacheBytes(items)
    BY <1>1, <1>2, <1>3, <1>5, <1>6, <1>8, <1>10
  <2>2. responseBytes + size - oldSize <= maxResponseBytes
    BY <1>1, <1>2, <1>3, <1>7, <1>10
  <2>3. responseBytes' <= maxResponseBytes
    BY <1>1, <1>2, <1>3, <1>6, <1>10, <2>2
  <2> QED
    BY <1>6, <1>10, <2>1, <2>3 DEF CacheBudget, CacheBytes
<1> QED
  BY <1>4, <1>9, <1>10

(***************************************************************************)
(* The fragments.                                                          *)
(***************************************************************************)

Pieces == UNION {[0 .. n - 1 -> Nat \union {Nil}] : n \in Nat}
FragRecord == [key : FragKeys, total : Nat \ {0}, chunks : Pieces, count : Nat, bytes : Nat, wrapped : BOOLEAN]

Here(e) == {i \in 0 .. e.total - 1 : e.chunks[i] # Nil}

(* An entry counts its bytes, and at least the fragments that have come.    *)
Sound(e) ==
  /\ e \in FragRecord /\ e.chunks \in [0 .. e.total - 1 -> Nat \union {Nil}]
  /\ e.bytes = Total(Held(e))
  /\ ~e.wrapped => Cardinality(Here(e)) <= e.count

Waiting(e) == e.wrapped \/ \E n \in DOMAIN e.chunks : e.chunks[n] = Nil

Members(items) == {items[i] : i \in 1 .. Len(items)}

(* A store within its limits, one entry for a key. *)
GoodStore(st) ==
  /\ st.items \in Seq(FragRecord) /\ Len(st.items) <= maxPartial
  /\ \A i, j \in 1 .. Len(st.items) : st.items[i].key = st.items[j].key => i = j
  /\ \A i \in 1 .. Len(st.items) : Sound(st.items[i])
  /\ st.bytes = Bytes(st.items) /\ st.bytes <= maxStoreBytes

FragInv ==
  /\ GoodStore([items |-> partial, bytes |-> bytes])
  /\ \A e \in Members(partial) : Waiting(e)
  /\ completed \in Seq(FragKeys) /\ Len(completed) <= maxCompleted

LEMMA FragSizes ==
  ASSUME NEW c \in Seq(FragRecord)
  PROVE  \E z \in Seq(Nat) : /\ Len(z) = Len(c) /\ Bytes(c) = Total(z)
                             /\ \A i \in 1 .. Len(c) : z[i] = c[i].bytes
<1> DEFINE z == [i \in DOMAIN c |-> c[i].bytes]
<1>1. DOMAIN c = 1 .. Len(c) /\ Len(c) \in Nat
  BY LenProperties
<1>2. \A i \in 1 .. Len(c) : c[i].bytes \in Nat
  <2>1. \A i \in 1 .. Len(c) : c[i] \in FragRecord
    BY <1>1, ElementOfSeq
  <2>2. \A e \in FragRecord : e.bytes \in Nat
    BY DEF FragRecord
  <2> QED
    BY <2>1, <2>2
<1>3. z \in [1 .. Len(c) -> Nat]
  BY <1>1, <1>2
<1>4. z \in Seq(Nat) /\ Len(z) = Len(c)
  <2> HIDE DEF z
  <2> QED
    BY <1>1, <1>3, FunctionIsSeq
<1>5. Bytes(c) = Total(z) /\ \A i \in 1 .. Len(c) : z[i] = c[i].bytes
  BY <1>1 DEF Bytes
<1> QED
  BY <1>4, <1>5

LEMMA BytesNat ==
  ASSUME NEW c \in Seq(FragRecord)
  PROVE  Bytes(c) \in Nat /\ (Len(c) = 0 => Bytes(c) = 0)
<1>1. PICK z \in Seq(Nat) : Len(z) = Len(c) /\ Bytes(c) = Total(z)
  BY FragSizes
<1>2. Len(z) = 0 => z = <<>>
  BY EmptySeq
<1> QED
  BY <1>1, <1>2, TotalNat

LEMMA BytesWithout ==
  ASSUME NEW c \in Seq(FragRecord), NEW i \in 1 .. Len(c), NEW d, d = RemoveAt(c, i)
  PROVE  /\ d \in Seq(FragRecord) /\ Len(d) = Len(c) - 1 /\ c[i].bytes \in Nat
         /\ Bytes(d) = Bytes(c) - c[i].bytes
         /\ \A n \in 1 .. Len(d) : d[n] = IF n < i THEN c[n] ELSE c[n + 1]
<1>1. /\ d \in Seq(FragRecord) /\ Len(d) = Len(c) - 1
      /\ \A n \in 1 .. Len(d) : d[n] = IF n < i THEN c[n] ELSE c[n + 1]
  BY RemovedAt
<1>2. PICK z \in Seq(Nat) : /\ Len(z) = Len(c) /\ Bytes(c) = Total(z)
                            /\ \A k \in 1 .. Len(c) : z[k] = c[k].bytes
  BY FragSizes
<1>3. PICK y \in Seq(Nat) : /\ Len(y) = Len(d) /\ Bytes(d) = Total(y)
                            /\ \A k \in 1 .. Len(d) : y[k] = d[k].bytes
  BY <1>1, FragSizes
<1>4. Len(c) \in Nat /\ z[i] = c[i].bytes /\ z[i] \in Nat
  BY <1>2, LenProperties, ElementOfSeq
<1>5. ASSUME NEW n \in 1 .. Len(y) PROVE y[n] = IF n < i THEN z[n] ELSE z[n + 1]
  <2>1. n \in 1 .. Len(d) /\ n \in 1 .. Len(c) /\ n + 1 \in 1 .. Len(c)
    BY <1>1, <1>3, <1>4
  <2> QED
    BY <1>1, <1>2, <1>3, <2>1
<1>6. Total(y) = Total(z) - z[i]
  <2>1. i \in 1 .. Len(z) /\ Len(y) = Len(z) - 1
    BY <1>1, <1>2, <1>3
  <2> QED
    BY <1>5, <2>1, TotalWithout
<1> QED
  BY <1>1, <1>2, <1>3, <1>4, <1>6

LEMMA BytesWith ==
  ASSUME NEW c \in Seq(FragRecord), NEW e \in FragRecord, NEW d, d = Append(c, e)
  PROVE  /\ d \in Seq(FragRecord) /\ Len(d) = Len(c) + 1 /\ d[Len(d)] = e
         /\ \A n \in 1 .. Len(c) : d[n] = c[n]
         /\ Bytes(d) = Bytes(c) + e.bytes
<1>1. /\ d \in Seq(FragRecord) /\ Len(d) = Len(c) + 1 /\ d[Len(d)] = e
      /\ \A n \in 1 .. Len(c) : d[n] = c[n]
  BY AppendProperties
<1>2. PICK z \in Seq(Nat) : /\ Len(z) = Len(c) /\ Bytes(c) = Total(z)
                            /\ \A k \in 1 .. Len(c) : z[k] = c[k].bytes
  BY FragSizes
<1>3. PICK y \in Seq(Nat) : /\ Len(y) = Len(d) /\ Bytes(d) = Total(y)
                            /\ \A k \in 1 .. Len(d) : y[k] = d[k].bytes
  BY <1>1, FragSizes
<1>4. Len(c) \in Nat /\ Len(d) \in 1 .. Len(d) /\ \A n \in 1 .. Len(c) : n \in 1 .. Len(d)
  BY <1>1, LenProperties
<1>5. \A n \in 1 .. Len(z) : y[n] = z[n]
  BY <1>1, <1>2, <1>3, <1>4
<1>6. Total(y) = Total(z) + y[Len(y)]
  <2>1. Len(y) = Len(z) + 1
    BY <1>1, <1>2, <1>3
  <2> QED
    BY <1>5, <2>1, TotalAppended
<1>7. y[Len(y)] = e.bytes
  BY <1>1, <1>3, <1>4
<1> QED
  BY <1>1, <1>2, <1>3, <1>6, <1>7

LEMMA BytesChanged ==
  ASSUME NEW c \in Seq(FragRecord), NEW i \in 1 .. Len(c), NEW e \in FragRecord,
         NEW d, d = [c EXCEPT ![i] = e]
  PROVE  /\ d \in Seq(FragRecord) /\ Len(d) = Len(c) /\ d[i] = e
         /\ \A n \in 1 .. Len(c) : n # i => d[n] = c[n]
         /\ Bytes(d) = Bytes(c) - c[i].bytes + e.bytes
<1>1. /\ d \in Seq(FragRecord) /\ Len(d) = Len(c) /\ d[i] = e
      /\ \A n \in 1 .. Len(c) : n # i => d[n] = c[n]
  BY ExceptSeq
<1>2. PICK z \in Seq(Nat) : /\ Len(z) = Len(c) /\ Bytes(c) = Total(z)
                            /\ \A k \in 1 .. Len(c) : z[k] = c[k].bytes
  BY FragSizes
<1>3. PICK y \in Seq(Nat) : /\ Len(y) = Len(d) /\ Bytes(d) = Total(y)
                            /\ \A k \in 1 .. Len(d) : y[k] = d[k].bytes
  BY <1>1, FragSizes
<1>4. Total(y) = Total(z) - z[i] + y[i]
  <2>1. Len(y) = Len(z) /\ i \in 1 .. Len(z) /\ \A n \in 1 .. Len(z) : n # i => y[n] = z[n]
    BY <1>1, <1>2, <1>3
  <2> QED
    BY <2>1, TotalChanged
<1>5. z[i] = c[i].bytes /\ y[i] = e.bytes
  BY <1>1, <1>2, <1>3
<1> QED
  BY <1>1, <1>2, <1>3, <1>4, <1>5

(* The bytes of what is cut off and of what is left. *)
Cut(c, p, gone, left) ==
  /\ left \in Seq(FragRecord) /\ Len(left) = Len(c) - p
  /\ \A n \in 1 .. Len(left) : left[n] = c[n + p]
  /\ Bytes(gone) \in Nat /\ Bytes(c) = Bytes(gone) + Bytes(left)

LEMMA BytesCut ==
  ASSUME NEW c \in Seq(FragRecord), NEW p \in 0 .. Len(c),
         NEW gone, gone = SubSeq(c, 1, p), NEW left, left = SubSeq(c, p + 1, Len(c))
  PROVE  Cut(c, p, gone, left)
<1>1. Len(c) \in Nat /\ p \in Nat
  BY LenProperties
<1>3. /\ gone \in Seq(FragRecord) /\ Len(gone) = p
      /\ \A n \in 1 .. Len(gone) : gone[n] = c[n]
  <2>1. 1 \in 1 .. Len(c) + 1 /\ 1 <= p + 1 /\ p - 1 + 1 = p /\ \A n \in 1 .. p : 1 + n - 1 = n
    BY <1>1
  <2>2. /\ gone \in Seq(FragRecord) /\ Len(gone) = p - 1 + 1
        /\ \A n \in 1 .. Len(gone) : gone[n] = c[1 + n - 1]
    BY <1>1, <2>1, PartOf
  <2> QED
    BY <2>1, <2>2
<1>4. /\ left \in Seq(FragRecord) /\ Len(left) = Len(c) - p
      /\ \A n \in 1 .. Len(left) : left[n] = c[n + p]
  BY RestOf
<1>5. PICK z \in Seq(Nat) : /\ Len(z) = Len(c) /\ Bytes(c) = Total(z)
                            /\ \A i \in 1 .. Len(c) : z[i] = c[i].bytes
  BY FragSizes
<1>6. PICK h \in Seq(Nat) : /\ Len(h) = Len(gone) /\ Bytes(gone) = Total(h)
                            /\ \A i \in 1 .. Len(gone) : h[i] = gone[i].bytes
  BY <1>3, FragSizes
<1>7. PICK t \in Seq(Nat) : /\ Len(t) = Len(left) /\ Bytes(left) = Total(t)
                            /\ \A i \in 1 .. Len(left) : t[i] = left[i].bytes
  BY <1>4, FragSizes
<1>8. \A n \in 1 .. Len(h) : h[n] = z[n]
  <2>1. \A n \in 1 .. Len(h) : n \in 1 .. Len(c) /\ n \in 1 .. Len(gone)
    BY <1>1, <1>3, <1>6
  <2> QED
    BY <1>3, <1>5, <1>6, <2>1
<1>9. \A n \in 1 .. Len(t) : t[n] = z[n + Len(h)]
  <2>1. \A n \in 1 .. Len(t) : n + p \in 1 .. Len(c) /\ n \in 1 .. Len(left) /\ Len(h) = p
    BY <1>1, <1>3, <1>4, <1>6, <1>7
  <2> QED
    BY <1>4, <1>5, <1>7, <2>1
<1>10. Len(z) = Len(h) + Len(t)
  BY <1>1, <1>3, <1>4, <1>5, <1>6, <1>7
<1>11. Total(z) = Total(h) + Total(t) /\ Total(h) \in Nat
  BY <1>8, <1>9, <1>10, TotalCut, TotalNat
<1> QED
  <2>1. Bytes(gone) \in Nat /\ Bytes(c) = Bytes(gone) + Bytes(left)
    BY <1>5, <1>6, <1>7, <1>11
  <2> QED
    BY <1>4, <2>1 DEF Cut

LEMMA GoodTypes ==
  ASSUME NEW st, GoodStore(st)
  PROVE  /\ st.items \in Seq(FragRecord) /\ Len(st.items) \in Nat /\ DOMAIN st.items = 1 .. Len(st.items)
         /\ st.bytes \in Nat /\ maxStoreBytes \in Nat /\ maxPartial \in Nat \ {0}
         /\ \A i \in 1 .. Len(st.items) : st.items[i] \in FragRecord
<1>1. st.items \in Seq(FragRecord) /\ st.bytes = Bytes(st.items)
  BY DEF GoodStore
<1>2. st.bytes \in Nat
  BY <1>1, BytesNat
<1> QED
  BY <1>1, <1>2, LenProperties, ElementOfSeq, FragmentAssumption

(* Where the entry of a key is. *)
LEMMA PlaceOf ==
  ASSUME NEW st, GoodStore(st), NEW key
  PROVE  /\ Holds(st.items, key) <=> \E e \in Members(st.items) : e.key = key
         /\ Holds(st.items, key) => /\ Place(st.items, key) \in 1 .. Len(st.items)
                                    /\ st.items[Place(st.items, key)].key = key
                                    /\ st.items[Place(st.items, key)] \in Members(st.items)
         /\ \A e \in Members(st.items) : e.key = key => st.items[Place(st.items, key)] = e
<1>1. DOMAIN st.items = 1 .. Len(st.items)
  BY GoodTypes
<1>2. Holds(st.items, key) <=> \E e \in Members(st.items) : e.key = key
  BY <1>1 DEF Holds, Members
<1>3. Holds(st.items, key) => Place(st.items, key) \in 1 .. Len(st.items)
                              /\ st.items[Place(st.items, key)].key = key
  BY <1>1 DEF Holds, Place
<1>4. ASSUME NEW e \in Members(st.items), e.key = key PROVE st.items[Place(st.items, key)] = e
  <2>1. PICK i \in 1 .. Len(st.items) : e = st.items[i]
    BY DEF Members
  <2>2. Holds(st.items, key)
    BY <1>2, <1>4
  <2>3. Place(st.items, key) = i
    BY <1>3, <1>4, <2>1, <2>2 DEF GoodStore
  <2> QED
    BY <2>1, <2>3
<1>5. Holds(st.items, key) => st.items[Place(st.items, key)] \in Members(st.items)
  BY <1>3 DEF Members
<1> QED
  BY <1>2, <1>3, <1>4, <1>5

(* An entry goes with its bytes. *)
LEMMA DeleteKeeps ==
  ASSUME NEW st, GoodStore(st), NEW key, NEW d, d = deleteItemLocked(st, key)
  PROVE  /\ GoodStore(d) /\ Members(d.items) = {e \in Members(st.items) : e.key # key}
         /\ Len(d.items) = IF Holds(st.items, key) THEN Len(st.items) - 1 ELSE Len(st.items)
<1>1. /\ st.items \in Seq(FragRecord) /\ Len(st.items) \in Nat /\ DOMAIN st.items = 1 .. Len(st.items)
      /\ st.bytes \in Nat /\ maxStoreBytes \in Nat /\ maxPartial \in Nat
  BY GoodTypes
<1>2. CASE ~Holds(st.items, key)
  <2>1. d = st
    BY <1>2 DEF deleteItemLocked
  <2>2. \A e \in Members(st.items) : e.key # key
    BY <1>2, PlaceOf
  <2> QED
    BY <1>2, <2>1, <2>2
<1>3. CASE Holds(st.items, key)
  <2> DEFINE i == Place(st.items, key)
             c == st.items
             held == c[i].bytes
             r == RemoveAt(c, i)
  <2>1. i \in 1 .. Len(c) /\ c[i].key = key
    BY <1>3, PlaceOf
  <2>2. d.items = r /\ d.bytes = IF st.bytes > held THEN st.bytes - held ELSE 0
    BY <1>3 DEF deleteItemLocked, Others
  <2> HIDE DEF i
  <2>3. /\ r \in Seq(FragRecord) /\ Len(r) = Len(c) - 1 /\ held \in Nat
        /\ Bytes(r) = Bytes(c) - held
        /\ \A n \in 1 .. Len(r) : r[n] = IF n < i THEN c[n] ELSE c[n + 1]
    BY <1>1, <2>1, BytesWithout
  <2>4. Bytes(r) \in Nat
    <3> HIDE DEF r
    <3> QED
      BY <2>3, BytesNat
  <2>5. /\ st.bytes = Bytes(c) /\ st.bytes <= maxStoreBytes /\ Len(c) <= maxPartial
        /\ \A m, n \in 1 .. Len(c) : c[m].key = c[n].key => m = n
        /\ \A m \in 1 .. Len(c) : Sound(c[m])
    BY DEF GoodStore
  <2> HIDE DEF r, held
  <2>6. d.bytes = Bytes(r) /\ d.bytes <= maxStoreBytes
    BY <1>1, <2>2, <2>3, <2>4, <2>5
  <2> DEFINE from == [n \in 1 .. Len(r) |-> IF n < i THEN n ELSE n + 1]
  <2>7. \A n \in 1 .. Len(r) : from[n] \in 1 .. Len(c) /\ from[n] # i
    BY <1>1, <2>1, <2>3
  <2>8. \A n \in 1 .. Len(r) : r[n] = c[from[n]]
    BY <2>3
  <2>9. \A m, n \in 1 .. Len(r) : from[m] = from[n] => m = n
    BY <1>1, <2>1, <2>3
  <2>10. \A k \in 1 .. Len(c) : k # i => \E n \in 1 .. Len(r) : from[n] = k
    <3> SUFFICES ASSUME NEW k \in 1 .. Len(c), k # i PROVE \E n \in 1 .. Len(r) : from[n] = k
      OBVIOUS
    <3>1. CASE k < i
      <4>1. k \in 1 .. Len(r)
        BY <1>1, <2>1, <2>3, <3>1
      <4> QED
        BY <3>1, <4>1
    <3>2. CASE ~ (k < i)
      <4>1. k - 1 \in 1 .. Len(r) /\ ~ (k - 1 < i) /\ (k - 1) + 1 = k
        BY <1>1, <2>1, <2>3, <3>2
      <4> QED
        BY <4>1
    <3> QED
      BY <3>1, <3>2
  <2> HIDE DEF from, c
  <2>11. \A m, n \in 1 .. Len(r) : r[m].key = r[n].key => m = n
    <3> SUFFICES ASSUME NEW m \in 1 .. Len(r), NEW n \in 1 .. Len(r), r[m].key = r[n].key PROVE m = n
      OBVIOUS
    <3>1. from[m] \in 1 .. Len(c) /\ from[n] \in 1 .. Len(c) /\ c[from[m]].key = c[from[n]].key
      BY <2>7, <2>8
    <3> QED
      BY <2>5, <2>9, <3>1
  <2>12. \A m \in 1 .. Len(r) : Sound(r[m])
    BY <2>5, <2>7, <2>8
  <2>13. Len(r) <= maxPartial /\ Len(r) = Len(c) - 1
    BY <1>1, <2>3, <2>5 DEF c
  <2>14. GoodStore(d)
    BY <2>2, <2>3, <2>6, <2>11, <2>12, <2>13 DEF GoodStore
  <2>15. \A n \in 1 .. Len(c) : n # i <=> c[n].key # key
    BY <2>1, <2>5
  <2>16. Members(r) = {e \in Members(c) : e.key # key}
    <3>1. ASSUME NEW x \in Members(r) PROVE x \in Members(c) /\ x.key # key
      <4>1. PICK n \in 1 .. Len(r) : x = r[n]
        BY <3>1 DEF Members
      <4>2. from[n] \in 1 .. Len(c) /\ from[n] # i /\ x = c[from[n]]
        BY <2>7, <2>8, <4>1
      <4> QED
        BY <2>15, <4>2 DEF Members
    <3>2. ASSUME NEW x \in Members(c), x.key # key PROVE x \in Members(r)
      <4>1. PICK k \in 1 .. Len(c) : x = c[k]
        BY <3>2 DEF Members
      <4>2. k # i
        BY <2>15, <3>2, <4>1
      <4>3. PICK n \in 1 .. Len(r) : from[n] = k
        BY <2>10, <4>2
      <4>4. x = r[n]
        BY <2>8, <4>1, <4>3
      <4> QED
        BY <4>4 DEF Members
    <3> QED
      BY <3>1, <3>2
  <2> QED
    BY <1>3, <2>2, <2>13, <2>14, <2>16 DEF c
<1> QED
  BY <1>2, <1>3

LEMMA FirstLeft ==
  ASSUME NEW c \in Seq(FragRecord), NEW i \in 1 .. Len(c), Len(c) > 1, NEW o, o = RemoveAt(c, i)
  PROVE  \E n \in 1 .. Len(c) : o[1] = c[n] /\ n # i
<1>1. Len(c) \in Nat
  BY LenProperties
<1>2. Len(o) = Len(c) - 1 /\ \A n \in 1 .. Len(o) : o[n] = IF n < i THEN c[n] ELSE c[n + 1]
  BY RemovedAt
<1>3. 1 \in 1 .. Len(o) /\ 1 \in 1 .. Len(c) /\ 2 \in 1 .. Len(c) /\ 1 + 1 = 2
  BY <1>1, <1>2
<1>4. CASE 1 < i
  BY <1>2, <1>3, <1>4
<1>5. CASE ~ (1 < i)
  <2>1. o[1] = c[2] /\ i = 1
    BY <1>1, <1>2, <1>3, <1>5
  <2> QED
    BY <1>3, <2>1
<1> QED
  BY <1>4, <1>5

(* An eviction takes one entry, and not the one of the key. *)
LEMMA EvictOne ==
  ASSUME NEW st, GoodStore(st), NEW key, NEW v, v = evictOldestPartialExceptLocked(st, key),
         Len(st.items) > IF Holds(st.items, key) THEN 1 ELSE 0
  PROVE  /\ GoodStore(v) /\ Len(v.items) = Len(st.items) - 1 /\ Members(v.items) \subseteq Members(st.items)
         /\ \A e \in Members(st.items) : e.key = key => e \in Members(v.items)
<1> DEFINE o == Others(st.items, key)
           k == o[1].key
           c == st.items
<1>1. c \in Seq(FragRecord) /\ Len(c) \in Nat /\ DOMAIN c = 1 .. Len(c)
  BY GoodTypes
<1>2. k # key /\ \E e \in Members(c) : e.key = k
  <2>1. CASE Holds(c, key)
    <3> DEFINE i == Place(c, key)
    <3>1. i \in 1 .. Len(c) /\ c[i].key = key
      BY <2>1, PlaceOf
    <3>2. o = RemoveAt(c, i)
      BY <2>1 DEF Others
    <3>3. Len(c) > 1
      BY <2>1
    <3>4. PICK n \in 1 .. Len(c) : o[1] = c[n] /\ n # i
      <4> HIDE DEF i, o, c
      <4> QED
        BY <1>1, <3>1, <3>2, <3>3, FirstLeft
    <3> HIDE DEF i, o, c
    <3>5. c[n].key # key
      BY <3>1, <3>4 DEF GoodStore, c
    <3> QED
      BY <3>4, <3>5 DEF Members, c
  <2>2. CASE ~Holds(c, key)
    <3>1. o = c /\ 1 \in 1 .. Len(c)
      BY <1>1, <2>2 DEF Others
    <3> HIDE DEF o
    <3>2. o[1] \in Members(c)
      BY <3>1 DEF Members
    <3> QED
      BY <2>2, <3>2, PlaceOf
  <2> QED
    BY <2>1, <2>2
<1>3. v = deleteItemLocked(st, k)
  BY DEF evictOldestPartialExceptLocked
<1> HIDE DEF k
<1>4. Holds(st.items, k)
  BY <1>2, PlaceOf
<1>5. /\ GoodStore(v) /\ Members(v.items) = {e \in Members(st.items) : e.key # k}
      /\ Len(v.items) = IF Holds(st.items, k) THEN Len(st.items) - 1 ELSE Len(st.items)
  BY <1>3, DeleteKeeps
<1> QED
  BY <1>2, <1>4, <1>5

(* The stores that evictions leave, one after the other. *)
Rooms(h, st, key, N) ==
  h = [n \in 0 .. N |-> IF n = 0 THEN st ELSE evictOldestPartialExceptLocked(h[n - 1], key)]

LEMMA RoomsExist ==
  ASSUME NEW st, NEW key, NEW N \in Nat
  PROVE  \E h : Rooms(h, st, key, N)
<1> DEFINE Rec(f, m) == f = [n \in 0 .. m |-> IF n = 0 THEN st
                                              ELSE evictOldestPartialExceptLocked(f[n - 1], key)]
           Bad == {m \in 0 .. N : ~ \E f : Rec(f, m)}
<1>1. Bad = {}
  <2> SUFFICES ASSUME Bad # {} PROVE FALSE
    OBVIOUS
  <2>1. Bad \subseteq Nat
    OBVIOUS
  <2>2. PICK m \in Bad : \A k \in Bad : m <= k
    <3> HIDE DEF Bad
    <3> QED
      BY <2>1, LeastExists
  <2>3. m \in 0 .. N /\ ~ \E f : Rec(f, m)
    BY <2>2
  <2>4. m # 0
    <3> DEFINE f == [n \in 0 .. 0 |-> st]
    <3>1. Rec(f, 0)
      OBVIOUS
    <3> HIDE DEF Rec, f
    <3> QED
      BY <2>3, <3>1
  <2>5. m - 1 \in 0 .. N /\ ~ (m <= m - 1)
    BY <2>3, <2>4
  <2>6. PICK f : Rec(f, m - 1)
    BY <2>2, <2>5
  <2> DEFINE last == evictOldestPartialExceptLocked(f[m - 1], key)
             g == [n \in 0 .. m |-> IF n = m THEN last ELSE f[n]]
  <2>7. ASSUME NEW n \in 0 .. m PROVE g[n] = IF n = 0 THEN st ELSE evictOldestPartialExceptLocked(g[n - 1], key)
    <3>1. CASE n = 0
      <4>1. g[n] = f[0] /\ f[0] = st
        BY <2>3, <2>4, <2>6, <3>1
      <4> QED
        BY <3>1, <4>1
    <3>2. CASE n # 0
      <4>1. n - 1 \in 0 .. m - 1 /\ n - 1 \in 0 .. m /\ n - 1 # m
        BY <2>3, <3>2
      <4>2. g[n - 1] = f[n - 1]
        BY <4>1
      <4>3. CASE n = m
        <5>1. g[n] = last
          BY <4>3
        <5> QED
          BY <3>2, <4>2, <4>3, <5>1
      <4>4. CASE n # m
        <5>1. n \in 0 .. m - 1
          BY <2>3, <4>4
        <5>2. g[n] = f[n] /\ f[n] = evictOldestPartialExceptLocked(f[n - 1], key)
          BY <2>6, <3>2, <4>4, <5>1
        <5> QED
          BY <3>2, <4>2, <5>2
      <4> QED
        BY <4>3, <4>4
    <3> QED
      BY <3>1, <3>2
  <2>8. g = [n \in 0 .. m |-> g[n]]
    OBVIOUS
  <2> HIDE DEF g
  <2>9. Rec(g, m)
    BY <2>7, <2>8
  <2> HIDE DEF Rec
  <2> QED
    BY <2>3, <2>9
<1>2. N \in 0 .. N
  OBVIOUS
<1>3. PICK f : Rec(f, N)
  BY <1>1, <1>2
<1>4. Rooms(f, st, key, N)
  BY <1>3 DEF Rooms
<1> QED
  BY <1>4

(* A store with entries of another, that of the key among them. *)
Cleared(r, st, key) ==
  /\ GoodStore(r) /\ Members(r.items) \subseteq Members(st.items)
  /\ \A e \in Members(st.items) : e.key = key => e \in Members(r.items)

LEMMA RoomsAre ==
  ASSUME NEW st, GoodStore(st), NEW key, NEW N \in Nat, N < Len(st.items), NEW h,
         Rooms(h, st, key, N)
  PROVE  \A n \in 0 .. N : Cleared(h[n], st, key)
<1> DEFINE L == Len(st.items)
           Fine(n) == Cleared(h[n], st, key) /\ Len(h[n].items) = L - n
           Bad == {n \in 0 .. N : ~Fine(n)}
<1>1. L \in Nat
  BY GoodTypes
<1>2. Bad = {}
  <2> SUFFICES ASSUME Bad # {} PROVE FALSE
    OBVIOUS
  <2>1. Bad \subseteq Nat
    OBVIOUS
  <2>2. PICK m \in Bad : \A k \in Bad : m <= k
    <3> HIDE DEF Bad
    <3> QED
      BY <2>1, LeastExists
  <2>3. m \in 0 .. N /\ ~Fine(m)
    BY <2>2
  <2>4. CASE m = 0
    <3>1. h[0] = st /\ L - 0 = L
      BY <1>1 DEF Rooms
    <3>2. Fine(0)
      BY <3>1 DEF Cleared
    <3> QED
      BY <2>3, <2>4, <3>2
  <2>5. CASE m # 0
    <3>1. m - 1 \in 0 .. N /\ ~ (m <= m - 1)
      BY <2>3, <2>5
    <3>2. Fine(m - 1)
      BY <2>2, <3>1
    <3> DEFINE s == h[m - 1]
    <3>3. h[m] = evictOldestPartialExceptLocked(s, key)
      BY <2>3, <2>5 DEF Rooms
    <3>4. Cleared(s, st, key) /\ Len(s.items) = L - (m - 1)
      BY <3>2
    <3> HIDE DEF s, L
    <3>5. Len(s.items) > IF Holds(s.items, key) THEN 1 ELSE 0
      <4>1. Len(s.items) > 1
        BY <1>1, <2>3, <2>5, <3>4 DEF L
      <4> QED
        BY <4>1
    <3> DEFINE v == h[m]
    <3> HIDE DEF v
    <3>6. v = evictOldestPartialExceptLocked(s, key)
      BY <3>3 DEF v
    <3>7. /\ GoodStore(v) /\ Len(v.items) = Len(s.items) - 1 /\ Members(v.items) \subseteq Members(s.items)
          /\ \A e \in Members(s.items) : e.key = key => e \in Members(v.items)
      BY <3>4, <3>5, <3>6, EvictOne DEF Cleared
    <3>8. Len(v.items) = L - m
      BY <1>1, <2>3, <3>4, <3>7
    <3>9. Cleared(v, st, key)
      BY <3>4, <3>7 DEF Cleared
    <3> QED
      BY <2>3, <3>8, <3>9 DEF v
  <2> QED
    BY <2>4, <2>5
<1> QED
  BY <1>2

LEMMA MakeRoomKeeps ==
  ASSUME NEW st, GoodStore(st), NEW key, Holds(st.items, key), NEW delta, NEW r, r = MakeRoom(st, key, delta)
  PROVE  Cleared(r, st, key)
<1> DEFINE others == Others(st.items, key)
           N == Len(others)
           After == CHOOSE h : Rooms(h, st, key, N)
           enough == {n \in 0 .. N : After[n].bytes + delta <= maxStoreBytes}
           least == CHOOSE n \in enough : \A m \in enough : n <= m
<1>1. Len(st.items) \in Nat /\ st.items \in Seq(FragRecord)
  BY GoodTypes
<1>2. N \in Nat /\ N < Len(st.items)
  <2> DEFINE i == Place(st.items, key)
  <2>1. i \in 1 .. Len(st.items) /\ others = RemoveAt(st.items, i)
    BY PlaceOf DEF Others
  <2> HIDE DEF i, others
  <2>2. Len(others) = Len(st.items) - 1
    BY <1>1, <2>1, BytesWithout
  <2> QED
    BY <1>1, <2>1, <2>2
<1>3. Rooms(After, st, key, N)
  <2>1. \E h : Rooms(h, st, key, N)
    BY <1>2, RoomsExist
  <2> QED
    BY <2>1
<1>4. r = IF enough = {} THEN After[N] ELSE After[least]
  BY DEF MakeRoom, Rooms
<1> HIDE DEF After, others, N
<1>5. \A n \in 0 .. N : Cleared(After[n], st, key)
  BY <1>2, <1>3, RoomsAre
<1>6. enough # {} => least \in 0 .. N
  <2>1. enough \subseteq Nat /\ enough \subseteq 0 .. N
    BY <1>2
  <2> HIDE DEF enough
  <2>2. enough # {} => \E n \in enough : \A m \in enough : n <= m
    BY <2>1, LeastExists
  <2> QED
    BY <2>1, <2>2
<1>7. N \in 0 .. N
  BY <1>2
<1> HIDE DEF enough, least
<1> QED
  BY <1>4, <1>5, <1>6, <1>7

(* The first fragment of a key finds an entry with nothing in it. *)
Blank(key, total) ==
  [key |-> key, total |-> total, chunks |-> [i \in 0 .. total - 1 |-> Nil],
   count |-> 0, bytes |-> 0, wrapped |-> FALSE]

LEMMA BlankSound ==
  ASSUME NEW key \in FragKeys, NEW total \in Totals, NEW e, e = Blank(key, total)
  PROVE  Sound(e) /\ Waiting(e) /\ e.key = key /\ e.total = total /\ e.bytes = 0
<1>1. total \in Nat \ {0}
  BY FragmentAssumption
<1>2. /\ e.key = key /\ e.total = total /\ e.chunks = [i \in 0 .. total - 1 |-> Nil]
      /\ e.count = 0 /\ e.bytes = 0 /\ e.wrapped = FALSE
  BY DEF Blank
<1>3. e.chunks \in [0 .. total - 1 -> Nat \union {Nil}]
  BY <1>2
<1>4. e \in FragRecord
  <2>1. e.chunks \in Pieces
    BY <1>1, <1>3 DEF Pieces
  <2> QED
    BY <1>1, <1>2, <2>1 DEF Blank, FragRecord
<1>5. 0 = Total(Held(e))
  <2> DEFINE h == Held(e)
  <2>1. h = [i \in 1 .. total |-> 0]
    <3>1. \A i \in 1 .. total : i - 1 \in 0 .. total - 1
      BY <1>1
    <3>2. \A i \in 1 .. total : e.chunks[i - 1] = Nil
      BY <1>2, <3>1
    <3> QED
      BY <1>2, <3>2 DEF Held
  <2> HIDE DEF h
  <2>2. h \in Seq(Nat) /\ Len(h) = total
    <3>1. h \in [1 .. total -> Nat]
      BY <2>1
    <3> QED
      BY <1>1, <3>1, FunctionIsSeq
  <2>3. \A i \in 1 .. Len(h) : h[i] = 0
    BY <2>1, <2>2
  <2>4. Total(h) = 0
    BY <2>2, <2>3, TotalOfZeros
  <2> QED
    BY <2>4 DEF h
<1>6. Cardinality(Here(e)) = 0
  <2>1. Here(e) = {}
    BY <1>2 DEF Here
  <2> QED
    BY <2>1, FS_EmptySet
<1>7. Waiting(e)
  <2>1. 0 \in DOMAIN e.chunks /\ e.chunks[0] = Nil
    BY <1>1, <1>2
  <2> QED
    BY <2>1 DEF Waiting
<1>8. Sound(e)
  BY <1>2, <1>3, <1>4, <1>5, <1>6 DEF Sound
<1> QED
  BY <1>2, <1>7, <1>8

LEMMA AppendKeeps ==
  ASSUME NEW w, GoodStore(w), Len(w.items) < maxPartial, NEW e, Sound(e), e.bytes = 0,
         \A x \in Members(w.items) : x.key # e.key,
         NEW d, d = [items |-> Append(w.items, e), bytes |-> w.bytes]
  PROVE  GoodStore(d) /\ Members(d.items) = Members(w.items) \union {e}
<1> DEFINE c == w.items
<1>0. PICK a : a = Append(c, e)
  OBVIOUS
<1>1. c \in Seq(FragRecord) /\ Len(c) \in Nat /\ w.bytes \in Nat /\ maxPartial \in Nat
  BY GoodTypes
<1>2. e \in FragRecord
  BY DEF Sound
<1>3. /\ a \in Seq(FragRecord) /\ Len(a) = Len(c) + 1 /\ a[Len(a)] = e
      /\ \A n \in 1 .. Len(c) : a[n] = c[n]
      /\ Bytes(a) = Bytes(c) + e.bytes
  <2>1. \A y \in Seq(FragRecord), x \in FragRecord : \A z : z = Append(y, x) =>
             /\ z \in Seq(FragRecord) /\ Len(z) = Len(y) + 1 /\ z[Len(z)] = x
             /\ \A n \in 1 .. Len(y) : z[n] = y[n]
             /\ Bytes(z) = Bytes(y) + x.bytes
    BY BytesWith
  <2> HIDE DEF c
  <2> QED
    <3>1. c \in Seq(FragRecord) /\ e \in FragRecord
      BY <1>1, <1>2
    <3>2. \A z : z = Append(c, e) =>
             /\ z \in Seq(FragRecord) /\ Len(z) = Len(c) + 1 /\ z[Len(z)] = e
             /\ \A n \in 1 .. Len(c) : z[n] = c[n]
             /\ Bytes(z) = Bytes(c) + e.bytes
      BY <2>1, <3>1, Zenon
    <3> QED
      BY <1>0, <3>2, Zenon
<1>4. d.items = a /\ d.bytes = w.bytes
  BY <1>0
<1>5. /\ w.bytes = Bytes(c) /\ w.bytes <= maxStoreBytes /\ Len(c) < maxPartial
      /\ \A m, n \in 1 .. Len(c) : c[m].key = c[n].key => m = n
      /\ \A m \in 1 .. Len(c) : Sound(c[m])
      /\ \A m \in 1 .. Len(c) : c[m].key # e.key
  BY DEF GoodStore, Members
<1> HIDE DEF c
<1>6. \A n \in 1 .. Len(a) : (n \in 1 .. Len(c) /\ a[n] = c[n]) \/ (n = Len(a) /\ a[n] = e)
  BY <1>1, <1>3
<1>7. Len(a) <= maxPartial /\ Len(a) \in 1 .. Len(a) /\ \A n \in 1 .. Len(c) : n \in 1 .. Len(a)
  BY <1>1, <1>3, <1>5
<1>8. \A m, n \in 1 .. Len(a) : a[m].key = a[n].key => m = n
  <2> SUFFICES ASSUME NEW m \in 1 .. Len(a), NEW n \in 1 .. Len(a), a[m].key = a[n].key PROVE m = n
    OBVIOUS
  <2> QED
    BY <1>5, <1>6
<1>9. \A m \in 1 .. Len(a) : Sound(a[m])
  BY <1>5, <1>6
<1>10. Members(a) = Members(c) \union {e}
  BY <1>3, <1>6, <1>7 DEF Members
<1>11. w.bytes = Bytes(a)
  BY <1>1, <1>3, <1>5
<1>12. GoodStore(d)
  <2>1. /\ d.items \in Seq(FragRecord) /\ Len(d.items) <= maxPartial
        /\ d.bytes = Bytes(d.items) /\ d.bytes <= maxStoreBytes
    BY <1>3, <1>4, <1>5, <1>7, <1>11
  <2> QED
    BY <1>4, <1>8, <1>9, <2>1 DEF GoodStore
<1> QED
  BY <1>4, <1>10, <1>12 DEF c

(* One entry takes the place of another of its key. *)
Put(d, w, i, e) ==
  d = [items |-> [w.items EXCEPT ![i] = e], bytes |-> w.bytes + (e.bytes - w.items[i].bytes)]

Changed(d, w, e) ==
  \A x \in Members(d.items) : x = e \/ (x \in Members(w.items) /\ x.key # e.key)

LEMMA ReplaceKeeps ==
  ASSUME NEW w, GoodStore(w), NEW i \in 1 .. Len(w.items), NEW e, Sound(e), e.key = w.items[i].key,
         NEW d, Put(d, w, i, e), d.bytes <= maxStoreBytes
  PROVE  GoodStore(d) /\ Changed(d, w, e)
<1> DEFINE c == w.items
           a == [c EXCEPT ![i] = e]
<1>1. c \in Seq(FragRecord) /\ Len(c) \in Nat /\ w.bytes \in Nat /\ c[i] \in FragRecord
  BY GoodTypes
<1>2. e \in FragRecord
  BY DEF Sound
<1>3. /\ a \in Seq(FragRecord) /\ Len(a) = Len(c) /\ a[i] = e
      /\ \A n \in 1 .. Len(c) : n # i => a[n] = c[n]
      /\ Bytes(a) = Bytes(c) - c[i].bytes + e.bytes
  BY <1>1, <1>2, BytesChanged
<1>4. d.items = a /\ d.bytes = w.bytes + (e.bytes - c[i].bytes)
  BY DEF Put
<1>5. /\ w.bytes = Bytes(c) /\ Len(c) <= maxPartial /\ e.key = c[i].key
      /\ \A m, n \in 1 .. Len(c) : c[m].key = c[n].key => m = n
      /\ \A m \in 1 .. Len(c) : Sound(c[m])
  BY DEF GoodStore
<1>6. c[i].bytes \in Nat /\ e.bytes \in Nat
  BY <1>1, <1>2 DEF FragRecord
<1>12. i \in 1 .. Len(c)
  OBVIOUS
<1> DEFINE b == c[i].bytes
<1> HIDE DEF a, c, b
<1>7. \A n \in 1 .. Len(a) : n \in 1 .. Len(c) /\ a[n].key = c[n].key
  BY <1>3, <1>5
<1>8. \A m, n \in 1 .. Len(a) : a[m].key = a[n].key => m = n
  BY <1>5, <1>7
<1>9. \A m \in 1 .. Len(a) : Sound(a[m])
  BY <1>3, <1>5
<1>10. d.bytes = Bytes(a)
  <2>1. d.bytes = w.bytes + (e.bytes - b) /\ Bytes(a) = w.bytes - b + e.bytes /\ b \in Nat
    BY <1>3, <1>4, <1>5, <1>6 DEF b
  <2> QED
    BY <1>1, <1>6, <2>1
<1>11. GoodStore(d)
  BY <1>3, <1>4, <1>5, <1>8, <1>9, <1>10 DEF GoodStore
<1>13. ASSUME NEW x \in Members(a) PROVE x = e \/ (x \in Members(c) /\ x.key # e.key)
  <2>1. PICK n \in 1 .. Len(a) : x = a[n]
    BY <1>13 DEF Members
  <2>2. CASE n = i
    BY <1>3, <2>1, <2>2
  <2>3. CASE n # i
    <3>1. x = c[n] /\ n \in 1 .. Len(c)
      BY <1>3, <2>1, <2>3
    <3>2. c[n].key # e.key
      BY <1>5, <1>12, <2>3, <3>1
    <3> QED
      BY <3>1, <3>2 DEF Members
  <2> QED
    BY <2>2, <2>3
<1> QED
  BY <1>4, <1>11, <1>13 DEF c, Changed

LEMMA OpenedKeeps ==
  ASSUME NEW st, GoodStore(st), NEW key \in FragKeys, NEW total \in Totals, NEW o, o = Opened(st, key, total)
  PROVE  /\ GoodStore(o) /\ Holds(o.items, key)
         /\ o.items[Place(o.items, key)].total = total
         /\ \A e \in Members(o.items) : e \in Members(st.items) \/ e = Blank(key, total)
<1> DEFINE room == IF ~Holds(st.items, key) /\ Len(st.items) >= maxPartial
                   THEN evictOldestPartialExceptLocked(st, key) ELSE st
           without == deleteItemLocked(room, key)
           current == Blank(key, total)
           next1 == [items |-> Append(without.items, current), bytes |-> without.bytes]
<1>1. CASE Holds(st.items, key) /\ st.items[Place(st.items, key)].total = total
  <2>1. o = st
    BY <1>1 DEF Opened
  <2> QED
    BY <1>1, <2>1
<1>2. CASE ~ (Holds(st.items, key) /\ st.items[Place(st.items, key)].total = total)
  <2>1. o = next1
    BY <1>2 DEF Opened, Blank
  <2>2. Len(st.items) \in Nat /\ maxPartial \in Nat \ {0} /\ Len(st.items) <= maxPartial
    BY GoodTypes DEF GoodStore
  <2>3. /\ GoodStore(room) /\ Members(room.items) \subseteq Members(st.items)
        /\ Len(room.items) \in Nat /\ Len(room.items) <= maxPartial
        /\ Len(room.items) < maxPartial \/ Holds(room.items, key)
    <3>1. CASE ~Holds(st.items, key) /\ Len(st.items) >= maxPartial
      <4> DEFINE v == evictOldestPartialExceptLocked(st, key)
      <4>1. room = v /\ Len(st.items) > IF Holds(st.items, key) THEN 1 ELSE 0
        BY <2>2, <3>1
      <4>2. GoodStore(v) /\ Len(v.items) = Len(st.items) - 1 /\ Members(v.items) \subseteq Members(st.items)
        BY <4>1, EvictOne
      <4> HIDE DEF v, room
      <4> QED
        BY <2>2, <3>1, <4>1, <4>2
    <3>2. CASE ~ (~Holds(st.items, key) /\ Len(st.items) >= maxPartial)
      <4>1. room = st
        BY <3>2
      <4> HIDE DEF room
      <4> QED
        BY <2>2, <3>2, <4>1
    <3> QED
      BY <3>1, <3>2
  <2> HIDE DEF room
  <2>4. /\ GoodStore(without) /\ Members(without.items) = {e \in Members(room.items) : e.key # key}
        /\ Len(without.items) = IF Holds(room.items, key) THEN Len(room.items) - 1 ELSE Len(room.items)
    BY <2>3, DeleteKeeps
  <2>5. Sound(current) /\ current.key = key /\ current.total = total /\ current.bytes = 0
    BY BlankSound
  <2> HIDE DEF without, current
  <2>6. Len(without.items) < maxPartial
    BY <2>2, <2>3, <2>4
  <2>7. \A x \in Members(without.items) : x.key # current.key
    BY <2>4, <2>5
  <2>8. GoodStore(next1) /\ Members(next1.items) = Members(without.items) \union {current}
    BY <2>4, <2>5, <2>6, <2>7, AppendKeeps
  <2> HIDE DEF next1
  <2>9. Holds(o.items, key) /\ o.items[Place(o.items, key)] = current
    <3>1. current \in Members(o.items) /\ GoodStore(o)
      BY <2>1, <2>8
    <3> QED
      BY <2>5, <3>1, PlaceOf
  <2>10. \A e \in Members(o.items) : e \in Members(st.items) \/ e = Blank(key, total)
    BY <2>1, <2>3, <2>4, <2>8 DEF current
  <2> QED
    BY <2>1, <2>5, <2>8, <2>9, <2>10
<1> QED
  BY <1>1, <1>2

(* A fragment put in its place: the entry stays sound, and is finished with *)
(* unless it waits for more.                                                *)
LEMMA FilledSound ==
  ASSUME NEW e, Sound(e), NEW id \in 0 .. e.total - 1, NEW len \in Nat, NEW f, f = Filled(e, id, len)
  PROVE  Sound(f) /\ f.key = e.key /\ f.total = e.total /\ (~Whole(f) => Waiting(f))
<1> DEFINE total == e.total
           empty == e.chunks[id] = Nil
           piece == IF empty /\ len = 0 THEN Nil ELSE len
           was == IF empty THEN 0 ELSE e.chunks[id]
<1>1. /\ e \in FragRecord /\ total \in Nat \ {0} /\ e.count \in Nat /\ e.bytes \in Nat /\ e.wrapped \in BOOLEAN
      /\ e.chunks \in [0 .. total - 1 -> Nat \union {Nil}] /\ id \in 0 .. total - 1
      /\ e.bytes = Total(Held(e))
      /\ ~e.wrapped => Cardinality(Here(e)) <= e.count
  BY DEF Sound, FragRecord
<1>2. /\ f = [key |-> e.key, total |-> total, chunks |-> [e.chunks EXCEPT ![id] = piece],
              count |-> IF empty THEN Counted(e) ELSE e.count,
              bytes |-> e.bytes + len - was,
              wrapped |-> e.wrapped \/ (empty /\ Counted(e) = 0)]
  BY <1>1 DEF Filled, FragRecord
<1>3. /\ f.key = e.key /\ f.total = total /\ f.chunks = [e.chunks EXCEPT ![id] = piece]
      /\ f.count = (IF empty THEN Counted(e) ELSE e.count)
      /\ f.bytes = e.bytes + len - was
      /\ f.wrapped = (e.wrapped \/ (empty /\ Counted(e) = 0))
  BY <1>2
<1>4. piece \in Nat \union {Nil} /\ was \in Nat
  BY <1>1
<1>5. /\ f.chunks \in [0 .. total - 1 -> Nat \union {Nil}] /\ f.chunks[id] = piece
      /\ \A i \in 0 .. total - 1 : i # id => f.chunks[i] = e.chunks[i]
  BY <1>1, <1>3, <1>4
<1>6. Counted(e) \in Nat /\ (Counted(e) # 0 => Counted(e) = e.count + 1)
  BY <1>1 DEF Counted
<1>7. f.bytes = Total(Held(f)) /\ f.bytes \in Nat
  <2> DEFINE s == Held(e)
             t == Held(f)
  <2>1. \A i \in 1 .. total : i - 1 \in 0 .. total - 1 /\ (i # id + 1 => i - 1 # id)
    BY <1>1
  <2>2. /\ s = [i \in 1 .. total |-> IF e.chunks[i - 1] = Nil THEN 0 ELSE e.chunks[i - 1]]
        /\ t = [i \in 1 .. total |-> IF f.chunks[i - 1] = Nil THEN 0 ELSE f.chunks[i - 1]]
    BY <1>3 DEF Held
  <2> HIDE DEF s, t
  <2>3. s \in [1 .. total -> Nat] /\ t \in [1 .. total -> Nat]
    <3>1. \A i \in 1 .. total : e.chunks[i - 1] \in Nat \union {Nil} /\ f.chunks[i - 1] \in Nat \union {Nil}
      BY <1>1, <1>5, <2>1
    <3> QED
      BY <2>2, <3>1
  <2>4. s \in Seq(Nat) /\ t \in Seq(Nat) /\ Len(s) = total /\ Len(t) = total
    <3>1. s \in Seq(Nat) /\ Len(s) = total
      BY <1>1, <2>3, FunctionIsSeq
    <3>2. t \in Seq(Nat) /\ Len(t) = total
      BY <1>1, <2>3, FunctionIsSeq
    <3> QED
      BY <3>1, <3>2
  <2>5. \A i \in 1 .. Len(s) : i # id + 1 => t[i] = s[i]
    BY <1>5, <2>1, <2>2, <2>4
  <2>6. id + 1 \in 1 .. Len(s) /\ (id + 1) - 1 = id /\ id + 1 \in 1 .. total
    BY <1>1, <2>4
  <2>7. s[id + 1] = was
    BY <2>2, <2>6
  <2>8. t[id + 1] = len
    <3>1. t[id + 1] = IF f.chunks[id] = Nil THEN 0 ELSE f.chunks[id]
      BY <2>2, <2>6
    <3>2. len # Nil
      BY DEF Nil
    <3> QED
      BY <1>5, <3>1, <3>2
  <2> DEFINE k == id + 1
  <2>9. k \in 1 .. Len(s) /\ s[k] = was /\ t[k] = len /\ \A i \in 1 .. Len(s) : i # k => t[i] = s[i]
    BY <2>5, <2>6, <2>7, <2>8
  <2> HIDE DEF k
  <2>10. Total(t) = Total(s) - s[k] + t[k]
    BY <2>4, <2>9, TotalChanged
  <2>11. Total(s) \in Nat /\ Total(t) \in Nat /\ e.bytes = Total(s)
    BY <1>1, <2>4, TotalNat DEF s
  <2> HIDE DEF was
  <2>12. f.bytes = Total(t)
    BY <1>1, <1>3, <1>4, <2>9, <2>10, <2>11
  <2> QED
    BY <2>11, <2>12 DEF t
<1>8. IsFiniteSet(Here(e)) /\ IsFiniteSet(0 .. total - 1) /\ Cardinality(0 .. total - 1) = total
  <2>1. IsFiniteSet(0 .. total - 1) /\ Cardinality(0 .. total - 1) = total
    <3>1. 0 \in Int /\ total - 1 \in Int /\ (total - 1) - 0 + 1 = total /\ ~ (0 > total - 1)
      BY <1>1
    <3> DEFINE b == total - 1
    <3> HIDE DEF b
    <3>2. IsFiniteSet(0 .. b) /\ Cardinality(0 .. b) = IF 0 > b THEN 0 ELSE b - 0 + 1
      BY <3>1, FS_Interval DEF b
    <3> QED
      BY <3>1, <3>2 DEF b
  <2>2. Here(e) \subseteq 0 .. total - 1
    BY DEF Here
  <2> QED
    BY <2>1, <2>2, FS_Subset
<1>9. ~f.wrapped => Cardinality(Here(f)) <= f.count
  <2> SUFFICES ASSUME ~f.wrapped PROVE Cardinality(Here(f)) <= f.count
    OBVIOUS
  <2>1. ~e.wrapped /\ (empty => Counted(e) = e.count + 1)
    BY <1>3, <1>6
  <2>2. Cardinality(Here(e)) <= e.count /\ Cardinality(Here(e)) \in Nat
    BY <1>1, <1>8, <2>1, FS_CardinalityType
  <2>3. CASE empty
    <3>1. Here(f) \subseteq Here(e) \union {id}
      BY <1>3, <1>5 DEF Here
    <3>2. id \notin Here(e)
      BY <2>3 DEF Here
    <3>3. IsFiniteSet(Here(e) \union {id}) /\ Cardinality(Here(e) \union {id}) = Cardinality(Here(e)) + 1
      BY <1>8, <3>2, FS_AddElement
    <3>4. Cardinality(Here(f)) <= Cardinality(Here(e) \union {id}) /\ Cardinality(Here(f)) \in Nat
      BY <3>1, <3>3, FS_Subset, FS_CardinalityType
    <3> QED
      BY <1>1, <1>3, <2>1, <2>2, <2>3, <3>3, <3>4
  <2>4. CASE ~empty
    <3>1. Here(f) = Here(e)
      <4>1. piece = len /\ len # Nil
        BY <2>4 DEF Nil
      <4>2. \A i \in 0 .. total - 1 : f.chunks[i] # Nil <=> e.chunks[i] # Nil
        BY <1>5, <2>4, <4>1
      <4> QED
        BY <1>3, <4>2 DEF Here
    <3> QED
      BY <1>3, <2>2, <2>4, <3>1
  <2> QED
    BY <2>3, <2>4
<1>10. Sound(f)
  <2>1. f.chunks \in Pieces
    BY <1>1, <1>5 DEF Pieces
  <2>2. f.count \in Nat /\ f.wrapped \in BOOLEAN
    BY <1>1, <1>3, <1>6
  <2>3. e.key \in FragKeys
    BY <1>1 DEF FragRecord
  <2>4. f \in FragRecord
    BY <1>1, <1>2, <1>3, <1>7, <2>1, <2>2, <2>3 DEF FragRecord
  <2> QED
    BY <1>3, <1>5, <1>7, <1>9, <2>4 DEF Sound
<1>11. ~Whole(f) => Waiting(f)
  <2> SUFFICES ASSUME ~Whole(f), ~Waiting(f) PROVE FALSE
    OBVIOUS
  <2>1. ~f.wrapped /\ \A n \in DOMAIN f.chunks : f.chunks[n] # Nil
    BY DEF Waiting
  <2>2. ~ (f.count >= total)
    BY <1>3, <2>1 DEF Whole
  <2>3. Here(f) = 0 .. total - 1
    BY <1>3, <1>5, <2>1 DEF Here
  <2>4. f.count \in Nat
    BY <1>10 DEF Sound, FragRecord
  <2> QED
    BY <1>1, <1>8, <1>9, <2>1, <2>2, <2>3, <2>4
<1> QED
  BY <1>3, <1>10, <1>11

(* The marks of packets that are complete. *)
LEMMA UnmarkedKeeps ==
  ASSUME NEW done \in Seq(FragKeys), NEW key, NEW d, d = Unmarked(done, key)
  PROVE  /\ d \in Seq(FragKeys) /\ Len(d) <= Len(done)
         /\ Contains(done, key) => Len(d) = Len(done) - 1
<1>1. Len(done) \in Nat /\ DOMAIN done = 1 .. Len(done)
  BY LenProperties
<1>2. CASE ~Contains(done, key)
  <2>1. d = done /\ Len(done) <= Len(done)
    BY <1>1, <1>2 DEF Unmarked
  <2> QED
    BY <1>1, <1>2, <2>1, Zenon
<1>3. CASE Contains(done, key)
  <2> DEFINE i == CHOOSE n \in DOMAIN done : done[n] = key
  <2>1. \E n \in 1 .. Len(done) : done[n] = key
    BY <1>3 DEF Contains
  <2>2. i \in 1 .. Len(done)
    BY <1>1, <2>1
  <2>3. d = RemoveAt(done, i)
    BY <1>3 DEF Unmarked
  <2> HIDE DEF i
  <2>4. d \in Seq(FragKeys) /\ Len(d) = Len(done) - 1
    BY <2>2, <2>3, RemovedAt
  <2> QED
    BY <1>1, <2>4
<1> QED
  BY <1>2, <1>3

LEMMA MarkKeeps ==
  ASSUME NEW done \in Seq(FragKeys), Len(done) <= maxCompleted, NEW key \in FragKeys, NEW d, d = Mark(done, key)
  PROVE  d \in Seq(FragKeys) /\ Len(d) <= maxCompleted
<1> DEFINE m == IF ~Contains(done, key) /\ Len(done) >= maxCompleted
                THEN evictOldestCompletedLocked(done) ELSE Unmarked(done, key)
<1>1. Len(done) \in Nat /\ maxCompleted \in Nat \ {0}
  BY LenProperties, FragmentAssumption
<1>2. m \in Seq(FragKeys) /\ Len(m) < maxCompleted
  <2>1. CASE ~Contains(done, key) /\ Len(done) >= maxCompleted
    <3>1. m = Tail(done) /\ done # <<>>
      <4>1. Len(<<>>) = 0
        OBVIOUS
      <4> QED
        BY <1>1, <2>1, <4>1 DEF evictOldestCompletedLocked
    <3>2. Tail(done) \in Seq(FragKeys) /\ Len(Tail(done)) = Len(done) - 1
      BY <3>1, HeadTailProperties
    <3> QED
      BY <1>1, <3>1, <3>2
  <2>2. CASE ~ (~Contains(done, key) /\ Len(done) >= maxCompleted)
    <3> DEFINE u == Unmarked(done, key)
    <3>1. /\ u \in Seq(FragKeys) /\ Len(u) <= Len(done)
          /\ Contains(done, key) => Len(u) = Len(done) - 1
      BY UnmarkedKeeps
    <3>2. m = u
      BY <2>2
    <3>3. Len(u) \in Nat
      BY <3>1, LenProperties
    <3> HIDE DEF u, m
    <3> QED
      BY <1>1, <2>2, <3>1, <3>2, <3>3
  <2> QED
    BY <2>1, <2>2
<1>3. d = Append(m, key)
  BY DEF Mark
<1> HIDE DEF m
<1>4. d \in Seq(FragKeys) /\ Len(d) = Len(m) + 1
  BY <1>2, <1>3, AppendProperties
<1>5. Len(m) \in Nat
  BY <1>2, LenProperties
<1> QED
  BY <1>1, <1>2, <1>4, <1>5

(* What a step publishes is within the limits, and has something to wait    *)
(* for.                                                                     *)
Kept(st, done) ==
  /\ GoodStore(st) /\ \A e \in Members(st.items) : Waiting(e)
  /\ done \in Seq(FragKeys) /\ Len(done) <= maxCompleted

LEMMA Published ==
  ASSUME NEW st, NEW done, Kept(st, done), Publish(st, done)
  PROVE  FragInv'
<1>1. partial' = st.items /\ bytes' = st.bytes /\ completed' = done
  BY DEF Publish
<1>2. GoodStore([items |-> partial', bytes |-> bytes'])
  BY <1>1 DEF Kept, GoodStore
<1>3. \A e \in Members(partial') : Waiting(e)
  BY <1>1 DEF Kept
<1>4. completed' \in Seq(FragKeys) /\ Len(completed') <= maxCompleted
  BY <1>1 DEF Kept
<1> QED
  BY <1>2, <1>3, <1>4 DEF FragInv

LEMMA PurgedKeeps ==
  ASSUME FragInv, NEW p \in 0 .. Len(partial), NEW c \in 0 .. Len(completed), NEW a, a = Purged(p, c)
  PROVE  Kept(a.st, a.done)
<1> DEFINE gone == SubSeq(partial, 1, p)
           left == SubSeq(partial, p + 1, Len(partial))
<1>1. /\ partial \in Seq(FragRecord) /\ Len(partial) \in Nat /\ Len(partial) <= maxPartial
      /\ bytes = Bytes(partial) /\ bytes <= maxStoreBytes /\ maxStoreBytes \in Nat /\ maxPartial \in Nat
      /\ \A i, j \in 1 .. Len(partial) : partial[i].key = partial[j].key => i = j
      /\ \A i \in 1 .. Len(partial) : Sound(partial[i])
      /\ \A e \in Members(partial) : Waiting(e)
      /\ completed \in Seq(FragKeys) /\ Len(completed) <= maxCompleted /\ maxCompleted \in Nat
  BY FragmentAssumption, LenProperties DEF FragInv, GoodStore
<1>2. /\ left \in Seq(FragRecord) /\ Len(left) = Len(partial) - p
      /\ \A n \in 1 .. Len(left) : left[n] = partial[n + p]
      /\ Bytes(gone) \in Nat /\ Bytes(partial) = Bytes(gone) + Bytes(left)
  <2>1. Cut(partial, p, gone, left)
    BY <1>1, BytesCut
  <2> QED
    BY <2>1 DEF Cut
<1>3. /\ a.st.items = left /\ a.st.bytes = bytes - Bytes(gone)
      /\ a.done = SubSeq(completed, c + 1, Len(completed))
  BY DEF Purged
<1>4. a.done \in Seq(FragKeys) /\ Len(a.done) <= maxCompleted
  <2> DEFINE d == a.done
  <2>1. d = SubSeq(completed, c + 1, Len(completed))
    BY <1>3
  <2> HIDE DEF d
  <2>2. d \in Seq(FragKeys) /\ Len(d) = Len(completed) - c /\ Len(completed) \in Nat
    BY <1>1, <2>1, RestOf, LenProperties
  <2>3. Len(d) <= maxCompleted
    BY <1>1, <2>2
  <2> QED
    BY <2>2, <2>3 DEF d
<1> HIDE DEF left, gone
<1>5. \A n \in 1 .. Len(left) : n + p \in 1 .. Len(partial)
  BY <1>1, <1>2
<1>6. Bytes(left) \in Nat
  BY <1>2, BytesNat
<1>7. Len(left) <= maxPartial
  BY <1>1, <1>2
<1>8. \A i, j \in 1 .. Len(left) : left[i].key = left[j].key => i = j
  <2> SUFFICES ASSUME NEW i \in 1 .. Len(left), NEW j \in 1 .. Len(left), left[i].key = left[j].key PROVE i = j
    OBVIOUS
  <2>1. i + p = j + p
    BY <1>1, <1>2, <1>5
  <2> QED
    BY <1>1, <2>1
<1>9. \A i \in 1 .. Len(left) : Sound(left[i])
  BY <1>1, <1>2, <1>5
<1>10. a.st.bytes = Bytes(left) /\ a.st.bytes <= maxStoreBytes
  BY <1>1, <1>2, <1>3, <1>6
<1>11. GoodStore(a.st)
  BY <1>2, <1>3, <1>7, <1>8, <1>9, <1>10 DEF GoodStore
<1>12. \A e \in Members(left) : Waiting(e)
  BY <1>1, <1>2, <1>5 DEF Members
<1> QED
  BY <1>3, <1>4, <1>11, <1>12 DEF Kept

LEMMA CollectOneKeeps ==
  ASSUME NEW st, NEW done, Kept(st, done), NEW key \in FragKeys, NEW total \in Totals,
         NEW id \in 0 .. total - 1, NEW len \in Nat, CollectOne(key, total, id, len, st, done)
  PROVE  FragInv'
<1> DEFINE opened == Opened(st, key, total)
           entry == opened.items[Place(opened.items, key)]
           filled == Filled(entry, id, len)
           delta == filled.bytes - entry.bytes
           room == MakeRoom(opened, key, delta)
           kept == [items |-> [room.items EXCEPT ![Place(room.items, key)] = filled],
                    bytes |-> room.bytes + delta]
<1>1. \/ Publish(opened, done)
      \/ Publish(room, done)
      \/ /\ ~ (room.bytes + delta > maxStoreBytes) /\ Whole(filled)
         /\ Publish(deleteItemLocked(kept, key), Mark(done, key))
      \/ ~ (room.bytes + delta > maxStoreBytes) /\ ~Whole(filled) /\ Publish(kept, done)
  BY DEF CollectOne
<1>2. GoodStore(st) /\ (\A e \in Members(st.items) : Waiting(e)) /\ done \in Seq(FragKeys) /\ Len(done) <= maxCompleted
  BY DEF Kept
<1>3. /\ GoodStore(opened) /\ Holds(opened.items, key) /\ entry.total = total
      /\ \A e \in Members(opened.items) : e \in Members(st.items) \/ e = Blank(key, total)
  <2>1. PICK o : o = opened
    OBVIOUS
  <2> HIDE DEF opened
  <2>2. /\ GoodStore(o) /\ Holds(o.items, key) /\ o.items[Place(o.items, key)].total = total
        /\ \A e \in Members(o.items) : e \in Members(st.items) \/ e = Blank(key, total)
    BY <1>2, <2>1, OpenedKeeps DEF opened
  <2> QED
    BY <2>1, <2>2
<1> HIDE DEF opened
<1>4. \A e \in Members(opened.items) : Waiting(e)
  BY <1>2, <1>3, BlankSound
<1>5. entry.key = key /\ entry \in Members(opened.items) /\ Sound(entry)
  <2>1. entry.key = key /\ entry \in Members(opened.items)
    BY <1>3, PlaceOf
  <2>2. \A e \in Members(opened.items) : Sound(e)
    BY <1>3 DEF GoodStore, Members
  <2> QED
    BY <2>1, <2>2
<1> HIDE DEF entry
<1>6. Sound(filled) /\ filled.key = key /\ (~Whole(filled) => Waiting(filled))
  <2>1. id \in 0 .. entry.total - 1
    BY <1>3
  <2> QED
    BY <1>5, <2>1, FilledSound
<1> HIDE DEF filled, delta
<1>7. Cleared(room, opened, key)
  BY <1>3, MakeRoomKeeps
<1> HIDE DEF room
<1>8. GoodStore(room) /\ \A e \in Members(room.items) : Waiting(e)
  BY <1>4, <1>7 DEF Cleared
<1>9. ASSUME ~ (room.bytes + delta > maxStoreBytes)
      PROVE  /\ GoodStore(kept)
             /\ \A x \in Members(kept.items) : x = filled \/ (x \in Members(room.items) /\ x.key # key)
  <2> DEFINE i == Place(room.items, key)
  <2>1. entry \in Members(room.items)
    BY <1>5, <1>7 DEF Cleared
  <2>2. i \in 1 .. Len(room.items) /\ room.items[i] = entry
    BY <1>5, <1>8, <2>1, PlaceOf
  <2> HIDE DEF i
  <2>3. PICK k : k = kept
    OBVIOUS
  <2>4. k = [items |-> [room.items EXCEPT ![i] = filled], bytes |-> room.bytes + (filled.bytes - room.items[i].bytes)]
    BY <2>2, <2>3 DEF i, delta
  <2>5. k.bytes <= maxStoreBytes
    <3>1. k.bytes = room.bytes + delta
      BY <2>3
    <3>2. room.bytes \in Nat /\ maxStoreBytes \in Nat
      BY <1>8, GoodTypes
    <3>3. filled.bytes \in Nat /\ entry.bytes \in Nat
      BY <1>5, <1>6 DEF Sound, FragRecord
    <3>4. delta \in Int
      BY <3>3 DEF delta
    <3> QED
      BY <1>9, <3>1, <3>2, <3>4
  <2>6. filled.key = room.items[i].key
    BY <1>5, <1>6, <2>2
  <2> HIDE DEF kept
  <2>7. /\ GoodStore(k)
        /\ \A x \in Members(k.items) : x = filled \/ (x \in Members(room.items) /\ x.key # filled.key)
    <3>1. Sound(filled) /\ Put(k, room, i, filled)
      BY <1>6, <2>4 DEF Put
    <3> QED
      BY <1>8, <2>2, <2>5, <2>6, <3>1, ReplaceKeeps DEF Changed
  <2> QED
    BY <1>6, <2>3, <2>7
<1> HIDE DEF kept
<1>10. CASE Publish(opened, done)
  BY <1>2, <1>3, <1>4, <1>10, Published DEF Kept
<1>11. CASE Publish(room, done)
  BY <1>2, <1>8, <1>11, Published DEF Kept
<1>12. CASE /\ ~ (room.bytes + delta > maxStoreBytes) /\ Whole(filled)
            /\ Publish(deleteItemLocked(kept, key), Mark(done, key))
  <2> DEFINE d == deleteItemLocked(kept, key)
             m == Mark(done, key)
  <2>1. GoodStore(d) /\ Members(d.items) = {e \in Members(kept.items) : e.key # key}
    BY <1>9, <1>12, DeleteKeeps
  <2>2. m \in Seq(FragKeys) /\ Len(m) <= maxCompleted
    BY <1>2, MarkKeeps
  <2>3. Publish(d, m)
    BY <1>12
  <2> HIDE DEF d, m
  <2>4. \A e \in Members(d.items) : Waiting(e)
    BY <1>6, <1>8, <1>9, <1>12, <2>1
  <2> QED
    BY <2>1, <2>2, <2>3, <2>4, Published DEF Kept
<1>13. CASE ~ (room.bytes + delta > maxStoreBytes) /\ ~Whole(filled) /\ Publish(kept, done)
  <2>1. \A e \in Members(kept.items) : Waiting(e)
    BY <1>6, <1>8, <1>9, <1>13
  <2> QED
    BY <1>2, <1>9, <1>13, <2>1, Published DEF Kept
<1> QED
  BY <1>1, <1>10, <1>11, <1>12, <1>13

LEMMA FragInitInv == FragInit => FragInv
<1> SUFFICES ASSUME FragInit PROVE FragInv
  OBVIOUS
<1>1. partial = <<>> /\ completed = <<>> /\ bytes = 0
  BY DEF FragInit
<1>2. partial \in Seq(FragRecord) /\ completed \in Seq(FragKeys) /\ Len(partial) = 0 /\ Len(completed) = 0
  BY <1>1, EmptySeq
<1>3. Bytes(partial) = 0
  BY <1>2, BytesNat
<1>4. 0 <= maxPartial /\ 0 <= maxCompleted /\ 0 <= maxStoreBytes
  BY FragmentAssumption
<1>5. Members(partial) = {} /\ 1 .. Len(partial) = {}
  BY <1>2 DEF Members
<1>6. GoodStore([items |-> partial, bytes |-> bytes])
  BY <1>1, <1>2, <1>3, <1>4, <1>5 DEF GoodStore
<1> QED
  BY <1>2, <1>4, <1>5, <1>6 DEF FragInv

LEMMA FragStep ==
  ASSUME FragInv, [FragNext]_fragVars
  PROVE  FragInv'
<1>1. CASE Collect
  <2>1. PICK key \in FragKeys, total \in Totals, len \in Lengths, p \in 0 .. Len(partial), c \in 0 .. Len(completed) :
          LET after == Purged(p, c)
          IN /\ len <= maxFragmentBytes
             /\ \/ Contains(after.done, key) /\ Publish(after.st, after.done)
                \/ total = 1 /\ Publish(deleteItemLocked(after.st, key), Mark(after.done, key))
                \/ /\ total > 1
                   /\ \E id \in 0 .. total - 1 : CollectOne(key, total, id, len, after.st, after.done)
    BY <1>1 DEF Collect
  <2>2. PICK st, done : st = Purged(p, c).st /\ done = Purged(p, c).done
    OBVIOUS
  <2>3. Kept(st, done)
    BY <2>2, PurgedKeeps
  <2>4. \/ Publish(st, done)
        \/ Publish(deleteItemLocked(st, key), Mark(done, key))
        \/ \E id \in 0 .. total - 1 : CollectOne(key, total, id, len, st, done)
    BY <2>1, <2>2
  <2>5. CASE Publish(st, done)
    BY <2>3, <2>5, Published
  <2>6. CASE Publish(deleteItemLocked(st, key), Mark(done, key))
    <3> DEFINE d == deleteItemLocked(st, key)
               m == Mark(done, key)
    <3>1. GoodStore(d) /\ Members(d.items) = {e \in Members(st.items) : e.key # key}
      BY <2>3, DeleteKeeps DEF Kept
    <3>2. m \in Seq(FragKeys) /\ Len(m) <= maxCompleted
      BY <2>3, MarkKeeps DEF Kept
    <3>3. Publish(d, m)
      BY <2>6
    <3> HIDE DEF d, m
    <3>4. Kept(d, m)
      BY <2>3, <3>1, <3>2 DEF Kept
    <3> QED
      BY <3>3, <3>4, Published
  <2>7. CASE \E id \in 0 .. total - 1 : CollectOne(key, total, id, len, st, done)
    <3>1. PICK id \in 0 .. total - 1 : CollectOne(key, total, id, len, st, done)
      BY <2>7
    <3>2. len \in Nat
      BY FragmentAssumption
    <3> QED
      BY <2>3, <3>1, <3>2, CollectOneKeeps
  <2> QED
    BY <2>4, <2>5, <2>6, <2>7
<1>2. CASE Purge
  <2>1. PICK p \in 0 .. Len(partial), c \in 0 .. Len(completed) : Publish(Purged(p, c).st, Purged(p, c).done)
    BY <1>2 DEF Purge
  <2>2. PICK a : a = Purged(p, c)
    OBVIOUS
  <2>3. Kept(a.st, a.done) /\ Publish(a.st, a.done)
    BY <2>1, <2>2, PurgedKeeps
  <2> QED
    BY <2>3, Published
<1>3. CASE RemoveIf
  <2>1. PICK key \in FragKeys : Publish(deleteItemLocked([items |-> partial, bytes |-> bytes], key), Unmarked(completed, key))
    BY <1>3 DEF RemoveIf
  <2> DEFINE st == [items |-> partial, bytes |-> bytes]
             d == deleteItemLocked(st, key)
             u == Unmarked(completed, key)
  <2>2. GoodStore(d) /\ Members(d.items) = {e \in Members(st.items) : e.key # key}
    BY DeleteKeeps DEF FragInv
  <2>3. u \in Seq(FragKeys) /\ Len(u) <= Len(completed)
    BY UnmarkedKeeps DEF FragInv
  <2>4. Publish(d, u) /\ st.items = partial
    BY <2>1
  <2> HIDE DEF d, u, st
  <2>5. Len(u) <= maxCompleted
    BY <2>3, LenProperties, FragmentAssumption DEF FragInv
  <2>6. Kept(d, u)
    BY <2>2, <2>3, <2>4, <2>5 DEF Kept, FragInv
  <2> QED
    BY <2>4, <2>6, Published
<1>4. CASE UNCHANGED fragVars
  BY <1>4 DEF fragVars, FragInv, GoodStore
<1> QED
  BY <1>1, <1>2, <1>3, <1>4 DEF FragNext

LEMMA FragInvBudget == FragInv => FragmentBudget
<1> SUFFICES ASSUME FragInv PROVE FragmentBudget
  OBVIOUS
<1>1. DOMAIN partial = 1 .. Len(partial) /\ partial \in Seq(FragRecord)
  BY LenProperties DEF FragInv, GoodStore
<1>2. \A i \in 1 .. Len(partial) : Sound(partial[i]) /\ Waiting(partial[i])
  BY DEF FragInv, GoodStore, Members
<1>3. \A i \in DOMAIN partial :
        LET e == partial[i]
        IN e.bytes = Total(Held(e)) /\ (e.wrapped \/ \E n \in DOMAIN e.chunks : e.chunks[n] = Nil)
  BY <1>1, <1>2 DEF Sound, Waiting
<1>4. /\ bytes = Bytes(partial) /\ bytes <= maxStoreBytes
      /\ Len(partial) <= maxPartial /\ Len(completed) <= maxCompleted
  BY DEF FragInv, GoodStore
<1> QED
  BY <1>3, <1>4 DEF FragmentBudget

(***************************************************************************)
(* The cache and the fragments keep their budgets.                         *)
(***************************************************************************)

LEMMA CacheInit == DNSInit => CacheBudget
<1> SUFFICES ASSUME DNSInit PROVE CacheBudget
  OBVIOUS
<1>1. cache = <<>> /\ responseBytes = 0
  BY DEF DNSInit
<1>2. cache \in Seq(Lasting) /\ Len(cache) = 0
  BY <1>1, EmptySeq
<1>3. CacheBytes(cache) = 0
  BY <1>2, CacheBytesNat
<1> QED
  BY <1>1, <1>2, <1>3, TimesAssumption DEF CacheBudget

LEMMA CacheStep ==
  ASSUME DNSInv, CacheBudget, [DNSNext]_dnsVars
  PROVE  CacheBudget'
<1>1. cache \in Seq(Lasting)
  BY DEF DNSInv, DNSTypes
<1>2. CASE UNCHANGED <<cache, responseBytes>>
  BY <1>2 DEF CacheBudget, CacheBytes
<1>3. ASSUME NEW w \in Workers, Ask(w) PROVE CacheBudget'
  <2>1. PICK key \in Keys :
          GetReady(key, clock, UNCHANGED worker,
                   Set(w, [Free EXCEPT !.at = "acquire", !.key = key, !.now = clock]))
    BY <1>3 DEF Ask
  <2>2. \/ UNCHANGED <<cache, responseBytes>>
        \/ \E i \in Cached(key) :
             IF clock >= cache[i].expires
             THEN /\ cache' = RemoveAt(cache, i)
                  /\ responseBytes' = responseBytes - cache[i].answer.size
             ELSE /\ cache' = Append(RemoveAt(cache, i), cache[i])
                  /\ UNCHANGED responseBytes
    BY <2>1 DEF GetReady
  <2> QED
    BY <1>1, <2>2, GetReadyBudget
<1>4. ASSUME NEW w \in Workers, Wait(w) PROVE CacheBudget'
  <2>1. CASE UNCHANGED <<cache, responseBytes>>
    BY <1>2, <2>1
  <2>2. CASE GetReady(worker[w].key, worker[w].now, Set(w, Free), Set(w, Free))
    <3> DEFINE key == worker[w].key
               now == worker[w].now
    <3>1. \/ UNCHANGED <<cache, responseBytes>>
          \/ \E i \in Cached(key) :
               IF now >= cache[i].expires
               THEN /\ cache' = RemoveAt(cache, i)
                    /\ responseBytes' = responseBytes - cache[i].answer.size
               ELSE /\ cache' = Append(RemoveAt(cache, i), cache[i])
                    /\ UNCHANGED responseBytes
      BY <2>2 DEF GetReady
    <3> HIDE DEF key, now
    <3> QED
      BY <1>1, <3>1, GetReadyBudget
  <2> QED
    BY <1>4, <2>1, <2>2 DEF Wait
<1>5. ASSUME NEW w \in Workers, Store(w) PROVE CacheBudget'
  <2> DEFINE key == worker[w].key
             answer == worker[w].answer
             now == worker[w].now
  <2>1. worker[w].at = "store" /\ SetReady(key, answer, now)
    BY <1>5 DEF Store
  <2>2. worker[w] \in WorkerStates /\ Timed(worker[w], clock)
    BY DEF DNSInv, DNSTypes, LifeInv
  <2>3. key \in Keys /\ answer \in Answers /\ now \in Nat /\ now <= answer.obtained
    BY <2>1, <2>2 DEF WorkerStates, Timed
  <2> HIDE DEF key, answer, now
  <2> QED
    BY <1>1, <2>1, <2>3, SetReadyBudget
<1>6. CASE Tick
  BY <1>2, <1>6 DEF Tick
<1>7. ASSUME NEW w \in Workers, Acquire(w) PROVE CacheBudget'
  BY <1>2, <1>7 DEF Acquire
<1>8. ASSUME NEW w \in Workers, Lookup(w) PROVE CacheBudget'
  BY <1>2, <1>8 DEF Lookup
<1>9. ASSUME NEW w \in Workers, Resolve(w) PROVE CacheBudget'
  BY <1>2, <1>9 DEF Resolve
<1>10. CASE UNCHANGED dnsVars
  BY <1>2, <1>10 DEF dnsVars
<1> QED
  BY <1>3, <1>4, <1>5, <1>6, <1>7, <1>8, <1>9, <1>10 DEF DNSNext

------------------------------------------------------------------------------
(* The theorems. *)

LEMMA ResolverInit == Init => UpInv /\ DNSInv
BY UpInitInv, DNSInitInv DEF Init

LEMMA ResolverStep == UpInv /\ DNSInv /\ [Next]_vars => UpInv' /\ DNSInv'
<1> SUFFICES ASSUME UpInv, DNSInv, [Next]_vars PROVE UpInv' /\ DNSInv'
  OBVIOUS
<1>1. [UpNext]_upVars
  BY DEF Next, vars
<1>2. [DNSNext]_dnsVars
  BY DEF Next, vars
<1> QED
  BY <1>1, <1>2, UpStep, DNSStep

(* Every state the resolver reaches keeps both invariants: the types, the   *)
(* bookkeeping of the servers asked, the life of what is cached and the     *)
(* leaders of the queries in flight.                                        *)
THEOREM ResolverInvariant == Spec => [](UpInv /\ DNSInv)
<1>1. Init => UpInv /\ DNSInv
  BY ResolverInit
<1>2. UpInv /\ DNSInv /\ [Next]_vars => (UpInv /\ DNSInv)'
  BY ResolverStep
<1> QED
  BY <1>1, <1>2, PTL DEF Spec

(* A query fails early only when every configured server was asked and none *)
(* has answered, and the limit of servers asked at once is kept             *)
(* (resolveDNSUpstream).                                                    *)
THEOREM EveryServerIsTried == Spec => []TriesEveryServer
<1>1. UpInv => TriesEveryServer
  BY DEF UpInv, TriesEveryServer
<1> QED
  BY <1>1, ResolverInvariant, PTL

(* What the cache serves has not outlived its records by more than a query  *)
(* may have waited (GetReady, SetReady).                                    *)
THEOREM CacheServesInLife == Spec => []ServedInLife
<1>1. DNSInv => ServedInLife
  BY DEF DNSInv, LifeInv, ServedInLife
<1> QED
  BY <1>1, ResolverInvariant, PTL

(* While an entry is young its leader is the only one of the name, and an   *)
(* entry that is waited for has a leader at work (Acquire, Resolve).        *)
THEOREM OneQueryPerName == Spec => []SingleFlight
<1>1. DNSInv => SingleFlight
  <2> SUFFICES ASSUME DNSInv PROVE SingleFlight
    OBVIOUS
  <2>1. \A w \in Workers : Leads(w) <=> Going(worker[w])
    BY DEF Leads, Going
  <2>2. \A w \in Workers : Going(worker[w]) => entries[worker[w].entry].born = worker[w].now
    BY DEF DNSInv, LifeInv, Led
  <2> QED
    BY <2>1, <2>2 DEF DNSInv, FlightInv, SingleFlight
<1> QED
  BY <1>1, ResolverInvariant, PTL

(* The bytes that the two stores count are the bytes that they hold, at all *)
(* times, and none of their limits is passed; a packet whose fragments are  *)
(* all there does not stay (Collect, deleteItemLocked, SetReady,            *)
(* removeElementLocked).                                                    *)
THEOREM BudgetsAreExact == Spec => []BudgetsExact
<1>1. Init => FragInv /\ DNSInv /\ CacheBudget
  BY FragInitInv, DNSInitInv, CacheInit DEF Init
<1>2. FragInv /\ DNSInv /\ CacheBudget /\ [Next]_vars => (FragInv /\ DNSInv /\ CacheBudget)'
  <2> SUFFICES ASSUME FragInv, DNSInv, CacheBudget, [Next]_vars PROVE FragInv' /\ DNSInv' /\ CacheBudget'
    OBVIOUS
  <2>1. [FragNext]_fragVars /\ [DNSNext]_dnsVars
    BY DEF Next, vars
  <2> QED
    BY <2>1, FragStep, DNSStep, CacheStep
<1>3. FragInv /\ CacheBudget => BudgetsExact
  BY FragInvBudget DEF BudgetsExact
<1> QED
  BY <1>1, <1>2, <1>3, PTL DEF Spec
=============================================================================
