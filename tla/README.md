# A TLA+ model of the MasterDNS server and the Zanoza panel

The repository holds two Go programs. `masterdns/cmd/server` carries TCP and
SOCKS5 streams inside DNS queries and answers: clients poll it with queries, and
every answer brings back at most a few packets. `cmd/zanoza-panel` is the web
panel that owns the instances' keys and domains and supervises the server
process. This directory models their core logic in TLA+, checks it with TLC on
small instances and proves part of it with TLAPS for all of them.

Run `tlc -config X.cfg M` for the runs of `PROJECT.json` and `tlapm M.tla` for
the proof modules. Paths below are relative to `masterdns/internal/` for the
server and to `cmd/zanoza-panel/` for the panel.

## 1. The system

| Component | State | Operations | Talks to |
|---|---|---|---|
| Multi-level queue `mlq/` | six priority levels, a census of keys, a bitmask, an atomic size | Push, Pop, PopIf, PopAnyIf, RemoveByKey, Clear | owned by streams and sessions |
| ARQ data plane `arq/arq.go` | send buffer, receive buffer, `sndNxt`, `rcvNxt`, windows | ioLoop, rxLoop, writeLoop, retransmitLoop, ReceiveData, ReceiveAck, HandleDataNack | pushes into its stream; its callbacks close the stream |
| ARQ closing and control `arq/arq.go` | close-read, close-write and reset flags, drain deadline, terminal ACK slot, control buffer | Close, MarkXReceived, emitTerminalPacket, checkControlRetransmits, finalizeClose | the same stream, the peer |
| Stream `udpserver/stream_server.go` | transmit queue, closed flag, upstream connection | PushTXPacket, RemoveQueuedData, ClearTXQueue, PopNextTXPacket, attachUpstreamConn, CloseStream | its ARQ (both directions), its session |
| Answering `udpserver/server_session.go` | round-robin cursor, packed control blocks | dequeueSessionResponse | every stream of a session |
| Sessions `udpserver/session.go` | slots, signatures, cookies, stream table, recently closed | findOrCreate, Cleanup, getOrCreateStream, removeStream, closeAllStreams | streams, deferred pool |
| Deferred pool `udpserver/deferred_session.go` | workers' channels, lane bindings, counters, cancelled marks | Enqueue, RemoveLane, RemoveSession, FinalizeLane, worker loop | runs dials and DNS queries of packets |
| Connecting `udpserver/server_deferred.go`, `server_postsession.go`, `socks5_upstream.go` | in-flight table of deferred packets | processDeferredStreamSyn, tryBegin/finishDeferredPacket | deferred pool, stream, ARQ |
| DNS tunnel `udpserver/dns_tunnel.go`, `fragmentstore/`, `inflight/`, `dnscache/` | fragments per query, leaders and waiters per key, cached answers | Collect; Acquire, Resolve, Wait; LookupOrCreatePending, SetReady, flush | upstream resolvers |
| Invalid cookies `udpserver/invalid_cookie_tracker.go` | hits per source and window | Note | ingress |
| Runtime `udpserver/server*.go` | sockets, worker pools | receive, dispatch, answer | everything above |
| Key ring `keyring/`, `masterdns/cmd/server/main.go` | keys and domains, generation | Load, SIGHUP reload, WriteApplied | files shared with the panel |
| Supervisor `process.go` | process, desired and applied generation, restart timer | apply, start, stop, restart, reap, scheduleAutoRestart | server process by signal and files |
| Configuration `config.go`, `atomicfile.go` | the instances, in memory and on disk | commit, reload, snapshot | supervisor |
| Authentication `auth.go`, `mfa.go` | credentials, sessions, limiter, second factor, tickets | verify, changePassword, allowed/fail/release, setup, confirm, skip | HTTP handlers |
| Codecs, configuration parsing, logging, UI, installers | none, or local | pure functions | everything |

**What is hard here.** A stream is touched by four goroutines of its ARQ, by the
handlers of incoming packets and by every DNS worker of the session, under two
mutexes that are mostly not held together: pushes happen after the ARQ's lock is
released. DNS loses, repeats and reorders messages, and sequence numbers have 16
bits. Closing is a handshake with deadlines. The deferred pool re-packs its
channels while workers read from them. The panel and the server share files and
signals without a common lock, and either may die at any step.

**What makes each part correct**, in short: the queue never contradicts itself
or reorders a level; a stream delivers a prefix of what was written and forgets
only what was received; a chunk is queued once and is always on its way or timed;
nothing is pushed into a dead stream; the pool's counters are exact, its lanes
serial and its tasks neither lost nor resurrected; a session slot is reused only
when nobody can take the new session for the old; a closed stream ends in
bounded time without truncating data; the server ends up running the
configuration that is on disk; a login limit cannot be talked down. The list of
hazards in `PROJECT.json` names the line where each can go wrong.

## 2. Modules

| Module | Models | State and actions |
|---|---|---|
| `MultiLevelQueue` | `mlq/mlq.go` | a queue value is one record (`levels`, `census`, `mask`, `fastSize`); each method is an operator on that value and an action |
| `MultiLevelQueueProofs` | | its theorems |
| `ReliableStream` | what a stream promises | the abstract specification: bytes written come out once, in order, with a bounded number under way |
| `ArqData` | one direction of a stream, `arq/arq.go` | `ReadLocal` (ioLoop), `Transmit`, `ReceiveAck`, `Receive` (processReceivedData), `Write` (writeLoop), and a channel that keeps, loses and repeats |
| `ArqDataProofs` | | its theorems, among them the refinement |
| `StreamTx` | the threads around one stream's transmit queue | one action per critical section; `MultiLevelQueue` is instantiated for the queue, so removal, popping and clearing are the queue's own operators |
| `StreamTxProofs` | | its invariants, proved |
| `ArqClose` | two ARQs closing a stream, `arq/arq.go` and the handlers of `udpserver/server_postsession.go` | the state of an end is a record; functions of `arq.go` are operators on it; one action per handler, loop section and timer |
| `MCArqClose` | | the loads TLC checks it with |
| `ArqCloseProofs` | | the invariants of `ArqClose`, proved |
| `DeferredProcessor` | `udpserver/deferred_session.go` | every method under `p.mu` is one action, a worker's channel receive is one of its own |
| `MCDeferredProcessor` | | the lanes TLC checks it with |
| `DeferredProofs` | | the invariants of `DeferredProcessor`, proved |
| `SessionTable` | the session store of `udpserver/session.go` | slots, the index of handshakes, what is remembered of closed sessions; one action per method |
| `CookieTracker` | `udpserver/invalid_cookie_tracker.go` | records per key; `Note`, `CleanupCookies` |
| `StreamTable` | a session's streams, `udpserver/session.go`, `stream_server.go` | the table, every stream made, tombstones and their heap |
| `StreamConnect` | opening and closing streams, `udpserver/server_deferred.go`, `server_postsession.go` | tasks, handlers, the sweep and the end of the session, each with the step it is at |
| `Sessions` | | the four modules above, side by side |
| `SessionsProofs` | | `NoSharedSession`, `UpstreamOwned`, `StreamBook` and `EmitsApart`, proved |
| `ByteSums` | | the sum that both byte counts below stand for, as a function that proofs can unfold |
| `FragmentStore` | `fragmentstore/store.go` | entries and marks, oldest first, and the byte count |
| `DNSUpstream` | `resolveDNSUpstream` of `udpserver/dns_tunnel.go` | one hedged query |
| `DNSResolver` | `inflight/manager.go`, `dnscache/store.go` and their caller | entries of leaders, the cache, one record per worker |
| `Resolver` | | the three modules above, side by side |
| `ResolverProofs` | | `TriesEveryServer`, `ServedInLife`, `SingleFlight` and `BudgetsExact`, proved |
| `InstanceRules` | which lists the panel stores and the server loads | operators on a list of instances, one set per program |
| `PanelConfig` | the panel's `config.go`, handlers of `main.go` | `config.json`, the live list, and a thread per request |
| `Supervisor` | the panel's `process.go`, the server's `main.go`, `keyring/` | the files both share, the manager, the server process; extends `PanelConfig` |
| `PanelAuth` | the panel's `auth.go`, `mfa.go`, `setup.go` and their handlers | stores, limiter, tokens, and what each handler still has to do |
| `Panel`, `MCPanel` | | `Supervisor` and `PanelAuth` side by side; the lists TLC checks them with |
| `PanelProofs` | | the safety properties of `Supervisor` and `PanelAuth`, proved |

### MultiLevelQueue

The heap of slices is a function from the six levels to sequences, the key map is
the census, the bitmask is the set of levels thought to be non-empty. Push refuses
a key that is in the census; Pop takes the first item of the lowest level;
RemoveByKey looks an item up by its recorded level; PopAnyIf visits the levels of
the mask and clears the bits it finds wrong. The predicates that the code is given
are quantified over as sets of items. `Keys` and `Items` are parameters.

### ArqData and ReliableStream

Chunks are numbered 1, 2, 3, ...; a packet carries the chunk's number modulo
`SeqSpace`, and the chunk itself as a ghost that only the application looks at.
The receiver decides with the wire number alone, exactly as
`processReceivedData` does (distance modulo the space, half of it counting as
old). A chunk older than `Lifetime` new ones can no longer arrive: this is the
lifetime of a DNS message, the only assumption under which reuse of 16-bit numbers
can be sound. `WindowAssumption` relates windows, lifetime and the space; the
code's values satisfy it (windows of at most 16000 and 6400 in a space of 65536) as
long as a message does not outlive 32768 further chunks. When to retransmit is
left open: `Transmit` may happen at any time for any chunk of the send buffer,
which covers the timers, the NACKs and the duplicate copies of `StreamTx`.

### StreamTx

Where a goroutine is between two locks is a variable of its own (`reader`,
`jobs` and `settling` of the timer, `nackFor`, `ackFor`, `worker`, `clearing`).
The reader reads its flags, blocks in Read, inserts into the send buffer under
`a.mu` and pushes under `txQueueMu`, and so on; other processes run in between. A
dispatched chunk's timeout may or may not have passed when the timer looks
(`TimerCollect` takes any set of them). `noted` and `answered` are history.

### ArqClose

`ArqData` says what happens to data while the stream is open; `ArqClose` says how it
ends, and so it keeps of the data only which chunks each end has sent, received,
taken and written. The three terminal packets, the flags they set (`sent`,
`received`, `acked`), the one slot for an awaited ACK (`waiting`), the deferred
packet of a drain and the control buffer (`control`) are those of the code, under its
names where it has one name for them. Messages are never removed from `net`: any of
them may arrive again, or never. `waiting`'s deadline, the drain deadline, the grace
period, inactivity and the last retry may each happen as soon as they are armed.
`overdue` remembers the one case in which an expired deadline changes nothing and yet
keeps the tick from going on. The server obeys an RST at once (its handler forces the
close); the handlers of the client are not in the repository, and the model lets it
drain first, as `tryFinalizePeerResetDrain` is made for.

The operators `emitTerminal`, `settleTerminalDrain` and `closeNow` run in one step
where the code takes `a.mu` several times in a row. Three gaps are kept, because
what comes between matters: the reader blocked in Read with old flags, the writer
between finding nothing to write and looking at CLOSE_READ, and the time between the
decision that the handshake is complete and `finalizeClose`.

### DeferredProcessor

Tasks are numbered in the order they are accepted. `Compact` takes each worker's
channel apart, drops the removed tasks and refills it; because idle workers receive
from the channel without the mutex, `Takings` says what they take meanwhile. A
context that is cancelled is a member of `dead`. `started`, `detached`,
`removed` and `revived` are history.

### Composition

`StreamConnect` uses `StreamTable`'s operators inside its own steps, and `Supervisor`
works on the threads of `PanelConfig`: these are composed step by step. `Sessions`,
`Resolver` and `Panel` put parts together that share no state at the level modelled: a
request looks its login up once before its handler starts, the parts of the tunnel hand
values to each other, and a session shares with the store only its own end (a step of
`StreamConnect` that may come at any time). A variable `part` says which part a
behaviour is about; interleaving independent parts would multiply states and show
nothing.

### SessionTable and CookieTracker

A handshake is a signature, a slot holds a record or `Free`. `findOrCreate`, `Close`,
`Cleanup` run under the store's lock and are one action each;
`handleSessionCloseNotice` looks up first and closes then, which is kept as two steps
(`Lookup`, `notice`). `expireReuseLocked` looks at the index only when `nextReuseSweep`
is due, so that `NoSharedSession` says what this time may be. The tracker's two
history variables are what the property speaks of: the packets of a key that were
noted, kept or not, and the times of its answers.

### StreamTable and StreamConnect

A client may use a stream's number again, so every stream made is an element of the
sequence `stream`, and the table holds indices. Each process is at a step: a
handler (`syn`, `enqueue`, `ack`; `reset`, `abort`; `note`, `forget`), a deferred task
(`create`, `dial`, `dialled`, `attached`, `clear`, `finish`), the sweep, the
end of the session, and each stream's own finalisation (`final`: out of the table and
its resources, then the tombstone). Everything the code does without holding one lock
throughout is a step of its own. `open` says of every connection ever dialled whether
it is open. `ARQEnds` stands for every way an ARQ comes to its end, which is the matter
of `ArqClose`. `Begin` and `FinalizeLane` follow `DeferredProcessor`, of which only the
lane's serialisation and its cancellation matter here. In the run's part `table` the
operators of `StreamTable` are called by anybody in any order.

### FragmentStore, DNSUpstream, DNSResolver

A fragment is its length, an answer is the time it was obtained, the life of its
records and its length. Entries are kept in the order of their times, so that
"expired" is a beginning of the sequence and a purge takes any beginning. The count of
fragments is one byte (`CountRange`, 256 in the program), and an empty fragment leaves
its slot empty and is counted each time it comes; `wrapped` remembers that the count of
an entry has gone round, because such an entry may have all its fragments and stay until
it expires. In
`DNSResolver` the clock is a number, because the code compares times of different
origin: a worker reads the clock once (`now`) and uses that time for the cache, for the
entry of its leader and for the cache again after it has waited. The clock does not
pass over a timer that is due. `Lookup` is the answer of `DNSUpstream`, taken at any
later time.

### InstanceRules, PanelConfig, Supervisor

A thread is a request of a client, or the panel's own thread that boots and then waits
for SIGHUP. `commitMu` and `applyMu` are held across steps. A change goes through
`CommitWrite`, `CommitPublish`, `snapshot`, `LockApply`, `WriteKeyringFile`,
`EnsureAndPublish`, `LookForChild`, and `Signal` or `Start`, a restart through `Stop`,
`Terminate` and the wait. Each write of `keyring.json` has a number and `written` says
what it held: a digest names exactly one content, so a marker is a number, and two
writes with equal generation and list have equal bytes. The server opens the file and
loads it in two steps. A signal to a process that has no handler yet ends it. The
fork, Wait and signals are external; crashes, failing writes, failing starts and
expiring timeouts are counted by `MaxFaults`.

### PanelAuth

A handler is a list of steps still to do (`todo`) and of what it has deferred
(`defers`): the code's `defer release(key)` and `defer authMu.Unlock()` run however the
body ends. Each step is one critical section of a store. A password is a number and a
session remembers which one it came by, a ghost that the property needs. `persist`
changes memory first and disk then, as `mfa.go` does; credentials are written first.

## 3. Runs

| Run | Question | Size |
|---|---|---|
| `mlq` | do census, mask and size stay exact and levels ordered under all methods? | 3 keys, 2 kinds, 6 levels: 3 229 states |
| `arq_data` | is the stream reliable over a bad channel, with numbers that wrap? | space 10, windows 2, 12 chunks: 1.5 million states |
| `stream_tx` | do the threads of a stream keep one copy of a chunk, an empty closed queue, honest retry counts and the first copy? | 3 chunks, window 2, 2 workers, 1 retry, 1 NACK: 5.5 million states |
| `stream_tx_forgotten` | can a chunk lose its timer? **yes** | 2 chunks, 2 retries |
| `arq_close` | does a completed handshake deliver everything and strand nobody, is no half of it forgotten, and does a reset stream end? | one chunk up or one down, all faults: 330 789 states |
| `arq_close_eof` | can EOF overtake data? **yes** | one chunk each way, no faults |
| `deferred` | does the pool count, serialise, drop and finish its tasks? | 2 workers with 1 slot each, 2 lanes of a session, cap 2, 3 tasks: 56 412 states |
| `deferred_removed` | can a removed task run? **yes** | the same |
| `sessions` | do two clients ever share a session, do the tables keep their books, is a wrong cookie answered too often, does any upstream connection stay open? | four parts: 1 027 199 states |
| `resolver` | are the budgets exact, are answers served in their life, is every server tried, is there one leader? | three parts: 7.8 million states |
| `panel` | is what is acknowledged loaded, is what is quiet in sync, do locks and slots come back, does an old password open anything? | two parts: 1 146 143 states |
| `panel_reload` | can a reload undo a change? **yes** | 2 clients, 2 requests, no faults |

**Bounds, and why they are enough.** The queue needs two items in one level and a
third elsewhere for every branch of its methods; the run has that in every
arrangement. `arq_data` numbers twelve chunks in a space of ten, so every
number on the wire is used twice, and its windows and lifetime are the tightest
the assumption allows: in a space of nine `NoFalseAck` fails. `stream_tx` has one
chunk more than the window, so that numbers move on while an old chunk is still
in a thread's hands, two workers so that a dequeue races a dequeue, and a budget of
one urgent retransmission so that both kinds are queued in one round. `arq_close`
has one chunk in one direction (both directions are initial states): its terminal
packets, faults and timers are unbounded, and a chunk that may be unsent, sent,
received, processed, taken or written is what a closing end has to tell apart; a
second chunk would repeat it, and sequences of chunks are the matter of `ArqData`.
`deferred`
fills a channel with one task and needs the third to be refused, re-bound or
overtaken; two lanes of one session share the session's cap.

`sessions` has one signature more than slots, so that slots are
fought for and reused, and a clock that runs past every retention; the cookie part has
two keys and room for one record. Two streams may be made for one of two numbers, with a
limit of one active stream and one tombstone, two workers and two connections: a stream
is closed and opened again while the first one's task, dial or finalisation is still
going on, which is what the properties are about; four events (packets and timers) are
as many as that takes, internal steps are unbounded. `resolver` has three keys for two
entries and one mark, fragments up to the byte limits of an entry and of the store,
a count that wraps at 3, just above the largest total as 256 is above 255, five arrivals; four upstream servers of which two may be asked at once; two workers on
two keys that share a shard of one record, with lives of 0, 1 and 5 under a cache life
of 4. `panel` has two instances at most, two clients and the panel's own
thread, two requests or edits and two faults in any order, which is enough for a crash
at each step of a change that races another. In `PanelAuth` two handlers serve four requests from one
address, the limiter tracks two of the three keys and locks after two failures.

Deadlock is checked for the queue and the pool. It is not for the streams, which
really stop (all chunks are delivered, or the stream is closed), nor for the runs whose
bounds end them.

**Fairness.** `DeferredProcessor` assumes weak fairness of each worker. A worker is a
goroutine that is never parked except in its channel receive, and the functions it runs
end because their dials and queries carry timeouts. No fairness is assumed of callers.
`ArqClose` assumes it of
rxLoop, writeLoop, the timers of retransmitLoop and the pending `finalizeClose`: these
are goroutines that only wait with deadlines. It assumes nothing of the applications,
the reader (which blocks in Read) or the net; `ResetEnds` holds even if no further
message ever arrives.
`Supervisor` assumes it of
the panel's threads, of `reap`, of the sleeping automatic restarts and of what the server
process does by itself (it boots, handles a signal, ends when asked to): none of them
waits for anything but a lock that is given back, a process or a timeout. It assumes
nothing of signals, requests and crashes; `ApplyEnds` is the promise that a wait under
`applyMu` ends. `Sessions` assumes it of the tasks, finalisations and the session's
end (`GoesOn`): dials have timeouts, and an ARQ that hears nothing gives up. It takes
an attach as one step and so assumes that the inversion of locks described below is
not met.
`ReliableStream` and `ArqData` state no liveness: a client that stops polling stalls a
stream for good, and nothing in the server can prevent it.

### What the violations show

* `stream_tx_forgotten`: `checkRetransmits` collects the due chunks, releases
  `a.mu`, pushes each, and takes the lock again to count the retry and set
  `Dispatched = false`. If a worker pops the new copy in between,
  `NoteTXPacketDequeued` has set `Dispatched = true` already, and the timer
  overwrites it. The chunk is then in the send buffer, in no queue, and not timed.
  If the answer that carried it is lost, only a NACK of the peer (that is, a later
  chunk that arrives) can bring it back. The other order is harmless, and the
  first copy is never affected (`FirstCopy`).
* `arq_close_eof`: `writeLoop` finds the receive buffer empty, releases `a.mu`,
  takes it again to read `closeReadReceived` and `pendingInbound`, and shuts the
  connection down for writing. If the last chunk and, a round trip later, the
  CLOSE_READ that follows it arrive between the two locks, the chunk sits in the
  receive buffer when EOF is sent, and the write that follows fails. The goroutine
  must be held up for a round trip, so this is rare; looking at the receive buffer
  under the second lock closes the gap (the property then holds).
* `deferred_removed`: `RemoveLane` marks a lane so that a task taken from
  its channel but not begun is dropped; `Enqueue` deletes the mark. A lane removed
  and used again in that window runs the removed task with a live context.
  `RemovedStaysRemoved` states what does hold: without a new use of the lane the
  task is never run.
* `panel_reload`: the SIGHUP handler reads `config.json`, and only
  `publishReload` takes `commitMu`. A request that commits in between is on disk and
  answered with success, and the reload then puts the older list back into memory and
  applies it; the next commit, made on a copy of that list, loses the change on disk
  as well.

### What else the models show

These are reachable too and are no runs of their own: nothing in the repository says
otherwise in so many words, except where noted.

* `mutateInstances` takes its snapshot after the commit and before `applyMu`. Of two
  requests the later may overtake the earlier there, and the older list is then the
  last one applied: with all threads idle, `keyring.json` differs from the live list until
  somebody makes another change or asks for a reload. Taking the snapshot under
  `applyMu` closes it. (The comment on `serverManager` says that it "keeps keyring.json in
  sync with the panel instances"; the formula "all threads idle implies that the last
  write has the live list" fails under `PanelReload.cfg` in 17 steps.) `InSync` is the part that holds: the server and `keyring.json` agree.
* `attachUpstreamConn` holds the stream's lock and asks the ARQ (`IsClosed`, under
  `a.mu`); `SendControlPacketWithTTL` holds `a.mu` and pushes a tracked packet into the
  stream, which takes the stream's lock. A reset by the inactivity timer, or a second
  task of the stream, while a dial attaches meets the cycle. Found by reading: the models
  take each of the two as one step.
* `removeStream`, `onStreamClosed` and `finishDeferredPacket` go by the stream's number.
  When the number is in use again, they take the newer stream from the table, or the
  newer task's mark. The newer stream's connection is then closed only by its own ARQ's
  end: without `GivesUp`, `NothingLeftOpen` fails.
* `clearDeferredPacketsForStream` clears the marks before it removes the lane. A SYN
  between the two leaves a mark without a task, and further SYNs of the stream are taken
  for repetitions until the stream is cleared again.
* An RST for a stream that is not there writes a tombstone after a SYN has made the
  stream: the task then finds itself stale after its dial and closes the connection,
  which the stream goes on holding as connected.
* The second look at the cache uses the time the query began (`ServedInLife` has the
  wait as its allowance).
* Verifying a second factor does not take `authMu`: `OldPasswordGone` is a promise about
  sessions made by the login itself.
* `finishLane` cancels the context the lane records, also when a newer task of the lane has
  begun meanwhile.
* When saving the second factor fails, memory and disk disagree until the panel restarts.

`ResetEnds` states an exception that is real, too. When the deadline for the ACK of
CLOSE_READ or CLOSE_WRITE passes after the peer's RST has been received and before the
next tick, every tick calls `Close` with SendRST, which does nothing for a stream that
is already resetting, and returns before it looks at the peer's reset. If the writer
has ended as well (a broken local connection), nothing is left that would close the
stream; without the exception TLC shows exactly this.

## 4. Proofs

`MultiLevelQueueProofs`, for every set of keys and of items: the inductive
invariant `Exact` says that a queue value is well formed, every item sits in
exactly the level the census gives for its key, the mask is the set of non-empty
levels and the size is their total length. The census alone is not inductive (Pop
trusts the mask to find an item, RemoveByKey trusts the census to find the level),
which is why the three are proved together; one lemma per value operator (`Pushed`,
`Without`, `WithoutKey`, `Popped`) carries the proof, and `NoOvertaking`
follows from the same lemmas.

`ArqDataProofs`, for every window, limit, lifetime and sequence space that satisfy
`WindowAssumption`: the inductive invariant joins what the sender keeps (a
contiguous range above what is acknowledged), what the channel may still hold
(nothing older than the lifetime), what the receiver has buffered (only chunks
inside its window) and `NoFalseAck`. From it follow `NoConfusion` and
`FlowBound`, which are arithmetic about windows and remainders, and the
refinement: every step of `ArqData` is a step of `ReliableStream` or a stutter.

`SessionsProofs`, for every number of slots, handshakes and concurrent sessions
(`SlotsAssumption` asks for at least one slot): `NoSharedSession` is inductive with
the types of the store, because it already joins what findOrCreate relies on: an
entry of the index names a live session of that handshake, the next sweep of the
index is not later than the first entry to expire, and the count is exact.
`IndexSound` says that the index after a sweep is a part of the old one,
`SlotSound` that the slot allocated is free; one lemma per method of the store
follows. The count needs cardinalities of finite sets, the least expiry well-founded
induction.

The upstream connections, for every number of streams, tasks, handlers and packets
(`StreamsAssumption`: packets name stream numbers): `UpstreamOwned` is not inductive.
`UpstreamInv` adds that only a stream that has ended is being finalised, which is
why attachUpstreamConn may not hand a connection to a stream that nobody will clean
up, and that a task that has dialled points at a stream that was made.
`StreamsMayChange` is the argument for every step of the streams (a connection is
shut, or stays with a stream still to be cleaned up), `TaskMoves` for every step of
a task; `AttachKeeps` is the one step where ownership changes hands. `StreamBook`
(`TableAssumption`: finitely many stream numbers, the two limits are numbers) needs
`BookInv`, which adds the types of the heap and that the sweep and the handlers are
at a stream number; it is proved together with `UpstreamInv`, which knows of the
streams made. `Covered` is the part every operation on the tombstones keeps: the heap
is popped only at entries whose time has come or that a later close has replaced.

Wrong cookies, for every number of keys and records, every window and threshold of at
least one (`CookieAssumption`; Note returns early for the others): `EmitsApart` reads
the history of packets and answers, a record only what it kept of it. `EndOf` says that
the times in a record are the last of those noted, `Remembers` that a record without an
answer time stands for a last answer at least a window ago; `CookieCleanupKeeps` is that
dropping a record keeps both, and `PruneKeeps` that what is left begins within the
window, for which the times must be in order.

`StreamTxProofs`, for every number of workers and chunks, every window and limit of
retries (`ChunksAssumption`: the bound on chunks is a number): the lemmas of
`MultiLevelQueueProofs` are instantiated for the queue of packets, so that every push,
pop and removal keeps the queue exact; `Single` says that of DATA and RESEND of a
chunk one waits at most, which is what PushTXPacket's two removals are for. `TxInv`
adds, for the reader, the timer, the NACK handler and each worker, what the packet in
its hands says about the chunk's record: a copy popped and not yet told to the ARQ is
why `FirstCopy` holds, and the dequeue that the timer waits for is why
`RetriesFollowDequeues` does. `EveryChunkRecoverable` is violated and has no theorem.

`ArqCloseProofs`, for any number of chunks each way and any faults (`LoadsAssumption`):
`CloseInv` has a part for each end and a part for what an end knows of its peer.
`Ended`: what is closed has nothing under way. `Marks` and `Tracks`: the terminal
packets sent, awaited, acknowledged and retransmitted fit together. `Data`: CLOSE_READ
was sent after the reader ended and its data was acknowledged, or the data does not
matter any more. `NetSound`, `KnowsOfPeer`: every message ever sent, data and
acknowledgements, is true of its sender, whenever it arrives. `DataArrives`: what the
sender does not keep any more the receiver has, which needs that a CLOSE_WRITE, on
which the sender drops its data, comes from an end whose writer is broken.
`EndsInAgreement` is the conclusion, from the decision to finalise on. The functions of
`arq.go` nest deeply, so each has one lemma saying that it keeps `Good` and only
closes (`Closing`, which is transitive); a handler is then one change of its own
followed by closing (`LocalThenClosing`), and `CrossKeeps` proves once what any such
step does to the peer. That an end and its peer are read together is why none of the
four properties is inductive by itself.

`DeferredProofs`, for any number of lanes, workers and tasks, any channel capacity and
cap (`PoolAssumption`: there is a worker, and the limits are numbers): `PoolInv` says that a task is in one place (`OnePlace`), that the counters
are those of the places (`CountsExact` and the cap), that a lane's tasks are where the
lane is bound unless it was removed meanwhile (`BoundTo`, `EarlierToo`), and what the
mark of a removed lane means to a task at each stage of its worker (`Stage`). The
marks are why RemoveLane may leave a task in a worker's hands; `RemovedNeverRuns`,
which claims more, is violated. Compaction keeps a subsequence, by induction on its
length as a minimal counterexample.

`ResolverProofs`, for any number of upstream servers, workers and names and any life,
size and timer (`UpstreamAssumption`, `TimesAssumption`): `UpInv` counts the servers
asked: until there is an outcome, each is waited for or has its result in the channel.
`DNSInv` has the types, `LifeInv` (no step of a worker lies in the future, a waiter
waits no longer than its timer, a record expires no later than what it holds) and
`FlightInv` (an entry has one leader, which is at work; while it is young it is the
current entry of its name).

The budgets (`FragmentAssumption`: the count can hold every total, a limit of entries is
not zero) rest on lemmas about sums, in the same module. The library states sums with an
operator as parameter, which the provers cannot instantiate, so `Total` is a recursive
function; `SumsExist` and `TotalIs` show that it is what its equation says, by the least
number at which it is not (`LeastExists`), and `TotalAppended`, `TotalWithout`,
`TotalChanged` and `TotalCut` what it becomes when a sequence grows, loses an element,
changes in one place or is cut. `CacheBytes` and `Bytes` inherit them. `GoodStore` is
what every helper of the fragment store keeps: limits, one entry for a key, the bytes
exact, and every entry `Sound`, that is, its bytes exact and, unless its count has
wrapped, no fewer fragments counted than have come. Without the last part the invariant
is not inductive, and the attempt to prove it is what found that the count can wrap.
`MakeRoomKeeps` follows the loop of evictions with the same least-number argument;
`FragInv` adds that every entry waits for something. For the cache the invariant is
`CacheBudget` itself, on the types of `DNSInv`.

`PanelProofs`, for any number of requests at a time, of instances, restarts,
faults and edits (`InstancesAssumption`: the limit is a number; `ThreadsAssumption`:
"nobody" is no thread; `EditsAssumption`: an edit of config.json is a finite set of
instances). `SupInv` is inductive and its parts answer one question each. `ConfigInv`:
every list a thread carries is one the server takes; `AcceptedIsSound` proves that
what the panel accepts is, because two accepted entries of one domain are siblings.
`Locked`: a method of the manager is under way exactly in the thread that holds
applyMu. `Relies`: what a method needs at each step; a server that was asked to
end stays ended until the method starts it. `Generations` and `LastPublished`: writes
after one that was seen or wanted have higher generations, also over a restart of the
panel, which is why equal bytes mean the same write (`AckAfterLoad`). `SomebodyTells`:
while the server is behind the file and has no signal to handle, the thread that wrote
the file has yet to signal or stop it; with no thread in a method, `InSync` follows.
One lemma per step of a method, of the process, and of the panel's restart.

Signing in, in the same module, for any number of handlers and any limits of the
limiter (`NobodyAssumption`: "nobody" is no handler): a handler is a list of steps
still to take and of deferred calls, so `AuthInv` first says where in the body of its
request every handler may be (`Placed`: a tail of the body, with the unlock owed
exactly from the step that locks). From that follow who holds authMu (`MuKept`), that
a login between verification and session has verified the present password
(`PasswordInv`: the read side of authMu keeps changes away), and that a record marked
in flight has a handler that will release it (`SlotsInv`, which is stronger than
`SlotsAccounted` in saying that it still owes the release).

Model-checked only: the temporal properties (liveness under fairness is beyond the
prover). Every invariant of a passing run is proved. The runs of the sessions,
the resolver and the panel state no type invariant of their own: the properties listed
are the ones worth a state space.

## 5. Not modelled, and the plan

Open, in order of what it protects:

1. A module for the locks of stream and ARQ, so that the inversion is a deadlock TLC
   finds and not an assumption.
2. The answering side of a session: the round robin over its streams, packed control
   blocks, and orphan resets.
3. The other direction of a closing stream: the handlers of the client are not in the
   repository, and its ARQ is taken for the server's.

Left out for good: byte formats and ciphers (`vpnproto`, `basecodec`,
`compression`, `security`, `dnsparser`), which are pure functions on data a
small instance cannot represent; parsing of settings, logging and version helpers;
sockets and process plumbing; the React client, installers and packaging. In the
modelled parts, control packets in the transmit queue, RTT estimates, NACK pacing,
payload contents, compression and TTLs are abstracted away; priorities are kept
where the queue orders by them.
