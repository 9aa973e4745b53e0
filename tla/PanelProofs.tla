----------------------------- MODULE PanelProofs ------------------------------
(***************************************************************************)
(* The panel, proved for any number of requests at a time, of instances,   *)
(* restarts, faults and edits, and any limits of the limiter: first what   *)
(* the panel and the server keep between them, then what signing in keeps. *)
(***************************************************************************)
EXTENDS Panel, FiniteSetTheorems, SequenceTheorems, TLAPS

------------------------------------------------------------------------------
(* The supervisor and the list of instances. *)

Names == Ids \union {in.id : in \in UNION Edits}
Spellings == Offered \union UNION Edits

(* What may be written in a list. *)
Instance == [id : Names, dom : {in.dom : in \in Spellings}, key : {in.key : in \in Spellings},
             plain : {TRUE} \union {in.plain : in \in Spellings},
             method : {in.method : in \in Spellings}]

(* A list that the panel carries: the server takes it. *)
Sound(list) == list \subseteq Instance /\ IsFiniteSet(list) /\ FromEntries(list)

(* The steps of a method of the manager, which holds applyMu. *)
Applying == {"write", "ensure", "look", "signal", "gone", "start", "stop", "kill", "wait", "stopped"}
Places == {"idle", "written", "read", "committed", "snapped"} \union Applying
Goals == {"none", "apply", "restart", "boot"}
ChildPlaces == {"none", "dead"} \union Alive

ConfigInv ==
  /\ file \subseteq Instance /\ IsFiniteSet(file)
  /\ Sound(live)
  /\ thread \in [Threads -> [at : Places, goal : Goals, list : SUBSET Instance]]
  /\ \A t \in Threads : Sound(thread[t].list)

SupTyped ==
  /\ written \in Seq([gen : Nat, list : SUBSET Instance])
  /\ keyring = Len(written)
  /\ marker \in 0 .. keyring
  /\ desired \in [write : 0 .. keyring, gen : Nat]
  /\ child \in [at : ChildPlaces, opened : 0 .. keyring, ring : 0 .. keyring, hup : BOOLEAN]
  /\ haveConfig \in BOOLEAN /\ up \in BOOLEAN /\ applyErr \in BOOLEAN
  /\ timers \in Nat

(* A method is under way in the thread that holds applyMu, and only there. *)
Locked ==
  /\ applyMu \in Threads \union {None}
  /\ \A t \in Threads : thread[t].at \in Applying <=> applyMu = t

(* Before there is a server_config.toml nothing has been served or wanted.  *)
Configured ==
  /\ haveConfig => keyring # 0
  /\ ~haveConfig => /\ marker = 0 /\ desired.write = 0 /\ timers = 0
                    /\ child.at = "none" /\ child.opened = 0

(* What a method relies on at each of its steps: there is a configuration   *)
(* to start the server with, and once it has stopped the server nobody      *)
(* starts it before the method does.                                        *)
Relies(t) ==
  /\ thread[t].at \in {"look", "start"} => haveConfig
  /\ thread[t].at = "look" => thread[t].goal # "restart"
  /\ thread[t].at = "ensure" => keyring # 0
  /\ thread[t].at = "kill" => ~up /\ Managed
  /\ thread[t].at = "wait" => ~up /\ child.at \in {"ending", "dead"}
  /\ \/ thread[t].at = "stopped"
     \/ thread[t].goal = "restart" /\ thread[t].at \in {"write", "ensure", "start"}
     => ~up /\ ~Managed

(* Later writes than one that was wanted or seen have higher generations.   *)
Generations ==
  \A w \in {marker, desired.write, child.opened} \ {0} : \A v \in w + 1 .. keyring :
    written[w].gen < written[v].gen

Publishing == \E t \in Threads : thread[t].at = "ensure"
LastPublished == haveConfig /\ ~Publishing => desired.gen = written[keyring].gen

(* The server has no signal to handle and will not serve what is in the file. *)
Behind ==
  ~child.hup /\ \/ child.at \in {"told", "up"} /\ child.ring # keyring
                \/ child.at = "reopened" /\ child.opened # keyring

(* A method that has written the file will still tell or stop the server.  *)
Tells(t) == thread[t].at \in {"ensure", "look", "signal", "stop", "kill"}
SomebodyTells == Behind => \E t \in Threads : Tells(t)

SupInv == /\ ConfigInv /\ SupTyped /\ KeyringLoadable /\ Locked /\ Configured
          /\ Generations /\ LastPublished /\ SomebodyTells
          /\ \A t \in Threads : Relies(t)

------------------------------------------------------------------------------
(* Lists. *)

LEMMA EmptyIsSound == Sound({})
<1>1. Cardinality({}) = 0 /\ IsFiniteSet({})
  BY FS_EmptySet
<1> QED
  BY <1>1, InstancesAssumption DEF Sound, FromEntries

LEMMA CanonicalList ==
  ASSUME NEW list, list \subseteq Instance, IsFiniteSet(list)
  PROVE  /\ Canonical(list) \subseteq Instance /\ IsFiniteSet(Canonical(list))
         /\ Cardinality(Canonical(list)) <= Cardinality(list)
         /\ Cardinality(Canonical(list)) \in Nat /\ Cardinality(list) \in Nat
<1> DEFINE f == [in \in list |-> canonicalDomain(in)]
<1>1. Canonical(list) \subseteq Instance
  BY DEF Canonical, canonicalDomain, Instance
<1>2. f \in Surjection(list, Canonical(list))
  BY DEF Canonical, Surjection
<1> HIDE DEF f
<1>3. IsFiniteSet(Canonical(list)) /\ Cardinality(Canonical(list)) <= Cardinality(list)
  BY <1>2, FS_Surjection
<1> QED
  BY <1>1, <1>3, FS_CardinalityType

(* What the panel accepts the server accepts: two entries of one domain in  *)
(* the canonical list are siblings, for their names differ.                 *)
LEMMA AcceptedIsSound ==
  ASSUME NEW list, list \subseteq Instance, IsFiniteSet(list),
         canonicalizeAndValidateInstances(list)
  PROVE  Sound(Canonical(list))
<1> DEFINE L == Canonical(list)
<1>1. /\ Cardinality(list) <= MaxInstances
      /\ \A a, b \in list : a.id = b.id => a = b
      /\ \A in \in L : validateInstance(L, in)
  BY DEF canonicalizeAndValidateInstances
<1>2. Cardinality(L) <= MaxInstances
  BY <1>1, CanonicalList, InstancesAssumption
<1>3. ASSUME NEW a \in L, NEW b \in L, a # b, a.dom = b.dom
      PROVE  a.key # b.key /\ isAEADMethod(a.method)
  <2>1. PICK x \in list, y \in list : a = canonicalDomain(x) /\ b = canonicalDomain(y)
    BY DEF Canonical
  <2>2. a.id = x.id /\ b.id = y.id /\ b.plain = TRUE
    BY <2>1 DEF canonicalDomain, Instance
  <2>3. a.id # b.id
    BY <1>1, <1>3, <2>1, <2>2
  <2>4. b \in Siblings(L, a)
    BY <1>3, <2>2, <2>3 DEF Siblings
  <2>5. validateInstance(L, a)
    BY <1>1
  <2> HIDE DEF L
  <2> QED
    BY <2>4, <2>5 DEF validateInstance
<1>4. \A e \in L : e.method \in 0 .. 5
  BY <1>1 DEF validateInstance
<1> QED
  BY <1>2, <1>3, <1>4, CanonicalList DEF Sound, FromEntries

LEMMA EditsAreInstances ==
  ASSUME NEW list \in Edits
  PROVE  list \subseteq Instance /\ IsFiniteSet(list)
<1> SUFFICES ASSUME NEW in \in list PROVE in \in Instance
  BY EditsAssumption
<1>1. in = WithId(in.id, in) /\ in \in UNION Edits
  BY EditsAssumption
<1>2. /\ in.id \in Names /\ in.dom \in {x.dom : x \in Spellings}
      /\ in.key \in {x.key : x \in Spellings} /\ in.plain \in {x.plain : x \in Spellings}
      /\ in.method \in {x.method : x \in Spellings}
  BY <1>1 DEF Names, Spellings
<1> QED
  BY <1>1, <1>2 DEF WithId, Instance

LEMMA OfferedIsInstance ==
  ASSUME NEW id \in Names, NEW in \in Offered
  PROVE  canonicalDomain(WithId(id, in)) \in Instance
<1>1. in \in Spellings
  BY DEF Spellings
<1> QED
  BY <1>1 DEF canonicalDomain, WithId, Instance

------------------------------------------------------------------------------
(* Threads. *)

LEMMA ThreadMoves ==
  ASSUME ConfigInv, NEW t \in Threads, NEW place \in Places, Goto(t, place)
  PROVE  /\ thread' \in [Threads -> [at : Places, goal : Goals, list : SUBSET Instance]]
         /\ \A u \in Threads : Sound(thread'[u].list)
         /\ thread'[t].at = place /\ thread'[t].goal = thread[t].goal
         /\ thread'[t].list = thread[t].list
         /\ \A u \in Threads \ {t} : thread'[u] = thread[u]
<1>1. thread[t] \in [at : Places, goal : Goals, list : SUBSET Instance]
  BY DEF ConfigInv
<1> QED
  BY <1>1 DEF ConfigInv, Goto

LEMMA ThreadEnds ==
  ASSUME ConfigInv, NEW t \in Threads, thread' = [thread EXCEPT ![t] = Idle]
  PROVE  /\ thread' \in [Threads -> [at : Places, goal : Goals, list : SUBSET Instance]]
         /\ \A u \in Threads : Sound(thread'[u].list)
         /\ thread'[t].at = "idle"
         /\ \A u \in Threads \ {t} : thread'[u] = thread[u]
<1>1. Idle \in [at : Places, goal : Goals, list : SUBSET Instance] /\ Idle.list = {} /\ Idle.at = "idle"
  BY DEF Idle, Places, Goals
<1> QED
  BY <1>1, EmptyIsSound DEF ConfigInv

------------------------------------------------------------------------------
(* Requests. *)

LEMMA ChangedRecord ==
  ASSUME NEW r \in [at : Places, goal : Goals, list : SUBSET Instance], NEW place, NEW list
  PROVE  [r EXCEPT !.at = place, !.list = list] = [at |-> place, goal |-> r.goal, list |-> list]
<1> DEFINE e == [r EXCEPT !.at = place, !.list = list]
           n == [at |-> place, goal |-> r.goal, list |-> list]
<1>1. DOMAIN e = {"at", "goal", "list"} /\ DOMAIN n = {"at", "goal", "list"}
  OBVIOUS
<1>2. e["at"] = n["at"] /\ e["goal"] = n["goal"] /\ e["list"] = n["list"]
  OBVIOUS
<1>3. e = [x \in DOMAIN e |-> e[x]] /\ n = [x \in DOMAIN n |-> n[x]]
  OBVIOUS
<1> QED
  BY <1>1, <1>2, <1>3

(* A thread takes over a list that is sound, outside the manager.           *)
LEMMA ThreadTakes ==
  ASSUME ConfigInv, NEW t \in Threads, NEW place \in Places, NEW goal \in Goals, NEW list,
         Sound(list),
         thread' = [thread EXCEPT ![t] = [at |-> place, goal |-> goal, list |-> list]]
  PROVE  /\ thread' \in [Threads -> [at : Places, goal : Goals, list : SUBSET Instance]]
         /\ \A u \in Threads : Sound(thread'[u].list)
         /\ thread'[t].at = place
         /\ \A u \in Threads \ {t} : thread'[u] = thread[u]
<1> DEFINE r == [at |-> place, goal |-> goal, list |-> list]
<1>1. r \in [at : Places, goal : Goals, list : SUBSET Instance] /\ r.list = list /\ r.at = place
  BY DEF Sound
<1>2. thread' = [thread EXCEPT ![t] = r]
  OBVIOUS
<1> HIDE DEF r
<1> QED
  BY <1>1, <1>2 DEF ConfigInv

Elsewhere(t) ==
  /\ thread[t].at \notin Applying /\ thread'[t].at \notin Applying
  /\ \A u \in Threads \ {t} : thread'[u] = thread[u]

LEMMA CommitKeeps ==
  ASSUME ConfigInv, NEW t \in Threads, NEW list, list \subseteq Instance, IsFiniteSet(list),
         NEW goal \in Goals, Ask(t), CommitWrite(t, list, goal)
  PROVE  ConfigInv' /\ Elsewhere(t)
<1>1. Sound(Canonical(list))
  BY AcceptedIsSound DEF CommitWrite
<1>2. "written" \in Places
  BY DEF Places
<1>3. /\ thread' = [thread EXCEPT ![t] = [at |-> "written", goal |-> goal, list |-> Canonical(list)]]
      /\ file' = Canonical(list) /\ live' = live /\ thread[t].at = "idle"
  BY DEF CommitWrite, Ask
<1>4. /\ thread' \in [Threads -> [at : Places, goal : Goals, list : SUBSET Instance]]
      /\ \A u \in Threads : Sound(thread'[u].list)
      /\ thread'[t].at = "written"
      /\ \A u \in Threads \ {t} : thread'[u] = thread[u]
  BY <1>1, <1>2, <1>3, ThreadTakes
<1>5. ConfigInv'
  BY <1>1, <1>3, <1>4 DEF ConfigInv, Sound, FromEntries
<1> QED
  BY <1>3, <1>4, <1>5 DEF Elsewhere, Applying

LEMMA RequestsKeep ==
  ASSUME ConfigInv, NEW t \in Threads,
         \/ handleInstancesCollection(t) \/ handleInstancePut(t)
         \/ handleInstanceDelete(t) \/ handleSettings(t)
  PROVE  ConfigInv' /\ Elsewhere(t)
<1>1. live \subseteq Instance /\ IsFiniteSet(live) /\ "apply" \in Goals /\ "none" \in Goals
  BY DEF ConfigInv, Sound, Goals
<1>2. CASE handleInstancesCollection(t)
  <2>1. PICK id \in Ids, in \in Offered :
          Ask(t) /\ CommitWrite(t, live \union {canonicalDomain(WithId(id, in))}, "apply")
    BY <1>2 DEF handleInstancesCollection
  <2> DEFINE new == canonicalDomain(WithId(id, in))
  <2>2. new \in Instance
    BY OfferedIsInstance DEF Names
  <2>3. CommitWrite(t, live \union {new}, "apply")
    BY <2>1
  <2> HIDE DEF new
  <2>4. IsFiniteSet(live \union {new})
    BY <1>1, FS_AddElement
  <2> QED
    BY <1>1, <2>1, <2>2, <2>3, <2>4, CommitKeeps
<1>3. CASE handleInstancePut(t)
  <2>1. PICK old \in live, in \in Offered :
          Ask(t) /\ CommitWrite(t, (live \ {old}) \union {canonicalDomain(WithId(old.id, in))}, "apply")
    BY <1>3 DEF handleInstancePut
  <2> DEFINE new == canonicalDomain(WithId(old.id, in))
  <2>2. old.id \in Names
    BY <1>1 DEF Instance
  <2>3. new \in Instance
    BY <2>2, OfferedIsInstance
  <2>4. CommitWrite(t, (live \ {old}) \union {new}, "apply")
    BY <2>1
  <2> HIDE DEF new
  <2>5. IsFiniteSet(live \ {old})
    BY <1>1, FS_RemoveElement
  <2>6. IsFiniteSet((live \ {old}) \union {new})
    BY <2>5, FS_AddElement
  <2> QED
    BY <1>1, <2>1, <2>3, <2>4, <2>6, CommitKeeps
<1>4. CASE handleInstanceDelete(t)
  <2>1. PICK old \in live : Ask(t) /\ CommitWrite(t, live \ {old}, "apply")
    BY <1>4 DEF handleInstanceDelete
  <2>2. IsFiniteSet(live \ {old})
    BY <1>1, FS_RemoveElement
  <2> QED
    BY <1>1, <2>1, <2>2, CommitKeeps
<1>5. CASE handleSettings(t)
  BY <1>1, <1>5, CommitKeeps DEF handleSettings
<1> QED
  BY <1>2, <1>3, <1>4, <1>5

LEMMA ConfigKeeps ==
  ASSUME ConfigInv, NEW t \in Threads, ConfigStep(t)
  PROVE  ConfigInv' /\ Elsewhere(t)
<1>t. thread[t] \in [at : Places, goal : Goals, list : SUBSET Instance]
  BY DEF ConfigInv
<1>r. \A place, list : [thread[t] EXCEPT !.at = place, !.list = list]
                         = [at |-> place, goal |-> thread[t].goal, list |-> list]
  BY <1>t, ChangedRecord
<1> USE DEF Places, Goals
<1>1. CASE \/ handleInstancesCollection(t) \/ handleInstancePut(t)
           \/ handleInstanceDelete(t) \/ handleSettings(t)
  BY <1>1, RequestsKeep
<1>2. CASE handleReload(t) \/ handleServerRestart(t)
  <2>1. PICK goal \in Goals :
          /\ thread' = [thread EXCEPT ![t] = [at |-> "committed", goal |-> goal, list |-> {}]]
          /\ UNCHANGED <<file, live>> /\ thread[t].at = "idle"
    BY <1>2 DEF handleReload, handleServerRestart, Request, Ask
  <2>2. /\ thread' \in [Threads -> [at : Places, goal : Goals, list : SUBSET Instance]]
        /\ \A u \in Threads : Sound(thread'[u].list)
        /\ thread'[t].at = "committed"
        /\ \A u \in Threads \ {t} : thread'[u] = thread[u]
    BY <2>1, EmptyIsSound, ThreadTakes
  <2> QED
    BY <2>1, <2>2 DEF ConfigInv, Elsewhere, Applying, Sound, FromEntries
<1>3. CASE t = Main /\ loadExistingConfig
  <2>1. Sound(Canonical(file))
    BY <1>3, AcceptedIsSound DEF loadExistingConfig, ConfigInv
  <2>2. /\ thread' = [thread EXCEPT ![t] = [at |-> "read", goal |-> "apply", list |-> Canonical(file)]]
        /\ UNCHANGED <<file, live>> /\ thread[t].at = "idle"
    BY <1>3 DEF loadExistingConfig, Ask
  <2>3. /\ thread' \in [Threads -> [at : Places, goal : Goals, list : SUBSET Instance]]
        /\ \A u \in Threads : Sound(thread'[u].list)
        /\ thread'[t].at = "read"
        /\ \A u \in Threads \ {t} : thread'[u] = thread[u]
    BY <2>1, <2>2, ThreadTakes
  <2> QED
    BY <2>2, <2>3 DEF ConfigInv, Elsewhere, Applying, Sound, FromEntries
<1>4. CASE t = Main /\ publishReload
  <2>1. /\ live' = thread[t].list /\ file' = file /\ thread[t].at = "read"
        /\ thread' = [thread EXCEPT ![t] =
             [at |-> "committed", goal |-> thread[t].goal, list |-> {}]]
    BY <1>4, <1>t, <1>r DEF publishReload
  <2>2. /\ thread' \in [Threads -> [at : Places, goal : Goals, list : SUBSET Instance]]
        /\ \A u \in Threads : Sound(thread'[u].list)
        /\ thread'[t].at = "committed"
        /\ \A u \in Threads \ {t} : thread'[u] = thread[u]
    BY <1>t, <2>1, EmptyIsSound, ThreadTakes
  <2> QED
    BY <2>1, <2>2 DEF ConfigInv, Elsewhere, Applying, Sound, FromEntries
<1>5. CASE CommitPublish(t)
  <2>1. /\ live' = thread[t].list /\ file' = file /\ thread[t].at = "written"
        /\ \/ thread' = [thread EXCEPT ![t] =
                 [at |-> "committed", goal |-> thread[t].goal, list |-> {}]]
           \/ thread' = [thread EXCEPT ![t] = Idle]
    BY <1>5, <1>t, <1>r DEF CommitPublish
  <2>2. /\ thread' \in [Threads -> [at : Places, goal : Goals, list : SUBSET Instance]]
        /\ \A u \in Threads : Sound(thread'[u].list)
        /\ thread'[t].at \in {"committed", "idle"}
        /\ \A u \in Threads \ {t} : thread'[u] = thread[u]
    BY <1>t, <2>1, EmptyIsSound, ThreadTakes, ThreadEnds
  <2> QED
    BY <2>1, <2>2 DEF ConfigInv, Elsewhere, Applying, Sound, FromEntries
<1>6. CASE snapshot(t)
  <2>1. /\ UNCHANGED <<file, live>> /\ thread[t].at = "committed"
        /\ thread' = [thread EXCEPT ![t] =
             [at |-> "snapped", goal |-> thread[t].goal, list |-> live]]
    BY <1>6, <1>t, <1>r DEF snapshot
  <2>2. /\ thread' \in [Threads -> [at : Places, goal : Goals, list : SUBSET Instance]]
        /\ \A u \in Threads : Sound(thread'[u].list)
        /\ thread'[t].at = "snapped"
        /\ \A u \in Threads \ {t} : thread'[u] = thread[u]
    BY <1>t, <2>1, ThreadTakes DEF ConfigInv
  <2> QED
    BY <2>1, <2>2 DEF ConfigInv, Elsewhere, Applying, Sound, FromEntries
<1> QED
  BY <1>1, <1>2, <1>3, <1>4, <1>5, <1>6 DEF ConfigStep

------------------------------------------------------------------------------
(* A step of a method: nobody else is in one, so that what its thread       *)
(* relies on and tells is all there is to show.                             *)
ThreadsTyped ==
  /\ thread \in [Threads -> [at : Places, goal : Goals, list : SUBSET Instance]]
  /\ \A t \in Threads : Sound(thread[t].list)

Alone(t) == \A u \in Threads \ {t} : thread[u].at \notin Applying

LEMMA OneMethod ==
  ASSUME SupInv, NEW t \in Threads, thread[t].at \in Applying \/ applyMu = None
  PROVE  /\ thread[t].at \in Applying => applyMu = t
         /\ Alone(t) /\ Relies(t)
         /\ haveConfig /\ thread[t].at # "ensure" => desired.gen = written[keyring].gen
         /\ Behind => Tells(t)
<1>1. (thread[t].at \in Applying => applyMu = t) /\ Alone(t) /\ Relies(t)
  BY ThreadsAssumption DEF SupInv, Locked, Alone
<1>2. \A u \in Threads \ {t} : thread[u].at # "ensure" /\ ~Tells(u)
  BY <1>1 DEF Alone, Applying, Tells
<1> QED
  BY <1>1, <1>2 DEF SupInv, LastPublished, Publishing, SomebodyTells

LEMMA MethodStep ==
  ASSUME SupInv, NEW t \in Threads, Alone(t),
         ThreadsTyped', UNCHANGED <<file, live>>,
         \A u \in Threads \ {t} : thread'[u] = thread[u],
         \/ thread'[t].at \in Applying /\ applyMu' = t
         \/ thread'[t].at = "idle" /\ applyMu' = None,
         SupTyped', KeyringLoadable', Configured', Generations', Relies(t)',
         haveConfig' /\ thread'[t].at # "ensure" => (desired.gen)' = (written[keyring].gen)',
         Behind' => Tells(t)'
  PROVE  SupInv'
<1>1. ConfigInv'
  BY DEF SupInv, ConfigInv, ThreadsTyped, Sound, FromEntries
<1>2. Locked'
  BY ThreadsAssumption DEF Locked, Alone, Applying
<1>3. \A u \in Threads : Relies(u)'
  BY DEF Relies, Alone, Applying
<1>4. LastPublished' /\ SomebodyTells'
  BY DEF LastPublished, Publishing, SomebodyTells
<1> QED
  BY <1>1, <1>2, <1>3, <1>4 DEF SupInv

LEMMA LockApplyKeeps ==
  ASSUME SupInv, NEW t \in Threads, LockApply(t)
  PROVE  SupInv'
<1>1. PICK place \in {"stop", "write"} : Goto(t, place)
  BY DEF LockApply
<1>2. /\ applyMu = None /\ applyMu' = t /\ thread[t].at = "snapped"
      /\ UNCHANGED <<file, live, disk, manager, child>>
  BY DEF LockApply
<1>3. /\ ThreadsTyped' /\ thread'[t].at = place
      /\ thread'[t].goal = thread[t].goal
      /\ place = "write" => thread[t].goal # "restart"
      /\ \A u \in Threads \ {t} : thread'[u] = thread[u]
  <2>1. place \in Places
    BY DEF Places, Applying
  <2>2. /\ ThreadsTyped' /\ thread'[t].at = place
        /\ thread'[t].goal = thread[t].goal
        /\ \A u \in Threads \ {t} : thread'[u] = thread[u]
    BY <1>1, <2>1, ThreadMoves DEF SupInv, ThreadsTyped
  <2>3. place = "write" => thread[t].goal # "restart"
    <3>1. Goto(t, IF thread[t].goal = "restart" THEN "stop" ELSE "write")
      BY DEF LockApply
    <3>2. thread'[t].at = IF thread[t].goal = "restart" THEN "stop" ELSE "write"
      BY <3>1 DEF Goto, SupInv, ConfigInv
    <3> QED
      BY <2>2, <3>2
  <2> QED
    BY <2>2, <2>3
<1>4. Alone(t) /\ (haveConfig => desired.gen = written[keyring].gen) /\ ~Behind
  BY <1>2, OneMethod DEF Tells
<1>5. SupTyped' /\ KeyringLoadable' /\ Configured' /\ Generations'
  BY <1>2 DEF SupInv, SupTyped, KeyringLoadable, Configured, Generations, disk, manager
<1>6. Relies(t)' /\ ~Behind'
  BY <1>1, <1>2, <1>3, <1>4 DEF Relies, Behind, disk, manager
<1>7. haveConfig' => (desired.gen)' = (written[keyring].gen)'
  BY <1>2, <1>4 DEF disk, manager
<1>8. thread'[t].at \in Applying
  BY <1>3 DEF Applying
<1> QED
  BY <1>2, <1>3, <1>4, <1>5, <1>6, <1>7, <1>8, MethodStep

(* A method that changes nothing but the child, "up" and applyErr.          *)
LEMMA QuietMethod ==
  ASSUME SupInv, NEW t \in Threads, thread[t].at \in Applying, thread[t].at # "ensure",
         UNCHANGED <<file, live, disk, desired, timers>>,
         applyErr' \in BOOLEAN, up' \in BOOLEAN,
         \/ \E place \in Applying \ {"ensure"} : Goto(t, place) /\ UNCHANGED applyMu
         \/ Finish(t),
         child' \in [at : ChildPlaces, opened : 0 .. keyring, ring : 0 .. keyring, hup : BOOLEAN],
         child'.opened \in {0, child.opened},
         haveConfig \/ UNCHANGED child,
         Relies(t)',
         Behind' => Tells(t)'
  PROVE  SupInv'
<1>1. applyMu = t /\ Alone(t)
      /\ (haveConfig /\ thread[t].at # "ensure" => desired.gen = written[keyring].gen)
  BY OneMethod
<1>2. /\ ThreadsTyped'
      /\ \A u \in Threads \ {t} : thread'[u] = thread[u]
      /\ \/ thread'[t].at \in Applying /\ applyMu' = t
         \/ thread'[t].at = "idle" /\ applyMu' = None
  <2>1. CASE \E place \in Applying \ {"ensure"} : Goto(t, place) /\ UNCHANGED applyMu
    <3>1. PICK place \in Applying : Goto(t, place) /\ UNCHANGED applyMu
      BY <2>1
    <3>2. place \in Places
      BY DEF Places
    <3> QED
      BY <1>1, <3>1, <3>2, ThreadMoves DEF SupInv, ThreadsTyped
  <2>2. CASE Finish(t)
    BY <2>2, ThreadEnds DEF SupInv, ThreadsTyped, Finish
  <2> QED
    BY <2>1, <2>2
<1>3. SupTyped' /\ KeyringLoadable'
  BY DEF SupInv, SupTyped, KeyringLoadable, disk
<1>4. Configured' /\ Generations'
  BY DEF SupInv, Configured, Generations, disk
<1>5. haveConfig' => (desired.gen)' = (written[keyring].gen)'
  BY <1>1 DEF disk
<1> QED
  BY <1>1, <1>2, <1>3, <1>4, <1>5, MethodStep

LEMMA WritesTyped ==
  ASSUME SupInv
  PROVE  keyring \in Nat /\ \A w \in 1 .. keyring : written[w].gen \in Nat
<1> DEFINE W == [gen : Nat, list : SUBSET Instance]
<1>1. written \in Seq(W) /\ keyring = Len(written)
  BY DEF SupInv, SupTyped
<1>2. \A r \in W : r.gen \in Nat
  OBVIOUS
<1> HIDE DEF W
<1>3. keyring \in Nat /\ \A w \in 1 .. keyring : written[w] \in W
  BY <1>1
<1> QED
  BY <1>2, <1>3

LEMMA AppendWrite ==
  ASSUME SupInv, NEW gen \in Nat, NEW list, Sound(list),
         written' = Append(written, [gen |-> gen, list |-> list])
  PROVE  /\ written' \in Seq([gen : Nat, list : SUBSET Instance])
         /\ Len(written') = keyring + 1 /\ keyring \in Nat
         /\ \A w \in 1 .. keyring : written'[w] = written[w]
         /\ written'[keyring + 1].gen = gen
         /\ KeyringLoadable'
<1> DEFINE W == [gen : Nat, list : SUBSET Instance]
           x == [gen |-> gen, list |-> list]
<1>1. written \in Seq(W) /\ keyring = Len(written) /\ keyring \in Nat
  BY DEF SupInv, SupTyped
<1>2. x \in W /\ x.gen = gen /\ x.list = list
  BY DEF Sound
<1>3. written' = Append(written, x)
  OBVIOUS
<1> HIDE DEF W, x
<1>4. /\ written' \in Seq(W) /\ Len(written') = keyring + 1
      /\ \A w \in 1 .. keyring : written'[w] = written[w]
      /\ written'[keyring + 1] = x
  BY <1>1, <1>2, <1>3, AppendProperties
<1>5. KeyringLoadable'
  <2>1. \A w \in 1 .. keyring : FromEntries(written[w].list)
    BY <1>1 DEF SupInv, KeyringLoadable
  <2>2. \A w \in 1 .. keyring + 1 : w \in 1 .. keyring \/ w = keyring + 1
    BY <1>1
  <2> QED
    BY <1>2, <1>4, <2>1, <2>2 DEF KeyringLoadable, FromEntries, Sound
<1> QED
  BY <1>1, <1>2, <1>4, <1>5 DEF W

LEMMA WriteKeyringFileKeeps ==
  ASSUME SupInv, NEW t \in Threads, WriteKeyringFile(t)
  PROVE  SupInv'
<1>1. thread[t].at = "write" /\ thread[t].at \in Applying
  BY DEF WriteKeyringFile, Applying
<1>2. /\ applyMu = t /\ Alone(t) /\ Relies(t) /\ ~Behind
      /\ haveConfig => desired.gen = written[keyring].gen
  BY <1>1, OneMethod DEF Tells
<1>3. UNCHANGED <<file, live, marker, haveConfig, desired, up, timers, child>>
  BY DEF WriteKeyringFile
<1>4. CASE /\ written' = Append(written, [gen |-> desired.gen + 1, list |-> thread[t].list])
           /\ keyring' = Len(written')
           /\ Goto(t, "ensure")
           /\ UNCHANGED <<applyMu, applyErr>>
  <2>1. desired.gen + 1 \in Nat /\ Sound(thread[t].list)
    BY DEF SupInv, SupTyped, ConfigInv
  <2>2. /\ written' \in Seq([gen : Nat, list : SUBSET Instance])
        /\ keyring' = keyring + 1 /\ keyring \in Nat /\ keyring' = Len(written')
        /\ \A w \in 1 .. keyring : written'[w] = written[w]
        /\ written'[keyring + 1].gen = desired.gen + 1
        /\ KeyringLoadable'
    BY <1>4, <2>1, AppendWrite
  <2>3. SupTyped'
    BY <1>3, <1>4, <2>2 DEF SupInv, SupTyped
  <2>4. /\ ThreadsTyped' /\ thread'[t].at = "ensure" /\ thread'[t].goal = thread[t].goal
        /\ \A u \in Threads \ {t} : thread'[u] = thread[u]
    <3>1. "ensure" \in Places
      BY DEF Places, Applying
    <3> QED
      BY <1>4, <3>1, ThreadMoves DEF SupInv, ThreadsTyped
  <2>5. Configured'
    BY <1>3, <2>2 DEF SupInv, Configured
  <2>6. Generations'
    <3> SUFFICES ASSUME NEW w \in {marker, desired.write, child.opened} \ {0},
                        NEW v \in w + 1 .. keyring + 1
                 PROVE  written'[w].gen < written'[v].gen
      BY <1>3, <2>2 DEF Generations
    <3>1. haveConfig /\ w \in 1 .. keyring
      BY DEF SupInv, SupTyped, Configured
    <3>2. desired.gen = written[keyring].gen /\ desired.gen \in Nat
      BY <1>2, <3>1 DEF SupInv, SupTyped
    <3>3. written'[w].gen = written[w].gen /\ written[w].gen \in Nat
      BY <2>2, <3>1, WritesTyped
    <3>4. CASE v = keyring + 1
      <4>1. written[w].gen <= desired.gen
        <5>1. CASE w = keyring
          BY <3>2, <3>3, <5>1
        <5>2. CASE w # keyring
          <6>1. keyring \in w + 1 .. keyring
            BY <2>2, <3>1, <5>2
          <6>2. written[w].gen < written[keyring].gen
            BY <6>1 DEF SupInv, Generations
          <6> QED
            BY <3>2, <3>3, <6>2
        <5> QED
          BY <5>1, <5>2
      <4> QED
        BY <2>2, <3>2, <3>3, <3>4, <4>1
    <3>5. CASE v \in w + 1 .. keyring
      <4>1. written[w].gen < written[v].gen
        BY <3>5 DEF SupInv, Generations
      <4>2. written'[v] = written[v]
        BY <2>2, <3>1, <3>5
      <4> QED
        BY <3>3, <4>1, <4>2
    <3> QED
      BY <2>2, <3>1, <3>4, <3>5
  <2>7. Relies(t)' /\ Tells(t)'
    BY <1>1, <1>2, <1>3, <2>2, <2>4 DEF Relies, Tells, Managed
  <2> QED
    BY <1>2, <1>3, <1>4, <2>2, <2>3, <2>4, <2>5, <2>6, <2>7, MethodStep DEF Applying
<1>5. CASE Fail(t) /\ UNCHANGED <<written, keyring>>
  <2>1. thread'[t].at = "idle"
    BY <1>5, ThreadEnds DEF SupInv, Fail, Finish
  <2>2. Relies(t)' /\ ~Behind'
    BY <1>2, <1>3, <1>5, <2>1 DEF Relies, Behind
  <2>3. UNCHANGED disk
    BY <1>3, <1>5 DEF disk
  <2>4. applyErr' \in BOOLEAN /\ up' \in BOOLEAN
    BY <1>3, <1>5 DEF Fail, SupInv, SupTyped
  <2>5. child' \in [at : ChildPlaces, opened : 0 .. keyring, ring : 0 .. keyring, hup : BOOLEAN]
    BY <1>3 DEF SupInv, SupTyped
  <2> QED
    BY <1>1, <1>3, <1>5, <2>2, <2>3, <2>4, <2>5, QuietMethod DEF Fail
<1> QED
  BY <1>4, <1>5 DEF WriteKeyringFile

LEMMA EnsureAndPublishKeeps ==
  ASSUME SupInv, NEW t \in Threads, EnsureAndPublish(t)
  PROVE  SupInv'
<1>1. thread[t].at = "ensure" /\ thread[t].at \in Applying
  BY DEF EnsureAndPublish, Applying
<1>2. applyMu = t /\ Alone(t) /\ Relies(t) /\ keyring # 0
  BY <1>1, OneMethod DEF Relies
<1>3. UNCHANGED <<file, live, written, keyring, marker, up, timers, child>>
  BY DEF EnsureAndPublish
<1>w. keyring \in Nat /\ written[keyring].gen \in Nat /\ KeyringLoadable'
  <2>1. KeyringLoadable'
    BY <1>3 DEF SupInv, KeyringLoadable
  <2> QED
    BY <1>2, <2>1, WritesTyped
<1>4. CASE /\ haveConfig' = TRUE
           /\ desired' = [write |-> keyring, gen |-> written[keyring].gen]
           /\ applyErr' = FALSE /\ UNCHANGED applyMu
           /\ Goto(t, IF thread[t].goal = "restart" THEN "start"
                      ELSE IF thread[t].list = {} THEN "stop" ELSE "look")
  <2>1. PICK place \in {"start", "stop", "look"} :
          /\ Goto(t, place)
          /\ place = "start" <=> thread[t].goal = "restart"
    BY <1>4
  <2>2. /\ ThreadsTyped' /\ thread'[t].at = place /\ thread'[t].goal = thread[t].goal
        /\ \A u \in Threads \ {t} : thread'[u] = thread[u]
    <3>1. place \in Places
      BY DEF Places, Applying
    <3> QED
      BY <2>1, <3>1, ThreadMoves DEF SupInv, ThreadsTyped
  <2>3. SupTyped'
    <3>1. desired' \in [write : 0 .. keyring', gen : Nat]
      BY <1>3, <1>4, <1>w
    <3>2. child' \in [at : ChildPlaces, opened : 0 .. keyring', ring : 0 .. keyring', hup : BOOLEAN]
      BY <1>3 DEF SupInv, SupTyped
    <3> QED
      BY <1>3, <1>4, <3>1, <3>2 DEF SupInv, SupTyped
  <2>4. Configured'
    BY <1>2, <1>3, <1>4 DEF Configured
  <2>5. Generations'
    <3>1. desired'.write = keyring /\ UNCHANGED <<marker, child, written, keyring>>
      BY <1>3, <1>4
    <3>2. \A w \in {marker, child.opened} \ {0} : \A v \in w + 1 .. keyring :
            written[w].gen < written[v].gen
      BY DEF SupInv, Generations
    <3>3. \A v \in keyring + 1 .. keyring : FALSE
      BY <1>w
    <3> QED
      BY <3>1, <3>2, <3>3 DEF Generations
  <2>6. (desired.gen)' = (written[keyring].gen)'
    BY <1>3, <1>4
  <2>7. Relies(t)'
    BY <1>1, <1>2, <1>3, <1>4, <2>1, <2>2 DEF Relies, Managed
  <2>8. Behind' => Tells(t)'
    <3>1. CASE place = "start"
      BY <1>1, <1>2, <1>3, <2>1, <3>1 DEF Behind, Relies, Managed
    <3>2. CASE place # "start"
      BY <2>2, <3>2 DEF Tells
    <3> QED
      BY <3>1, <3>2
  <2> QED
    BY <1>2, <1>3, <1>4, <1>w, <2>2, <2>3, <2>4, <2>5, <2>6, <2>7, <2>8, MethodStep DEF Applying
<1>5. CASE ~haveConfig /\ Fail(t) /\ UNCHANGED <<haveConfig, desired>>
  <2>1. /\ ThreadsTyped' /\ thread'[t].at = "idle" /\ applyMu' = None
        /\ \A u \in Threads \ {t} : thread'[u] = thread[u]
    BY <1>5, ThreadEnds DEF SupInv, ThreadsTyped, Fail, Finish
  <2>2. SupTyped' /\ Configured' /\ Generations'
    BY <1>3, <1>5 DEF SupInv, SupTyped, Configured, Generations, Fail
  <2>3. Relies(t)' /\ ~Behind' /\ ~haveConfig'
    BY <1>3, <1>5, <2>1 DEF Relies, Behind, SupInv, Configured
  <2> QED
    BY <1>2, <1>3, <1>w, <2>1, <2>2, <2>3, MethodStep
<1> QED
  BY <1>4, <1>5 DEF EnsureAndPublish

LEMMA LookForChildKeeps ==
  ASSUME SupInv, NEW t \in Threads, LookForChild(t)
  PROVE  SupInv'
<1>1. thread[t].at = "look" /\ thread[t].at \in Applying /\ thread[t].at # "ensure"
  BY DEF LookForChild, Applying
<1>2. applyMu = t /\ Relies(t) /\ haveConfig
  BY <1>1, OneMethod DEF Relies
<1>3. /\ up' = TRUE /\ Goto(t, IF Managed THEN "signal" ELSE "start")
      /\ UNCHANGED <<file, live, applyMu, disk, desired, timers, applyErr, child>>
  BY DEF LookForChild
<1>4. PICK place \in {"signal", "start"} : Goto(t, place) /\ (place = "signal" <=> Managed)
  BY <1>3
<1>5. thread'[t].at = place /\ thread'[t].goal = thread[t].goal
  BY <1>4, ThreadMoves DEF SupInv, Places, Applying
<1>6. Relies(t)'
  BY <1>1, <1>2, <1>3, <1>4, <1>5 DEF Relies, disk, Managed
<1>7. Behind' => Tells(t)'
  BY <1>3, <1>4, <1>5 DEF Behind, Tells, Managed, disk
<1>8. /\ applyErr' \in BOOLEAN /\ up' \in BOOLEAN
      /\ child' \in [at : ChildPlaces, opened : 0 .. keyring, ring : 0 .. keyring, hup : BOOLEAN]
  BY <1>3 DEF SupInv, SupTyped
<1>9. place \in Applying \ {"ensure"}
  BY DEF Applying
<1> QED
  BY <1>1, <1>2, <1>3, <1>4, <1>6, <1>7, <1>8, <1>9, QuietMethod

(* A record of the child after a change, and what is left of it.            *)
ChildRecord ==
  [at : ChildPlaces, opened : 0 .. keyring, ring : 0 .. keyring, hup : BOOLEAN]

LEMMA NoChildRecord ==
  ASSUME SupInv
  PROVE  /\ child \in ChildRecord /\ NoChild \in ChildRecord
         /\ [NoChild EXCEPT !.at = "boot"] \in ChildRecord
<1>1. child \in ChildRecord
  BY DEF SupInv, SupTyped, ChildRecord
<1>2. 0 \in 0 .. keyring
  BY WritesTyped
<1>3. "none" \in ChildPlaces /\ "boot" \in ChildPlaces
  BY DEF ChildPlaces, Alive, Booting
<1>4. NoChild \in ChildRecord
  BY <1>2, <1>3 DEF NoChild, ChildRecord
<1>5. [NoChild EXCEPT !.at = "boot"] \in ChildRecord
  BY <1>2, <1>3 DEF NoChild, ChildRecord
<1> QED
  BY <1>1, <1>4, <1>5

LEMMA SignalKeeps ==
  ASSUME SupInv, NEW t \in Threads, Signal(t)
  PROVE  SupInv'
<1>1. thread[t].at \in {"signal", "gone"} /\ thread[t].at \in Applying /\ thread[t].at # "ensure"
  BY DEF Signal, Applying
<1>2. applyMu = t /\ (Behind => Tells(t))
  BY <1>1, OneMethod
<1>3. UNCHANGED <<file, live, disk, desired, timers, up>> /\ Finish(t)
  BY DEF Signal, Fail
<1>4. child \in ChildRecord
  BY NoChildRecord
<1>5. /\ child' \in ChildRecord /\ child'.opened = child.opened
      /\ haveConfig \/ UNCHANGED child
  <2>1. child.at # "none" => haveConfig
    BY DEF SupInv, SupTyped, Configured
  <2>2. "dead" \in ChildPlaces
    BY DEF ChildPlaces
  <2> QED
    BY <1>4, <2>1, <2>2 DEF Signal, EarlyHup, ChildRecord, Booting
<1>6. ~Behind'
  BY <1>2, <1>3, <1>4 DEF Signal, EarlyHup, Behind, Tells, ChildRecord, ChildPlaces, Alive, Booting, disk
<1>7. thread'[t].at = "idle"
  BY <1>3, ThreadEnds DEF Finish, SupInv
<1>8. Relies(t)'
  BY <1>7 DEF Relies
<1>9. applyErr' \in BOOLEAN /\ up' \in BOOLEAN
  BY <1>3 DEF Signal, Fail, SupInv, SupTyped
<1> QED
  BY <1>1, <1>3, <1>5, <1>6, <1>8, <1>9, QuietMethod DEF ChildRecord

LEMMA StartKeeps ==
  ASSUME SupInv, NEW t \in Threads, Start(t)
  PROVE  SupInv'
<1>1. thread[t].at = "start" /\ thread[t].at \in Applying /\ thread[t].at # "ensure"
  BY DEF Start, Applying
<1>2. haveConfig /\ ~Behind
  BY <1>1, OneMethod DEF Tells, Relies
<1>3. UNCHANGED <<file, live, disk, desired, timers>> /\ Finish(t)
  BY DEF Start, Fail
<1>4. child' = child \/ child' = [NoChild EXCEPT !.at = "boot"]
  BY DEF Start, Launch
<1>5. child' \in ChildRecord /\ child'.opened \in {0, child.opened}
  BY <1>4, NoChildRecord DEF NoChild
<1>6. ~Behind'
  BY <1>2, <1>3, <1>4 DEF Behind, NoChild, disk
<1>7. thread'[t].at = "idle"
  BY <1>3, ThreadEnds DEF Finish, SupInv
<1>8. Relies(t)'
  BY <1>7 DEF Relies
<1>9. applyErr' \in BOOLEAN /\ up' \in BOOLEAN
  BY DEF Start, Fail, Launch, SupInv, SupTyped
<1> QED
  BY <1>1, <1>2, <1>3, <1>5, <1>6, <1>8, <1>9, QuietMethod DEF ChildRecord

LEMMA StopKeeps ==
  ASSUME SupInv, NEW t \in Threads, Stop(t) \/ AfterStop(t)
  PROVE  SupInv'
<1>1. thread[t].at \in {"stop", "stopped"} /\ thread[t].at \in Applying /\ thread[t].at # "ensure"
  BY DEF Stop, AfterStop, Applying
<1>2. applyMu = t /\ Relies(t) /\ (Behind => Tells(t))
  BY <1>1, OneMethod
<1>3. UNCHANGED <<file, live, disk, desired, timers, applyErr, child>> /\ up' \in BOOLEAN
  BY DEF Stop, AfterStop, manager, SupInv, SupTyped
<1>4. child' \in ChildRecord
  BY <1>3, NoChildRecord
<1>5. CASE Stop(t)
  <2>1. PICK place \in {"kill", "stopped"} : Goto(t, place) /\ (place = "kill" <=> Managed)
    BY <1>5 DEF Stop
  <2>2. thread'[t].at = place /\ thread'[t].goal = thread[t].goal
    BY <2>1, ThreadMoves DEF SupInv, Places, Applying
  <2>3. Relies(t)'
    BY <1>3, <1>5, <2>1, <2>2 DEF Stop, Relies, Managed
  <2>4. Behind' => Tells(t)'
    BY <1>3, <2>1, <2>2 DEF Behind, Tells, Managed, disk
  <2>5. place \in Applying \ {"ensure"} /\ UNCHANGED applyMu
    BY <1>5 DEF Applying, Stop
  <2> QED
    BY <1>1, <1>3, <1>4, <2>1, <2>3, <2>4, <2>5, QuietMethod, NoChildRecord DEF SupInv, SupTyped, ChildRecord
<1>6. CASE AfterStop(t)
  <2>1. thread[t].at = "stopped" /\ ~up /\ ~Managed /\ UNCHANGED up
    BY <1>2, <1>6 DEF AfterStop, Relies, manager
  <2>2. ~Behind'
    BY <1>3, <2>1 DEF Behind, Managed
  <2>3. Relies(t)'
    <3>1. CASE Goto(t, "write")
      <4>1. thread'[t].at = "write"
        BY <3>1, ThreadMoves DEF SupInv, Places, Applying
      <4> QED
        BY <1>3, <2>1, <4>1 DEF Relies, Managed
    <3>2. CASE Finish(t)
      <4>1. thread'[t].at = "idle"
        BY <3>2, ThreadEnds DEF SupInv, Finish
      <4> QED
        BY <4>1 DEF Relies
    <3> QED
      BY <1>6, <3>1, <3>2 DEF AfterStop
  <2>4. \/ \E place \in Applying \ {"ensure"} : Goto(t, place) /\ UNCHANGED applyMu
        \/ Finish(t)
    BY <1>6 DEF AfterStop, Applying
  <2> QED
    BY <1>1, <1>3, <1>4, <2>2, <2>3, <2>4, QuietMethod, NoChildRecord DEF SupInv, SupTyped, ChildRecord
<1> QED
  BY <1>5, <1>6

LEMMA TerminateKeeps ==
  ASSUME SupInv, NEW t \in Threads, Terminate(t) \/ KillTimeout(t)
  PROVE  SupInv'
<1>1. thread[t].at \in {"kill", "wait"} /\ thread[t].at \in Applying /\ thread[t].at # "ensure"
  BY DEF Terminate, KillTimeout, Applying
<1>2. applyMu = t /\ Relies(t)
  BY <1>1, OneMethod
<1>3. UNCHANGED <<file, live, disk, desired, timers, up>> /\ ~up
  BY <1>1, <1>2 DEF Terminate, KillTimeout, Relies
<1>4. child \in ChildRecord /\ child.at # "none"
  BY <1>1, <1>2, NoChildRecord DEF Relies, Managed
<1>5. haveConfig
  BY <1>4 DEF SupInv, SupTyped, Configured
<1>6. PICK place \in {"dead", "ending"} : child' = [child EXCEPT !.at = place] \/
                                           (child' = child /\ child.at = "dead")
  BY DEF Terminate, KillTimeout
<1>7. /\ child' \in ChildRecord /\ child'.opened = child.opened
      /\ child'.at \in {"dead", "ending"}
  BY <1>4, <1>6 DEF ChildRecord, ChildPlaces, Alive
<1>8. ~Behind'
  BY <1>7 DEF Behind
<1>9. /\ applyErr' \in BOOLEAN /\ up' \in BOOLEAN
      /\ \/ Goto(t, "wait") /\ UNCHANGED applyMu
         \/ Finish(t)
  BY <1>3 DEF Terminate, KillTimeout, Fail, SupInv, SupTyped
<1>10. Relies(t)'
  <2>1. CASE Goto(t, "wait")
    <3>1. thread'[t].at = "wait"
      BY <2>1, ThreadMoves DEF SupInv, Places, Applying
    <3> QED
      BY <1>3, <1>7, <3>1 DEF Relies
  <2>2. CASE Finish(t)
    <3>1. thread'[t].at = "idle"
      BY <2>2, ThreadEnds DEF SupInv, Finish
    <3> QED
      BY <3>1 DEF Relies
  <2> QED
    BY <1>9, <2>1, <2>2
<1>11. "wait" \in Applying \ {"ensure"}
  BY DEF Applying
<1> QED
  BY <1>1, <1>3, <1>5, <1>7, <1>8, <1>9, <1>10, <1>11, QuietMethod DEF ChildRecord

LEMMA ThreadKeeps ==
  ASSUME SupInv, NEW t \in Threads, ThreadStep(t)
  PROVE  SupInv'
<1>1. CASE ConfigStep(t) /\ UNCHANGED <<applyMu, disk, manager, child, faults>>
  <2>1. ConfigInv' /\ Elsewhere(t)
    BY <1>1, ConfigKeeps DEF SupInv
  <2>2. SupTyped' /\ KeyringLoadable' /\ Configured' /\ Generations'
    BY <1>1 DEF SupInv, SupTyped, KeyringLoadable, Configured, Generations, disk, manager
  <2>3. Locked'
    BY <1>1, <2>1 DEF SupInv, Locked, Elsewhere
  <2>4. \A u \in Threads : Relies(u)'
    <3> TAKE u \in Threads
    <3>1. CASE u = t
      BY <2>1, <3>1 DEF Relies, Elsewhere, Applying
    <3>2. CASE u # t
      BY <1>1, <2>1, <3>2 DEF SupInv, Relies, Elsewhere, Managed, disk, manager
    <3> QED
      BY <3>1, <3>2
  <2>5. /\ Behind' = Behind /\ Publishing' = Publishing
        /\ \A u \in Threads : Tells(u)' = Tells(u)
    BY <1>1, <2>1 DEF Behind, Publishing, Tells, Elsewhere, Applying, disk
  <2>6. LastPublished' /\ SomebodyTells'
    BY <1>1, <2>5 DEF SupInv, LastPublished, SomebodyTells, disk, manager
  <2> QED
    BY <2>1, <2>2, <2>3, <2>4, <2>6 DEF SupInv
<1> QED
  BY <1>1, LockApplyKeeps, WriteKeyringFileKeeps, EnsureAndPublishKeeps, LookForChildKeeps,
     SignalKeeps, StartKeeps, StopKeeps, TerminateKeeps DEF ThreadStep

------------------------------------------------------------------------------
(* The server process and the panel's goroutines for it. *)

(* The child changes, and no thread of the panel moves.                     *)
LEMMA ChildMoves ==
  ASSUME SupInv, UNCHANGED <<configVars, applyMu, written, keyring, haveConfig, desired>>,
         haveConfig, child' \in ChildRecord, marker' \in 0 .. keyring,
         marker' \in {marker, child.opened}, child'.opened \in {0, child.opened, keyring},
         up' \in BOOLEAN, timers' \in Nat, applyErr' \in BOOLEAN,
         \/ up' = FALSE
         \/ UNCHANGED up,
         \/ up
         \/ (child.at = "none" <=> child'.at = "none"),
         child.at \in {"ending", "dead"} => child'.at \in {"ending", "dead"} \/ up,
         Behind' => Behind
  PROVE  SupInv'
<1>1. ConfigInv' /\ Locked' /\ KeyringLoadable' /\ Configured'
  BY DEF SupInv, ConfigInv, Sound, FromEntries, Locked, KeyringLoadable, Configured, configVars
<1>2. SupTyped'
  BY DEF SupInv, SupTyped, ChildRecord
<1>3. Generations'
  <2>1. \A v \in keyring + 1 .. keyring : FALSE
    BY WritesTyped
  <2>2. UNCHANGED <<written, keyring, desired>>
    OBVIOUS
  <2> QED
    BY <2>1, <2>2 DEF SupInv, Generations
<1>4. \A t \in Threads : Relies(t)'
  BY DEF SupInv, Relies, Managed, configVars
<1>5. LastPublished' /\ SomebodyTells'
  BY DEF SupInv, LastPublished, Publishing, SomebodyTells, Tells, configVars
<1> QED
  BY <1>1, <1>2, <1>3, <1>4, <1>5 DEF SupInv

LEMMA ChildKeeps ==
  ASSUME SupInv, ChildStep
  PROVE  SupInv'
<1>1. child \in ChildRecord /\ keyring \in Nat
  BY NoChildRecord, WritesTyped
<1>2. child.at # "none"
  BY DEF ChildStep, OpenKeyring, FirstLoad, InstallHandler, ReloadKeyring, Exit, Alive, Booting
<1>3. haveConfig /\ keyring # 0
  BY <1>2 DEF SupInv, Configured
<1>4. /\ UNCHANGED <<configVars, applyMu, written, keyring, haveConfig, manager>>
  BY DEF ChildStep, OpenKeyring, FirstLoad, InstallHandler, ReloadKeyring, Exit, disk
<1>5. /\ marker \in 0 .. keyring /\ up \in BOOLEAN /\ timers \in Nat /\ applyErr \in BOOLEAN
  BY DEF SupInv, SupTyped
<1>6. marker' \in {marker, child.opened}
  BY DEF ChildStep, OpenKeyring, FirstLoad, InstallHandler, ReloadKeyring, Exit, disk, WriteApplied
<1>7. marker' \in 0 .. keyring
  BY <1>1, <1>5, <1>6 DEF ChildRecord
<1>8. /\ child' \in ChildRecord /\ child'.opened \in {child.opened, keyring}
      /\ child'.at # "none"
      /\ child.at \in {"ending", "dead"} => child'.at \in {"ending", "dead"}
      /\ Behind' => Behind
  <2>1. CASE OpenKeyring
    <3>1. child.at \in {"boot", "up"}
          /\ child' = [child EXCEPT !.at = IF @ = "boot" THEN "opened" ELSE "reopened",
                                    !.opened = keyring, !.hup = FALSE]
      BY <2>1 DEF OpenKeyring
    <3>2. keyring \in 0 .. keyring /\ {"opened", "reopened"} \subseteq ChildPlaces
      BY <1>1 DEF ChildPlaces, Alive, Booting
    <3>3. child' \in ChildRecord /\ child'.opened = keyring /\ child'.at \in {"opened", "reopened"}
      BY <1>1, <3>1, <3>2 DEF ChildRecord
    <3> QED
      BY <1>4, <3>1, <3>3 DEF Behind
  <2>2. CASE FirstLoad
    <3>1. child.at = "opened"
          /\ \/ /\ Loads
                /\ child' = [child EXCEPT !.at = IF written[keyring].list = {} THEN "dead" ELSE "told",
                                          !.ring = child.opened]
             \/ child' = [child EXCEPT !.at = "dead"]
      BY <2>2 DEF FirstLoad
    <3>2. {"dead", "told"} \subseteq ChildPlaces
      BY DEF ChildPlaces, Alive, Booting
    <3>3. /\ child' \in ChildRecord /\ child'.opened = child.opened
          /\ child'.at \in {"dead", "told"}
          /\ child'.at = "told" => child'.ring = keyring
      BY <1>1, <3>1, <3>2 DEF ChildRecord, Loads
    <3> QED
      BY <1>4, <3>1, <3>3 DEF Behind
  <2>3. CASE InstallHandler
    <3>1. child.at = "told" /\ child' = [child EXCEPT !.at = "up"]
      BY <2>3 DEF InstallHandler
    <3>2. "up" \in ChildPlaces
      BY DEF ChildPlaces, Alive
    <3>3. /\ child' \in ChildRecord /\ child'.opened = child.opened /\ child'.ring = child.ring
          /\ child'.at = "up" /\ child'.hup = child.hup
      BY <1>1, <3>1, <3>2 DEF ChildRecord
    <3> QED
      BY <1>4, <3>1, <3>3 DEF Behind
  <2>4. CASE ReloadKeyring
    <3>1. child.at = "reopened"
          /\ \/ Loads /\ child' = [child EXCEPT !.at = "up", !.ring = child.opened]
             \/ ~Loads /\ child' = [child EXCEPT !.at = "up"]
      BY <2>4 DEF ReloadKeyring
    <3>2. "up" \in ChildPlaces
      BY DEF ChildPlaces, Alive
    <3>3. /\ child' \in ChildRecord /\ child'.opened = child.opened
          /\ child'.at = "up" /\ child'.hup = child.hup
          /\ Loads => child'.ring = keyring
      BY <1>1, <3>1, <3>2 DEF ChildRecord, Loads
    <3>4. ~Loads => child.opened # keyring
      BY <1>1, <1>3 DEF Loads, SupInv, SupTyped, KeyringLoadable
    <3> QED
      BY <1>4, <3>1, <3>3, <3>4 DEF Behind
  <2>5. CASE Exit
    <3>1. child' = [child EXCEPT !.at = "dead"]
      BY <2>5 DEF Exit
    <3>2. "dead" \in ChildPlaces
      BY DEF ChildPlaces
    <3>3. child' \in ChildRecord /\ child'.opened = child.opened /\ child'.at = "dead"
      BY <1>1, <3>1, <3>2 DEF ChildRecord
    <3> QED
      BY <3>3 DEF Behind
  <2> QED
    BY <2>1, <2>2, <2>3, <2>4, <2>5 DEF ChildStep
<1> QED
  BY <1>2, <1>3, <1>4, <1>5, <1>6, <1>7, <1>8, ChildMoves DEF manager

LEMMA AutoRestartKeeps ==
  ASSUME SupInv, AutoRestart
  PROVE  SupInv'
<1>1. timers > 0 /\ timers \in Nat /\ up \in BOOLEAN /\ applyErr \in BOOLEAN
      /\ marker \in 0 .. keyring
  BY DEF AutoRestart, SupInv, SupTyped
<1>2. haveConfig
  BY <1>1 DEF SupInv, Configured
<1>3. UNCHANGED <<configVars, applyMu, disk, desired>>
  BY DEF AutoRestart
<1>4. \/ UNCHANGED child
      \/ up /\ child' = [NoChild EXCEPT !.at = "boot"]
  BY DEF AutoRestart, Launch
<1>5. child' \in ChildRecord /\ child'.opened \in {0, child.opened} /\ (Behind' => Behind)
  BY <1>3, <1>4, NoChildRecord DEF NoChild, Behind, disk
<1>6. /\ timers' \in Nat /\ up' \in BOOLEAN /\ applyErr' \in BOOLEAN
      /\ up' = FALSE \/ UNCHANGED up
  <2>1. timers' \in {timers, timers - 1}
    BY DEF AutoRestart, CountRestart
  <2>2. /\ up' = FALSE \/ UNCHANGED up \/ (up /\ up' = TRUE)
        /\ applyErr' = TRUE \/ applyErr' = FALSE \/ UNCHANGED applyErr
    <3>1. CASE ~up \/ Managed
      BY <1>1, <3>1 DEF AutoRestart
    <3>2. CASE up /\ Launch
      BY <3>2 DEF Launch
    <3>3. CASE CountRestart(timers' = timers - 1, UNCHANGED timers)
      BY <3>3 DEF CountRestart
    <3> QED
      BY <3>1, <3>2, <3>3 DEF AutoRestart
  <2>3. up' = FALSE \/ UNCHANGED up
    <3>1. up /\ up' = TRUE => up' = up
      BY <1>1, Zenon
    <3> QED
      BY <2>2, <3>1, Zenon
  <2>4. up' \in BOOLEAN
    BY <1>1, <2>3, Zenon
  <2>5. applyErr' \in BOOLEAN
    BY <1>1, <2>2, Zenon
  <2>6. timers' \in Nat
    BY <1>1, <2>1
  <2> QED
    BY <2>3, <2>4, <2>5, <2>6
<1>7. \/ up
      \/ UNCHANGED child
  BY <1>4
<1> QED
  BY <1>1, <1>2, <1>3, <1>5, <1>6, <1>7, ChildMoves DEF disk

LEMMA ReapKeeps ==
  ASSUME SupInv, reap
  PROVE  SupInv'
<1>1. child.at = "dead" /\ child' = NoChild /\ Notify
      /\ UNCHANGED <<file, live, applyMu, disk, desired>>
  BY DEF reap
<1>2. haveConfig
  BY <1>1 DEF SupInv, Configured
<1>3. ASSUME NEW t \in Threads
      PROVE  /\ thread'[t] \in [at : Places, goal : Goals, list : SUBSET Instance]
             /\ thread'[t].list = thread[t].list /\ thread'[t].goal = thread[t].goal
             /\ \/ thread'[t].at = thread[t].at /\ thread[t].at \notin {"kill", "wait", "signal"}
                \/ thread'[t].at = "stopped" /\ thread[t].at \in {"kill", "wait"}
                \/ thread'[t].at = "gone" /\ thread[t].at = "signal"
  <2>1. thread[t] \in [at : Places, goal : Goals, list : SUBSET Instance]
    BY DEF SupInv, ConfigInv
  <2>2. "stopped" \in Places /\ "gone" \in Places
    BY DEF Places, Applying
  <2>3. \/ thread'[t] = [thread[t] EXCEPT !.at = "stopped"] /\ thread[t].at \in {"kill", "wait"}
        \/ thread'[t] = [thread[t] EXCEPT !.at = "gone"] /\ thread[t].at = "signal"
        \/ thread'[t] = thread[t] /\ thread[t].at \notin {"kill", "wait", "signal"}
    BY <1>1 DEF Notify
  <2> QED
    BY <2>1, <2>2, <2>3
<1>4. ConfigInv'
  <2>1. thread' \in [Threads -> [at : Places, goal : Goals, list : SUBSET Instance]]
    BY <1>1, <1>3 DEF Notify
  <2> QED
    BY <1>1, <1>3, <2>1 DEF SupInv, ConfigInv, Sound, FromEntries
<1>5. Locked'
  BY <1>1, <1>3 DEF SupInv, Locked, Applying
<1>6. /\ up' \in BOOLEAN /\ (up' => up) /\ timers' \in Nat /\ applyErr' \in BOOLEAN
  <2>1. up \in BOOLEAN /\ timers \in Nat /\ applyErr \in BOOLEAN
    BY DEF SupInv, SupTyped
  <2>2. CASE up /\ CountRestart(UNCHANGED timers, timers' = timers + 1)
    <3>1. timers' \in {timers, timers + 1}
      BY <2>2 DEF CountRestart
    <3>2. (up' = FALSE /\ applyErr' = TRUE) \/ UNCHANGED <<up, applyErr>>
      BY <2>2 DEF CountRestart
    <3>3. timers' \in Nat
      BY <2>1, <3>1
    <3>4. up' \in BOOLEAN /\ applyErr' \in BOOLEAN
      BY <2>1, <3>2, Zenon
    <3>5. up' => up
      BY <2>2, Zenon
    <3> QED
      BY <3>3, <3>4, <3>5, Zenon
  <2>3. CASE UNCHANGED <<up, restarts, timers, applyErr>>
    BY <2>1, <2>3
  <2> QED
    BY <2>2, <2>3 DEF reap
<1>7. SupTyped' /\ KeyringLoadable'
  BY <1>1, <1>6, NoChildRecord DEF SupInv, SupTyped, KeyringLoadable, ChildRecord, disk
<1>8. Configured'
  BY <1>1, <1>2 DEF SupInv, Configured, disk
<1>9. Generations'
  BY <1>1 DEF SupInv, Generations, NoChild, disk
<1>10. LastPublished' /\ SomebodyTells'
  BY <1>1, <1>3 DEF SupInv, LastPublished, Publishing, SomebodyTells, Behind, NoChild, disk
<1>11. \A t \in Threads : Relies(t)'
  <2> TAKE t \in Threads
  <2>1. Relies(t)
    BY DEF SupInv
  <2>2. ~Managed' /\ haveConfig' = haveConfig /\ keyring' = keyring
    BY <1>1 DEF Managed, NoChild, disk
  <2> QED
    BY <1>2, <1>3, <1>6, <2>1, <2>2 DEF Relies
<1> QED
  BY <1>4, <1>5, <1>7, <1>8, <1>9, <1>10, <1>11 DEF SupInv

LEMMA PanelRestartKeeps ==
  ASSUME SupInv, PanelRestart
  PROVE  SupInv'
<1>1. /\ live' = Canonical(file) /\ file' = file /\ applyMu' = None
      /\ thread' = [t \in Threads |-> IF t = Main /\ live' # {}
                                  THEN [at |-> "committed", goal |-> "boot", list |-> {}]
                                  ELSE Idle]
      /\ desired' = [write |-> 0, gen |-> readGenerationWatermark]
      /\ up' = FALSE /\ timers' = 0 /\ applyErr' = FALSE /\ child' = NoChild
      /\ UNCHANGED disk
  BY DEF PanelRestart
<1>2. Sound(live')
  BY <1>1, AcceptedIsSound DEF PanelRestart, SupInv, ConfigInv
<1>3. ASSUME NEW t \in Threads
      PROVE  /\ thread'[t] \in [at : Places, goal : Goals, list : SUBSET Instance]
             /\ thread'[t].list = {} /\ thread'[t].at \in {"committed", "idle"}
  <2>1. Idle \in [at : Places, goal : Goals, list : SUBSET Instance]
    BY DEF Idle, Places, Goals
  <2>2. [at |-> "committed", goal |-> "boot", list |-> {}]
          \in [at : Places, goal : Goals, list : SUBSET Instance]
    BY DEF Places, Goals
  <2> QED
    BY <1>1, <2>1, <2>2 DEF Idle
<1>4. ConfigInv'
  <2>1. thread' \in [Threads -> [at : Places, goal : Goals, list : SUBSET Instance]]
    BY <1>1, <1>3
  <2>2. \A t \in Threads : Sound(thread'[t].list)
    BY <1>3, EmptyIsSound
  <2> QED
    BY <1>1, <1>2, <2>1, <2>2 DEF SupInv, ConfigInv, Sound, FromEntries
<1>5. Locked' /\ \A t \in Threads : Relies(t)'
  BY <1>1, <1>3, ThreadsAssumption DEF Locked, Relies, Applying
<1>6. readGenerationWatermark \in Nat
      /\ (haveConfig => readGenerationWatermark = written[keyring].gen)
  BY WritesTyped DEF readGenerationWatermark, SupInv, Configured
<1>7. SupTyped' /\ KeyringLoadable'
  <2>1. desired' \in [write : 0 .. keyring, gen : Nat]
    BY <1>1, <1>6, WritesTyped
  <2> QED
    BY <1>1, <2>1, NoChildRecord DEF SupInv, SupTyped, KeyringLoadable, ChildRecord, disk
<1>8. Configured' /\ Generations' /\ LastPublished' /\ SomebodyTells'
  BY <1>1, <1>6
     DEF SupInv, Configured, Generations, LastPublished, SomebodyTells, Behind, NoChild, disk
<1> QED
  BY <1>4, <1>5, <1>7, <1>8 DEF SupInv

LEMMA EditKeeps ==
  ASSUME SupInv, EditFile, UNCHANGED <<applyMu, disk, manager, child, faults>>
  PROVE  SupInv'
<1>1. ConfigInv'
  BY EditsAreInstances DEF SupInv, ConfigInv, EditFile, Sound, FromEntries
<1>2. UNCHANGED <<thread, applyMu, disk, manager, child>>
  BY DEF EditFile
<1>3. SupTyped' /\ KeyringLoadable' /\ Configured'
  BY <1>2 DEF SupInv, SupTyped, KeyringLoadable, Configured, disk, manager
<1>4. Locked' /\ LastPublished' /\ SomebodyTells'
  BY <1>2 DEF SupInv, Locked, LastPublished, Publishing, SomebodyTells, Behind, Tells, disk, manager
<1>5. Generations'
  BY <1>2 DEF SupInv, Generations, disk, manager
<1>6. \A t \in Threads : Relies(t)'
  BY <1>2 DEF SupInv, Relies, Managed, disk, manager
<1> QED
  BY <1>1, <1>3, <1>4, <1>5, <1>6 DEF SupInv

LEMMA SupInitInv ==
  ASSUME SupInit
  PROVE  SupInv
<1> USE DEF SupInit, ConfigInit
<1>1. Idle \in [at : Places, goal : Goals, list : SUBSET Instance] /\ Idle.list = {} /\ Idle.at = "idle"
  BY DEF Idle, Places, Goals
<1>2. ConfigInv
  BY <1>1, EmptyIsSound, FS_EmptySet DEF ConfigInv
<1>3. SupTyped /\ KeyringLoadable
  <2> DEFINE W == [gen : Nat, list : SUBSET Instance]
  <2> HIDE DEF W
  <2>1. written \in Seq(W) /\ keyring = Len(written) /\ Len(written) = 0
    OBVIOUS
  <2> USE DEF W
  <2>2. 0 \in 0 .. keyring /\ "none" \in ChildPlaces
    BY DEF ChildPlaces
  <2>3. child \in [at : ChildPlaces, opened : 0 .. keyring, ring : 0 .. keyring, hup : BOOLEAN]
    BY <2>2 DEF NoChild
  <2>4. desired \in [write : 0 .. keyring, gen : Nat]
    BY <2>2
  <2>5. SupTyped
    BY <2>1, <2>2, <2>3, <2>4 DEF SupTyped
  <2>6. 1 .. Len(written) = {}
    BY <2>1
  <2> QED
    BY <2>5, <2>6 DEF KeyringLoadable
<1>4. Locked /\ \A t \in Threads : Relies(t)
  BY <1>1, ThreadsAssumption DEF Locked, Relies, Applying
<1>5. Configured /\ Generations /\ LastPublished /\ SomebodyTells
  BY DEF Configured, Generations, LastPublished, SomebodyTells, Behind, NoChild
<1> QED
  BY <1>2, <1>3, <1>4, <1>5 DEF SupInv

------------------------------------------------------------------------------
(* All the steps. *)

LEMMA SupStutters ==
  ASSUME SupInv, UNCHANGED supVars
  PROVE  SupInv'
<1>1. UNCHANGED <<file, live, thread, applyMu, written, keyring, marker, haveConfig,
                  desired, up, timers, applyErr, child>>
  BY DEF supVars, configVars, disk, manager
<1>2. ConfigInv' /\ SupTyped' /\ KeyringLoadable' /\ Configured'
  BY <1>1 DEF SupInv, ConfigInv, Sound, FromEntries, SupTyped, KeyringLoadable, Configured
<1>3. Locked' /\ LastPublished' /\ SomebodyTells'
  BY <1>1 DEF SupInv, Locked, LastPublished, Publishing, SomebodyTells, Behind, Tells
<1>4. Generations'
  BY <1>1 DEF SupInv, Generations
<1>5. \A t \in Threads : Relies(t)'
  BY <1>1 DEF SupInv, Relies, Managed
<1> QED
  BY <1>2, <1>3, <1>4, <1>5 DEF SupInv

LEMMA SupStep ==
  ASSUME SupInv, [Next]_vars
  PROVE  SupInv'
<1>1. CASE SupNext
  <2>1. ASSUME NEW t \in Threads, ThreadStep(t) PROVE SupInv'
    BY <2>1, ThreadKeeps
  <2> QED
    BY <1>1, <2>1, EditKeeps, ReapKeeps, AutoRestartKeeps, ChildKeeps, PanelRestartKeeps
       DEF SupNext
<1>2. CASE UNCHANGED supVars
  BY <1>2, SupStutters
<1> QED
  BY <1>1, <1>2 DEF Next, vars

LEMMA SupInvAlways == Spec => []SupInv
<1>1. Init => SupInv
  BY SupInitInv DEF Init
<1>2. SupInv /\ [Next]_vars => SupInv'
  BY SupStep
<1> QED
  BY <1>1, <1>2, PTL DEF Spec

------------------------------------------------------------------------------
(* What follows. *)

(* No keyring is ever written that the server refuses to load: what          *)
(* validateInstance accepts, FromEntries accepts (KeyringLoadable).         *)
THEOREM KeyringsLoad == Spec => []KeyringLoadable
<1>1. SupInv => KeyringLoadable
  BY DEF SupInv
<1> QED
  BY <1>1, SupInvAlways, PTL

(* No update is lost: while no method of the manager is under way nobody is *)
(* left to tell the server, so that it cannot be behind the file (InSync).  *)
THEOREM ServerInSync == Spec => []InSync
<1>1. ASSUME SupInv PROVE InSync
  <2> SUFFICES ASSUME applyMu = None, child.at = "up", ~child.hup PROVE child.ring = keyring
    BY DEF InSync
  <2>1. \A t \in Threads : thread[t].at \notin Applying
    BY <1>1, ThreadsAssumption DEF SupInv, Locked
  <2>2. \A t \in Threads : ~Tells(t)
    BY <2>1 DEF Tells, Applying
  <2>3. ~Behind
    BY <1>1, <2>2 DEF SupInv, SomebodyTells
  <2> QED
    BY <2>3 DEF Behind
<1> QED
  BY <1>1, SupInvAlways, PTL

(* "Acknowledged" is never said of an older write: later writes than the    *)
(* one that was seen have higher generations (AckAfterLoad).                *)
THEOREM AckIsTrue == Spec => []AckAfterLoad
<1>1. ASSUME SupInv PROVE AckAfterLoad
  <2> SUFFICES ASSUME Acknowledged PROVE marker = desired.write
    BY DEF AckAfterLoad
  <2>1. /\ desired.write # 0 /\ marker # 0
        /\ written[marker].gen = written[desired.write].gen
    BY DEF Acknowledged
  <2>2. marker \in 1 .. keyring /\ desired.write \in 1 .. keyring /\ keyring \in Nat
    BY <1>1, <2>1, WritesTyped DEF SupInv, SupTyped
  <2>3. written[marker].gen \in Nat /\ written[desired.write].gen \in Nat
    BY <1>1, <2>2, WritesTyped
  <2>4. /\ \A v \in marker + 1 .. keyring : written[marker].gen < written[v].gen
        /\ \A v \in desired.write + 1 .. keyring : written[desired.write].gen < written[v].gen
    BY <1>1, <2>1 DEF SupInv, Generations
  <2>5. CASE marker < desired.write
    BY <2>1, <2>2, <2>3, <2>4, <2>5
  <2>6. CASE desired.write < marker
    BY <2>1, <2>2, <2>3, <2>4, <2>6
  <2> QED
    BY <2>2, <2>5, <2>6
<1> QED
  BY <1>1, SupInvAlways, PTL

------------------------------------------------------------------------------
(* Signing in. *)

Steps == {"check", "createInitial", "consumeGate", "setupTicket", "allowed", "rlock", "verify",
          "migrate", "reset", "respond", "issue", "revoke", "authenticated", "lock",
          "changePassword", "revokeSessions", "revokeTickets", "valid", "code", "consume", "who",
          "startSetup", "confirmSetup", "status", "skipSetup", "disable", "fail"}

Shape(h) ==
  h \in [op : Ops \union {"none"}, no : {h.no}, todo : Seq(Steps), defers : Seq({"release", "unlock"}),
         pw : {h.pw}, ticket : {h.ticket}, authed : {h.authed}]

Writers == {"password", "confirm2", "skip2", "disable2"}

(* The step of a body that takes authMu; 10 is past the end of any body. *)
LockAt(op) == CASE op = "login" -> 2 [] op \in Writers -> 3 [] OTHER -> 10

(* What is left of a body after n steps. *)
After(op, n) == SubSeq(Body(op), n + 1, Len(Body(op)))

Owes(h, d) == \E i \in DOMAIN h.defers : h.defers[i] = d

(* Inside its body a handler holds authMu from the step that takes it on.   *)
InBody(h) ==
  \E n \in 0 .. Len(Body(h.op)) - 1 :
    h.todo = After(h.op, n) /\ (Owes(h, "unlock") <=> n >= LockAt(h.op))
Migrating(h) == h.op = "login" /\ h.todo = <<"migrate">> \o After("login", 3) /\ Owes(h, "unlock")

Placed(h) ==
  /\ Shape(h)
  /\ h.op = "none" <=> h.todo = <<>> /\ h.defers = <<>>
  /\ \A i, j \in DOMAIN h.defers : h.defers[i] = "unlock" /\ h.defers[j] = "unlock" => i = j
  /\ h.todo \in {<<>>, <<"fail">>} \/ InBody(h) \/ Migrating(h)

MuKept ==
  \A t \in Handlers :
    /\ authMu.w = t <=> Owes(handler[t], "unlock") /\ handler[t].op \in Writers
    /\ t \in authMu.r <=> Owes(handler[t], "unlock") /\ handler[t].op = "login"
MuExclusive ==
  /\ authMu \in [w : Handlers \union {Nobody}, r : SUBSET Handlers]
  /\ authMu.w # Nobody => authMu.r = {}

(* A login that has verified the password and may yet make a session of it. *)
Verified(h) == Migrating(h) \/ (h.op = "login" /\ \E n \in 3 .. 5 : h.todo = After("login", n))

Changing(h) == h.op = "password" /\ \E n \in 4 .. 5 : h.todo = After("password", n)

Clean == \A s \in sessions : s.by = "login" => s.pw = creds.pw

PasswordInv ==
  /\ creds = credsDisk
  /\ \A t \in Handlers : Verified(handler[t]) => handler[t].pw = creds.pw /\ creds.kind # "none"
  /\ creds.kind = "none" => \A s \in sessions : s.by # "login"
  /\ Clean \/ \E t \in Handlers : Changing(handler[t])

SlotsInv ==
  /\ rec \in [Keys -> [tracked : BOOLEAN, count : Nat, locked : BOOLEAN, inflight : BOOLEAN]]
  /\ slots = Cardinality({k \in Keys : rec[k].inflight})
  /\ \A k \in Keys : rec[k].inflight =>
       \E t \in Handlers : /\ handler[t].op # "none" /\ limitKey(handler[t].op) = k
                           /\ Owes(handler[t], "release")

HandlersInv == handler = [t \in Handlers |-> handler[t]] /\ \A t \in Handlers : Placed(handler[t])

AuthInv == HandlersInv /\ MuKept /\ MuExclusive /\ PasswordInv /\ SlotsInv

------------------------------------------------------------------------------
(* Bodies. *)

(* Where the steps that matter are in the bodies. *)
LEMMA Bodies ==
  ASSUME NEW op \in Ops
  PROVE  /\ Body(op) \in Seq(Steps \ {"fail", "migrate"}) /\ Len(Body(op)) \in 1 .. 9
         /\ \A i \in 1 .. Len(Body(op)) :
              /\ Body(op)[i] = "rlock" => op = "login"
              /\ Body(op)[i] = "lock" => op \in Writers
              /\ Body(op)[i] \in {"rlock", "lock"} <=> i = LockAt(op)
              /\ Body(op)[i] = "verify" <=> op = "login" /\ i = 3
              /\ Body(op)[i] = "changePassword" <=> op = "password" /\ i = 4
              /\ Body(op)[i] \in {"allowed", "rlock", "lock", "verify"} => i < Len(Body(op))
              /\ Body(op)[i] = "allowed" /\ op = "login" => i = 1
              /\ Body(op)[i] \in {"createInitial", "authenticated", "who", "consume"} => op # "login"
<1> DEFINE S == Steps \ {"fail", "migrate"}
<1>1. CASE op = "setup"
  BY <1>1 DEF Body, Steps, LockAt, Writers
<1>2. CASE op = "login"
  BY <1>2 DEF Body, Steps, LockAt, Writers
<1>3. CASE op = "logout"
  BY <1>3 DEF Body, Steps, LockAt, Writers
<1>4. CASE op = "password"
  BY <1>4 DEF Body, Steps, LockAt, Writers
<1>5. CASE op = "verify2"
  BY <1>5 DEF Body, MFABody, Steps, LockAt, Writers
<1>6. CASE op = "start2"
  BY <1>6 DEF Body, MFABody, Steps, LockAt, Writers
<1>7. CASE op = "confirm2"
  BY <1>7 DEF Body, MFABody, Steps, LockAt, Writers
<1>8. CASE op = "skip2"
  BY <1>8 DEF Body, MFABody, Steps, LockAt, Writers
<1>9. CASE op = "disable2"
  BY <1>9 DEF Body, MFABody, Steps, LockAt, Writers
<1> QED
  BY <1>1, <1>2, <1>3, <1>4, <1>5, <1>6, <1>7, <1>8, <1>9 DEF Ops

LEMMA Lengths == Len(Body("login")) = 6 /\ Len(Body("password")) = 7
BY DEF Body

LEMMA Login ==
  /\ Body("login")[6] = "issue"
  /\ Body("password")[5] = "reset" /\ Body("password")[6] = "revokeSessions"
  /\ \A i \in 1 .. 6 : Body("login")[i] = "issue" => i = 6
  /\ \A i \in 1 .. 6 : Body("login")[i] = "respond" => i = 5
BY DEF Body

LEMMA AfterSteps ==
  ASSUME NEW op \in Ops, NEW n \in 0 .. Len(Body(op)) - 1
  PROVE  /\ After(op, n) \in Seq(Steps) /\ After(op, n) # <<>>
         /\ Len(After(op, n)) = Len(Body(op)) - n
         /\ Head(After(op, n)) = Body(op)[n + 1]
         /\ Tail(After(op, n)) = After(op, n + 1)
         /\ n + 1 = Len(Body(op)) <=> Tail(After(op, n)) = <<>>
<1> DEFINE B == Body(op)
<1>1. B \in Seq(Steps) /\ Len(B) \in Nat
  <2>1. B \in Seq(Steps \ {"fail", "migrate"}) /\ Len(B) \in 1 .. 9
    BY Bodies
  <2> HIDE DEF B
  <2> QED
    BY <2>1
<1> HIDE DEF B
<1>2. After(op, n) = SubSeq(B, n + 1, Len(B)) /\ After(op, n + 1) = SubSeq(B, n + 2, Len(B))
  BY <1>1 DEF B, After
<1>3. n \in 0 .. Len(B) - 1 /\ n \in Nat
  BY <1>1 DEF B
<1>4. /\ SubSeq(B, n + 1, Len(B)) \in Seq(Steps)
      /\ Len(SubSeq(B, n + 1, Len(B))) = Len(B) - n
      /\ \A i \in 1 .. Len(B) - n : SubSeq(B, n + 1, Len(B))[i] = B[n + i]
  BY <1>1, <1>3, SubSeqProperties
<1>5. /\ SubSeq(B, n + 2, Len(B)) \in Seq(Steps)
      /\ Len(SubSeq(B, n + 2, Len(B))) = Len(B) - n - 1
      /\ \A i \in 1 .. Len(B) - n - 1 : SubSeq(B, n + 2, Len(B))[i] = B[n + 1 + i]
  BY <1>1, <1>3, SubSeqProperties
<1> DEFINE s == SubSeq(B, n + 1, Len(B))
           u == SubSeq(B, n + 2, Len(B))
<1> HIDE DEF s, u
<1>6. /\ s \in Seq(Steps) /\ u \in Seq(Steps) /\ Len(s) = Len(B) - n /\ Len(u) = Len(B) - n - 1
      /\ \A i \in 1 .. Len(s) : s[i] = B[n + i]
      /\ \A i \in 1 .. Len(u) : u[i] = B[n + 1 + i]
  BY <1>4, <1>5 DEF s, u
<1>7. s # <<>> /\ Len(s) >= 1 /\ Head(s) = B[n + 1]
  BY <1>1, <1>3, <1>6
<1>8. Tail(s) \in Seq(Steps) /\ Len(Tail(s)) = Len(s) - 1
      /\ \A i \in 1 .. Len(s) - 1 : Tail(s)[i] = s[i + 1]
  BY <1>6, <1>7, HeadTailProperties
<1>9. Tail(s) = u
  <2>1. Len(Tail(s)) = Len(u) /\ \A i \in 1 .. Len(u) : Tail(s)[i] = u[i]
    BY <1>1, <1>3, <1>6, <1>8
  <2> QED
    BY <1>6, <1>8, <2>1, SeqEqual
<1>10. u = <<>> <=> n + 1 = Len(B)
  BY <1>1, <1>3, <1>6, EmptySeq
<1> QED
  BY <1>2, <1>6, <1>7, <1>9, <1>10 DEF s, u, B

LEMMA SamePlace ==
  ASSUME NEW op \in Ops, NEW n \in 0 .. Len(Body(op)) - 1, NEW m \in 0 .. Len(Body(op)) - 1,
         After(op, n) = After(op, m)
  PROVE  n = m
<1>1. Len(Body(op)) \in 1 .. 9
  BY Bodies
<1>2. Len(After(op, n)) = Len(Body(op)) - n /\ Len(After(op, m)) = Len(Body(op)) - m
  BY AfterSteps
<1> QED
  BY <1>1, <1>2

(* The places the invariant names are places of a body. *)
LEMMA LoginPlace ==
  ASSUME NEW m \in 0 .. 5
  PROVE  "login" \in Ops /\ m \in 0 .. Len(Body("login")) - 1
<1>1. Len(Body("login")) - 1 = 5
  BY Lengths
<1> QED
  BY <1>1 DEF Ops

LEMMA PasswordPlace ==
  ASSUME NEW m \in 0 .. 6
  PROVE  "password" \in Ops /\ m \in 0 .. Len(Body("password")) - 1
<1>1. Len(Body("password")) - 1 = 6
  BY Lengths
<1> QED
  BY <1>1 DEF Ops

LEMMA MigrateFirst ==
  LET s == <<"migrate">> \o After("login", 3)
  IN s \in Seq(Steps) /\ s # <<>> /\ Head(s) = "migrate" /\ Tail(s) = After("login", 3)
<1>1. After("login", 3) \in Seq(Steps) /\ <<"migrate">> \in Seq(Steps)
  <2>1. "login" \in Ops /\ 3 \in 0 .. Len(Body("login")) - 1
    BY LoginPlace
  <2> QED
    BY <2>1, AfterSteps DEF Steps
<1> DEFINE a == After("login", 3)
<1> HIDE DEF a
<1>2. a \in Seq(Steps)
  BY <1>1 DEF a
<1>3. /\ <<"migrate">> \o a \in Seq(Steps) /\ <<"migrate">> \o a # <<>>
      /\ Head(<<"migrate">> \o a) = "migrate" /\ Tail(<<"migrate">> \o a) = a
  BY <1>1, <1>2
<1> QED
  BY <1>3 DEF a

------------------------------------------------------------------------------
(* How a handler may go on. *)

(* The record that comes out has the steps "todo" and the defers "defers". *)
Becomes(g, op, todo, defers) ==
  Shape(g) /\ g.op = op /\ g.todo = todo /\ g.defers = defers

LEMMA ChangedTodo ==
  ASSUME NEW h, Shape(h), NEW todo \in Seq(Steps)
  PROVE  /\ Becomes([h EXCEPT !.todo = todo], h.op, todo, h.defers)
         /\ [h EXCEPT !.todo = todo].pw = h.pw
BY DEF Shape, Becomes

LEMMA ChangedDefers ==
  ASSUME NEW h, Shape(h), NEW defers \in Seq({"release", "unlock"})
  PROVE  Becomes([h EXCEPT !.defers = defers], h.op, h.todo, defers)
BY DEF Shape, Becomes

With(h, pw, todo) == [h EXCEPT !.pw = pw, !.todo = todo]

LEMMA ChangedBoth ==
  ASSUME NEW h, Shape(h), NEW pw, NEW todo \in Seq(Steps)
  PROVE  Becomes(With(h, pw, todo), h.op, todo, h.defers) /\ With(h, pw, todo).pw = pw
BY DEF Shape, Becomes, With

LEMMA ChangedPassword ==
  ASSUME NEW h, Shape(h), NEW pw, NEW authed
  PROVE  /\ Becomes([h EXCEPT !.pw = pw], h.op, h.todo, h.defers)
         /\ [h EXCEPT !.pw = pw].pw = pw
         /\ Becomes([h EXCEPT !.authed = authed, !.pw = pw], h.op, h.todo, h.defers)
         /\ [h EXCEPT !.authed = authed, !.pw = pw].pw = pw
BY DEF Shape, Becomes

LEMMA RestingPlaced ==
  Becomes(Resting, "none", <<>>, <<>>) /\ Placed(Resting) /\ ~Verified(Resting)
  /\ (\A d : ~Owes(Resting, d)) /\ ~Changing(Resting)
<1>1. Becomes(Resting, "none", <<>>, <<>>)
  BY EmptySeq DEF Becomes, Shape, Resting
<1>2. \A d : ~Owes(Resting, d)
  BY <1>1 DEF Owes, Becomes
<1>3. ~Migrating(Resting) /\ ~Verified(Resting) /\ ~Changing(Resting)
  BY <1>1 DEF Migrating, Verified, Changing, Becomes
<1> QED
  BY <1>1, <1>2, <1>3 DEF Placed, Becomes

LEMMA RestPlaced ==
  ASSUME NEW h, Shape(h), h.op # "none"
  PROVE  \/ /\ h.todo = <<>> /\ h.defers = <<>> /\ Rest(h) = Resting
         \/ /\ h.todo # <<>> \/ h.defers # <<>>
            /\ Rest(h) = h
BY DEF Rest

(* From h to g: the same request goes on or is over, with the same to give  *)
(* back, and no nearer to a session of a password it has verified.          *)
Keeps(h, g) ==
  /\ Placed(g)
  /\ g.op \in {h.op, "none"}
  /\ \A d : Owes(g, d) <=> Owes(h, d)
  /\ Verified(g) => Verified(h) /\ g.pw = h.pw

LEMMA OwingOp ==
  ASSUME NEW h, Placed(h), NEW d, Owes(h, d)
  PROVE  h.op \in Ops
BY DEF Placed, Owes, Shape

(* A handler at a step of its body. *)
LEMMA InsideBody ==
  ASSUME NEW t \in Handlers, Placed(handler[t]), NEW step, At(t, step),
         step \notin {"unlock", "release", "fail", "migrate"}
  PROVE  /\ handler[t].op \in Ops /\ handler[t].todo # <<>>
         /\ \E n \in 0 .. Len(Body(handler[t].op)) - 1 :
              /\ handler[t].todo = After(handler[t].op, n)
              /\ n \in Nat /\ n + 1 \in 1 .. Len(Body(handler[t].op))
              /\ Body(handler[t].op)[n + 1] = step
              /\ Owes(handler[t], "unlock") <=> n >= LockAt(handler[t].op)
<1> DEFINE h == handler[t]
<1> USE DEF h
<1>1. h.todo # <<>> /\ Head(h.todo) = step
  <2>1. h.todo = <<>> => h.defers # <<>> /\ Head(h.defers) = step /\ h.defers \in Seq({"release", "unlock"})
    BY DEF At, Placed, Shape
  <2>2. h.defers \in Seq({"release", "unlock"}) /\ h.defers # <<>> => Head(h.defers) \in {"release", "unlock"}
    BY HeadTailProperties
  <2> QED
    BY <2>1, <2>2 DEF At
<1>2. h.op # "none" /\ h.op \in Ops
  BY <1>1 DEF Placed, Shape
<1>3. h.todo # <<"fail">>
  BY <1>1
<1>4. ~Migrating(h)
  <2> SUFFICES ASSUME Migrating(h) PROVE FALSE
    OBVIOUS
  <2> QED
    BY <1>1, MigrateFirst DEF Migrating
<1>5. InBody(h)
  BY <1>1, <1>3, <1>4 DEF Placed
<1>6. PICK n \in 0 .. Len(Body(h.op)) - 1 :
        h.todo = After(h.op, n) /\ (Owes(h, "unlock") <=> n >= LockAt(h.op))
  BY <1>5 DEF InBody
<1>7. Body(h.op)[n + 1] = step
  BY <1>1, <1>2, <1>6, AfterSteps
<1>8. n \in Nat /\ n + 1 \in 1 .. Len(Body(h.op))
  <2>1. Len(Body(h.op)) \in 1 .. 9
    BY <1>2, Bodies
  <2> QED
    BY <2>1, <1>6
<1> QED
  BY <1>1, <1>2, <1>6, <1>7, <1>8

LEMMA PopStep ==
  ASSUME NEW h, Placed(h), h.op \in Ops, NEW n \in 0 .. Len(Body(h.op)) - 1,
         h.todo = After(h.op, n)
  PROVE  \/ Popped(h) = Resting /\ h.defers = <<>> /\ n + 1 = Len(Body(h.op))
         \/ /\ Becomes(Popped(h), h.op, After(h.op, n + 1), h.defers)
            /\ Popped(h).pw = h.pw
            /\ h.defers # <<>> \/ n + 1 < Len(Body(h.op))
<1> DEFINE g == [h EXCEPT !.todo = Tail(h.todo)]
<1>1. h.todo # <<>> /\ Tail(h.todo) = After(h.op, n + 1) /\ After(h.op, n + 1) \in Seq(Steps)
      /\ (n + 1 = Len(Body(h.op)) <=> After(h.op, n + 1) = <<>>)
  <2>1. h.todo \in Seq(Steps) /\ h.todo # <<>> /\ Tail(h.todo) = After(h.op, n + 1)
        /\ (n + 1 = Len(Body(h.op)) <=> Tail(h.todo) = <<>>)
    BY AfterSteps
  <2> QED
    BY <2>1, HeadTailProperties
<1>2. Shape(h) /\ Popped(h) = Rest(g)
  BY <1>1 DEF Placed, Popped
<1>3. Becomes(g, h.op, After(h.op, n + 1), h.defers) /\ g.pw = h.pw
  <2>1. h.defers \in Seq({"release", "unlock"})
    BY <1>2 DEF Shape
  <2>2. g = [h EXCEPT !.todo = After(h.op, n + 1)]
    BY <1>1
  <2> QED
    BY <1>1, <1>2, <2>1, <2>2, ChangedTodo
<1> HIDE DEF g
<1>4. Shape(g) /\ g.op # "none"
  BY <1>3 DEF Becomes, Ops
<1>5. Len(Body(h.op)) \in Nat
  BY Bodies
<1> QED
  BY <1>1, <1>2, <1>3, <1>4, <1>5, RestPlaced DEF Becomes

(* The next step of the body, which may change what else is in the record. *)
LEMMA StepKeeps ==
  ASSUME NEW h, Placed(h), h.op \in Ops, NEW n \in 0 .. Len(Body(h.op)) - 1,
         h.todo = After(h.op, n), Owes(h, "unlock") <=> n >= LockAt(h.op),
         Body(h.op)[n + 1] \notin {"rlock", "lock", "verify"},
         NEW g, Becomes(g, Popped(h).op, Popped(h).todo, Popped(h).defers),
         g.pw = h.pw \/ h.op # "login"
  PROVE  /\ Keeps(h, g)
         /\ Changing(h) => Changing(g) \/ Body(h.op)[n + 1] = "revokeSessions"
<1>b. Len(Body(h.op)) \in 1 .. 9 /\ n \in Nat /\ LockAt(h.op) \in {2, 3, 10}
  BY Bodies DEF LockAt
<1>1. CASE Popped(h) = Resting /\ h.defers = <<>> /\ n + 1 = Len(Body(h.op))
  <2>1. Becomes(g, "none", <<>>, <<>>)
    BY <1>1, RestingPlaced DEF Becomes
  <2>2. \A d : ~Owes(g, d) /\ ~Owes(h, d)
    BY <1>1, <2>1 DEF Owes, Becomes
  <2>3. ~Migrating(g) /\ ~Verified(g)
    BY <2>1 DEF Migrating, Verified, Becomes
  <2>4. Placed(g)
    BY <2>1, <2>2 DEF Placed, Becomes
  <2>5. ~Changing(h)
    <3> SUFFICES ASSUME Changing(h) PROVE FALSE
      OBVIOUS
    <3>1. PICK m \in 4 .. 5 : h.op = "password" /\ h.todo = After("password", m)
      BY DEF Changing
    <3>2. n = m
      BY <3>1, PasswordPlace, SamePlace
    <3>3. n + 1 = 7
      BY <1>1, <3>1, Lengths
    <3> QED
      BY <3>2, <3>3, Bodies
  <2> QED
    BY <2>1, <2>2, <2>3, <2>4, <2>5 DEF Keeps, Becomes
<1>2. CASE /\ Becomes(Popped(h), h.op, After(h.op, n + 1), h.defers)
           /\ h.defers # <<>> \/ n + 1 < Len(Body(h.op))
  <2>1. Becomes(g, h.op, After(h.op, n + 1), h.defers)
    BY <1>2 DEF Becomes
  <2>2. \A d : Owes(g, d) <=> Owes(h, d)
    BY <2>1 DEF Owes, Becomes
  <2>3. n + 1 # LockAt(h.op)
    BY <1>b, Bodies
  <2>4. g.todo = <<>> \/ InBody(g)
    <3>1. CASE n + 1 = Len(Body(h.op))
      BY <2>1, <3>1, AfterSteps DEF Becomes
    <3>2. CASE n + 1 # Len(Body(h.op))
      <4>1. n + 1 \in 0 .. Len(Body(g.op)) - 1 /\ g.todo = After(g.op, n + 1)
        BY <1>b, <2>1, <3>2 DEF Becomes
      <4>2. Owes(g, "unlock") <=> n + 1 >= LockAt(g.op)
        BY <1>b, <2>1, <2>2, <2>3 DEF Becomes
      <4> QED
        BY <4>1, <4>2 DEF InBody
    <3> QED
      BY <3>1, <3>2
  <2>5. ~(g.todo = <<>> /\ g.defers = <<>>)
    <3>1. g.todo = <<>> => n + 1 = Len(Body(h.op))
      BY <2>1, AfterSteps DEF Becomes
    <3> QED
      BY <1>2, <1>b, <2>1, <3>1 DEF Becomes
  <2>6. Placed(g)
    BY <2>1, <2>2, <2>4, <2>5 DEF Placed, Becomes, Ops
  <2>7. Verified(g) => Verified(h)
    <3> SUFFICES ASSUME Verified(g) PROVE Verified(h)
      OBVIOUS
    <3>1. h.op = "login" /\ g.todo = After("login", n + 1) /\ g.todo # <<>>
      <4>1. g.op = "login"
        BY DEF Verified, Migrating
      <4>2. \A m \in 3 .. 5 : After("login", m) # <<>>
        BY LoginPlace, AfterSteps
      <4> QED
        BY <2>1, <4>1, <4>2, MigrateFirst DEF Verified, Migrating, Becomes
    <3>2. n + 1 # Len(Body("login")) /\ Len(Body("login")) = 6
      <4>1. Tail(After("login", n)) = After("login", n + 1)
        BY <3>1, AfterSteps
      <4>2. n + 1 # Len(Body("login"))
        BY <3>1, <4>1, AfterSteps
      <4> QED
        BY <4>2, Lengths
    <3>3. n + 1 \in 0 .. 5 /\ n \in 0 .. 5
      <4>1. n \in 0 .. Len(Body("login")) - 1 /\ Len(Body("login")) - 1 = 5 /\ n # 5
        <5>1. n \in 0 .. Len(Body("login")) - 1 /\ Len(Body("login")) - 1 = 5
          BY <3>1, Lengths
        <5>2. n # 5
          <6>1. n + 1 # 6
            BY <3>2
          <6> QED
            BY <6>1
        <5> QED
          BY <5>1, <5>2
      <4>2. n \in 0 .. 5
        BY <4>1
      <4> QED
        BY <4>1, <4>2
    <3>4. Head(g.todo) # "migrate"
      <4>1. /\ Body("login") \in Seq(Steps \ {"fail", "migrate"})
            /\ n + 2 \in 1 .. Len(Body("login")) /\ n + 1 + 1 = n + 2
        BY <3>1, <3>2, <3>3, Bodies
      <4>1a. "login" \in Ops /\ n + 1 \in 0 .. Len(Body("login")) - 1
        BY <3>3, LoginPlace
      <4>2. Body("login")[n + 2] \in Steps \ {"fail", "migrate"}
        BY <4>1
      <4>3. Head(After("login", n + 1)) = Body("login")[n + 2]
        BY <4>1, <4>1a, AfterSteps
      <4> QED
        BY <3>1, <4>2, <4>3
    <3>5. ~Migrating(g)
      BY <3>4, MigrateFirst DEF Migrating
    <3>6. PICK m \in 3 .. 5 : g.todo = After("login", m)
      BY <3>5 DEF Verified
    <3>7. n + 1 = m
      BY <3>1, <3>3, <3>6, LoginPlace, SamePlace
    <3>8. n # 2
      BY <3>1, Bodies DEF Ops
    <3> QED
      BY <1>b, <3>1, <3>7, <3>8 DEF Verified
  <2>8. Changing(h) => Changing(g) \/ Body(h.op)[n + 1] = "revokeSessions"
    <3> SUFFICES ASSUME Changing(h), Body(h.op)[n + 1] # "revokeSessions" PROVE Changing(g)
      OBVIOUS
    <3>1. PICK m \in 4 .. 5 : h.op = "password" /\ h.todo = After("password", m)
      BY DEF Changing
    <3>2. n = m
      BY <3>1, PasswordPlace, SamePlace
    <3>3. n = 4
      BY <3>1, <3>2, Login
    <3> QED
      BY <2>1, <3>1, <3>3 DEF Changing, Becomes
  <2> QED
    BY <2>1, <2>2, <2>6, <2>7, <2>8 DEF Keeps, Becomes, Verified, Migrating
<1> QED
  BY <1>1, <1>2, PopStep

(* A handler that is changing the password has no step that may refuse. *)
LEMMA ChangingAt ==
  ASSUME NEW t \in Handlers, Changing(handler[t]), NEW step, At(t, step)
  PROVE  step \in {"reset", "revokeSessions"}
<1>1. PICK m \in 4 .. 5 : handler[t].todo = After("password", m)
  BY DEF Changing
<1>2. "password" \in Ops /\ m \in 0 .. Len(Body("password")) - 1
  BY PasswordPlace
<1>3. After("password", m) # <<>> /\ Head(After("password", m)) = Body("password")[m + 1]
  BY <1>2, AfterSteps
<1>4. step = Body("password")[m + 1]
  BY <1>1, <1>3 DEF At
<1> QED
  BY <1>4, Login

(* A handler that gives up, or counts a failure first. *)
LEMMA GivesUp ==
  ASSUME NEW h, Placed(h), h.op \in Ops, h.todo # <<>>, NEW g,
         g \in {Rest([h EXCEPT !.todo = <<>>]), [h EXCEPT !.todo = <<"fail">>]}
  PROVE  Keeps(h, g) /\ ~Verified(g)
<1>0. Shape(h) /\ h.op # "none" /\ <<>> \in Seq(Steps) /\ <<"fail">> \in Seq(Steps)
      /\ h.defers \in Seq({"release", "unlock"})
  BY DEF Placed, Shape, Ops, Steps
<1>1. ~(\E m \in 3 .. 5 : After("login", m) \in {<<>>, <<"fail">>})
  <2> SUFFICES ASSUME NEW m \in 3 .. 5, After("login", m) \in {<<>>, <<"fail">>} PROVE FALSE
    OBVIOUS
  <2>1. "login" \in Ops /\ m \in 0 .. Len(Body("login")) - 1
    BY LoginPlace
  <2>2. After("login", m) # <<>> /\ Head(After("login", m)) = Body("login")[m + 1]
    BY <2>1, AfterSteps
  <2>3. Body("login")[m + 1] # "fail"
    BY DEF Body
  <2> QED
    BY <2>2, <2>3
<1>2. ASSUME NEW u, Becomes(u, h.op, <<>>, h.defers) \/ Becomes(u, h.op, <<"fail">>, h.defers),
             u.todo # <<>> \/ u.defers # <<>>
      PROVE  Keeps(h, u) /\ ~Verified(u)
  <2>1. \A d : Owes(u, d) <=> Owes(h, d)
    BY <1>2 DEF Owes, Becomes
  <2>2. ~Migrating(u)
    BY <1>2, MigrateFirst DEF Migrating, Becomes
  <2>3. ~Verified(u)
    BY <1>1, <1>2, <2>2 DEF Verified, Becomes
  <2>4. Placed(u)
    BY <1>0, <1>2 DEF Placed, Becomes
  <2> QED
    BY <1>2, <2>1, <2>3, <2>4 DEF Keeps, Becomes
<1>3. CASE g = [h EXCEPT !.todo = <<"fail">>]
  <2>1. Becomes(g, h.op, <<"fail">>, h.defers)
    BY <1>0, <1>3, ChangedTodo
  <2>2. g.todo # <<>>
    BY <2>1 DEF Becomes
  <2>3. Keeps(h, g) /\ ~Verified(g)
    BY <1>2, <2>1, <2>2
  <2> QED
    BY <2>3
<1>4. CASE g = Rest([h EXCEPT !.todo = <<>>])
  <2> DEFINE u == [h EXCEPT !.todo = <<>>]
  <2>1. Becomes(u, h.op, <<>>, h.defers)
    BY <1>0, ChangedTodo
  <2> HIDE DEF u
  <2>2. CASE u.defers = <<>> /\ Rest(u) = Resting
    <3>1. \A d : ~Owes(h, d)
      BY <2>1, <2>2 DEF Becomes, Owes
    <3> QED
      BY <1>4, <2>2, <3>1, RestingPlaced DEF Keeps, Becomes, u
  <2>3. CASE u.defers # <<>> /\ Rest(u) = u
    BY <1>2, <1>4, <2>1, <2>3 DEF u
  <2> QED
    BY <1>0, <2>1, <2>2, <2>3, RestPlaced DEF Becomes
<1> QED
  BY <1>3, <1>4

(* What a handler does in most of its steps.                                *)
Moved(t, step) ==
  \E g : /\ handler' = [handler EXCEPT ![t] = g]
         /\ Keeps(handler[t], g)
         /\ Changing(handler[t]) => Changing(g) \/ step = "revokeSessions"

LEMMA QuietStep ==
  ASSUME NEW t \in Handlers, Placed(handler[t]), NEW step, At(t, step),
         step \notin {"unlock", "release", "fail", "migrate", "rlock", "lock", "verify"},
         \/ Onward(t)
         \/ (Return(t) \/ Reject(t)) /\ step \notin {"reset", "revokeSessions"}
         \/ /\ step \in {"createInitial", "authenticated", "who", "consume"}
            /\ \E pw : \/ handler' = [handler EXCEPT ![t] = [Popped(@) EXCEPT !.pw = pw]]
                       \/ handler' = [handler EXCEPT ![t] =
                            [Popped(@) EXCEPT !.authed = TRUE, !.pw = pw]]
  PROVE  Moved(t, step)
<1> DEFINE h == handler[t]
<1>1. PICK n \in 0 .. Len(Body(h.op)) - 1 :
        /\ h.op \in Ops /\ h.todo = After(h.op, n) /\ Body(h.op)[n + 1] = step
        /\ n \in Nat /\ n + 1 \in 1 .. Len(Body(h.op))
        /\ Owes(h, "unlock") <=> n >= LockAt(h.op)
  BY InsideBody
<1>2. h.todo # <<>> /\ h.op \in Ops
  BY InsideBody
<1>3. Shape(Popped(h)) /\ (Popped(h).pw = h.pw \/ Popped(h) = Resting)
  BY <1>1, PopStep, RestingPlaced DEF Becomes
<1>5. ASSUME NEW g, Becomes(g, Popped(h).op, Popped(h).todo, Popped(h).defers),
             g.pw = h.pw \/ h.op # "login"
      PROVE  Keeps(h, g) /\ (Changing(h) => Changing(g) \/ step = "revokeSessions")
  BY <1>1, <1>5, StepKeeps
<1>6. CASE Onward(t)
  <2>1. Becomes(Popped(h), Popped(h).op, Popped(h).todo, Popped(h).defers)
    BY <1>3 DEF Becomes
  <2>2. CASE Popped(h).pw = h.pw
    <3>1. Keeps(h, Popped(h)) /\ (Changing(h) => Changing(Popped(h)) \/ step = "revokeSessions")
      BY <1>5, <2>1, <2>2
    <3> QED
      BY <1>6, <3>1 DEF Onward, Moved
  <2>3. CASE Popped(h) = Resting
    <3> DEFINE u == [Resting EXCEPT !.pw = h.pw]
    <3>1. Becomes(u, Resting.op, Resting.todo, Resting.defers) /\ u.pw = h.pw
      <4>1. Shape(Resting)
        BY RestingPlaced DEF Becomes
      <4> QED
        BY <4>1, ChangedPassword
    <3> HIDE DEF u
    <3>2. Keeps(h, u) /\ (Changing(h) => Changing(u) \/ step = "revokeSessions")
      BY <1>5, <2>3, <3>1
    <3>3. \A d : Owes(Resting, d) <=> Owes(u, d)
      BY <3>1 DEF Owes, Becomes
    <3>4. ~Changing(u)
      BY <3>1, RestingPlaced DEF Changing, Becomes
    <3>5. Keeps(h, Resting) /\ (Changing(h) => step = "revokeSessions")
      BY <3>1, <3>2, <3>3, <3>4, RestingPlaced DEF Keeps, Becomes
    <3> QED
      BY <1>6, <2>3, <3>5 DEF Onward, Moved
  <2> QED
    BY <1>3, <2>2, <2>3
<1>7. CASE (Return(t) \/ Reject(t)) /\ step \notin {"reset", "revokeSessions"}
  <2>1. ~Changing(h)
    BY <1>7, ChangingAt
  <2>2. CASE Return(t)
    <3>1. Keeps(h, Rest([h EXCEPT !.todo = <<>>]))
      BY <1>2, GivesUp
    <3> QED
      BY <2>1, <2>2, <3>1 DEF Return, Moved
  <2>3. CASE Reject(t)
    <3>1. Keeps(h, [h EXCEPT !.todo = <<"fail">>])
      BY <1>2, GivesUp
    <3>2. handler' = [handler EXCEPT ![t] = [h EXCEPT !.todo = <<"fail">>]]
      BY <2>3 DEF Reject
    <3> QED
      BY <2>1, <3>1, <3>2 DEF Moved
  <2> QED
    BY <1>7, <2>2, <2>3
<1>8. ASSUME step \in {"createInitial", "authenticated", "who", "consume"}, NEW pw,
             \/ handler' = [handler EXCEPT ![t] = [Popped(@) EXCEPT !.pw = pw]]
             \/ handler' = [handler EXCEPT ![t] = [Popped(@) EXCEPT !.authed = TRUE, !.pw = pw]]
      PROVE  Moved(t, step)
  <2>1. h.op # "login"
    BY <1>1, <1>8, Bodies
  <2>2. ASSUME NEW g, Becomes(g, Popped(h).op, Popped(h).todo, Popped(h).defers),
               handler' = [handler EXCEPT ![t] = g]
        PROVE  Moved(t, step)
    BY <1>5, <2>1, <2>2 DEF Moved
  <2>3. /\ Becomes([Popped(h) EXCEPT !.pw = pw], Popped(h).op, Popped(h).todo, Popped(h).defers)
        /\ Becomes([Popped(h) EXCEPT !.authed = TRUE, !.pw = pw],
                   Popped(h).op, Popped(h).todo, Popped(h).defers)
    BY <1>3, ChangedPassword
  <2> QED
    BY <1>8, <2>2, <2>3
<1> QED
  BY <1>6, <1>7, <1>8

(* A step that leaves something to give back, a slot or a lock. *)
LEMMA DeferStep ==
  ASSUME NEW t \in Handlers, Placed(handler[t]), NEW step \in {"allowed", "rlock", "lock"},
         At(t, step), NEW d, d = IF step = "allowed" THEN "release" ELSE "unlock",
         Deferring(t, d)
  PROVE  \E g : /\ handler' = [handler EXCEPT ![t] = g]
                /\ Placed(g) /\ g.op = handler[t].op /\ g.op \in Ops
                /\ step = "rlock" => g.op = "login"
                /\ step = "lock" => g.op \in Writers
                /\ step # "allowed" => ~Owes(handler[t], "unlock")
                /\ Owes(g, d) /\ \A e : e # d => (Owes(g, e) <=> Owes(handler[t], e))
                /\ ~Verified(g) /\ ~Changing(handler[t])
<1> DEFINE h == handler[t]
           p == Popped(h)
           g == Owing(Popped(h), d)
<1>1. PICK n \in 0 .. Len(Body(h.op)) - 1 :
        /\ h.op \in Ops /\ h.todo = After(h.op, n) /\ Body(h.op)[n + 1] = step
        /\ Owes(h, "unlock") <=> n >= LockAt(h.op)
  BY InsideBody
<1>2. Len(Body(h.op)) \in 1 .. 9 /\ n + 1 \in 1 .. Len(Body(h.op)) /\ n \in Nat
  <2>1. Len(Body(h.op)) \in 1 .. 9
    BY <1>1, Bodies
  <2> QED
    BY <2>1
<1>3. /\ step = "rlock" => h.op = "login"
      /\ step = "lock" => h.op \in Writers
      /\ step # "allowed" <=> n + 1 = LockAt(h.op)
      /\ step = "allowed" /\ h.op = "login" => n = 0
      /\ n + 1 < Len(Body(h.op))
  BY <1>1, <1>2, Bodies
<1>4. Becomes(p, h.op, After(h.op, n + 1), h.defers)
  BY <1>1, <1>2, <1>3, PopStep
<1>4a. g = [p EXCEPT !.defers = <<d>> \o p.defers]
  BY DEF Owing
<1>5. Becomes(g, h.op, After(h.op, n + 1), <<d>> \o h.defers)
  <2>1. <<d>> \o h.defers \in Seq({"release", "unlock"}) /\ After(h.op, n + 1) \in Seq(Steps)
    BY <1>4 DEF Becomes, Shape
  <2> HIDE DEF p, g
  <2>2. Shape(p) /\ p.op = h.op /\ p.todo = After(h.op, n + 1) /\ p.defers = h.defers
    BY <1>4 DEF Becomes
  <2>3. Becomes([p EXCEPT !.defers = <<d>> \o h.defers], p.op, p.todo, <<d>> \o h.defers)
    BY <2>1, <2>2, ChangedDefers
  <2> QED
    BY <1>4a, <2>2, <2>3
<1>6. handler' = [handler EXCEPT ![t] = g]
  BY DEF Deferring
<1> HIDE DEF g, p
<1>7. Owes(g, d) /\ \A e : e # d => (Owes(g, e) <=> Owes(h, e))
  <2>1. h.defers \in Seq({"release", "unlock"})
    BY <1>4 DEF Becomes, Shape
  <2>2. /\ DOMAIN (<<d>> \o h.defers) = 1 .. Len(h.defers) + 1
        /\ (<<d>> \o h.defers)[1] = d
        /\ \A i \in 1 .. Len(h.defers) : (<<d>> \o h.defers)[i + 1] = h.defers[i]
        /\ DOMAIN h.defers = 1 .. Len(h.defers) /\ Len(h.defers) \in Nat
    BY <2>1
  <2> DEFINE q == <<d>> \o h.defers
  <2> HIDE DEF q
  <2>3. /\ DOMAIN q = 1 .. Len(h.defers) + 1 /\ q[1] = d
        /\ \A i \in 1 .. Len(h.defers) : q[i + 1] = h.defers[i]
        /\ DOMAIN h.defers = 1 .. Len(h.defers) /\ Len(h.defers) \in Nat
    BY <2>2 DEF q
  <2>4. Owes(g, d)
    BY <1>5, <2>3 DEF Owes, Becomes, q
  <2>5. ASSUME NEW e, e # d, Owes(g, e) PROVE Owes(h, e)
    <3>1. PICK i \in DOMAIN q : q[i] = e
      BY <1>5, <2>5 DEF Owes, Becomes, q
    <3>2. i # 1 /\ i \in 1 .. Len(h.defers) + 1
      BY <2>3, <2>5, <3>1
    <3>3. i - 1 \in 1 .. Len(h.defers) /\ (i - 1) + 1 = i
      BY <2>3, <3>2
    <3>4. h.defers[i - 1] = e
      BY <2>3, <3>1, <3>3
    <3> QED
      BY <2>3, <3>3, <3>4 DEF Owes
  <2>6. ASSUME NEW e, Owes(h, e) PROVE Owes(g, e)
    <3>1. PICK i \in DOMAIN h.defers : h.defers[i] = e
      BY <2>6 DEF Owes
    <3>2. i + 1 \in DOMAIN q /\ q[i + 1] = e
      BY <2>3, <3>1
    <3> QED
      BY <1>5, <3>2 DEF Owes, Becomes, q
  <2> QED
    BY <2>4, <2>5, <2>6
<1>8. step # "allowed" => ~Owes(h, "unlock")
  BY <1>1, <1>2, <1>3
<1>9. ~Changing(h)
  BY ChangingAt
<1>10. g.op = h.op /\ g.todo = After(h.op, n + 1) /\ n + 1 \in 0 .. Len(Body(h.op)) - 1 /\ Shape(g)
  BY <1>2, <1>3, <1>5 DEF Becomes
<1>11. InBody(g)
  <2>1. Owes(g, "unlock") <=> n + 1 >= LockAt(g.op)
    <3>1. LockAt(h.op) \in {2, 3, 10}
      BY DEF LockAt
    <3>2. CASE step = "allowed"
      <4>1. Owes(g, "unlock") <=> Owes(h, "unlock")
        BY <1>7, <3>2
      <4> QED
        BY <1>1, <1>2, <1>3, <1>10, <3>1, <3>2, <4>1
    <3>3. CASE step # "allowed"
      <4>1. Owes(g, "unlock")
        BY <1>7, <3>3
      <4> QED
        BY <1>2, <1>3, <1>10, <3>1, <3>3, <4>1
    <3> QED
      BY <3>2, <3>3
  <2> QED
    BY <1>10, <2>1 DEF InBody
<1>12. \A i, j \in DOMAIN g.defers : g.defers[i] = "unlock" /\ g.defers[j] = "unlock" => i = j
  <2> SUFFICES ASSUME NEW i \in DOMAIN g.defers, NEW j \in DOMAIN g.defers,
                      g.defers[i] = "unlock", g.defers[j] = "unlock"
               PROVE  i = j
    OBVIOUS
  <2>1. h.defers \in Seq({"release", "unlock"})
    BY <1>4 DEF Becomes, Shape
  <2> DEFINE q == <<d>> \o h.defers
  <2>1a. /\ DOMAIN q = 1 .. Len(h.defers) + 1
         /\ \A k \in 1 .. Len(h.defers) + 1 : q[k] = IF k = 1 THEN d ELSE h.defers[k - 1]
         /\ Len(h.defers) \in Nat /\ DOMAIN h.defers = 1 .. Len(h.defers)
    BY <2>1
  <2> HIDE DEF q
  <2>1b. g.defers = q
    BY <1>5 DEF Becomes, q
  <2>2. /\ i \in 1 .. Len(h.defers) + 1 /\ j \in 1 .. Len(h.defers) + 1
        /\ Len(h.defers) \in Nat /\ DOMAIN h.defers = 1 .. Len(h.defers)
        /\ g.defers[i] = IF i = 1 THEN d ELSE h.defers[i - 1]
        /\ g.defers[j] = IF j = 1 THEN d ELSE h.defers[j - 1]
    BY <2>1a, <2>1b
  <2>3. \A a, b \in DOMAIN h.defers : h.defers[a] = "unlock" /\ h.defers[b] = "unlock" => a = b
    BY DEF Placed
  <2>4. CASE i # 1 /\ j # 1
    <3>1. i - 1 \in DOMAIN h.defers /\ j - 1 \in DOMAIN h.defers
      BY <2>2, <2>4
    <3>2. i - 1 = j - 1
      BY <2>2, <2>3, <2>4, <3>1
    <3> QED
      BY <2>2, <3>2
  <2>5. CASE i = 1 \/ j = 1
    <3>1. step # "allowed"
      <4> SUFFICES ASSUME step = "allowed" PROVE FALSE
        OBVIOUS
      <4> QED
        BY <2>2, <2>5
    <3>2. \A a \in DOMAIN h.defers : h.defers[a] # "unlock"
      BY <1>8, <3>1 DEF Owes
    <3>3. \A a \in 1 .. Len(h.defers) + 1 : a # 1 => a - 1 \in DOMAIN h.defers
      BY <2>2
    <3> QED
      BY <2>2, <3>2, <3>3
  <2> QED
    BY <2>4, <2>5
<1>13. g.defers # <<>>
  BY <1>7 DEF Owes
<1>14. Placed(g)
  BY <1>1, <1>10, <1>11, <1>12, <1>13 DEF Placed, Ops
<1>15. ~Verified(g)
  <2> SUFFICES ASSUME Verified(g) PROVE FALSE
    OBVIOUS
  <2>1. h.op = "login" /\ n \in 0 .. 1
    <3>1. h.op = "login"
      BY <1>10 DEF Verified, Migrating
    <3>2. LockAt(h.op) = 2
      BY <3>1 DEF LockAt, Writers
    <3> QED
      BY <1>2, <1>3, <3>1, <3>2
  <2>2. g.todo = After("login", n + 1) /\ n + 1 \in 0 .. 5
    BY <1>10, <2>1
  <2>3. Head(g.todo) = Body("login")[n + 2]
    <3>1. "login" \in Ops /\ n + 1 \in 0 .. Len(Body("login")) - 1 /\ n + 1 + 1 = n + 2
      BY <2>1, <2>2, LoginPlace
    <3> QED
      BY <2>2, <3>1, AfterSteps
  <2>4. Head(g.todo) # "migrate"
    <3>1. n = 0 \/ n = 1
      BY <2>1
    <3>2. Body("login")[2] # "migrate" /\ Body("login")[3] # "migrate"
      BY DEF Body
    <3> QED
      BY <2>3, <3>1, <3>2
  <2>5. PICK m \in 3 .. 5 : g.todo = After("login", m)
    BY <2>4, MigrateFirst DEF Verified, Migrating
  <2>6. n + 1 = m
    BY <2>2, <2>5, LoginPlace, SamePlace
  <2> QED
    BY <2>1, <2>6
<1> QED
  BY <1>1, <1>3, <1>6, <1>7, <1>8, <1>9, <1>10, <1>14, <1>15 DEF g

(* What is left of a login once the password is verified. *)
LEMMA VerifiedPlace ==
  ASSUME NEW h, Placed(h), h.op = "login", NEW n \in 0 .. 5, h.todo = After("login", n),
         Owes(h, "unlock") <=> n >= 2, n >= 2,
         NEW g, \/ n = 2 /\ Becomes(g, "login", <<"migrate">> \o Tail(h.todo), h.defers)
                \/ n = 2 /\ Becomes(g, "login", After("login", 3), h.defers)
  PROVE  Placed(g) /\ g.op = "login" /\ \A d : Owes(g, d) <=> Owes(h, d)
<1>1. n = 2 /\ "login" \in Ops /\ LockAt("login") = 2
  BY DEF Ops, LockAt, Writers
<1>2. Tail(h.todo) = After("login", 3)
  <2>1. 2 \in 0 .. Len(Body("login")) - 1
    BY LoginPlace
  <2> QED
    BY <1>1, <2>1, AfterSteps
<1>3. \A d : Owes(g, d) <=> Owes(h, d)
  BY DEF Owes, Becomes
<1>4. g.op = "login" /\ g.defers = h.defers /\ Shape(g) /\ Owes(g, "unlock")
  BY <1>3 DEF Becomes
<1>5. g.todo # <<>> /\ (InBody(g) \/ Migrating(g))
  <2>1. CASE g.todo = After("login", 3)
    <3>1. 3 \in 0 .. Len(Body("login")) - 1
      BY LoginPlace
    <3>2. After("login", 3) # <<>>
      BY <1>1, <3>1, AfterSteps
    <3> QED
      BY <1>1, <1>4, <2>1, <3>1, <3>2 DEF InBody
  <2>2. CASE g.todo = <<"migrate">> \o After("login", 3)
    BY <1>4, <2>2, MigrateFirst DEF Migrating
  <2> QED
    BY <1>1, <1>2, <2>1, <2>2 DEF Becomes
<1> QED
  BY <1>3, <1>4, <1>5 DEF Placed

(* The password given is right, or wrong (verify). *)
LEMMA VerifyStep ==
  ASSUME NEW t \in Handlers, Placed(handler[t]), verify(t)
  PROVE  \E g : /\ handler' = [handler EXCEPT ![t] = g]
                /\ Placed(g) /\ g.op = handler[t].op
                /\ \A d : Owes(g, d) <=> Owes(handler[t], d)
                /\ Verified(g) => g.pw = creds.pw /\ creds.kind # "none"
                /\ ~Changing(handler[t])
<1> DEFINE h == handler[t]
<1>0. At(t, "verify")
  BY DEF verify
<1>1. PICK n \in 0 .. Len(Body(h.op)) - 1 :
        /\ h.op \in Ops /\ h.todo = After(h.op, n) /\ Body(h.op)[n + 1] = "verify"
        /\ n \in Nat /\ n + 1 \in 1 .. Len(Body(h.op))
        /\ Owes(h, "unlock") <=> n >= LockAt(h.op)
  BY <1>0, InsideBody
<1>2. ~Changing(h)
  BY <1>0, ChangingAt
<1>3. h.op = "login" /\ n = 2 /\ LockAt(h.op) = 2 /\ n \in 0 .. 5
  <2>1. h.op = "login" /\ n + 1 = 3
    BY <1>1, Bodies
  <2> QED
    BY <1>1, <2>1 DEF LockAt, Writers
<1>4. Shape(h) /\ h.defers \in Seq({"release", "unlock"}) /\ h.todo # <<>> /\ h.op \in Ops
  BY <1>0, InsideBody DEF Placed, Shape
<1>5. CASE Reject(t)
  <2>1. handler' = [handler EXCEPT ![t] = [h EXCEPT !.todo = <<"fail">>]]
    BY <1>5 DEF Reject
  <2>2. Keeps(h, [h EXCEPT !.todo = <<"fail">>]) /\ ~Verified([h EXCEPT !.todo = <<"fail">>])
    BY <1>4, GivesUp
  <2>3. [h EXCEPT !.todo = <<"fail">>].op = h.op
    BY <1>4 DEF Shape
  <2> QED
    BY <1>2, <2>1, <2>2, <2>3 DEF Keeps
<1>6. ASSUME creds.kind # "none", NEW g, handler' = [handler EXCEPT ![t] = g], g.pw = creds.pw,
             \/ Becomes(g, "login", <<"migrate">> \o Tail(h.todo), h.defers)
             \/ Becomes(g, "login", After("login", 3), h.defers)
      PROVE  \E x : /\ handler' = [handler EXCEPT ![t] = x]
                    /\ Placed(x) /\ x.op = h.op
                    /\ \A d : Owes(x, d) <=> Owes(h, d)
                    /\ Verified(x) => x.pw = creds.pw /\ creds.kind # "none"
                    /\ ~Changing(h)
  <2>1. Owes(h, "unlock") <=> n >= 2
    BY <1>1, <1>3
  <2>2. Placed(g) /\ g.op = "login" /\ \A d : Owes(g, d) <=> Owes(h, d)
    BY <1>1, <1>3, <1>6, <2>1, VerifiedPlace
  <2> QED
    BY <1>2, <1>3, <1>6, <2>2
<1>7. CASE creds.kind = "legacy" /\ ~Reject(t)
  <2> DEFINE m == <<"migrate">> \o Tail(h.todo)
  <2>1. PICK g : g = With(h, creds.pw, m) /\ handler' = [handler EXCEPT ![t] = g]
    BY <1>7 DEF verify, With
  <2>2. m \in Seq(Steps)
    <3>1. h.todo \in Seq(Steps) /\ h.todo # <<>>
      BY <1>4 DEF Shape
    <3>2. Tail(h.todo) \in Seq(Steps) /\ <<"migrate">> \in Seq(Steps)
      BY <3>1, HeadTailProperties DEF Steps
    <3> QED
      BY <3>2
  <2> HIDE DEF m, h
  <2>3. Becomes(g, h.op, m, h.defers) /\ g.pw = creds.pw
    BY <1>4, <2>1, <2>2, ChangedBoth
  <2>4. Becomes(g, "login", m, h.defers)
    BY <1>3, <2>3
  <2> QED
    BY <1>6, <1>7, <2>1, <2>3, <2>4 DEF m, h
<1>8. CASE creds.kind # "legacy" /\ ~Reject(t)
  <2> DEFINE g == [Popped(h) EXCEPT !.pw = creds.pw]
  <2>1. handler' = [handler EXCEPT ![t] = g] /\ creds.kind # "none"
    BY <1>8 DEF verify
  <2>2. n + 1 # Len(Body(h.op)) /\ n + 1 = 3
    <3>1. n + 1 < Len(Body(h.op)) /\ Len(Body(h.op)) \in 1 .. 9
      BY <1>1, Bodies
    <3>2. n + 1 # Len(Body(h.op))
      BY <1>1, <3>1
    <3>3. n + 1 = 3
      BY <1>3
    <3> QED
      BY <3>2, <3>3
  <2>3. Becomes(Popped(h), "login", After("login", 3), h.defers)
    BY <1>1, <1>3, <2>2, PopStep
  <2>4. Becomes(g, "login", After("login", 3), h.defers) /\ g.pw = creds.pw
    <3> DEFINE p == Popped(h)
    <3>1. Shape(p) /\ p.op = "login" /\ p.todo = After("login", 3) /\ p.defers = h.defers
      BY <2>3 DEF Becomes
    <3> HIDE DEF p
    <3>2. Becomes([p EXCEPT !.pw = creds.pw], p.op, p.todo, p.defers) /\ [p EXCEPT !.pw = creds.pw].pw = creds.pw
      BY <3>1, ChangedPassword
    <3> QED
      BY <3>1, <3>2 DEF p
  <2> HIDE DEF g
  <2> QED
    BY <1>6, <2>1, <2>4
<1> QED
  BY <1>5, <1>7, <1>8 DEF verify

(* Storing an old release's password anew (the migration in verify). *)
LEMMA MigrateStep ==
  ASSUME NEW t \in Handlers, Placed(handler[t]), At(t, "migrate"), Onward(t)
  PROVE  Verified(handler[t]) /\ Moved(t, "migrate")
<1> DEFINE h == handler[t]
<1>1. h.todo # <<>> /\ Head(h.todo) = "migrate"
  <2>1. h.defers \in Seq({"release", "unlock"}) /\ h.defers # <<>> => Head(h.defers) \in {"release", "unlock"}
    BY HeadTailProperties
  <2> QED
    BY <2>1 DEF At, Placed, Shape
<1>2. Migrating(h)
  <2>1. ~InBody(h)
    <3> SUFFICES ASSUME InBody(h) PROVE FALSE
      OBVIOUS
    <3>1. PICK n \in 0 .. Len(Body(h.op)) - 1 : h.todo = After(h.op, n)
      BY DEF InBody
    <3>2. h.op \in Ops
      BY <1>1 DEF Placed, Shape
    <3>3. Len(Body(h.op)) \in 1 .. 9 /\ Body(h.op) \in Seq(Steps \ {"fail", "migrate"})
      BY <3>2, Bodies
    <3>4. n + 1 \in 1 .. Len(Body(h.op))
      BY <3>3
    <3>5. Body(h.op)[n + 1] # "migrate"
      BY <3>3, <3>4
    <3> QED
      BY <1>1, <3>1, <3>2, <3>5, AfterSteps
  <2> QED
    BY <1>1, <2>1 DEF Placed
<1>3. h.op = "login" /\ Tail(h.todo) = After("login", 3) /\ Owes(h, "unlock") /\ Shape(h)
      /\ h.defers # <<>> /\ After("login", 3) \in Seq(Steps) /\ After("login", 3) # <<>>
  <2>1. "login" \in Ops /\ 3 \in 0 .. Len(Body("login")) - 1
    BY LoginPlace
  <2> QED
    BY <1>2, <2>1, MigrateFirst, AfterSteps DEF Migrating, Placed, Owes
<1> DEFINE g == [h EXCEPT !.todo = After("login", 3)]
<1>4. Becomes(g, "login", After("login", 3), h.defers) /\ g.pw = h.pw
  BY <1>3, ChangedTodo DEF Shape
<1>5. Popped(h) = g
  <2>1. Popped(h) = Rest([h EXCEPT !.todo = Tail(h.todo)])
    BY <1>1 DEF Popped
  <2>2. Popped(h) = Rest(g)
    BY <1>3, <2>1
  <2> HIDE DEF g
  <2> QED
    BY <1>3, <1>4, <2>2 DEF Rest, Becomes
<1> HIDE DEF g
<1>6. \A d : Owes(g, d) <=> Owes(h, d)
  BY <1>4 DEF Owes, Becomes
<1>7. InBody(g)
  <2>1. 3 \in 0 .. Len(Body("login")) - 1 /\ LockAt("login") = 2
    BY LoginPlace DEF LockAt, Writers
  <2> QED
    BY <1>3, <1>4, <1>6, <2>1 DEF InBody, Becomes
<1>8. Placed(g)
  BY <1>3, <1>4, <1>6, <1>7 DEF Placed, Becomes
<1>9. handler' = [handler EXCEPT ![t] = g]
  BY <1>5 DEF Onward
<1> QED
  BY <1>2, <1>3, <1>4, <1>6, <1>8, <1>9 DEF Keeps, Moved, Verified, Changing, Becomes

(* A failure is counted, and the handler is done with its body (fail). *)
LEMMA FailStep ==
  ASSUME NEW t \in Handlers, Placed(handler[t]), At(t, "fail"), Onward(t)
  PROVE  Moved(t, "fail") /\ handler[t].op \in Ops
<1> DEFINE h == handler[t]
<1>1. h.todo # <<>> /\ Head(h.todo) = "fail" /\ h.op \in Ops /\ Shape(h)
  <2>1. h.defers \in Seq({"release", "unlock"}) /\ h.defers # <<>> => Head(h.defers) \in {"release", "unlock"}
    BY HeadTailProperties
  <2> QED
    BY <2>1 DEF At, Placed, Shape
<1>2. h.todo = <<"fail">>
  <2>1. ~InBody(h)
    <3> SUFFICES ASSUME InBody(h) PROVE FALSE
      OBVIOUS
    <3>1. PICK n \in 0 .. Len(Body(h.op)) - 1 : h.todo = After(h.op, n)
      BY DEF InBody
    <3>3. Len(Body(h.op)) \in 1 .. 9 /\ Body(h.op) \in Seq(Steps \ {"fail", "migrate"})
      BY <1>1, Bodies
    <3>4. n + 1 \in 1 .. Len(Body(h.op))
      BY <3>3
    <3>5. Body(h.op)[n + 1] # "fail"
      BY <3>3, <3>4
    <3> QED
      BY <1>1, <3>1, <3>5, AfterSteps
  <2> QED
    BY <1>1, <2>1, MigrateFirst DEF Placed, Migrating
<1>3. Popped(h) = Rest([h EXCEPT !.todo = <<>>])
  BY <1>1, <1>2 DEF Popped
<1>4. Keeps(h, Popped(h))
  BY <1>1, <1>3, GivesUp
<1>5. ~Changing(h)
  BY ChangingAt
<1> QED
  BY <1>1, <1>4, <1>5 DEF Moved, Onward

(* What was deferred: a slot or a lock is given back (release, unlock). *)
LEMMA DeferredStep ==
  ASSUME NEW t \in Handlers, Placed(handler[t]), NEW d \in {"release", "unlock"}, At(t, d), Onward(t)
  PROVE  \E g : /\ handler' = [handler EXCEPT ![t] = g]
                /\ Placed(g) /\ g.op \in {handler[t].op, "none"} /\ handler[t].op \in Ops
                /\ Owes(handler[t], d)
                /\ \A e : e # d => (Owes(g, e) <=> Owes(handler[t], e))
                /\ d = "unlock" => ~Owes(g, d)
                /\ ~Verified(g) /\ ~Verified(handler[t]) /\ ~Changing(handler[t])
<1> DEFINE h == handler[t]
<1>1. h.todo = <<>> /\ h.defers # <<>> /\ Head(h.defers) = d /\ Shape(h) /\ h.op \in Ops
  <2>1. h.todo # <<>> => Head(h.todo) \in Steps
    BY HeadTailProperties DEF Placed, Shape
  <2>2. d \notin Steps
    BY DEF Steps
  <2> QED
    BY <2>1, <2>2 DEF At, Placed, Shape
<1> DEFINE q == Tail(h.defers)
           u == [h EXCEPT !.defers = q]
<1>2. /\ h.defers \in Seq({"release", "unlock"}) /\ q \in Seq({"release", "unlock"})
      /\ Len(h.defers) \in Nat /\ Len(h.defers) >= 1 /\ DOMAIN h.defers = 1 .. Len(h.defers)
      /\ DOMAIN q = 1 .. Len(h.defers) - 1 /\ \A i \in DOMAIN q : q[i] = h.defers[i + 1]
      /\ h.defers[1] = d
  <2>1. h.defers \in Seq({"release", "unlock"})
    BY <1>1 DEF Shape
  <2> DEFINE s == h.defers
  <2>2. s \in Seq({"release", "unlock"}) /\ s # <<>>
    BY <1>1, <2>1
  <2> HIDE DEF s
  <2>3. /\ Tail(s) \in Seq({"release", "unlock"})
        /\ Len(s) \in Nat /\ Len(s) >= 1 /\ DOMAIN s = 1 .. Len(s)
        /\ DOMAIN Tail(s) = 1 .. Len(s) - 1 /\ \A i \in DOMAIN Tail(s) : Tail(s)[i] = s[i + 1]
        /\ s[1] = Head(s)
    BY <2>2
  <2> QED
    BY <1>1, <2>1, <2>3 DEF s
<1> HIDE DEF q
<1>3. Becomes(u, h.op, <<>>, q)
  BY <1>1, <1>2, ChangedDefers
<1>4. Popped(h) = Rest(u)
  BY <1>1 DEF Popped, q
<1> HIDE DEF u
<1>5. Owes(h, d)
  BY <1>2 DEF Owes
<1>6. ASSUME NEW e, e # d PROVE Owes(u, e) <=> Owes(h, e)
  <2>1. ASSUME Owes(u, e) PROVE Owes(h, e)
    <3>1. PICK i \in DOMAIN q : q[i] = e
      BY <1>3, <2>1 DEF Owes, Becomes
    <3>2. i + 1 \in DOMAIN h.defers
      BY <1>2
    <3> QED
      BY <1>2, <3>1, <3>2 DEF Owes
  <2>2. ASSUME Owes(h, e) PROVE Owes(u, e)
    <3>1. PICK i \in DOMAIN h.defers : h.defers[i] = e
      BY <2>2 DEF Owes
    <3>2. i # 1
      BY <1>2, <1>6, <3>1
    <3>3. i - 1 \in DOMAIN q /\ (i - 1) + 1 = i
      BY <1>2, <3>2
    <3>4. q[i - 1] = e
      BY <1>2, <3>1, <3>3
    <3> QED
      BY <1>3, <3>3, <3>4 DEF Owes, Becomes
  <2> QED
    BY <2>1, <2>2
<1>7. d = "unlock" => ~Owes(u, d)
  <2> SUFFICES ASSUME d = "unlock", Owes(u, d) PROVE FALSE
    OBVIOUS
  <2>1. PICK i \in DOMAIN q : q[i] = d
    BY <1>3 DEF Owes, Becomes
  <2>2. i + 1 \in DOMAIN h.defers /\ 1 \in DOMAIN h.defers /\ i + 1 # 1
    BY <1>2
  <2> QED
    BY <1>2, <2>1, <2>2 DEF Placed
<1>8. ~Verified(h) /\ ~Changing(h) /\ ~Verified(u)
  <2>1. ASSUME NEW m \in 3 .. 5 PROVE After("login", m) # <<>>
    <3>1. "login" \in Ops /\ m \in 0 .. Len(Body("login")) - 1
      BY LoginPlace
    <3> QED
      BY <3>1, AfterSteps
  <2>2. ~Changing(h)
    BY ChangingAt
  <2> QED
    BY <1>1, <1>3, <2>1, <2>2, MigrateFirst DEF Verified, Migrating, Becomes
<1>9. CASE Rest(u) = Resting /\ u.defers = <<>>
  <2>1. \A e : ~Owes(u, e)
    BY <1>9 DEF Owes
  <2> QED
    BY <1>1, <1>4, <1>5, <1>6, <1>8, <1>9, <2>1, RestingPlaced DEF Becomes, Onward
<1>10. CASE Rest(u) = u /\ u.defers # <<>>
  <2>1. \A i, j \in DOMAIN q : q[i] = "unlock" /\ q[j] = "unlock" => i = j
    <3> SUFFICES ASSUME NEW i \in DOMAIN q, NEW j \in DOMAIN q, q[i] = "unlock", q[j] = "unlock"
                 PROVE  i = j
      OBVIOUS
    <3>1. i + 1 \in DOMAIN h.defers /\ j + 1 \in DOMAIN h.defers
      BY <1>2
    <3>2. i + 1 = j + 1
      BY <1>2, <3>1 DEF Placed
    <3> QED
      BY <1>2, <3>2
  <2>2. Placed(u)
    BY <1>1, <1>3, <1>10, <2>1 DEF Placed, Becomes, Ops
  <2> QED
    BY <1>1, <1>3, <1>4, <1>5, <1>6, <1>7, <1>8, <1>10, <2>2 DEF Becomes, Onward
<1> QED
  BY <1>1, <1>3, <1>9, <1>10, RestPlaced DEF Becomes, Ops

------------------------------------------------------------------------------
(* What a step of the usual kind keeps. *)

LEMMA MovedKeeps ==
  ASSUME HandlersInv, MuKept, MuExclusive, NEW t \in Handlers, NEW step, Moved(t, step),
         UNCHANGED authMu
  PROVE  HandlersInv' /\ MuKept' /\ MuExclusive'
<1>1. PICK g : handler' = [handler EXCEPT ![t] = g] /\ Keeps(handler[t], g)
  BY DEF Moved
<1>2. \A x \in Handlers : handler'[x] = IF x = t THEN g ELSE handler[x]
  BY <1>1 DEF HandlersInv
<1>3. HandlersInv'
  <2>1. handler' = [x \in Handlers |-> handler'[x]]
    BY <1>1 DEF HandlersInv
  <2>2. ASSUME NEW x \in Handlers PROVE Placed(handler'[x])
    BY <1>1, <1>2 DEF HandlersInv, Keeps
  <2> QED
    BY <2>1, <2>2 DEF HandlersInv
<1>4. Owes(g, "unlock") <=> Owes(handler[t], "unlock")
  BY <1>1 DEF Keeps
<1>5. Owes(g, "unlock") => g.op = handler[t].op
  <2> SUFFICES ASSUME Owes(g, "unlock"), g.op = "none" PROVE FALSE
    BY <1>1 DEF Keeps
  <2> QED
    BY <1>1 DEF Keeps, Placed, Owes
<1>6. MuKept'
  <2> SUFFICES ASSUME NEW x \in Handlers
               PROVE  /\ authMu.w = x <=> Owes(handler'[x], "unlock") /\ handler'[x].op \in Writers
                      /\ x \in authMu.r <=> Owes(handler'[x], "unlock") /\ handler'[x].op = "login"
    BY DEF MuKept
  <2>1. CASE x = t
    BY <1>2, <1>4, <1>5, <2>1 DEF MuKept
  <2>2. CASE x # t
    BY <1>2, <2>2 DEF MuKept
  <2> QED
    BY <2>1, <2>2
<1> QED
  BY <1>3, <1>6 DEF MuExclusive

LEMMA MovedPassword ==
  ASSUME HandlersInv, PasswordInv, NEW t \in Handlers, NEW step, Moved(t, step),
         UNCHANGED <<creds, credsDisk>>, sessions' \subseteq sessions,
         step = "revokeSessions" => sessions' = {}
  PROVE  PasswordInv'
<1>1. PICK g : /\ handler' = [handler EXCEPT ![t] = g] /\ Keeps(handler[t], g)
               /\ Changing(handler[t]) => Changing(g) \/ step = "revokeSessions"
  BY DEF Moved
<1>2. \A x \in Handlers : handler'[x] = IF x = t THEN g ELSE handler[x]
  BY <1>1 DEF HandlersInv
<1>3. ASSUME NEW x \in Handlers, Verified(handler'[x])
      PROVE  handler'[x].pw = creds.pw /\ creds.kind # "none"
  BY <1>1, <1>2, <1>3 DEF PasswordInv, Keeps
<1>4. creds.kind = "none" => \A s \in sessions' : s.by # "login"
  BY DEF PasswordInv
<1>5. Clean' \/ \E x \in Handlers : Changing(handler'[x])
  <2>1. CASE Clean
    BY <2>1 DEF Clean
  <2>2. CASE step = "revokeSessions"
    BY <2>2 DEF Clean
  <2>3. CASE ~Clean /\ step # "revokeSessions"
    <3>1. PICK x \in Handlers : Changing(handler[x])
      BY <2>3 DEF PasswordInv
    <3>2. Changing(handler'[x])
      BY <1>1, <1>2, <2>3, <3>1
    <3> QED
      BY <3>2
  <2> QED
    BY <2>1, <2>2, <2>3
<1> QED
  BY <1>3, <1>4, <1>5 DEF PasswordInv

LEMMA MovedSlots ==
  ASSUME HandlersInv, SlotsInv, NEW t \in Handlers, NEW step, Moved(t, step),
         UNCHANGED <<rec, slots>>
  PROVE  SlotsInv'
<1>1. PICK g : handler' = [handler EXCEPT ![t] = g] /\ Keeps(handler[t], g)
  BY DEF Moved
<1>2. \A x \in Handlers : handler'[x] = IF x = t THEN g ELSE handler[x]
  BY <1>1 DEF HandlersInv
<1>3. ASSUME NEW k \in Keys, rec[k].inflight
      PROVE  \E x \in Handlers : /\ handler'[x].op # "none" /\ limitKey(handler'[x].op) = k
                                 /\ Owes(handler'[x], "release")
  <2>1. PICK x \in Handlers : /\ handler[x].op # "none" /\ limitKey(handler[x].op) = k
                              /\ Owes(handler[x], "release")
    BY <1>3 DEF SlotsInv
  <2>2. x = t => Owes(g, "release") /\ g.op # "none"
    BY <1>1, <2>1 DEF Keeps, Placed, Owes
  <2>3. x = t => g.op = handler[x].op
    BY <1>1, <2>2 DEF Keeps
  <2> QED
    BY <1>2, <2>1, <2>2, <2>3
<1> QED
  BY <1>3 DEF SlotsInv

LEMMA Quiet ==
  ASSUME AuthInv, NEW t \in Handlers, NEW step, Moved(t, step),
         UNCHANGED <<creds, credsDisk, rec, slots, authMu>>, sessions' \subseteq sessions,
         step = "revokeSessions" => sessions' = {}
  PROVE  AuthInv'
BY MovedKeeps, MovedPassword, MovedSlots DEF AuthInv

(* The steps that touch neither a password, nor a slot, nor authMu, and     *)
(* leave no session.                                                        *)
QuietAction(t) ==
  \/ CheckSetup(t) \/ consumeGate(t) \/ setupTicket(t)
  \/ respond(t) \/ Authenticated(t) \/ Who(t)
  \/ valid(t) \/ consume(t) \/ revoke(t) \/ RevokeSessions(t) \/ RevokeTickets(t)
  \/ startSetup(t) \/ confirmSetup(t) \/ Status(t) \/ skipSetup(t) \/ disable(t) \/ Code(t)

LEMMA QuietActions ==
  ASSUME AuthInv, NEW t \in Handlers, QuietAction(t)
  PROVE  AuthInv' /\ creds' = creds
<1> DEFINE Same == UNCHANGED <<creds, credsDisk, rec, slots, authMu>>
<1>0. Placed(handler[t])
  BY DEF AuthInv, HandlersInv
<1>q. ASSUME NEW step, At(t, step), Same, sessions' \subseteq sessions,
             step \notin {"unlock", "release", "fail", "migrate", "rlock", "lock", "verify"},
             step = "revokeSessions" => sessions' = {},
             \/ Onward(t)
             \/ (Return(t) \/ Reject(t)) /\ step \notin {"reset", "revokeSessions"}
      PROVE  AuthInv' /\ creds' = creds
  <2>1. Moved(t, step)
    BY <1>0, <1>q, QuietStep
  <2> QED
    BY <1>q, <2>1, Quiet
<1>p. ASSUME NEW step \in {"authenticated", "who", "consume"}, At(t, step), Same,
             sessions' \subseteq sessions,
             NEW pw,
             \/ handler' = [handler EXCEPT ![t] = [Popped(@) EXCEPT !.pw = pw]]
             \/ handler' = [handler EXCEPT ![t] = [Popped(@) EXCEPT !.authed = TRUE, !.pw = pw]]
      PROVE  AuthInv' /\ creds' = creds
  <2>1. Moved(t, step)
    BY <1>0, <1>p, QuietStep
  <2>2. step # "revokeSessions"
    OBVIOUS
  <2> QED
    BY <1>p, <2>1, <2>2, Quiet
<1> HIDE DEF Same
<1>1. CASE CheckSetup(t)
  BY <1>1, <1>q DEF CheckSetup, Same, stores, limiter, tokens
<1>2. CASE consumeGate(t)
  BY <1>2, <1>q DEF consumeGate, Same, limiter, tokens
<1>3. CASE setupTicket(t)
  BY <1>3, <1>q DEF setupTicket, Same, stores, limiter
<1>4. CASE respond(t)
  BY <1>4, <1>q DEF respond, Same, stores, limiter
<1>5. CASE Authenticated(t)
  <2>1. At(t, "authenticated") /\ Same /\ sessions' \subseteq sessions
    BY <1>5 DEF Authenticated, Same, stores, limiter, tokens
  <2>2. CASE Return(t)
    BY <1>q, <2>1, <2>2
  <2>3. CASE \E s \in sessions : handler' = [handler EXCEPT ![t] = [Popped(@) EXCEPT !.pw = s.pw]]
    BY <1>p, <2>1, <2>3
  <2> QED
    BY <1>5, <2>2, <2>3 DEF Authenticated
<1>6. CASE Who(t)
  <2>1. At(t, "who") /\ Same /\ sessions' \subseteq sessions
    BY <1>6 DEF Who, Same, stores, limiter
  <2>2. CASE Onward(t) \/ Return(t)
    BY <1>q, <2>1, <2>2
  <2>3. CASE \E s \in sessions :
               handler' = [handler EXCEPT ![t] = [Popped(@) EXCEPT !.authed = TRUE, !.pw = s.pw]]
    BY <1>p, <2>1, <2>3
  <2> QED
    BY <1>6, <2>2, <2>3 DEF Who
<1>7. CASE valid(t)
  BY <1>7, <1>q DEF valid, Same, stores, limiter
<1>8. CASE consume(t)
  <2>1. At(t, "consume") /\ Same /\ sessions' \subseteq sessions
    BY <1>8 DEF consume, Same, stores, limiter
  <2>2. CASE Onward(t) \/ Return(t)
    BY <1>q, <2>1, <2>2
  <2>3. CASE handler' = [handler EXCEPT ![t] = [Popped(@) EXCEPT !.pw = (CHOOSE k \in Held(t) : TRUE).pw]]
    BY <1>p, <2>1, <2>3
  <2> QED
    BY <1>8, <2>2, <2>3 DEF consume
<1>9. CASE revoke(t)
  BY <1>9, <1>q DEF revoke, Same, stores, limiter
<1>10. CASE RevokeSessions(t)
  BY <1>10, <1>q DEF RevokeSessions, Same, stores, limiter
<1>11. CASE RevokeTickets(t)
  BY <1>11, <1>q DEF RevokeTickets, Same, stores, limiter
<1>12. CASE startSetup(t)
  BY <1>12, <1>q DEF startSetup, persist, Same, limiter, tokens
<1>13. CASE confirmSetup(t)
  BY <1>13, <1>q DEF confirmSetup, persist, Same, limiter, tokens
<1>14. CASE Status(t)
  BY <1>14, <1>q DEF Status, Same, stores, limiter, tokens
<1>15. CASE skipSetup(t)
  BY <1>15, <1>q DEF skipSetup, persist, Same, limiter, tokens
<1>16. CASE disable(t)
  BY <1>16, <1>q DEF disable, persist, Same, limiter, tokens
<1>17. CASE Code(t)
  BY <1>17, <1>q DEF Code, Same, stores, limiter, tokens
<1> QED
  BY <1>1, <1>2, <1>3, <1>4, <1>5, <1>6, <1>7, <1>8, <1>9, <1>10, <1>11, <1>12, <1>13, <1>14,
     <1>15, <1>16, <1>17 DEF QuietAction

------------------------------------------------------------------------------
(* The other steps: one handler goes on as g, and takes or gives back.      *)

LEMMA MuStep ==
  ASSUME HandlersInv, MuKept, NEW t \in Handlers, NEW g, Placed(g),
         handler' = [handler EXCEPT ![t] = g], MuExclusive',
         \A x \in Handlers : x # t => (authMu'.w = x <=> authMu.w = x) /\ (x \in authMu'.r <=> x \in authMu.r),
         authMu'.w = t <=> Owes(g, "unlock") /\ g.op \in Writers,
         t \in authMu'.r <=> Owes(g, "unlock") /\ g.op = "login"
  PROVE  HandlersInv' /\ MuKept'
<1>1. \A x \in Handlers : handler'[x] = IF x = t THEN g ELSE handler[x]
  BY DEF HandlersInv
<1>2. HandlersInv'
  <2>1. handler' = [x \in Handlers |-> handler'[x]]
    BY DEF HandlersInv
  <2>2. ASSUME NEW x \in Handlers PROVE Placed(handler'[x])
    BY <1>1 DEF HandlersInv
  <2> QED
    BY <2>1, <2>2 DEF HandlersInv
<1>3. MuKept'
  <2> SUFFICES ASSUME NEW x \in Handlers
               PROVE  /\ authMu'.w = x <=> Owes(handler'[x], "unlock") /\ handler'[x].op \in Writers
                      /\ x \in authMu'.r <=> Owes(handler'[x], "unlock") /\ handler'[x].op = "login"
    BY DEF MuKept
  <2>1. CASE x = t
    BY <1>1, <2>1
  <2>2. CASE x # t
    BY <1>1, <2>2 DEF MuKept
  <2> QED
    BY <2>1, <2>2
<1> QED
  BY <1>2, <1>3

LEMMA PasswordStep ==
  ASSUME HandlersInv, PasswordInv, NEW t \in Handlers, NEW g,
         handler' = [handler EXCEPT ![t] = g],
         Verified(g) => g.pw = creds.pw /\ creds.kind # "none",
         ~Changing(handler[t]),
         UNCHANGED <<creds, credsDisk>>, sessions' \subseteq sessions
  PROVE  PasswordInv'
<1>2. \A x \in Handlers : handler'[x] = IF x = t THEN g ELSE handler[x]
  BY DEF HandlersInv
<1>3. ASSUME NEW x \in Handlers, Verified(handler'[x])
      PROVE  handler'[x].pw = creds.pw /\ creds.kind # "none"
  BY <1>2, <1>3 DEF PasswordInv
<1>4. creds.kind = "none" => \A s \in sessions' : s.by # "login"
  BY DEF PasswordInv
<1>5. Clean' \/ \E x \in Handlers : Changing(handler'[x])
  <2>1. CASE Clean
    BY <2>1 DEF Clean
  <2>2. CASE ~Clean
    <3>1. PICK x \in Handlers : Changing(handler[x])
      BY <2>2 DEF PasswordInv
    <3>2. x # t /\ Changing(handler'[x])
      BY <1>2, <3>1
    <3> QED
      BY <3>2
  <2> QED
    BY <2>1, <2>2
<1> QED
  BY <1>3, <1>4, <1>5 DEF PasswordInv

Records == [Keys -> [tracked : BOOLEAN, count : Nat, locked : BOOLEAN, inflight : BOOLEAN]]
Flying(r) == {k \in Keys : r[k].inflight}

(* Who owes a slot's release still owes it, but for a record that is not in *)
(* flight any more, and but for one that has just been marked.              *)
LEMMA SlotsStep ==
  ASSUME HandlersInv, SlotsInv, NEW t \in Handlers, NEW g,
         handler' = [handler EXCEPT ![t] = g],
         rec' \in Records, slots' = Cardinality(Flying(rec')),
         \A k \in Keys : rec'[k].inflight =>
           \/ g.op # "none" /\ limitKey(g.op) = k /\ Owes(g, "release")
           \/ /\ rec[k].inflight
              /\ Owes(handler[t], "release") => handler[t].op = "none" \/ limitKey(handler[t].op) # k
  PROVE  SlotsInv'
<1>2. \A x \in Handlers : handler'[x] = IF x = t THEN g ELSE handler[x]
  BY DEF HandlersInv
<1>3. ASSUME NEW k \in Keys, rec'[k].inflight
      PROVE  \E x \in Handlers : /\ handler'[x].op # "none" /\ limitKey(handler'[x].op) = k
                                 /\ Owes(handler'[x], "release")
  <2>1. CASE g.op # "none" /\ limitKey(g.op) = k /\ Owes(g, "release")
    BY <1>2, <2>1
  <2>2. CASE /\ rec[k].inflight
             /\ Owes(handler[t], "release") => handler[t].op = "none" \/ limitKey(handler[t].op) # k
    <3>1. PICK x \in Handlers : /\ handler[x].op # "none" /\ limitKey(handler[x].op) = k
                                /\ Owes(handler[x], "release")
      BY <2>2 DEF SlotsInv
    <3>2. x # t
      BY <2>2, <3>1
    <3> QED
      BY <1>2, <3>1, <3>2
  <2> QED
    BY <1>3, <2>1, <2>2
<1> QED
  BY <1>3 DEF SlotsInv, Records, Flying

LEMMA FlyingFinite ==
  ASSUME NEW r
  PROVE  IsFiniteSet(Flying(r)) /\ Cardinality(Flying(r)) \in Nat
<1>1. IsFiniteSet({"login"}) /\ IsFiniteSet({"password"}) /\ IsFiniteSet({"mfa"})
  BY FS_Singleton
<1>2. IsFiniteSet({"login"} \union {"password"})
  BY <1>1, FS_Union
<1>3. IsFiniteSet(({"login"} \union {"password"}) \union {"mfa"})
  BY <1>1, <1>2, FS_Union
<1>4. IsFiniteSet(Keys)
  <2>1. Keys = ({"login"} \union {"password"}) \union {"mfa"}
    BY DEF Keys
  <2> QED
    BY <1>3, <2>1
<1>5. Flying(r) \subseteq Keys
  BY DEF Flying
<1> QED
  BY <1>4, <1>5, FS_Subset, FS_CardinalityType

LEMMA SlotTaken ==
  ASSUME NEW r, NEW r2, NEW key \in Keys, ~r[key].inflight, Flying(r2) = Flying(r) \union {key}
  PROVE  Cardinality(Flying(r2)) = Cardinality(Flying(r)) + 1
<1>1. key \notin Flying(r)
  BY DEF Flying
<1> QED
  BY <1>1, FlyingFinite, FS_AddElement

LEMMA SlotBack ==
  ASSUME NEW r, NEW r2, NEW key \in Keys, Flying(r2) = Flying(r) \ {key},
         r[key].inflight \in BOOLEAN
  PROVE  LET n == Cardinality(Flying(r))
         IN (IF r[key].inflight /\ n > 0 THEN n - 1 ELSE n) = Cardinality(Flying(r2))
<1>1. CASE r[key].inflight
  <2>1. key \in Flying(r)
    BY <1>1 DEF Flying
  <2>2. Cardinality(Flying(r2)) = Cardinality(Flying(r)) - 1
    BY <2>1, FlyingFinite, FS_RemoveElement
  <2>3. Cardinality(Flying(r)) > 0
    BY <2>1, FlyingFinite, FS_EmptySet
  <2> QED
    BY <1>1, <2>2, <2>3
<1>2. CASE ~r[key].inflight
  <2>1. Flying(r2) = Flying(r)
    BY <1>2 DEF Flying
  <2> QED
    BY <1>2, <2>1
<1> QED
  BY <1>1, <1>2

(* Eviction drops no record in flight (evictLocked). *)
LEMMA EvictionKeeps ==
  ASSUME rec \in Records, NEW r \in evictLocked(rec)
  PROVE  r \in Records /\ \A k \in Keys : r[k].inflight = rec[k].inflight
<1>1. PICK E \in SUBSET {k \in Keys : ~rec[k].inflight} :
        r = [k \in Keys |-> IF k \in E THEN Untracked ELSE rec[k]]
  BY DEF evictLocked
<1>2. Untracked \in [tracked : BOOLEAN, count : Nat, locked : BOOLEAN, inflight : BOOLEAN]
      /\ Untracked.inflight = FALSE
  BY DEF Untracked
<1>3. r \in Records
  BY <1>1, <1>2 DEF Records
<1>4. ASSUME NEW k \in Keys PROVE r[k].inflight = rec[k].inflight
  <2>1. rec[k].inflight \in BOOLEAN
    BY DEF Records
  <2>2. k \in E => ~rec[k].inflight
    BY <1>1
  <2>3. r[k] = IF k \in E THEN Untracked ELSE rec[k]
    BY <1>1
  <2> QED
    BY <1>2, <2>1, <2>2, <2>3
<1> QED
  BY <1>3, <1>4

LEMMA limitKeyType ==
  ASSUME NEW op
  PROVE  limitKey(op) \in Keys
BY DEF limitKey, Keys

------------------------------------------------------------------------------
(* The limiter's steps. *)

LEMMA AllowedStep ==
  ASSUME AuthInv, NEW t \in Handlers, allowed(t)
  PROVE  AuthInv' /\ creds' = creds
<1> DEFINE key == limitKey(handler[t].op)
<1>0. /\ Placed(handler[t]) /\ At(t, "allowed") /\ key \in Keys /\ rec \in Records
      /\ UNCHANGED <<creds, credsDisk, sessions, authMu>> /\ slots = Cardinality(Flying(rec))
  BY limitKeyType DEF AuthInv, HandlersInv, SlotsInv, Records, Flying, allowed, stores, tokens
<1>1. PICK r \in IF ~rec[key].tracked /\ ~Room(rec) THEN evictLocked(rec) ELSE {rec} :
          \/ /\ slots < MaxInflight /\ ~r[key].inflight
             /\ r[key].tracked \/ Room(r)
             /\ rec' = [r EXCEPT ![key] = [tracked |-> TRUE, inflight |-> TRUE, locked |-> FALSE,
                                           count |-> IF r[key].locked THEN 0 ELSE @.count]]
             /\ slots' = slots + 1
             /\ Deferring(t, "release")
          \/ /\ rec' = r /\ UNCHANGED slots
             /\ Return(t)
  BY DEF allowed
<1>2. r \in Records /\ \A k \in Keys : r[k].inflight = rec[k].inflight
  <2>1. r = rec \/ r \in evictLocked(rec)
    BY <1>1
  <2> QED
    BY <1>0, <2>1, EvictionKeeps
<1>3. Flying(r) = Flying(rec)
  BY <1>2 DEF Flying
<1> HIDE DEF key
<1>4. CASE rec' = r /\ UNCHANGED slots /\ Return(t)
  <2>1. Moved(t, "allowed")
    BY <1>0, <1>4, QuietStep
  <2>2. HandlersInv' /\ MuKept' /\ MuExclusive'
    BY <1>0, <2>1, MovedKeeps DEF AuthInv
  <2>3. PasswordInv'
    BY <1>0, <2>1, MovedPassword DEF AuthInv
  <2>4. SlotsInv'
    <3>1. PICK g : handler' = [handler EXCEPT ![t] = g] /\ Keeps(handler[t], g)
      BY <2>1 DEF Moved
    <3>2. rec' \in Records /\ slots' = Cardinality(Flying(rec'))
      BY <1>0, <1>2, <1>3, <1>4
    <3>3. ASSUME NEW k \in Keys, rec'[k].inflight
          PROVE  \/ g.op # "none" /\ limitKey(g.op) = k /\ Owes(g, "release")
                 \/ /\ rec[k].inflight
                    /\ Owes(handler[t], "release") => handler[t].op = "none" \/ limitKey(handler[t].op) # k
      <4>1. rec[k].inflight
        BY <1>2, <1>4, <3>3
      <4>2. Owes(g, "release") <=> Owes(handler[t], "release")
        BY <3>1 DEF Keeps
      <4>3. Owes(g, "release") => g.op # "none" /\ g.op = handler[t].op
        BY <3>1 DEF Keeps, Placed, Owes
      <4> QED
        BY <4>1, <4>2, <4>3
    <3> QED
      BY <3>1, <3>2, <3>3, SlotsStep DEF AuthInv
  <2> QED
    BY <1>0, <2>2, <2>3, <2>4 DEF AuthInv
<1>5. CASE /\ slots < MaxInflight /\ ~r[key].inflight
           /\ rec' = [r EXCEPT ![key] = [tracked |-> TRUE, inflight |-> TRUE, locked |-> FALSE,
                                         count |-> IF r[key].locked THEN 0 ELSE @.count]]
           /\ slots' = slots + 1
           /\ Deferring(t, "release")
  <2>1. PICK g : /\ handler' = [handler EXCEPT ![t] = g]
                 /\ Placed(g) /\ g.op = handler[t].op /\ g.op \in Ops
                 /\ Owes(g, "release") /\ (Owes(g, "unlock") <=> Owes(handler[t], "unlock"))
                 /\ ~Verified(g) /\ ~Changing(handler[t])
    BY <1>0, <1>5, DeferStep
  <2>2. HandlersInv' /\ MuKept' /\ MuExclusive'
    <3>1. MuExclusive'
      BY <1>0 DEF AuthInv, MuExclusive
    <3>2. /\ authMu'.w = t <=> Owes(g, "unlock") /\ g.op \in Writers
          /\ t \in authMu'.r <=> Owes(g, "unlock") /\ g.op = "login"
      BY <1>0, <2>1 DEF AuthInv, MuKept
    <3> QED
      BY <1>0, <2>1, <3>1, <3>2, MuStep DEF AuthInv
  <2>3. PasswordInv'
    BY <1>0, <2>1, PasswordStep DEF AuthInv
  <2>4. rec' \in Records /\ \A k \in Keys : rec'[k].inflight <=> k = key \/ r[k].inflight
    <3> DEFINE new == [tracked |-> TRUE, inflight |-> TRUE, locked |-> FALSE,
                       count |-> IF r[key].locked THEN 0 ELSE r[key].count]
    <3>1. r[key].count \in Nat
      BY <1>0, <1>2 DEF Records
    <3>2. new \in [tracked : BOOLEAN, count : Nat, locked : BOOLEAN, inflight : BOOLEAN]
          /\ new.inflight = TRUE
      BY <3>1
    <3> HIDE DEF new
    <3>3. rec' = [r EXCEPT ![key] = new]
      BY <1>5 DEF new
    <3>4. r \in Records /\ key \in Keys
      BY <1>0, <1>2
    <3>5. rec' \in Records
      BY <3>2, <3>3, <3>4 DEF Records
    <3>6. \A k \in Keys : rec'[k] = IF k = key THEN new ELSE r[k]
      BY <3>3, <3>4 DEF Records
    <3> QED
      BY <3>2, <3>5, <3>6
  <2>5. Flying(rec') = Flying(rec) \union {key}
    BY <1>0, <1>2, <2>4 DEF Flying
  <2>6. slots' = Cardinality(Flying(rec'))
    <3>1. ~rec[key].inflight
      BY <1>0, <1>2, <1>5
    <3> QED
      BY <1>0, <1>5, <2>5, <3>1, SlotTaken
  <2>7. SlotsInv'
    <3>1. ASSUME NEW k \in Keys, rec'[k].inflight
          PROVE  \/ g.op # "none" /\ limitKey(g.op) = k /\ Owes(g, "release")
                 \/ /\ rec[k].inflight
                    /\ Owes(handler[t], "release") => handler[t].op = "none" \/ limitKey(handler[t].op) # k
      <4>1. g.op # "none"
        BY <2>1 DEF Ops
      <4>2. CASE k = key
        BY <2>1, <4>1, <4>2 DEF key
      <4>3. CASE k # key
        BY <1>2, <2>4, <3>1, <4>3 DEF key
      <4> QED
        BY <4>2, <4>3
    <3> QED
      BY <2>1, <2>4, <2>6, <3>1, SlotsStep DEF AuthInv
  <2> QED
    BY <1>0, <2>2, <2>3, <2>7 DEF AuthInv
<1> QED
  BY <1>1, <1>4, <1>5

(* A step that only clears the mark of the handler's key. *)
LEMMA SlotCleared ==
  ASSUME AuthInv, NEW t \in Handlers, NEW g, Placed(g), handler' = [handler EXCEPT ![t] = g],
         g.op \in {handler[t].op, "none"},
         Owes(g, "unlock") <=> Owes(handler[t], "unlock"),
         Owes(g, "release") => Owes(handler[t], "release"),
         Verified(g) => Verified(handler[t]) /\ g.pw = handler[t].pw,
         Changing(handler[t]) => Changing(g),
         UNCHANGED <<creds, credsDisk, sessions, authMu>>,
         rec' \in Records, NEW key \in Keys, key = limitKey(handler[t].op),
         \A k \in Keys : rec'[k].inflight <=> k # key /\ rec[k].inflight,
         slots' = IF rec[key].inflight /\ slots > 0 THEN slots - 1 ELSE slots
  PROVE  AuthInv'
<1>0. rec \in Records /\ slots = Cardinality(Flying(rec))
  BY DEF AuthInv, SlotsInv, Records, Flying
<1>1. HandlersInv' /\ MuKept' /\ MuExclusive'
  <2>1. MuExclusive'
    BY DEF AuthInv, MuExclusive
  <2>2. Owes(g, "unlock") => g.op = handler[t].op
    BY DEF Placed, Owes
  <2>3. /\ authMu'.w = t <=> Owes(g, "unlock") /\ g.op \in Writers
        /\ t \in authMu'.r <=> Owes(g, "unlock") /\ g.op = "login"
    BY <2>2 DEF AuthInv, MuKept
  <2> QED
    BY <2>1, <2>3, MuStep DEF AuthInv
<1>2. PasswordInv'
  <2>1. \A x \in Handlers : handler'[x] = IF x = t THEN g ELSE handler[x]
    BY DEF AuthInv, HandlersInv
  <2>2. ASSUME NEW x \in Handlers, Verified(handler'[x])
        PROVE  handler'[x].pw = creds.pw /\ creds.kind # "none"
    BY <2>1, <2>2 DEF AuthInv, PasswordInv
  <2>3. Clean' \/ \E x \in Handlers : Changing(handler'[x])
    <3>1. CASE Clean
      BY <3>1 DEF Clean
    <3>2. CASE ~Clean
      <4>1. PICK x \in Handlers : Changing(handler[x])
        BY <3>2 DEF AuthInv, PasswordInv
      <4>2. Changing(handler'[x])
        BY <2>1, <4>1
      <4> QED
        BY <4>2
    <3> QED
      BY <3>1, <3>2
  <2> QED
    BY <2>2, <2>3 DEF AuthInv, PasswordInv
<1>3. Flying(rec') = Flying(rec) \ {key}
  BY DEF Flying
<1>4. slots' = Cardinality(Flying(rec'))
  <2>1. rec[key].inflight \in BOOLEAN
    BY <1>0 DEF Records
  <2> QED
    BY <1>0, <1>3, <2>1, SlotBack
<1>5. ASSUME NEW k \in Keys, rec'[k].inflight
      PROVE  /\ rec[k].inflight
             /\ Owes(handler[t], "release") => handler[t].op = "none" \/ limitKey(handler[t].op) # k
  BY <1>5
<1> QED
  BY <1>1, <1>2, <1>4, <1>5, SlotsStep DEF AuthInv

(* reset is a step of the body, release a deferred one. *)
LEMMA GiveBackStep ==
  ASSUME AuthInv, NEW t \in Handlers, reset(t) \/ release(t)
  PROVE  AuthInv' /\ creds' = creds
<1> DEFINE key == limitKey(handler[t].op)
<1>0. Placed(handler[t]) /\ key \in Keys /\ rec \in Records
  BY limitKeyType DEF AuthInv, HandlersInv, SlotsInv, Records
<1>1. /\ UNCHANGED <<creds, credsDisk, sessions, authMu>> /\ Onward(t)
      /\ slots' = IF rec[key].inflight /\ slots > 0 THEN slots - 1 ELSE slots
  BY DEF reset, release, GiveBack, stores, tokens
<1>2. PICK left : /\ rec' = [rec EXCEPT ![key] = left]
                  /\ left \in {Untracked, [rec[key] EXCEPT !.inflight = FALSE]}
  BY DEF reset, release, GiveBack
<1> HIDE DEF key
<1>3. left \in [tracked : BOOLEAN, count : Nat, locked : BOOLEAN, inflight : BOOLEAN]
      /\ left.inflight = FALSE
  <2>1. rec[key] \in [tracked : BOOLEAN, count : Nat, locked : BOOLEAN, inflight : BOOLEAN]
    BY <1>0 DEF Records
  <2>2. CASE left = Untracked
    BY <2>2 DEF Untracked
  <2>3. CASE left = [rec[key] EXCEPT !.inflight = FALSE]
    BY <2>1, <2>3
  <2> QED
    BY <1>2, <2>2, <2>3
<1>4. \A k \in Keys : rec'[k] = IF k = key THEN left ELSE rec[k]
  BY <1>0, <1>2 DEF Records
<1>5. rec' \in Records
  BY <1>0, <1>2, <1>3 DEF Records
<1>6. \A k \in Keys : rec'[k].inflight <=> k # key /\ rec[k].inflight
  BY <1>3, <1>4
<1>7. key = limitKey(handler[t].op)
  BY DEF key
<1>8. CASE reset(t)
  <2>1. At(t, "reset")
    BY <1>8 DEF reset, GiveBack
  <2>2. Moved(t, "reset")
    BY <1>0, <1>1, <2>1, QuietStep
  <2>3. PICK g : /\ handler' = [handler EXCEPT ![t] = g] /\ Keeps(handler[t], g)
                 /\ Changing(handler[t]) => Changing(g)
    BY <2>2 DEF Moved
  <2> QED
    BY <1>0, <1>1, <1>5, <1>6, <1>7, <2>3, SlotCleared DEF Keeps
<1>9. CASE release(t)
  <2>1. At(t, "release")
    BY <1>9 DEF release, GiveBack
  <2>2. PICK g : /\ handler' = [handler EXCEPT ![t] = g]
                 /\ Placed(g) /\ g.op \in {handler[t].op, "none"}
                 /\ Owes(handler[t], "release")
                 /\ Owes(g, "unlock") <=> Owes(handler[t], "unlock")
                 /\ ~Verified(g) /\ ~Changing(handler[t])
    BY <1>0, <1>1, <2>1, DeferredStep
  <2> QED
    BY <1>0, <1>1, <1>5, <1>6, <1>7, <2>2, SlotCleared
<1> QED
  BY <1>8, <1>9

LEMMA FailureStep ==
  ASSUME AuthInv, NEW t \in Handlers, fail(t)
  PROVE  AuthInv' /\ creds' = creds
<1> DEFINE key == limitKey(handler[t].op)
<1>0. /\ Placed(handler[t]) /\ At(t, "fail") /\ Onward(t) /\ key \in Keys /\ rec \in Records
      /\ UNCHANGED <<creds, credsDisk, sessions, authMu>> /\ slots = Cardinality(Flying(rec))
  BY limitKeyType DEF AuthInv, HandlersInv, SlotsInv, Records, Flying, fail, stores, tokens
<1>1. PICK r \in IF Room(rec) THEN {rec} ELSE evictLocked(rec) :
          IF r[key].tracked \/ Room(r)
          THEN /\ rec' = [r EXCEPT ![key] =
                    [tracked |-> TRUE, inflight |-> FALSE,
                     count |-> IF @.count + 1 >= MaxFail THEN 0 ELSE @.count + 1,
                     locked |-> @.locked \/ @.count + 1 >= MaxFail]]
               /\ slots' = IF r[key].inflight /\ slots > 0 THEN slots - 1 ELSE slots
          ELSE rec' = r /\ UNCHANGED slots
  BY DEF fail
<1>2. r \in Records /\ \A k \in Keys : r[k].inflight = rec[k].inflight
  <2>1. r = rec \/ r \in evictLocked(rec)
    BY <1>1
  <2> QED
    BY <1>0, <2>1, EvictionKeeps
<1>3. Flying(r) = Flying(rec)
  BY <1>2 DEF Flying
<1>t. key = limitKey(handler[t].op)
  OBVIOUS
<1> HIDE DEF key
<1>4. PICK g : /\ handler' = [handler EXCEPT ![t] = g] /\ Keeps(handler[t], g)
               /\ Changing(handler[t]) => Changing(g)
  BY <1>0, FailStep DEF Moved
<1>5. CASE r[key].tracked \/ Room(r)
  <2> DEFINE new == [tracked |-> TRUE, inflight |-> FALSE,
                     count |-> IF r[key].count + 1 >= MaxFail THEN 0 ELSE r[key].count + 1,
                     locked |-> r[key].locked \/ r[key].count + 1 >= MaxFail]
  <2>1. /\ rec' = [r EXCEPT ![key] = new]
        /\ slots' = IF rec[key].inflight /\ slots > 0 THEN slots - 1 ELSE slots
    BY <1>0, <1>1, <1>2, <1>5
  <2>2. new \in [tracked : BOOLEAN, count : Nat, locked : BOOLEAN, inflight : BOOLEAN]
        /\ new.inflight = FALSE
    <3>1. r[key].count \in Nat
      BY <1>0, <1>2 DEF Records
    <3>2. (IF r[key].count + 1 >= MaxFail THEN 0 ELSE r[key].count + 1) \in Nat
      BY <3>1
    <3>3. (r[key].locked \/ r[key].count + 1 >= MaxFail) \in BOOLEAN
      OBVIOUS
    <3> QED
      BY <3>2, <3>3
  <2> HIDE DEF new
  <2>3. \A k \in Keys : rec'[k] = IF k = key THEN new ELSE r[k]
    BY <1>0, <1>2, <2>1 DEF Records
  <2>4. rec' \in Records
    BY <1>0, <1>2, <2>1, <2>2 DEF Records
  <2>5. \A k \in Keys : rec'[k].inflight <=> k # key /\ rec[k].inflight
    BY <1>2, <2>2, <2>3
  <2> QED
    BY <1>0, <1>4, <1>t, <2>1, <2>4, <2>5, SlotCleared DEF Keeps
<1>6. CASE rec' = r /\ UNCHANGED slots
  <2>1. Moved(t, "fail")
    BY <1>0, FailStep
  <2>2. HandlersInv' /\ MuKept' /\ MuExclusive'
    BY <1>0, <2>1, MovedKeeps DEF AuthInv
  <2>3. PasswordInv'
    BY <1>0, <2>1, MovedPassword DEF AuthInv
  <2>4. rec' \in Records /\ slots' = Cardinality(Flying(rec'))
    BY <1>0, <1>2, <1>3, <1>6
  <2>5. ASSUME NEW k \in Keys, rec'[k].inflight
        PROVE  \/ g.op # "none" /\ limitKey(g.op) = k /\ Owes(g, "release")
               \/ /\ rec[k].inflight
                  /\ Owes(handler[t], "release") => handler[t].op = "none" \/ limitKey(handler[t].op) # k
    <3>1. rec[k].inflight
      BY <1>2, <1>6, <2>5
    <3>2. Owes(g, "release") <=> Owes(handler[t], "release")
      BY <1>4 DEF Keeps
    <3>3. Owes(g, "release") => g.op # "none" /\ g.op = handler[t].op
      BY <1>4 DEF Keeps, Placed, Owes
    <3> QED
      BY <3>1, <3>2, <3>3
  <2>6. SlotsInv'
    BY <1>4, <2>4, <2>5, SlotsStep DEF AuthInv
  <2> QED
    BY <1>0, <2>2, <2>3, <2>6 DEF AuthInv
<1> QED
  BY <1>1, <1>5, <1>6

------------------------------------------------------------------------------
(* The steps of authMu. *)

LEMMA LockStep ==
  ASSUME AuthInv, NEW t \in Handlers, RLock(t) \/ Lock(t)
  PROVE  AuthInv' /\ creds' = creds
<1> DEFINE step == IF RLock(t) THEN "rlock" ELSE "lock"
<1>0. /\ Placed(handler[t]) /\ At(t, step) /\ Deferring(t, "unlock") /\ authMu.w = Nobody
      /\ UNCHANGED <<creds, credsDisk, sessions, rec, slots>>
      /\ authMu \in [w : Handlers \union {Nobody}, r : SUBSET Handlers]
  BY DEF AuthInv, HandlersInv, MuExclusive, RLock, Lock, stores, limiter, tokens
<1> HIDE DEF step
<1>1. PICK g : /\ handler' = [handler EXCEPT ![t] = g]
               /\ Placed(g) /\ g.op = handler[t].op /\ g.op \in Ops
               /\ step = "rlock" => g.op = "login"
               /\ step = "lock" => g.op \in Writers
               /\ ~Owes(handler[t], "unlock") /\ Owes(g, "unlock")
               /\ Owes(g, "release") <=> Owes(handler[t], "release")
               /\ ~Verified(g) /\ ~Changing(handler[t])
  <2>1. step \in {"allowed", "rlock", "lock"} /\ step # "allowed"
    BY DEF step
  <2> QED
    BY <1>0, <2>1, DeferStep
<1>2. PasswordInv'
  BY <1>0, <1>1, PasswordStep DEF AuthInv
<1>3. SlotsInv'
  <2>1. rec' \in Records /\ slots' = Cardinality(Flying(rec'))
    BY <1>0 DEF AuthInv, SlotsInv, Records, Flying
  <2>2. ASSUME NEW k \in Keys, rec'[k].inflight
        PROVE  \/ g.op # "none" /\ limitKey(g.op) = k /\ Owes(g, "release")
               \/ /\ rec[k].inflight
                  /\ Owes(handler[t], "release") => handler[t].op = "none" \/ limitKey(handler[t].op) # k
    BY <1>0, <1>1, <2>2
  <2> QED
    BY <1>1, <2>1, <2>2, SlotsStep DEF AuthInv
<1>4. CASE RLock(t)
  <2>1. /\ authMu' = [authMu EXCEPT !.r = @ \union {t}] /\ g.op = "login" /\ g.op \notin Writers
    BY <1>1, <1>4 DEF RLock, step, Writers
  <2>2. authMu'.w = Nobody /\ authMu'.r = authMu.r \union {t}
    BY <1>0, <2>1
  <2>3. MuExclusive'
    BY <1>0, <2>1, <2>2 DEF MuExclusive
  <2>4. HandlersInv' /\ MuKept'
    <3>1. /\ authMu'.w = t <=> Owes(g, "unlock") /\ g.op \in Writers
          /\ t \in authMu'.r <=> Owes(g, "unlock") /\ g.op = "login"
      BY <1>1, <2>1, <2>2, NobodyAssumption
    <3>2. \A x \in Handlers : x # t => (authMu'.w = x <=> authMu.w = x) /\ (x \in authMu'.r <=> x \in authMu.r)
      BY <1>0, <2>2
    <3> QED
      BY <1>1, <2>3, <3>1, <3>2, MuStep DEF AuthInv
  <2> QED
    BY <1>0, <1>2, <1>3, <2>3, <2>4 DEF AuthInv
<1>5. CASE ~RLock(t) /\ Lock(t)
  <2>1. authMu' = [authMu EXCEPT !.w = t] /\ authMu.r = {} /\ g.op \in Writers /\ g.op # "login"
    BY <1>1, <1>5 DEF Lock, step, Writers
  <2>2. authMu'.w = t /\ authMu'.r = {}
    BY <1>0, <2>1
  <2>3. MuExclusive'
    BY <1>0, <2>1, <2>2 DEF MuExclusive
  <2>4. HandlersInv' /\ MuKept'
    <3>1. /\ authMu'.w = t <=> Owes(g, "unlock") /\ g.op \in Writers
          /\ t \in authMu'.r <=> Owes(g, "unlock") /\ g.op = "login"
      BY <1>1, <2>1, <2>2
    <3>2. \A x \in Handlers : x # t => (authMu'.w = x <=> authMu.w = x) /\ (x \in authMu'.r <=> x \in authMu.r)
      BY <1>0, <2>1, <2>2, NobodyAssumption
    <3> QED
      BY <1>1, <2>3, <3>1, <3>2, MuStep DEF AuthInv
  <2> QED
    BY <1>0, <1>2, <1>3, <2>3, <2>4 DEF AuthInv
<1> QED
  BY <1>4, <1>5

LEMMA UnlockStep ==
  ASSUME AuthInv, NEW t \in Handlers, Unlock(t)
  PROVE  AuthInv' /\ creds' = creds
<1>0. /\ Placed(handler[t]) /\ At(t, "unlock") /\ Onward(t)
      /\ UNCHANGED <<creds, credsDisk, sessions, rec, slots>>
      /\ authMu \in [w : Handlers \union {Nobody}, r : SUBSET Handlers]
      /\ authMu' = [w |-> IF authMu.w = t THEN Nobody ELSE authMu.w, r |-> authMu.r \ {t}]
  BY DEF AuthInv, HandlersInv, MuExclusive, Unlock, stores, limiter, tokens
<1>1. PICK g : /\ handler' = [handler EXCEPT ![t] = g]
               /\ Placed(g) /\ g.op \in {handler[t].op, "none"}
               /\ ~Owes(g, "unlock")
               /\ Owes(g, "release") <=> Owes(handler[t], "release")
               /\ ~Verified(g) /\ ~Changing(handler[t])
  BY <1>0, DeferredStep
<1>2. PasswordInv'
  BY <1>0, <1>1, PasswordStep DEF AuthInv
<1>3. SlotsInv'
  <2>1. rec' \in Records /\ slots' = Cardinality(Flying(rec'))
    BY <1>0 DEF AuthInv, SlotsInv, Records, Flying
  <2>2. Owes(g, "release") => g.op # "none" /\ g.op = handler[t].op
    BY <1>1 DEF Placed, Owes
  <2>3. ASSUME NEW k \in Keys, rec'[k].inflight
        PROVE  \/ g.op # "none" /\ limitKey(g.op) = k /\ Owes(g, "release")
               \/ /\ rec[k].inflight
                  /\ Owes(handler[t], "release") => handler[t].op = "none" \/ limitKey(handler[t].op) # k
    BY <1>0, <1>1, <2>2, <2>3
  <2> QED
    BY <1>1, <2>1, <2>3, SlotsStep DEF AuthInv
<1>4. MuExclusive'
  BY <1>0 DEF AuthInv, MuExclusive
<1>5. authMu'.w # t /\ t \notin authMu'.r
  BY <1>0, NobodyAssumption
<1>6. \A x \in Handlers : x # t => (authMu'.w = x <=> authMu.w = x) /\ (x \in authMu'.r <=> x \in authMu.r)
  BY <1>0, NobodyAssumption
<1>7. HandlersInv' /\ MuKept'
  BY <1>1, <1>4, <1>5, <1>6, MuStep DEF AuthInv
<1> QED
  BY <1>0, <1>2, <1>3, <1>4, <1>7 DEF AuthInv

------------------------------------------------------------------------------
(* The steps that verify, store or change a password, and the sessions.     *)

(* The rest of the invariant, when no password moves. *)
LEMMA OthersKeep ==
  ASSUME AuthInv, NEW t \in Handlers, NEW step, Moved(t, step), UNCHANGED <<rec, slots, authMu>>
  PROVE  HandlersInv' /\ MuKept' /\ MuExclusive' /\ SlotsInv'
BY MovedKeeps, MovedSlots DEF AuthInv

LEMMA VerifyKeeps ==
  ASSUME AuthInv, NEW t \in Handlers, verify(t)
  PROVE  AuthInv' /\ creds' = creds
<1>0. /\ Placed(handler[t])
      /\ UNCHANGED <<creds, credsDisk, sessions, rec, slots, authMu>>
  BY DEF AuthInv, HandlersInv, verify, stores, limiter, tokens
<1>1. PICK g : /\ handler' = [handler EXCEPT ![t] = g]
               /\ Placed(g) /\ g.op = handler[t].op
               /\ \A d : Owes(g, d) <=> Owes(handler[t], d)
               /\ Verified(g) => g.pw = creds.pw /\ creds.kind # "none"
               /\ ~Changing(handler[t])
  BY <1>0, VerifyStep
<1>2. PasswordInv'
  BY <1>0, <1>1, PasswordStep DEF AuthInv
<1>3. MuExclusive'
  BY <1>0 DEF AuthInv, MuExclusive
<1>4. HandlersInv' /\ MuKept'
  <2>1. /\ authMu'.w = t <=> Owes(g, "unlock") /\ g.op \in Writers
        /\ t \in authMu'.r <=> Owes(g, "unlock") /\ g.op = "login"
    BY <1>0, <1>1 DEF AuthInv, MuKept
  <2> QED
    BY <1>0, <1>1, <1>3, <2>1, MuStep DEF AuthInv
<1>5. SlotsInv'
  <2>1. rec' \in Records /\ slots' = Cardinality(Flying(rec'))
    BY <1>0 DEF AuthInv, SlotsInv, Records, Flying
  <2>2. ASSUME NEW k \in Keys, rec'[k].inflight
        PROVE  \/ g.op # "none" /\ limitKey(g.op) = k /\ Owes(g, "release")
               \/ /\ rec[k].inflight
                  /\ Owes(handler[t], "release") => handler[t].op = "none" \/ limitKey(handler[t].op) # k
    BY <1>0, <1>1, <2>2
  <2> QED
    BY <1>1, <2>1, <2>2, SlotsStep DEF AuthInv
<1> QED
  BY <1>0, <1>2, <1>3, <1>4, <1>5 DEF AuthInv

LEMMA SetStep ==
  ASSUME AuthInv, NEW t \in Handlers, set(t)
  PROVE  AuthInv' /\ creds'.pw = creds.pw
<1>0. /\ Placed(handler[t]) /\ At(t, "migrate") /\ Onward(t)
      /\ UNCHANGED <<sessions, rec, slots, authMu>>
  BY DEF AuthInv, HandlersInv, set, limiter, tokens
<1>1. Verified(handler[t]) /\ Moved(t, "migrate")
  BY <1>0, MigrateStep
<1>2. handler[t].pw = creds.pw /\ creds.kind # "none"
  BY <1>1 DEF AuthInv, PasswordInv
<1>3. HandlersInv' /\ MuKept' /\ MuExclusive' /\ SlotsInv'
  BY <1>0, <1>1, OthersKeep
<1>4. CASE UNCHANGED <<creds, credsDisk>>
  <2>1. PasswordInv'
    BY <1>0, <1>1, <1>4, MovedPassword DEF AuthInv
  <2> QED
    BY <1>3, <1>4, <2>1 DEF AuthInv
<1>5. CASE Set("bcrypt", handler[t].pw)
  <2>1. creds'.pw = creds.pw /\ creds'.kind = "bcrypt" /\ creds' = credsDisk'
    BY <1>2, <1>5 DEF Set
  <2>2. PICK g : /\ handler' = [handler EXCEPT ![t] = g] /\ Keeps(handler[t], g)
                 /\ Changing(handler[t]) => Changing(g)
    BY <1>1 DEF Moved
  <2>3. \A x \in Handlers : handler'[x] = IF x = t THEN g ELSE handler[x]
    BY <2>2 DEF AuthInv, HandlersInv
  <2>4. ASSUME NEW x \in Handlers, Verified(handler'[x])
        PROVE  handler'[x].pw = creds'.pw
    BY <2>1, <2>2, <2>3, <2>4 DEF AuthInv, PasswordInv, Keeps
  <2>5. Clean' \/ \E x \in Handlers : Changing(handler'[x])
    <3>1. CASE Clean
      BY <1>0, <2>1, <3>1 DEF Clean
    <3>2. CASE ~Clean
      <4>1. PICK x \in Handlers : Changing(handler[x])
        BY <3>2 DEF AuthInv, PasswordInv
      <4>2. Changing(handler'[x])
        BY <2>2, <2>3, <4>1
      <4> QED
        BY <4>2
    <3> QED
      BY <3>1, <3>2
  <2>6. PasswordInv'
    BY <2>1, <2>4, <2>5 DEF PasswordInv
  <2> QED
    BY <1>3, <2>1, <2>6 DEF AuthInv
<1> QED
  BY <1>4, <1>5 DEF set

(* Who changes the password is alone: no login stands between its check and *)
(* its session.                                                             *)
LEMMA ChangeStep ==
  ASSUME AuthInv, NEW t \in Handlers, changePassword(t)
  PROVE  AuthInv' /\ authMu.w = t
<1> DEFINE h == handler[t]
<1>0. /\ Placed(h) /\ At(t, "changePassword")
      /\ UNCHANGED <<sessions, rec, slots, authMu>>
  BY DEF AuthInv, HandlersInv, changePassword, limiter, tokens
<1>1. PICK n \in 0 .. Len(Body(h.op)) - 1 :
        /\ h.op \in Ops /\ h.todo = After(h.op, n) /\ Body(h.op)[n + 1] = "changePassword"
        /\ n \in Nat /\ n + 1 \in 1 .. Len(Body(h.op))
        /\ Owes(h, "unlock") <=> n >= LockAt(h.op)
  BY <1>0, InsideBody
<1>2. h.op = "password" /\ n = 3 /\ Owes(h, "unlock")
  <2>1. h.op = "password" /\ n + 1 = 4
    BY <1>1, Bodies
  <2> QED
    BY <1>1, <2>1 DEF LockAt, Writers
<1>3. authMu.w = t /\ authMu.r = {}
  <2>1. authMu.w = t
    BY <1>2 DEF AuthInv, MuKept, Writers
  <2> QED
    BY <2>1, NobodyAssumption DEF AuthInv, MuExclusive
<1>4. ASSUME NEW x \in Handlers PROVE ~Verified(handler[x])
  <2> SUFFICES ASSUME Verified(handler[x]) PROVE FALSE
    OBVIOUS
  <2>1. handler[x].op = "login" /\ ~Owes(handler[x], "unlock")
    BY <1>3 DEF AuthInv, MuKept, Verified, Migrating
  <2>2. PICK m \in 3 .. 5 : handler[x].todo = After("login", m)
    BY <2>1 DEF Verified, Migrating
  <2>3. "login" \in Ops /\ m \in 0 .. Len(Body("login")) - 1
    BY LoginPlace
  <2>4. After("login", m) # <<>> /\ Head(After("login", m)) = Body("login")[m + 1]
    BY <2>3, AfterSteps
  <2>5. After("login", m) # <<"fail">>
    <3>1. Body("login")[m + 1] # "fail"
      BY DEF Body
    <3> QED
      BY <2>4, <3>1
  <2>6. InBody(handler[x])
    BY <2>1, <2>2, <2>4, <2>5 DEF AuthInv, HandlersInv, Placed, Migrating
  <2>7. PICK i \in 0 .. Len(Body("login")) - 1 :
          handler[x].todo = After("login", i) /\ ~(i >= LockAt("login"))
    BY <2>1, <2>6 DEF InBody
  <2>8. i = m
    BY <2>2, <2>3, <2>7, SamePlace
  <2> QED
    BY <2>7, <2>8 DEF LockAt, Writers
<1>5. ~Changing(h)
  BY <1>0, ChangingAt
<1>6. Onward(t) \/ Return(t) \/ Reject(t)
  BY DEF changePassword
<1>7. Moved(t, "changePassword")
  BY <1>0, <1>6, QuietStep
<1>8. HandlersInv' /\ MuKept' /\ MuExclusive' /\ SlotsInv'
  BY <1>0, <1>7, OthersKeep
<1>9. CASE UNCHANGED <<creds, credsDisk>>
  <2>1. PasswordInv'
    BY <1>0, <1>7, <1>9, MovedPassword DEF AuthInv
  <2> QED
    BY <1>3, <1>8, <2>1 DEF AuthInv
<1>10. CASE Set("bcrypt", FreshPassword) /\ Onward(t)
  <2>1. creds' = credsDisk' /\ creds'.kind # "none"
    BY <1>10 DEF Set
  <2>2. Becomes(Popped(h), "password", After("password", 4), h.defers)
    <3>1. n + 1 # Len(Body(h.op)) /\ n + 1 = 4
      <4>1. Len(Body(h.op)) = 7
        BY <1>2, Lengths
      <4>2. n + 1 = 4
        BY <1>2
      <4> QED
        BY <4>1, <4>2
    <3> QED
      BY <1>0, <1>1, <1>2, <3>1, PopStep
  <2>3. \A x \in Handlers : handler'[x] = IF x = t THEN Popped(h) ELSE handler[x]
    BY <1>10 DEF AuthInv, HandlersInv, Onward
  <2>4. Changing(handler'[t])
    BY <2>2, <2>3 DEF Changing, Becomes
  <2>5. ASSUME NEW x \in Handlers PROVE ~Verified(handler'[x])
    BY <1>4, <2>2, <2>3 DEF Verified, Migrating, Becomes
  <2>6. PasswordInv'
    BY <2>1, <2>4, <2>5 DEF PasswordInv
  <2> QED
    BY <1>3, <1>8, <2>6 DEF AuthInv
<1> QED
  BY <1>9, <1>10 DEF changePassword

(* The first password, of a panel nobody has signed in to. *)
LEMMA CreateStep ==
  ASSUME AuthInv, NEW t \in Handlers, createInitial(t)
  PROVE  AuthInv' /\ (creds' # creds => creds.kind = "none")
<1>0. /\ Placed(handler[t]) /\ At(t, "createInitial")
      /\ UNCHANGED <<sessions, rec, slots, authMu>>
  BY DEF AuthInv, HandlersInv, createInitial, limiter, tokens
<1>1. Moved(t, "createInitial")
  <2>1. \/ Return(t)
        \/ handler' = [handler EXCEPT ![t] = [Popped(@) EXCEPT !.pw = creds'.pw]]
    BY DEF createInitial
  <2> QED
    BY <1>0, <2>1, QuietStep
<1>2. HandlersInv' /\ MuKept' /\ MuExclusive' /\ SlotsInv'
  BY <1>0, <1>1, OthersKeep
<1>3. CASE UNCHANGED <<creds, credsDisk>>
  <2>1. PasswordInv'
    BY <1>0, <1>1, <1>3, MovedPassword DEF AuthInv
  <2> QED
    BY <1>2, <1>3, <2>1 DEF AuthInv
<1>4. CASE creds.kind = "none" /\ Set("bcrypt", FreshPassword)
  <2>1. creds' = credsDisk' /\ creds'.kind # "none"
    BY <1>4 DEF Set
  <2>2. PICK g : handler' = [handler EXCEPT ![t] = g] /\ Keeps(handler[t], g)
    BY <1>1 DEF Moved
  <2>3. \A x \in Handlers : handler'[x] = IF x = t THEN g ELSE handler[x]
    BY <2>2 DEF AuthInv, HandlersInv
  <2>4. \A x \in Handlers : ~Verified(handler'[x])
    BY <1>4, <2>2, <2>3 DEF AuthInv, PasswordInv, Keeps
  <2>5. Clean'
    BY <1>0, <1>4 DEF AuthInv, PasswordInv, Clean
  <2>6. PasswordInv'
    BY <2>1, <2>4, <2>5 DEF PasswordInv
  <2> QED
    BY <1>2, <1>4, <2>6 DEF AuthInv
<1> QED
  BY <1>3, <1>4 DEF createInitial

(* A login's session is of the password that is stored. *)
LEMMA IssueStep ==
  ASSUME AuthInv, NEW t \in Handlers, issueSession(t)
  PROVE  AuthInv' /\ creds' = creds
<1> DEFINE h == handler[t]
<1>0. /\ Placed(h) /\ At(t, "issue") /\ Onward(t)
      /\ UNCHANGED <<creds, credsDisk, rec, slots, authMu>>
      /\ sessions' \subseteq sessions \union {[pw |-> h.pw, by |-> h.op]}
  BY DEF AuthInv, HandlersInv, issueSession, limiter, stores
<1>1. Moved(t, "issue")
  BY <1>0, QuietStep
<1>2. HandlersInv' /\ MuKept' /\ MuExclusive' /\ SlotsInv'
  BY <1>0, <1>1, OthersKeep
<1>3. h.op = "login" => Verified(h)
  <2> SUFFICES ASSUME h.op = "login" PROVE Verified(h)
    OBVIOUS
  <2>1. PICK n \in 0 .. Len(Body(h.op)) - 1 :
          /\ h.op \in Ops /\ h.todo = After(h.op, n) /\ Body(h.op)[n + 1] = "issue"
          /\ n \in Nat /\ n + 1 \in 1 .. Len(Body(h.op))
    BY <1>0, InsideBody
  <2>2. n + 1 \in 1 .. 6
    BY <2>1, Lengths
  <2>3. n + 1 = 6
    BY <2>1, <2>2, Login
  <2>4. n = 5
    BY <2>1, <2>3
  <2> QED
    BY <2>1, <2>4 DEF Verified
<1>4. h.op = "login" => h.pw = creds.pw /\ creds.kind # "none"
  BY <1>3 DEF AuthInv, PasswordInv
<1>5. PICK g : /\ handler' = [handler EXCEPT ![t] = g] /\ Keeps(h, g)
               /\ Changing(h) => Changing(g)
  BY <1>1 DEF Moved
<1>6. \A x \in Handlers : handler'[x] = IF x = t THEN g ELSE handler[x]
  BY <1>5 DEF AuthInv, HandlersInv
<1>7. ASSUME NEW x \in Handlers, Verified(handler'[x])
      PROVE  handler'[x].pw = creds.pw /\ creds.kind # "none"
  BY <1>5, <1>6, <1>7 DEF AuthInv, PasswordInv, Keeps
<1>8. creds.kind = "none" => \A s \in sessions' : s.by # "login"
  BY <1>0, <1>4 DEF AuthInv, PasswordInv
<1>9. Clean' \/ \E x \in Handlers : Changing(handler'[x])
  <2>1. CASE Clean
    BY <1>0, <1>4, <2>1 DEF Clean
  <2>2. CASE ~Clean
    <3>1. PICK x \in Handlers : Changing(handler[x])
      BY <2>2 DEF AuthInv, PasswordInv
    <3>2. Changing(handler'[x])
      BY <1>5, <1>6, <3>1
    <3> QED
      BY <3>2
  <2> QED
    BY <2>1, <2>2
<1>10. PasswordInv'
  BY <1>0, <1>7, <1>8, <1>9 DEF AuthInv, PasswordInv
<1> QED
  BY <1>0, <1>2, <1>10 DEF AuthInv

------------------------------------------------------------------------------
(* A request comes in. *)

LEMMA WholeBody ==
  ASSUME NEW op \in Ops
  PROVE  After(op, 0) = Body(op) /\ 0 \in 0 .. Len(Body(op)) - 1 /\ Body(op) \in Seq(Steps)
<1> DEFINE B == Body(op)
<1>1. B \in Seq(Steps) /\ Len(B) \in 1 .. 9
  <2>1. B \in Seq(Steps \ {"fail", "migrate"}) /\ Len(B) \in 1 .. 9
    BY Bodies
  <2> HIDE DEF B
  <2> QED
    BY <2>1
<1>2. After(op, 0) = SubSeq(B, 1, Len(B))
  BY DEF After
<1> HIDE DEF B
<1>3. SubSeq(B, 1, Len(B)) = B /\ 0 \in 0 .. Len(B) - 1
  BY <1>1
<1> QED
  BY <1>1, <1>2, <1>3 DEF B

LEMMA ServeStep ==
  ASSUME AuthInv, NEW t \in Handlers, Serve(t)
  PROVE  AuthInv' /\ creds' = creds
<1>0. /\ handler[t] = Resting
      /\ UNCHANGED <<creds, credsDisk, sessions, rec, slots, authMu>>
  BY DEF Serve, stores, limiter, tokens
<1>1. PICK op \in Ops, id \in {0} \union {k.id : k \in tickets} :
        handler' = [handler EXCEPT ![t] =
          [Resting EXCEPT !.op = op, !.no = calls', !.todo = Body(op), !.ticket = id]]
  BY DEF Serve
<1> DEFINE g == [Resting EXCEPT !.op = op, !.no = calls', !.todo = Body(op), !.ticket = id]
<1>2. Becomes(g, op, Body(op), <<>>)
  <2>1. Body(op) \in Seq(Steps) /\ <<>> \in Seq({"release", "unlock"}) /\ op \in Ops \union {"none"}
    BY WholeBody
  <2> DEFINE b == Body(op)
  <2>2. b \in Seq(Steps)
    BY <2>1
  <2> HIDE DEF b
  <2>3. Becomes([Resting EXCEPT !.op = op, !.no = calls', !.todo = b, !.ticket = id], op, b, <<>>)
    BY <2>1, <2>2 DEF Becomes, Shape, Resting
  <2> QED
    BY <2>3 DEF b
<1> HIDE DEF g
<1>3. \A d : ~Owes(g, d) /\ ~Owes(handler[t], d)
  BY <1>0, <1>2, RestingPlaced DEF Owes, Becomes
<1>4. After(op, 0) = Body(op) /\ 0 \in 0 .. Len(Body(op)) - 1 /\ After(op, 0) # <<>>
      /\ Head(After(op, 0)) = Body(op)[1] /\ LockAt(op) \in {2, 3, 10}
  BY WholeBody, AfterSteps DEF LockAt
<1>5. Placed(g)
  <2>1. InBody(g)
    BY <1>2, <1>3, <1>4 DEF InBody, Becomes
  <2> QED
    BY <1>2, <1>3, <1>4, <2>1 DEF Placed, Becomes, Ops
<1>6. ~Verified(g)
  <2> SUFFICES ASSUME Verified(g) PROVE FALSE
    OBVIOUS
  <2>1. op = "login" /\ g.todo = After("login", 0)
    BY <1>2, <1>4 DEF Verified, Migrating, Becomes
  <2>2. Head(g.todo) # "migrate"
    <3>1. Body("login")[1] # "migrate"
      BY DEF Body
    <3> QED
      BY <1>4, <2>1, <3>1
  <2>3. PICK m \in 3 .. 5 : g.todo = After("login", m)
    BY <2>2, MigrateFirst DEF Verified, Migrating
  <2>4. m = 0
    BY <1>4, <2>1, <2>3, LoginPlace, SamePlace
  <2> QED
    BY <2>4
<1>7. handler' = [handler EXCEPT ![t] = g]
  BY <1>1 DEF g
<1>8. PasswordInv'
  BY <1>0, <1>6, <1>7, RestingPlaced, PasswordStep DEF AuthInv
<1>9. MuExclusive'
  BY <1>0 DEF AuthInv, MuExclusive
<1>10. HandlersInv' /\ MuKept'
  <2>1. /\ authMu'.w = t <=> Owes(g, "unlock") /\ g.op \in Writers
        /\ t \in authMu'.r <=> Owes(g, "unlock") /\ g.op = "login"
    BY <1>0, <1>3 DEF AuthInv, MuKept
  <2> QED
    BY <1>0, <1>5, <1>7, <1>9, <2>1, MuStep DEF AuthInv
<1>11. SlotsInv'
  <2>1. rec' \in Records /\ slots' = Cardinality(Flying(rec'))
    BY <1>0 DEF AuthInv, SlotsInv, Records, Flying
  <2>2. ASSUME NEW k \in Keys, rec'[k].inflight
        PROVE  \/ g.op # "none" /\ limitKey(g.op) = k /\ Owes(g, "release")
               \/ /\ rec[k].inflight
                  /\ Owes(handler[t], "release") => handler[t].op = "none" \/ limitKey(handler[t].op) # k
    BY <1>0, <1>3, <2>2
  <2> QED
    BY <1>7, <2>1, <2>2, SlotsStep DEF AuthInv
<1> QED
  BY <1>0, <1>8, <1>9, <1>10, <1>11 DEF AuthInv

------------------------------------------------------------------------------
(* The invariant. *)

LEMMA NothingFlies ==
  ASSUME NEW r, r = [k \in Keys |-> Untracked]
  PROVE  r \in Records /\ Cardinality(Flying(r)) = 0 /\ \A k \in Keys : ~r[k].inflight
<1>1. \A k \in Keys : r[k] = Untracked
  OBVIOUS
<1>2. Untracked \in [tracked : BOOLEAN, count : Nat, locked : BOOLEAN, inflight : BOOLEAN]
      /\ Untracked.inflight = FALSE
  BY DEF Untracked
<1>3. r \in Records
  BY <1>2 DEF Records
<1>4. Flying(r) = {}
  BY <1>1, <1>2 DEF Flying
<1> QED
  BY <1>1, <1>2, <1>3, <1>4, FS_EmptySet

(* A panel that starts, first or again. *)
LEMMA Started ==
  ASSUME handler' = [t \in Handlers |-> Resting], authMu' = [w |-> Nobody, r |-> {}],
         rec' = [k \in Keys |-> Untracked], slots' = 0, sessions' = {}, creds' = credsDisk'
  PROVE  AuthInv'
<1>1. \A t \in Handlers : handler'[t] = Resting
  OBVIOUS
<1>2. HandlersInv'
  <2>1. handler' = [t \in Handlers |-> handler'[t]]
    OBVIOUS
  <2> QED
    BY <1>1, <2>1, RestingPlaced DEF HandlersInv
<1>3. MuKept' /\ MuExclusive'
  <2>1. MuExclusive'
    BY DEF MuExclusive
  <2>2. MuKept'
    BY <1>1, RestingPlaced, NobodyAssumption DEF MuKept
  <2> QED
    BY <2>1, <2>2
<1>4. PasswordInv'
  BY <1>1, RestingPlaced DEF PasswordInv, Clean
<1>5. SlotsInv'
  BY NothingFlies DEF SlotsInv, Records, Flying
<1> QED
  BY <1>2, <1>3, <1>4, <1>5 DEF AuthInv

LEMMA AuthInitInv == AuthInit => AuthInv
<1> SUFFICES ASSUME AuthInit PROVE AuthInv
  OBVIOUS
<1>1. \A t \in Handlers : handler[t] = Resting
  BY DEF AuthInit
<1>2. HandlersInv
  <2>1. handler = [t \in Handlers |-> handler[t]]
    BY DEF AuthInit
  <2> QED
    BY <1>1, <2>1, RestingPlaced DEF HandlersInv
<1>3. MuKept /\ MuExclusive
  <2>1. MuExclusive
    BY DEF MuExclusive, AuthInit
  <2>2. MuKept
    BY <1>1, RestingPlaced, NobodyAssumption DEF MuKept, AuthInit
  <2> QED
    BY <2>1, <2>2
<1>4. PasswordInv
  BY <1>1, RestingPlaced DEF PasswordInv, Clean, AuthInit
<1>5. SlotsInv
  BY NothingFlies DEF SlotsInv, Records, Flying, AuthInit
<1> QED
  BY <1>2, <1>3, <1>4, <1>5 DEF AuthInv

LEMMA AuthStep ==
  ASSUME AuthInv, AuthNext
  PROVE  AuthInv' /\ (creds'.pw # creds.pw => creds.kind = "none" \/ authMu.w # Nobody)
<1>1. ASSUME NEW t \in Handlers, Serve(t)
      PROVE  AuthInv' /\ creds' = creds
  BY <1>1, ServeStep
<1>2. ASSUME NEW t \in Handlers, HandlerStep(t)
      PROVE  AuthInv' /\ (creds'.pw # creds.pw => creds.kind = "none" \/ authMu.w # Nobody)
  <2>1. CASE QuietAction(t)
    BY <2>1, QuietActions
  <2>2. CASE allowed(t)
    BY <2>2, AllowedStep
  <2>3. CASE fail(t)
    BY <2>3, FailureStep
  <2>4. CASE reset(t) \/ release(t)
    BY <2>4, GiveBackStep
  <2>5. CASE RLock(t) \/ Lock(t)
    BY <2>5, LockStep
  <2>6. CASE Unlock(t)
    BY <2>6, UnlockStep
  <2>7. CASE verify(t)
    BY <2>7, VerifyKeeps
  <2>8. CASE set(t)
    BY <2>8, SetStep
  <2>9. CASE changePassword(t)
    BY <2>9, ChangeStep, NobodyAssumption
  <2>10. CASE createInitial(t)
    BY <2>10, CreateStep
  <2>11. CASE issueSession(t)
    BY <2>11, IssueStep
  <2> QED
    BY <1>2, <2>1, <2>2, <2>3, <2>4, <2>5, <2>6, <2>7, <2>8, <2>9, <2>10, <2>11
       DEF HandlerStep, QuietAction
<1>3. CASE Expire
  <2>1. UNCHANGED <<creds, credsDisk, handler, rec, slots, authMu>> /\ sessions' \subseteq sessions
    BY <1>3 DEF Expire, stores, limiter
  <2>2. HandlersInv' /\ MuKept' /\ MuExclusive' /\ SlotsInv'
    BY <2>1 DEF AuthInv, HandlersInv, MuKept, MuExclusive, SlotsInv
  <2>3. PasswordInv'
    <3>1. Clean => Clean'
      BY <2>1 DEF Clean
    <3> QED
      BY <2>1, <3>1 DEF AuthInv, PasswordInv
  <2> QED
    BY <2>1, <2>2, <2>3 DEF AuthInv
<1>4. CASE AuthRestart
  <2>1. creds' = creds
    BY <1>4 DEF AuthRestart, AuthInv, PasswordInv
  <2>2. AuthInv'
    BY <1>4, Started DEF AuthRestart
  <2> QED
    BY <2>1, <2>2
<1> QED
  BY <1>1, <1>2, <1>3, <1>4 DEF AuthNext

LEMMA AuthStutter ==
  ASSUME AuthInv, UNCHANGED authVars
  PROVE  AuthInv'
<1>1. UNCHANGED <<creds, credsDisk, rec, slots, sessions, authMu, handler>>
  BY DEF authVars, stores, limiter, tokens
<1>2. HandlersInv' /\ MuKept' /\ MuExclusive' /\ SlotsInv'
  BY <1>1 DEF AuthInv, HandlersInv, MuKept, MuExclusive, SlotsInv
<1>3. PasswordInv'
  BY <1>1 DEF AuthInv, PasswordInv, Clean
<1> QED
  BY <1>2, <1>3 DEF AuthInv

THEOREM AuthInvariant == Spec => []AuthInv
<1>1. Init => AuthInv
  BY AuthInitInv DEF Init
<1>2. AuthInv /\ [Next]_vars => AuthInv'
  <2> SUFFICES ASSUME AuthInv, [Next]_vars PROVE AuthInv'
    OBVIOUS
  <2>1. AuthNext \/ UNCHANGED authVars
    BY DEF Next, vars
  <2> QED
    BY <2>1, AuthStep, AuthStutter
<1> QED
  BY <1>1, <1>2, PTL DEF Spec

(* The limiter counts right, however many requests are served at a time:    *)
(* l.inflight is the number of records in flight, and each of them is owed  *)
(* its release by a handler of its key.                                     *)
THEOREM SlotsAreAccounted == Spec => []SlotsAccounted
<1>1. AuthInv => SlotsAccounted
  BY DEF AuthInv, SlotsInv, SlotsAccounted
<1> QED
  BY <1>1, AuthInvariant, PTL

(* Once no password change is under way, no session a login has left is of  *)
(* an older password.                                                       *)
THEOREM OldPasswordIsGone == Spec => []OldPasswordGone
<1>1. AuthInv => OldPasswordGone
  <2> SUFFICES ASSUME AuthInv, authMu.w = Nobody PROVE Clean
    BY DEF OldPasswordGone, Clean
  <2>1. ASSUME NEW t \in Handlers, Changing(handler[t]) PROVE FALSE
    <3> DEFINE h == handler[t]
    <3>1. PICK m \in 4 .. 5 : h.op = "password" /\ h.todo = After("password", m)
      BY <2>1 DEF Changing
    <3>2. "password" \in Ops /\ m \in 0 .. Len(Body("password")) - 1
      BY PasswordPlace
    <3>3. h.todo # <<>> /\ h.todo # <<"fail">>
      <4>1. Body("password")[m + 1] # "fail"
        BY DEF Body
      <4> QED
        BY <3>1, <3>2, <4>1, AfterSteps
    <3>4. InBody(h)
      BY <3>1, <3>3 DEF AuthInv, HandlersInv, Placed, Migrating
    <3>5. PICK n \in 0 .. Len(Body("password")) - 1 :
            h.todo = After("password", n) /\ (Owes(h, "unlock") <=> n >= LockAt("password"))
      BY <3>1, <3>4 DEF InBody
    <3>6. n = m
      BY <3>1, <3>2, <3>5, SamePlace
    <3>7. Owes(h, "unlock")
      BY <3>5, <3>6 DEF LockAt, Writers
    <3>8. authMu.w = t
      BY <3>1, <3>7 DEF AuthInv, MuKept, Writers
    <3> QED
      BY <3>8, NobodyAssumption
  <2> QED
    BY <2>1 DEF AuthInv, PasswordInv
<1> QED
  BY <1>1, AuthInvariant, PTL

(* A password is replaced under the write side of authMu, or is the first.  *)
THEOREM PasswordChangesAlone == Spec => PasswordChanges
<1>1. AuthInv /\ [Next]_vars =>
        [creds'.pw # creds.pw => creds.kind = "none" \/ authMu.w # Nobody]_authVars
  <2> SUFFICES ASSUME AuthInv, [Next]_vars
               PROVE  [creds'.pw # creds.pw => creds.kind = "none" \/ authMu.w # Nobody]_authVars
    OBVIOUS
  <2>1. AuthNext \/ UNCHANGED authVars
    BY DEF Next, vars
  <2> QED
    BY <2>1, AuthStep
<1> QED
  BY <1>1, AuthInvariant, PTL DEF Spec, PasswordChanges
===============================================================================
