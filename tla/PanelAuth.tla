------------------------------ MODULE PanelAuth ------------------------------
(***************************************************************************)
(* Signing in to the panel: credentials, the setup token, the second       *)
(* factor, the limiter of attempts, sessions and tickets (auth.go, mfa.go, *)
(* setup.go, mfa_handlers.go and the auth handlers of main.go).            *)
(*                                                                         *)
(* A handler runs the steps of its body and then what it has deferred.     *)
(* The locks of the stores (c.mu, m.mu, l.mu, s.mu) are held within a step *)
(* and leave no trace; authMu is held across steps and is modelled.  A     *)
(* password is a number: 0 is none, and each new one is the next number.   *)
(* Time is not counted: what may expire may do so at any step.             *)
(***************************************************************************)
EXTENDS Naturals, Sequences, FiniteSets

CONSTANTS
  Handlers,     (* goroutines that serve requests, all from one address      *)
  Nobody,       (* who holds authMu when no handler does                     *)
  MaxFail,      (* failures before a key is locked                           *)
  Cap,          (* keys the limiter tracks                                   *)
  MaxInflight,  (* checks that may run at once                               *)
  MaxCalls,     (* bound: requests                                           *)
  MaxMishaps    (* bound: failed writes, expired tickets, restarts           *)

(* Nobody stands for the free lock. *)
ASSUME NobodyAssumption == Nobody \notin Handlers

VARIABLES
  creds, credsDisk,  (* [kind, pw] in memory and in panel.env                *)
  gate,              (* the setup token is open                              *)
  mfa, mfaDisk,      (* [enabled, pending, prompted] in memory and in mfa.json *)
  rec, slots,        (* l.attempts and l.inflight                            *)
  sessions,          (* of each: the password and the handler it came by     *)
  tickets,           (* [id, kind, pw]                                       *)
  authMu,            (* [w, r]: the writer and the readers of s.authMu       *)
  handler,           (* what each handler still has to do                    *)
  calls, mishaps     (* bounds: requests and mishaps so far                  *)

stores == <<creds, credsDisk, gate, mfa, mfaDisk>>
limiter == <<rec, slots>>
tokens == <<sessions, tickets>>
authVars == <<stores, limiter, tokens, authMu, handler, calls, mishaps>>

Ops == {"setup", "login", "logout", "password", "verify2", "start2", "confirm2", "skip2", "disable2"}

(* The limiter's key is made of the address and of what is attempted. *)
Keys == {"login", "password", "mfa"}
limitKey(op) == IF op \in {"login", "password"} THEN op ELSE "mfa"

MFABody(op) ==
  CASE op = "verify2"  -> <<"allowed", "valid", "code", "consume", "reset", "issue">>
    [] op = "start2"   -> <<"who", "startSetup">>
    [] op = "confirm2" -> <<"who", "allowed", "lock", "confirmSetup", "consume", "reset",
                            "revokeSessions", "revokeTickets", "issue">>
    [] op = "skip2"    -> <<"consume", "status", "lock", "skipSetup", "issue">>
    [] op = "disable2" -> <<"authenticated", "allowed", "lock", "disable", "reset",
                            "revokeSessions", "revokeTickets", "issue">>

Body(op) ==
  CASE op = "setup"    -> <<"check", "createInitial", "consumeGate", "setupTicket">>
    [] op = "login"    -> <<"allowed", "rlock", "verify", "reset", "respond", "issue">>
    [] op = "logout"   -> <<"revoke">>
    [] op = "password" -> <<"authenticated", "allowed", "lock", "changePassword", "reset",
                            "revokeSessions", "revokeTickets">>
    [] OTHER           -> MFABody(op)

Resting == [op |-> "none", no |-> 0, todo |-> <<>>, defers |-> <<>>, pw |-> 0, ticket |-> 0,
            authed |-> FALSE]
Untracked == [tracked |-> FALSE, count |-> 0, locked |-> FALSE, inflight |-> FALSE]
NoMFA == [enabled |-> FALSE, pending |-> FALSE, prompted |-> FALSE]

(* The panel starts on a fresh disk or on that of an older release. *)
AuthInit ==
  /\ creds \in {[kind |-> "none", pw |-> 0], [kind |-> "legacy", pw |-> 1]}
  /\ credsDisk = creds /\ gate = (creds.kind = "none")
  /\ mfa = NoMFA /\ mfaDisk = NoMFA
  /\ rec = [k \in Keys |-> Untracked] /\ slots = 0
  /\ sessions = {} /\ tickets = {}
  /\ authMu = [w |-> Nobody, r |-> {}]
  /\ handler = [t \in Handlers |-> Resting]
  /\ calls = 0 /\ mishaps = 0

------------------------------------------------------------------------------
(* How a handler goes on. *)

Mishap == mishaps < MaxMishaps /\ mishaps' = mishaps + 1

Rest(h) == IF h.todo = <<>> /\ h.defers = <<>> THEN Resting ELSE h
Popped(h) == Rest(IF h.todo # <<>> THEN [h EXCEPT !.todo = Tail(@)] ELSE [h EXCEPT !.defers = Tail(@)])
Onward(t) == handler' = [handler EXCEPT ![t] = Popped(@)]
Owing(h, d) == [h EXCEPT !.defers = <<d>> \o h.defers]
Deferring(t, d) == handler' = [handler EXCEPT ![t] = Owing(Popped(@), d)]
Return(t) == handler' = [handler EXCEPT ![t] = Rest([@ EXCEPT !.todo = <<>>])]
Reject(t) == handler' = [handler EXCEPT ![t].todo = <<"fail">>]

At(t, step) ==
  LET h == handler[t]
  IN IF h.todo # <<>> THEN Head(h.todo) = step ELSE h.defers # <<>> /\ Head(h.defers) = step

Held(t) == {k \in tickets : k.id = handler[t].ticket}

(* A request names a ticket that was given out, or none. *)
Serve(t) ==
  /\ handler[t] = Resting /\ calls < MaxCalls
  /\ calls' = calls + 1
  /\ \E op \in Ops, id \in {0} \union {k.id : k \in tickets} :
       handler' = [handler EXCEPT ![t] = [Resting EXCEPT !.op = op, !.no = calls', !.todo = Body(op), !.ticket = id]]
  /\ UNCHANGED <<stores, limiter, tokens, authMu, mishaps>>

------------------------------------------------------------------------------
(* The limiter. *)

Room(r) == Cardinality({k \in Keys : r[k].tracked}) < Cap

(* Variant: a record that is in flight is dropped like any other. *)
EvictInflight(r) ==
  {[k \in Keys |-> IF k \in E THEN Untracked ELSE r[k]] : E \in SUBSET Keys}

evictLocked(r) ==
  {[k \in Keys |-> IF k \in E THEN Untracked ELSE r[k]] :
     E \in SUBSET {k \in Keys : ~r[k].inflight}}

allowed(t) ==
  LET key == limitKey(handler[t].op)
  IN /\ At(t, "allowed")
     /\ \E r \in IF ~rec[key].tracked /\ ~Room(rec) THEN evictLocked(rec) ELSE {rec} :
          \/ /\ slots < MaxInflight /\ ~r[key].inflight
             /\ r[key].tracked \/ Room(r)
             /\ rec' = [r EXCEPT ![key] = [tracked |-> TRUE, inflight |-> TRUE, locked |-> FALSE,
                                           count |-> IF r[key].locked THEN 0 ELSE @.count]]
             /\ slots' = slots + 1
             /\ Deferring(t, "release")
          \/ /\ slots >= MaxInflight \/ r[key].inflight \/ r[key].locked
                  \/ (~r[key].tracked /\ ~Room(r))
             /\ rec' = r /\ UNCHANGED slots
             /\ Return(t)
     /\ UNCHANGED <<stores, tokens, authMu, calls, mishaps>>

fail(t) ==
  LET key == limitKey(handler[t].op)
  IN /\ At(t, "fail")
     /\ \E r \in IF Room(rec) THEN {rec} ELSE evictLocked(rec) :
          IF r[key].tracked \/ Room(r)
          THEN /\ rec' = [r EXCEPT ![key] =
                    [tracked |-> TRUE, inflight |-> FALSE,
                     count |-> IF @.count + 1 >= MaxFail THEN 0 ELSE @.count + 1,
                     locked |-> @.locked \/ @.count + 1 >= MaxFail]]
               /\ slots' = IF r[key].inflight /\ slots > 0 THEN slots - 1 ELSE slots
          ELSE rec' = r /\ UNCHANGED slots
     /\ Onward(t)
     /\ UNCHANGED <<stores, tokens, authMu, calls, mishaps>>

(* reset forgets the key, release keeps its record. *)
GiveBack(t, step, left) ==
  LET key == limitKey(handler[t].op)
  IN /\ At(t, step)
     /\ slots' = IF rec[key].inflight /\ slots > 0 THEN slots - 1 ELSE slots
     /\ rec' = [rec EXCEPT ![key] = left]
     /\ Onward(t)
     /\ UNCHANGED <<stores, tokens, authMu, calls, mishaps>>

reset(t) == GiveBack(t, "reset", Untracked)
release(t) == GiveBack(t, "release", [rec[limitKey(handler[t].op)] EXCEPT !.inflight = FALSE])

------------------------------------------------------------------------------
(* authMu. *)

(* Variant: a login does not take the read side. *)
NoReadLock(t) ==
  /\ At(t, "rlock") /\ Onward(t)
  /\ UNCHANGED <<stores, limiter, tokens, authMu, calls, mishaps>>

RLock(t) ==
  /\ At(t, "rlock") /\ authMu.w = Nobody
  /\ authMu' = [authMu EXCEPT !.r = @ \union {t}]
  /\ Deferring(t, "unlock")
  /\ UNCHANGED <<stores, limiter, tokens, calls, mishaps>>

Lock(t) ==
  /\ At(t, "lock") /\ authMu.w = Nobody /\ authMu.r = {}
  /\ authMu' = [authMu EXCEPT !.w = t]
  /\ Deferring(t, "unlock")
  /\ UNCHANGED <<stores, limiter, tokens, calls, mishaps>>

Unlock(t) ==
  /\ At(t, "unlock")
  /\ authMu' = [w |-> IF authMu.w = t THEN Nobody ELSE authMu.w, r |-> authMu.r \ {t}]
  /\ Onward(t)
  /\ UNCHANGED <<stores, limiter, tokens, calls, mishaps>>

------------------------------------------------------------------------------
(* Credentials.  They are written before they are published; a write that   *)
(* fails changes nothing.                                                   *)

Set(kind, pw) == creds' = [kind |-> kind, pw |-> pw] /\ credsDisk' = creds'

Passwords == 0 .. MaxCalls + 1
(* Nobody has used it: neither the stored password nor one somebody still   *)
(* holds.                                                                   *)
FreshPassword == CHOOSE p \in Passwords : \A q \in {creds.pw} \union {handler[t].pw : t \in Handlers}
                                                \union {s.pw : s \in sessions} : p > q

(* The password given is right or wrong; a right one of an old release is   *)
(* stored anew in a step of its own.                                        *)
verify(t) ==
  /\ At(t, "verify")
  /\ \/ /\ creds.kind # "none"
        /\ handler' = [handler EXCEPT ![t] =
             IF creds.kind = "legacy" THEN [@ EXCEPT !.pw = creds.pw, !.todo = <<"migrate">> \o Tail(handler[t].todo)]
                                      ELSE [Popped(@) EXCEPT !.pw = creds.pw]]
     \/ Reject(t)
  /\ UNCHANGED <<stores, limiter, tokens, authMu, calls, mishaps>>

set(t) ==
  /\ At(t, "migrate")
  /\ \/ Set("bcrypt", handler[t].pw) /\ UNCHANGED mishaps
     \/ Mishap /\ UNCHANGED <<creds, credsDisk>>
  /\ Onward(t)
  /\ UNCHANGED <<gate, mfa, mfaDisk, limiter, tokens, authMu, calls>>

changePassword(t) ==
  /\ At(t, "changePassword")
  /\ \/ creds.kind # "none" /\ Set("bcrypt", FreshPassword) /\ Onward(t) /\ UNCHANGED mishaps
     \/ Mishap /\ Return(t) /\ UNCHANGED <<creds, credsDisk>>
     \/ Reject(t) /\ UNCHANGED <<creds, credsDisk, mishaps>>
  /\ UNCHANGED <<gate, mfa, mfaDisk, limiter, tokens, authMu, calls>>

(* The token is checked, and createInitial looks a first time. *)
CheckSetup(t) ==
  /\ At(t, "check")
  /\ IF gate /\ creds.kind = "none" THEN Onward(t) ELSE Return(t)
  /\ UNCHANGED <<stores, limiter, tokens, authMu, calls, mishaps>>

(* Variant: createInitial does not look again after it has hashed. *)
CreateUnchecked(t) ==
  /\ At(t, "createInitial")
  /\ Set("bcrypt", FreshPassword)
  /\ handler' = [handler EXCEPT ![t] = [Popped(@) EXCEPT !.pw = creds'.pw]]
  /\ UNCHANGED <<gate, mfa, mfaDisk, limiter, tokens, authMu, calls, mishaps>>

createInitial(t) ==
  /\ At(t, "createInitial")
  /\ \/ /\ creds.kind = "none" /\ Set("bcrypt", FreshPassword)
        /\ handler' = [handler EXCEPT ![t] = [Popped(@) EXCEPT !.pw = creds'.pw]]
        /\ UNCHANGED mishaps
     \/ creds.kind # "none" /\ Return(t) /\ UNCHANGED <<creds, credsDisk, mishaps>>
     \/ Mishap /\ Return(t) /\ UNCHANGED <<creds, credsDisk>>
  /\ UNCHANGED <<gate, mfa, mfaDisk, limiter, tokens, authMu, calls>>

consumeGate(t) ==
  /\ At(t, "consumeGate")
  /\ gate' = FALSE /\ Onward(t)
  /\ UNCHANGED <<creds, credsDisk, mfa, mfaDisk, limiter, tokens, authMu, calls, mishaps>>

------------------------------------------------------------------------------
(* Sessions and tickets. *)

(* A token is unique: the number of the request that made it. *)
create(t, kind) ==
  tickets' = tickets \union {[id |-> handler[t].no, kind |-> kind, pw |-> handler[t].pw]}

setupTicket(t) ==
  /\ At(t, "setupTicket")
  /\ create(t, "setup") /\ Onward(t)
  /\ UNCHANGED <<stores, limiter, sessions, authMu, calls, mishaps>>

(* mfaLoginResponse: a ticket for the second factor, one for setting it up, *)
(* or a session at once.                                                    *)
respond(t) ==
  /\ At(t, "respond")
  /\ IF mfa.enabled \/ ~mfa.prompted
     THEN create(t, IF mfa.enabled THEN "verify" ELSE "setup") /\ Return(t)
     ELSE UNCHANGED tickets /\ Onward(t)
  /\ UNCHANGED <<stores, limiter, sessions, authMu, calls, mishaps>>

issueSession(t) ==
  /\ At(t, "issue")
  /\ \/ sessions' = sessions \union {[pw |-> handler[t].pw, by |-> handler[t].op]} /\ UNCHANGED mishaps
     \/ Mishap /\ UNCHANGED sessions
  /\ Onward(t)
  /\ UNCHANGED <<stores, limiter, tickets, authMu, calls>>

(* authenticated: the request carries a live session. *)
Authenticated(t) ==
  /\ At(t, "authenticated")
  /\ \/ \E s \in sessions : handler' = [handler EXCEPT ![t] = [Popped(@) EXCEPT !.pw = s.pw]]
     \/ Return(t)
  /\ UNCHANGED <<stores, limiter, tokens, authMu, calls, mishaps>>

Kind(t) == IF handler[t].op = "verify2" THEN "verify" ELSE "setup"

(* valid drops a ticket of the wrong kind. *)
valid(t) ==
  /\ At(t, "valid")
  /\ tickets' = {k \in tickets : k \in Held(t) => k.kind = Kind(t)}
  /\ IF \E k \in Held(t) : k.kind = Kind(t) THEN Onward(t) ELSE Reject(t)
  /\ UNCHANGED <<stores, limiter, sessions, authMu, calls, mishaps>>

(* A live session, or a ticket for setting up. *)
Who(t) ==
  /\ At(t, "who")
  /\ \/ /\ sessions # {} /\ UNCHANGED tickets
        /\ \E s \in sessions :
             handler' = [handler EXCEPT ![t] = [Popped(@) EXCEPT !.authed = TRUE, !.pw = s.pw]]
     \/ /\ tickets' = {k \in tickets : k \in Held(t) => k.kind = "setup"}
        /\ IF \E k \in Held(t) : k.kind = "setup" THEN Onward(t) ELSE Return(t)
  /\ UNCHANGED <<stores, limiter, sessions, authMu, calls, mishaps>>

consume(t) ==
  /\ At(t, "consume")
  /\ IF handler[t].authed THEN UNCHANGED tickets /\ Onward(t)
     ELSE /\ tickets' = tickets \ Held(t)
          /\ IF \E k \in Held(t) : k.kind = Kind(t)
             THEN handler' = [handler EXCEPT ![t] =
                    [Popped(@) EXCEPT !.pw = (CHOOSE k \in Held(t) : TRUE).pw]]
             ELSE Return(t)
  /\ UNCHANGED <<stores, limiter, sessions, authMu, calls, mishaps>>

revoke(t) ==
  /\ At(t, "revoke") /\ Onward(t)
  /\ \E s \in SUBSET sessions : Cardinality(s) <= 1 /\ sessions' = sessions \ s
  /\ UNCHANGED <<stores, limiter, tickets, authMu, calls, mishaps>>

RevokeSessions(t) ==
  /\ At(t, "revokeSessions") /\ Onward(t)
  /\ sessions' = {}
  /\ UNCHANGED <<stores, limiter, tickets, authMu, calls, mishaps>>

RevokeTickets(t) ==
  /\ At(t, "revokeTickets") /\ Onward(t)
  /\ tickets' = {}
  /\ UNCHANGED <<stores, limiter, sessions, authMu, calls, mishaps>>

(* Sessions and tickets expire, and are swept. *)
Expire ==
  /\ Mishap
  /\ \E s \in SUBSET sessions, k \in SUBSET tickets :
       /\ Cardinality(s) + Cardinality(k) = 1
       /\ sessions' = sessions \ s /\ tickets' = tickets \ k
  /\ UNCHANGED <<stores, limiter, authMu, handler, calls>>

------------------------------------------------------------------------------
(* The second factor.  The state in memory is changed first: it stays       *)
(* changed when it cannot be written.                                       *)

persist(t, onError) ==
  \/ mfaDisk' = mfa' /\ Onward(t) /\ UNCHANGED mishaps
  \/ Mishap /\ onError /\ UNCHANGED mfaDisk

startSetup(t) ==
  /\ At(t, "startSetup")
  /\ mfa' = [mfa EXCEPT !.pending = TRUE]
  /\ persist(t, Return(t))
  /\ UNCHANGED <<creds, credsDisk, gate, limiter, tokens, authMu, calls>>

(* Every step asks for a code, which may be wrong. *)
confirmSetup(t) ==
  /\ At(t, "confirmSetup")
  /\ \/ /\ mfa.pending
        /\ mfa' = [enabled |-> TRUE, pending |-> FALSE, prompted |-> TRUE]
        /\ persist(t, Reject(t))
     \/ Reject(t) /\ UNCHANGED <<mfa, mfaDisk, mishaps>>
  /\ UNCHANGED <<creds, credsDisk, gate, limiter, tokens, authMu, calls>>

(* The caller of skip has consumed its ticket and seen that the second      *)
(* factor is off.                                                           *)
Status(t) ==
  /\ At(t, "status")
  /\ IF mfa.enabled THEN Return(t) ELSE Onward(t)
  /\ UNCHANGED <<stores, limiter, tokens, authMu, calls, mishaps>>

skipSetup(t) ==
  /\ At(t, "skipSetup")
  /\ mfa' = [mfa EXCEPT !.pending = FALSE, !.prompted = TRUE]
  /\ persist(t, Return(t))
  /\ UNCHANGED <<creds, credsDisk, gate, limiter, tokens, authMu, calls>>

disable(t) ==
  /\ At(t, "disable")
  /\ \/ /\ mfa' = [enabled |-> FALSE, pending |-> FALSE, prompted |-> TRUE]
        /\ persist(t, Reject(t))
     \/ mfa.enabled /\ Reject(t) /\ UNCHANGED <<mfa, mfaDisk, mishaps>>
  /\ UNCHANGED <<creds, credsDisk, gate, limiter, tokens, authMu, calls>>

Code(t) ==
  /\ At(t, "code")
  /\ (mfa.enabled /\ Onward(t)) \/ Reject(t)
  /\ UNCHANGED <<stores, limiter, tokens, authMu, calls, mishaps>>

------------------------------------------------------------------------------
(* The panel ends, and starts on what it finds on disk. *)
AuthRestart ==
  /\ Mishap
  /\ creds' = credsDisk /\ mfa' = mfaDisk
  /\ gate' = (credsDisk.kind = "none")
  /\ rec' = [k \in Keys |-> Untracked] /\ slots' = 0
  /\ sessions' = {} /\ tickets' = {}
  /\ authMu' = [w |-> Nobody, r |-> {}]
  /\ handler' = [t \in Handlers |-> Resting]
  /\ UNCHANGED <<credsDisk, mfaDisk, calls>>

HandlerStep(t) ==
  \/ allowed(t) \/ fail(t) \/ reset(t) \/ release(t)
  \/ RLock(t) \/ Lock(t) \/ Unlock(t)
  \/ verify(t) \/ set(t) \/ changePassword(t)
  \/ CheckSetup(t) \/ createInitial(t) \/ consumeGate(t) \/ setupTicket(t)
  \/ respond(t) \/ issueSession(t) \/ Authenticated(t) \/ Who(t)
  \/ valid(t) \/ consume(t) \/ revoke(t) \/ RevokeSessions(t) \/ RevokeTickets(t)
  \/ startSetup(t) \/ confirmSetup(t) \/ Status(t) \/ skipSetup(t) \/ disable(t) \/ Code(t)

AuthNext ==
  \/ \E t \in Handlers : Serve(t) \/ HandlerStep(t)
  \/ Expire \/ AuthRestart

------------------------------------------------------------------------------
(* The limiter counts right: l.inflight is the number of records marked in  *)
(* flight, and a mark never outlives the handlers of its key (allowed,      *)
(* fail, reset, release and evictLocked).  A slot lost would shrink the     *)
(* panel's capacity to sign anybody in until it is started again.           *)
SlotsAccounted ==
  /\ slots = Cardinality({k \in Keys : rec[k].inflight})
  /\ \A k \in Keys : rec[k].inflight =>
       \E t \in Handlers : handler[t].op # "none" /\ limitKey(handler[t].op) = k

(* When no password change is under way, no login has left a session of an  *)
(* older password (handleAuthLogin, handleAuthPassword): a login that       *)
(* verified the old one has its session revoked, or is refused.             *)
OldPasswordGone ==
  authMu.w = Nobody => \A s \in sessions : s.by = "login" => s.pw = creds.pw

(* A password is replaced by one who holds the write side of authMu, or is  *)
(* the first one: two setups make one owner, and storing an old release's   *)
(* password anew never undoes a change (createInitial, verify, set,         *)
(* changePassword).                                                         *)
PasswordChanges ==
  [][creds'.pw # creds.pw => creds.kind = "none" \/ authMu.w # Nobody]_authVars
=============================================================================
