----------------------------- MODULE SessionTable -----------------------------
(***************************************************************************)
(* The server's table of sessions (sessionStore in                         *)
(* masterdns/internal/udpserver/session.go): its slots, the index of       *)
(* handshakes that may be repeated, and what it remembers of closed        *)
(* sessions.  Every operation holds the store's lock, except that a        *)
(* SESSION_CLOSE looks the session up and then closes it                   *)
(* (handleSessionCloseNotice in server_session.go).                        *)
(*                                                                         *)
(* A handshake (the SESSION_INIT payload) is a signature; times are whole  *)
(* numbers and start at 1, since 0 stands for "never" in the code.  A      *)
(* session's cookie is not in the model: a packet that has the cookie of   *)
(* a session is one of that session.                                       *)
(***************************************************************************)
EXTENDS Naturals, FiniteSetsExt

CONSTANTS
  Signatures,
  maxServerSessionID, maxActiveSessions,
  sessionInitTTL, SessionTimeout, deferredIdleCleanupTimeout, ClosedSessionRetention,
  MaxNow               (* bound: the clock                                     *)

ASSUME SlotsAssumption ==
  /\ maxServerSessionID \in Nat \ {0} /\ maxActiveSessions \in Nat
  /\ sessionInitTTL \in Nat /\ ClosedSessionRetention \in Nat

VARIABLES
  byID,                (* slot -> session, Free                                *)
  bySig,               (* signature -> slot, 0 for none                        *)
  recentClosed,        (* slot -> when it is forgotten, 0 for none             *)
  activeCount, nextID, nextReuseSweep,
  notice,              (* a SESSION_CLOSE between its lookup and its Close     *)
  now

storeVars == <<byID, bySig, recentClosed, activeCount, nextID, nextReuseSweep, notice, now>>

Slots == 1 .. maxServerSessionID
Free == [sig |-> "none"]
Live == {i \in Slots : byID[i] # Free}

StoreInit ==
  /\ byID = [i \in Slots |-> Free] /\ bySig = [g \in Signatures |-> 0]
  /\ recentClosed = [i \in Slots |-> 0]
  /\ activeCount = 0 /\ nextID = 1 /\ nextReuseSweep = 0
  /\ notice = 0 /\ now = 1

(* The count goes down by n and never below nothing. *)
Less(n) == IF activeCount > n THEN activeCount - n ELSE 0

(* The index without the handshakes whose time is over: looked at only when *)
(* the first of them is due.                                                *)
expireReuseLocked ==
  LET kept == {g \in Signatures : bySig[g] \in Live /\ now <= byID[bySig[g]].reuseUntil}
  IN IF \A g \in Signatures : bySig[g] = 0
     THEN [bySig |-> bySig, next |-> 0]
     ELSE IF nextReuseSweep # 0 /\ now < nextReuseSweep
     THEN [bySig |-> bySig, next |-> nextReuseSweep]
     ELSE [bySig |-> [g \in Signatures |-> IF g \in kept THEN bySig[g] ELSE 0],
           next |-> IF kept = {} THEN 0
                    ELSE Min({byID[bySig[g]].reuseUntil : g \in kept})]

(* The first free slot from nextID on, round the table; 0 if there is none. *)
allocateSlotLocked ==
  LET Distance(i) == IF i >= nextID THEN i - nextID ELSE i - nextID + maxServerSessionID
      free == Slots \ Live
  IN IF activeCount >= maxActiveSessions \/ free = {} THEN 0
     ELSE CHOOSE i \in free : \A j \in free : Distance(i) <= Distance(j)

nextSessionID(current) == IF current >= maxServerSessionID THEN 1 ELSE current + 1

updateNextReuseSweepLocked(next, until) == IF next = 0 \/ until < next THEN until ELSE next

(* A handshake.  One that is repeated in time gets the session it made; a   *)
(* new one gets a slot and a cookie, if there is a slot and the generator   *)
(* does not fail.                                                           *)
findOrCreate(g) ==
  LET index == expireReuseLocked
      s == index.bySig[g]
      slot == allocateSlotLocked
      until == now + sessionInitTTL
  IN /\ \/ /\ s \in Live /\ now <= byID[s].reuseUntil
           /\ byID' = [byID EXCEPT ![s].lastActivity = now]
           /\ bySig' = index.bySig /\ nextReuseSweep' = index.next
           /\ UNCHANGED <<recentClosed, activeCount, nextID>>
        \/ /\ ~(s \in Live /\ now <= byID[s].reuseUntil)
           /\ bySig' = [index.bySig EXCEPT ![g] = 0] /\ nextReuseSweep' = index.next
           /\ UNCHANGED <<byID, recentClosed, activeCount, nextID>>
        \/ /\ ~(s \in Live /\ now <= byID[s].reuseUntil) /\ slot # 0
           /\ byID' = [byID EXCEPT ![slot] =
                         [sig |-> g, reuseUntil |-> until,
                          lastActivity |-> now, deferredCleanup |-> 0]]
           /\ activeCount' = activeCount + 1
           /\ bySig' = [index.bySig EXCEPT ![g] = slot]
           /\ nextReuseSweep' = updateNextReuseSweepLocked(index.next, until)
           /\ recentClosed' = [recentClosed EXCEPT ![slot] = 0]
           /\ nextID' = nextSessionID(slot)
     /\ UNCHANGED <<notice, now>>

handleSessionInitRequest == \E g \in Signatures : findOrCreate(g)

(* A packet of a session, with its cookie; any other changes nothing here.  *)
ValidateAndTouch ==
  /\ \E i \in Live : byID' = [byID EXCEPT ![i].lastActivity = now]
  /\ UNCHANGED <<bySig, recentClosed, activeCount, nextID, nextReuseSweep, notice, now>>

(* SESSION_CLOSE with the session's cookie: the session is found ...        *)
Lookup ==
  /\ notice = 0
  /\ \E i \in Live : notice' = i
  /\ UNCHANGED <<byID, bySig, recentClosed, activeCount, nextID, nextReuseSweep, now>>

(* Variant: the handshake stays in the index. *)
CloseKeepsSignature(i) ==
  /\ UNCHANGED bySig
  /\ byID' = [byID EXCEPT ![i] = Free] /\ activeCount' = Less(1)
  /\ recentClosed' = [recentClosed EXCEPT ![i] = now + ClosedSessionRetention]

Close(i) ==
  /\ bySig' = [bySig EXCEPT ![byID[i].sig] = 0]
  /\ byID' = [byID EXCEPT ![i] = Free] /\ activeCount' = Less(1)
  /\ recentClosed' = [recentClosed EXCEPT ![i] = now + ClosedSessionRetention]

(* ... and whatever session has the slot by then is closed.                 *)
handleSessionCloseNotice ==
  /\ notice # 0 /\ notice' = 0
  /\ IF notice \in Live THEN Close(notice)
     ELSE UNCHANGED <<byID, bySig, recentClosed, activeCount>>
  /\ UNCHANGED <<nextID, nextReuseSweep, now>>

(* The cleanup loop: handshakes, memories and idle sessions whose time is   *)
(* over.                                                                    *)
Cleanup ==
  LET index == expireReuseLocked
      idle == {i \in Live : now - byID[i].lastActivity >= SessionTimeout}
  IN /\ bySig' = [g \in Signatures |->
                    IF \E i \in idle : byID[i].sig = g THEN 0 ELSE index.bySig[g]]
     /\ nextReuseSweep' = index.next
     /\ byID' = [i \in Slots |-> IF i \in idle THEN Free ELSE byID[i]]
     /\ activeCount' = Less(Cardinality(idle))
     /\ recentClosed' = [i \in Slots |->
                           IF i \in idle THEN now + ClosedSessionRetention
                           ELSE IF now >= recentClosed[i] THEN 0 ELSE recentClosed[i]]
     /\ UNCHANGED <<nextID, notice, now>>

(* Sessions whose deferred tasks are dropped: once for every idle time.     *)
CollectIdleDeferredSessions ==
  LET idle == {i \in Live : /\ now - byID[i].lastActivity >= deferredIdleCleanupTimeout
                            /\ byID[i].deferredCleanup # byID[i].lastActivity}
  IN /\ idle # {}
     /\ byID' = [i \in Slots |->
                   IF i \in idle THEN [byID[i] EXCEPT !.deferredCleanup = byID[i].lastActivity]
                   ELSE byID[i]]
     /\ UNCHANGED <<bySig, recentClosed, activeCount, nextID, nextReuseSweep, notice, now>>

Tick ==
  /\ now < MaxNow /\ now' = now + 1
  /\ UNCHANGED <<byID, bySig, recentClosed, activeCount, nextID, nextReuseSweep, notice>>

StoreNext ==
  \/ handleSessionInitRequest
  \/ ValidateAndTouch \/ Lookup \/ handleSessionCloseNotice
  \/ Cleanup \/ CollectIdleDeferredSessions \/ Tick

------------------------------------------------------------------------------
(* A handshake that is repeated gets the session it made and never one that *)
(* another client has since got the slot for: findOrCreate takes whatever   *)
(* session the indexed slot holds.  The index is looked at again before the *)
(* first of its entries is due, the count is that of the live sessions, and *)
(* only a slot that is free is remembered as closed (findOrCreate, Close,   *)
(* Cleanup, expireReuseLocked).                                             *)
NoSharedSession ==
  /\ \A g \in Signatures : bySig[g] # 0 =>
       /\ bySig[g] \in Live /\ byID[bySig[g]].sig = g
       /\ nextReuseSweep \in 1 .. byID[bySig[g]].reuseUntil
  /\ activeCount = Cardinality(Live) /\ activeCount <= maxActiveSessions
  /\ \A i \in Live : recentClosed[i] = 0
=============================================================================
