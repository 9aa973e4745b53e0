----------------------------- MODULE CookieTracker -----------------------------
(***************************************************************************)
(* The tracker of packets with a wrong session cookie                      *)
(* (masterdns/internal/udpserver/invalid_cookie_tracker.go): the server    *)
(* answers one only after a number of them within a window, and then not   *)
(* again for a window.  A key is what the packets have in common (session, *)
(* expected and received cookie, state).                                   *)
(***************************************************************************)
EXTENDS Naturals, SequencesExt

CONSTANTS
  Keys, maxRecords,
  invalidCookieWindow, invalidCookieThreshold,
  MaxClock             (* bound: the clock, which starts at 1                  *)

ASSUME CookieAssumption ==
  maxRecords \in Nat /\ {invalidCookieWindow, invalidCookieThreshold} \subseteq Nat \ {0}

VARIABLES
  records,             (* key -> [attempts, lastEmitAt]; NoRecord              *)
  clock,
  noted,               (* key -> the last packets, at most the threshold       *)
  answers              (* key -> when one was answered                         *)

trackerVars == <<records, clock, noted, answers>>

NoRecord == [attempts |-> <<>>, lastEmitAt |-> 0]
Records == {k \in Keys : records[k] # NoRecord}

TrackerInit ==
  /\ records = [k \in Keys |-> NoRecord] /\ clock = 1
  /\ noted = [k \in Keys |-> <<>>] /\ answers = [k \in Keys |-> <<>>]

(* The times are in order: what is too old is a beginning.                  *)
pruneAttemptTimes(values) ==
  LET Kept(i) == i > Len(values) \/ values[i] + invalidCookieWindow >= clock
      idx == CHOOSE i \in 1 .. Len(values) + 1 : Kept(i) /\ \A j \in 1 .. i - 1 : ~Kept(j)
  IN SubSeq(values, idx, Len(values))

(* At the limit the oldest makes room. *)
appendBoundedAttempt(values) ==
  Append(IF Len(values) < invalidCookieThreshold THEN values ELSE Tail(values), clock)

(* Variant: to make room, all go. *)
CleanupForgets == [k \in Keys |-> NoRecord]

(* A record goes when nothing of it is within the window.                   *)
cleanupLocked ==
  [k \in Keys |->
     LET kept == pruneAttemptTimes(records[k].attempts)
     IN IF kept = <<>> /\ records[k].lastEmitAt + invalidCookieWindow < clock THEN NoRecord
        ELSE [records[k] EXCEPT !.attempts = kept]]

Suppressed(r) ==
  \/ Len(r.attempts) < invalidCookieThreshold
  \/ r.lastEmitAt # 0 /\ clock - r.lastEmitAt < invalidCookieWindow

(* A packet with a wrong cookie; a new key needs room.                      *)
Note(k) ==
  LET rs == IF k \notin Records /\ Cardinality(Records) >= maxRecords THEN cleanupLocked
            ELSE records
      room == k \in Records \/ Cardinality({j \in Keys : rs[j] # NoRecord}) < maxRecords
      r == [rs[k] EXCEPT !.attempts = appendBoundedAttempt(pruneAttemptTimes(@))]
  IN /\ noted' = [noted EXCEPT ![k] = appendBoundedAttempt(@)]
     /\ \/ ~room /\ records' = rs /\ UNCHANGED answers
        \/ /\ room /\ Suppressed(r)
           /\ records' = [rs EXCEPT ![k] = r] /\ UNCHANGED answers
        \/ /\ room /\ ~Suppressed(r)
           /\ records' = [rs EXCEPT ![k] = [r EXCEPT !.lastEmitAt = clock]]
           /\ answers' = [answers EXCEPT ![k] = Append(@, clock)]
     /\ UNCHANGED clock

CleanupCookies ==
  /\ records' = cleanupLocked /\ UNCHANGED <<clock, noted, answers>>

TrackerTick == clock < MaxClock /\ clock' = clock + 1 /\ UNCHANGED <<records, noted, answers>>

TrackerNext == (\E k \in Keys : Note(k)) \/ CleanupCookies \/ TrackerTick

------------------------------------------------------------------------------
(* A wrong cookie is answered only after the threshold of such packets, all *)
(* within the window, and at least a window after the answer before, also   *)
(* when the record was dropped and made again in between (Note, Cleanup).   *)
EmitsApart ==
  [][\A k \in Keys : answers'[k] # answers[k] =>
       /\ Len(noted'[k]) = invalidCookieThreshold
       /\ clock - Head(noted'[k]) <= invalidCookieWindow
       /\ answers[k] # <<>> => clock - Last(answers[k]) >= invalidCookieWindow]_trackerVars
=============================================================================
