----------------------------- MODULE DNSUpstream -----------------------------
(***************************************************************************)
(* One query to the upstream servers: the first is asked, and the next     *)
(* ones when it fails or is slow (resolveDNSUpstream and queryOneUpstream  *)
(* in masterdns/internal/udpserver/dns_tunnel.go).  Which servers are      *)
(* asked is decided by how many have been: they are asked in their order.  *)
(***************************************************************************)
EXTENDS Naturals, Sequences

CONSTANTS
  dnsUpstreamServers,             (* how many are configured                 *)
  maxConcurrentDNSUpstreamQueries

(* A server without upstream servers asks none. *)
ASSUME UpstreamAssumption ==
  dnsUpstreamServers \in Nat \ {0} /\ maxConcurrentDNSUpstreamQueries \in Nat \ {0}

VARIABLES
  next,      (* servers asked                                               *)
  inFlight,  (* asked and not taken note of                                 *)
  asking,    (* goroutines that still wait for their server                 *)
  resultCh,  (* what the others have sent                                   *)
  timeUp,    (* deadlineAt has passed                                       *)
  outcome    (* "none", "answer", "failed"                                  *)

upVars == <<next, inFlight, asking, resultCh, timeUp, outcome>>

(* Variant: a server that failed does not make room for the next one.       *)
NoneMore == UNCHANGED <<next, asking>> /\ inFlight' = inFlight - 1

(* launchNext, after "done" answers have been taken note of. *)
launchNext(done) ==
  LET left == inFlight - done
  IN IF next < dnsUpstreamServers /\ left < maxConcurrentDNSUpstreamQueries /\ ~timeUp
     THEN next' = next + 1 /\ asking' = asking + 1 /\ inFlight' = left + 1
     ELSE UNCHANGED <<next, asking>> /\ inFlight' = left

UpInit ==
  /\ next = 1 /\ inFlight = 1 /\ asking = 1
  /\ resultCh = <<>> /\ timeUp = FALSE /\ outcome = "none"

(* An answer that does not match the query is none. *)
queryOneUpstream ==
  /\ asking > 0
  /\ asking' = asking - 1
  /\ \E r \in {"answer", "nothing"} : resultCh' = Append(resultCh, r)
  /\ UNCHANGED <<next, inFlight, timeUp, outcome>>

Failed == launchNext(1)

TakeResult ==
  /\ outcome = "none" /\ inFlight > 0 /\ resultCh # <<>>
  /\ resultCh' = Tail(resultCh)
  /\ \/ /\ Head(resultCh) = "answer"
        /\ outcome' = "answer" /\ inFlight' = inFlight - 1
        /\ UNCHANGED <<next, asking>>
     \/ /\ Head(resultCh) = "nothing"
        /\ Failed
        /\ outcome' = IF inFlight' = 0 THEN "failed" ELSE "none"
  /\ UNCHANGED timeUp

Hedge ==
  /\ outcome = "none" /\ inFlight > 0
  /\ launchNext(0)
  /\ UNCHANGED <<resultCh, timeUp, outcome>>

TimeUp == ~timeUp /\ timeUp' = TRUE /\ UNCHANGED <<next, inFlight, asking, resultCh, outcome>>

Deadline ==
  /\ outcome = "none" /\ inFlight > 0 /\ timeUp
  /\ outcome' = "failed"
  /\ UNCHANGED <<next, inFlight, asking, resultCh, timeUp>>

UpNext == queryOneUpstream \/ TakeResult \/ Hedge \/ TimeUp \/ Deadline

------------------------------------------------------------------------------
(* While there is time a query fails only when every configured server was  *)
(* asked and none has answered; and never more than the limit are asked at  *)
(* once (resolveDNSUpstream).                                               *)
TriesEveryServer ==
  /\ outcome = "failed" /\ ~timeUp => next = dnsUpstreamServers /\ asking = 0 /\ resultCh = <<>>
  /\ inFlight <= maxConcurrentDNSUpstreamQueries
=============================================================================
