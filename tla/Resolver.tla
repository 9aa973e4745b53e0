------------------------------- MODULE Resolver -------------------------------
(***************************************************************************)
(* DNS through the tunnel: the fragments of a query are collected, the     *)
(* query is answered from the cache or by the upstream servers.  The three *)
(* parts hand values to each other (an assembled query, an answer) and     *)
(* share no state, so they are run side by side: "part" says which of them *)
(* moves in a behaviour.                                                   *)
(***************************************************************************)
EXTENDS FragmentStore, DNSUpstream, DNSResolver

VARIABLE part

vars == <<fragVars, upVars, dnsVars, part>>

Init == FragInit /\ UpInit /\ DNSInit /\ part \in {"fragments", "upstream", "cache"}

Next ==
  \/ part = "fragments" /\ FragNext /\ UNCHANGED <<upVars, dnsVars, part>>
  \/ part = "upstream" /\ UpNext /\ UNCHANGED <<fragVars, dnsVars, part>>
  \/ part = "cache" /\ DNSNext /\ UNCHANGED <<fragVars, upVars, part>>

Spec == Init /\ [][Next]_vars

(* The budgets of the two stores, each with its own limits.                 *)
BudgetsExact == FragmentBudget /\ CacheBudget
=============================================================================
