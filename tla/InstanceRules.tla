---------------------------- MODULE InstanceRules ----------------------------
(***************************************************************************)
(* Which lists of instances the panel stores and which the server loads.   *)
(* Two programs decide that on their own: the panel when it commits a      *)
(* change (cmd/zanoza-panel/main.go, config.go, domain.go) and the server  *)
(* when it reads keyring.json (masterdns/internal/keyring/keyring.go).     *)
(*                                                                         *)
(* An instance is a record [id, dom, key, plain, method]: "plain" is FALSE *)
(* when the domain is spelled with its root dot and the key with spaces    *)
(* around it, which both programs remove.  A list is a set of records; its *)
(* order decides nothing but which error is reported.                      *)
(***************************************************************************)
EXTENDS Naturals, FiniteSets

CONSTANT MaxInstances   (* maxInstances in the panel, maxKeyringEntries in the server *)

ASSUME InstancesAssumption == MaxInstances \in Nat

canonicalDomain(in) == [in EXCEPT !.plain = TRUE]

(* From method 2 on a cipher authenticates what it decrypts. *)
isAEADMethod(method) == method >= 2

(* Instances of the list on the same domain, but the one being edited.  The *)
(* spelling of a stored domain is compared as it stands.                    *)
Siblings(list, in) == {s \in list : s.id # in.id /\ s.dom = in.dom /\ s.plain}

validateInstance(list, in) ==
  /\ in.method \in 0 .. 5
  /\ \A s \in Siblings(list, in) : s.key # in.key
  /\ Siblings(list, in) # {} =>
       /\ isAEADMethod(in.method)
       /\ \A s \in Siblings(list, in) : isAEADMethod(s.method)

Canonical(list) == {canonicalDomain(in) : in \in list}

(* Variant: the list is checked as it is spelled. *)
ValidateAsSpelled(list) ==
  /\ Cardinality(list) <= MaxInstances
  /\ \A a, b \in list : a.id = b.id => a = b
  /\ \A in \in list : validateInstance(list, in)

canonicalizeAndValidateInstances(list) ==
  /\ Cardinality(list) <= MaxInstances
  /\ \A a, b \in list : a.id = b.id => a = b
  /\ \A in \in Canonical(list) : validateInstance(Canonical(list), in)

(* What the server does with the entries of a keyring: two entries of one   *)
(* canonical domain need different keys and authenticating ciphers.         *)
FromEntries(entries) ==
  /\ Cardinality(entries) <= MaxInstances
  /\ \A e \in entries : e.method \in 0 .. 5
  /\ \A a, b \in entries : a # b /\ a.dom = b.dom =>
       /\ a.key # b.key
       /\ isAEADMethod(a.method)
=============================================================================
