------------------------------- MODULE ByteSums -------------------------------
(***************************************************************************)
(* The sum of a sequence of sizes: what the byte counters of the stores    *)
(* stand for.                                                              *)
(***************************************************************************)
EXTENDS Integers, Sequences

(* A function and not a fold, so that proofs can unfold it.                 *)
Total(sizes) ==
  LET upTo[n \in 0 .. Len(sizes)] == IF n = 0 THEN 0 ELSE upTo[n - 1] + sizes[n]
  IN upTo[Len(sizes)]
=============================================================================
