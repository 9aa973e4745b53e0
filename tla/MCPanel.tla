------------------------------- MODULE MCPanel -------------------------------
EXTENDS Panel

In(key, plain, method) == [dom |-> "d", key |-> key, plain |-> plain, method |-> method]

MCOffered == {In("k1", TRUE, 1), In("k2", FALSE, 2)}

(* What an administrator may write: nothing, and one key twice for a domain *)
(* spelled with its root dot.                                               *)
MCEdits == {{}, {WithId(1, In("k1", FALSE, 2)), WithId(2, In("k1", FALSE, 2))}}
=============================================================================
