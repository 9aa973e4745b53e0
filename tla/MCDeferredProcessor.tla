------------------------- MODULE MCDeferredProcessor -------------------------
(* Instances of DeferredProcessor for TLC. *)
EXTENDS DeferredProcessor

(* Two streams of one session, so that a session has more than one lane. *)
TwoLanes == {<<1, 1>>, <<1, 2>>}
=============================================================================
