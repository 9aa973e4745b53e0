---------------------------- MODULE ReliableStream ----------------------------
(***************************************************************************)
(* What one direction of a tunnelled stream promises: the bytes the local  *)
(* application wrote come out at the other side once, in order and without *)
(* a gap, and the sender is held back when it is too far ahead.            *)
(*                                                                         *)
(* Chunks are numbered from zero in the order they are read; a chunk is    *)
(* identified with its number.                                             *)
(***************************************************************************)
EXTENDS Integers, Sequences

CONSTANT Capacity   (* chunks that may be between the two applications *)

VARIABLES
  accepted,    (* how many chunks were read from the sending application *)
  delivered    (* the chunks written to the receiving application        *)

Init ==
  /\ accepted = 0
  /\ delivered = <<>>

Accept ==
  /\ accepted - Len(delivered) < Capacity
  /\ accepted' = accepted + 1
  /\ UNCHANGED delivered

Deliver(n) ==
  /\ delivered' = delivered \o [i \in 1 .. n |-> Len(delivered) + i - 1]
  /\ UNCHANGED accepted

Next ==
  \/ Accept
  \/ \E n \in 1 .. accepted - Len(delivered) : Deliver(n)

Spec == Init /\ [][Next]_<<accepted, delivered>>
=============================================================================
