--------------------------- MODULE MCSessionFence ---------------------------
(* Instances of SessionFence for TLC. *)
EXTENDS SessionFence, TLC

Symmetry == Permutations(Slots)
=============================================================================
