----------------------------- MODULE MCGreylist -----------------------------
(* Greylist for TLC. *)
EXTENDS Greylist, TLC

Symmetry == Permutations(Triplets)
=============================================================================
