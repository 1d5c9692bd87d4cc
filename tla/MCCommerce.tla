----------------------------- MODULE MCCommerce -----------------------------
(* Instances of Commerce for TLC.                                           *)
EXTENDS Commerce, TLC

CONSTANTS k1, k2, w1, w2

SameSlug == [k \in Claims |-> "club"]
Symmetry == Permutations(Workers)
=============================================================================
