----------------------------- MODULE MCLookups -----------------------------
(* An instance of Lookups for TLC. *)
EXTENDS Lookups, TLC
CONSTANTS l1, l2, k1
MCSymmetry == Permutations(Lookers)
=============================================================================
