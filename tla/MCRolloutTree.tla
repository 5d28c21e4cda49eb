--------------------------- MODULE MCRolloutTree ---------------------------
(* Instances of RolloutTree for TLC.  Subcall rids are interchangeable.      *)
EXTENDS RolloutTree

SubSymmetry == Permutations(Subs)
=============================================================================
