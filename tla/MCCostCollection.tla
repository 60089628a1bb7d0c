--------------------------- MODULE MCCostCollection ---------------------------
(* Small instances of CostCollection for TLC; the values are in the .cfg files. *)
EXTENDS CostCollection, TLC

\* The ids of runs are interchangeable.
Symmetry == Permutations(Runs)
=============================================================================
