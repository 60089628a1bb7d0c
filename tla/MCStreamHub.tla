----------------------------- MODULE MCStreamHub -----------------------------
(* Small instances of StreamHub for TLC; the values are in the .cfg files.  *)
EXTENDS StreamHub, TLC

Symmetry == Permutations(Publishers) \cup Permutations(Topics)
=============================================================================
