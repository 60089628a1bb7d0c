------------------------------ MODULE MCSessions ------------------------------
(* Small instances of Sessions for TLC; the values are in the .cfg files.   *)
EXTENDS Sessions, TLC

Symmetry == Permutations(States) \cup Permutations(Tabs) \cup Permutations(Servers)
=============================================================================
