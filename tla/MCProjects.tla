----------------------------- MODULE MCProjects -----------------------------
(* A small instance of Projects for TLC; the values are in the .cfg file.  *)
EXTENDS Projects, TLC

\* Requests, names and ids are interchangeable.
Symmetry == Permutations(Requests) \cup Permutations(Names) \cup Permutations(Ids)
=============================================================================
