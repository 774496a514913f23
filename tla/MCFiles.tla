------------------------------ MODULE MCFiles -------------------------------
(* Files with the permutations of the processes and of the pages.          *)
EXTENDS Files, TLC

Symmetry == Permutations(Procs) \cup Permutations(Pipes)
=============================================================================
