------------------------------- MODULE MCTrap -------------------------------
(* Trap for TLC. *)
EXTENDS Trap, TLC

Symmetry == Permutations(Procs) \cup Permutations(Cpus)
=============================================================================
