------------------------------ MODULE MCBcache ------------------------------
(* Bcache for TLC. *)
EXTENDS Bcache, TLC

(* No block of the disk has what an unused buffer has. *)
MCDisks == {[k \in Blocks |-> 1]}

Symmetry == Permutations(Callers) \cup Permutations(Written) \cup Permutations(Blocks \ Written)
=============================================================================
