------------------------------- MODULE MCCow --------------------------------
(* Small instances of Cow: physical pages are numbered in address order. *)
EXTENDS Cow, TLC

CONSTANT NPages

MCPages == 1 .. NPages
MCOrder == [i \in 1 .. NPages |-> i]
Symmetry == Permutations(Procs \ {InitProc})

TextData == <<"text", "data">>
TextTextData == <<"text", "text", "data">>
=============================================================================
