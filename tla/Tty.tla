-------------------------------- MODULE Tty ---------------------------------
(***************************************************************************)
(* What the console promises its readers: what is typed can be edited      *)
(* until the line is complete, and is then read in order, each character   *)
(* once.                                                                   *)
(***************************************************************************)
EXTENDS Naturals, Sequences

CONSTANTS Char, INPUT_BUF_SIZE

VARIABLES
  edit,   \* the line that is being typed
  lines   \* the lines, or ends of file, that are complete and not yet read

Init == edit = <<>> /\ lines = <<>>

Type(c) ==
  /\ Len(edit) + Len(lines) < INPUT_BUF_SIZE
  /\ \/ edit' = Append(edit, c) /\ UNCHANGED lines
     \/ lines' = lines \o Append(edit, c) /\ edit' = <<>>

Erase == \E k \in 0 .. Len(edit) - 1 : edit' = SubSeq(edit, 1, k) /\ UNCHANGED lines

Read == lines # <<>> /\ lines' = Tail(lines) /\ UNCHANGED edit

Next == (\E c \in Char : Type(c)) \/ Erase \/ Read

Spec == Init /\ [][Next]_<<edit, lines>>
=============================================================================
