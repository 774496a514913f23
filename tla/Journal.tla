------------------------------ MODULE Journal -------------------------------
(***************************************************************************)
(* What the log of kernel/log.c promises the file system: system calls     *)
(* that bracket their writes with begin_op and end_op are atomic with      *)
(* respect to crashes.  A crash brings back the contents of some moment at *)
(* which no system call was in progress, and nothing that was committed    *)
(* is ever lost.                                                           *)
(***************************************************************************)
CONSTANTS Procs, Blocks, Val

VARIABLES
  durable,  \* what the disk holds after a crash and recovery
  current,  \* what the file system code reads and writes
  active    \* the processes between begin_op and end_op

vars == <<durable, current, active>>

Init ==
  /\ current \in [Blocks -> Val]
  /\ durable = current
  /\ active = {}

Begin(p) ==
  /\ p \notin active
  /\ active' = active \cup {p}
  /\ UNCHANGED <<durable, current>>

Write(p, b, v) ==
  /\ p \in active
  /\ current' = [current EXCEPT ![b] = v]
  /\ UNCHANGED <<durable, active>>

End(p) ==
  /\ p \in active
  /\ active' = active \ {p}
  /\ UNCHANGED <<durable, current>>

Commit ==
  /\ active = {}
  /\ durable' = current
  /\ UNCHANGED <<current, active>>

Crash ==
  /\ current' = durable
  /\ active' = {}
  /\ UNCHANGED durable

Next ==
  \/ \E p \in Procs : Begin(p) \/ End(p)
  \/ \E p \in Procs, b \in Blocks, v \in Val : Write(p, b, v)
  \/ Commit
  \/ Crash

Spec == Init /\ [][Next]_vars
=============================================================================
