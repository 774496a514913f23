------------------------------- MODULE Store --------------------------------
(***************************************************************************)
(* What the buffer cache promises its callers: one copy of every block,    *)
(* which one caller at a time reads and changes, and which goes to the     *)
(* disk when that caller writes it.                                        *)
(***************************************************************************)
CONSTANTS Callers, NoCaller, Blocks, Val

VARIABLES
  value,   \* the contents of each block
  durable, \* its contents on the disk
  owner    \* the caller that has it between bread and brelse

Init ==
  /\ value \in [Blocks -> Val] /\ durable = value
  /\ owner = [k \in Blocks |-> NoCaller]

bread(p, k) == owner[k] = NoCaller /\ owner' = [owner EXCEPT ![k] = p] /\ UNCHANGED <<value, durable>>
brelse(p, k) == owner[k] = p /\ owner' = [owner EXCEPT ![k] = NoCaller] /\ UNCHANGED <<value, durable>>

Change(p, k, v) ==
  owner[k] = p /\ value' = [value EXCEPT ![k] = v] /\ UNCHANGED <<durable, owner>>

bwrite(p, k) ==
  owner[k] = p /\ durable' = [durable EXCEPT ![k] = value[k]] /\ UNCHANGED <<value, owner>>

Next ==
  \E p \in Callers, k \in Blocks :
    bread(p, k) \/ brelse(p, k) \/ bwrite(p, k) \/ \E v \in Val : Change(p, k, v)

Spec == Init /\ [][Next]_<<value, durable, owner>>
=============================================================================
