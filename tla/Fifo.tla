-------------------------------- MODULE Fifo --------------------------------
(***************************************************************************)
(* What a pipe promises: a bounded queue of bytes between the holders of   *)
(* its two ends, which lives until both ends are closed.                   *)
(***************************************************************************)
EXTENDS Naturals, Sequences

CONSTANTS Pipes, Val, PIPESIZE

VARIABLES
  open,   \* the open ends of each pipe
  queue   \* the bytes written and not yet read

Init ==
  /\ open = [g \in Pipes |-> {}]
  /\ queue = [g \in Pipes |-> <<>>]

Create(g) ==
  /\ open[g] = {} /\ open' = [open EXCEPT ![g] = {"r", "w"}]
  /\ queue' = [queue EXCEPT ![g] = <<>>]

Put(g, v) ==
  /\ open[g] = {"r", "w"} /\ Len(queue[g]) < PIPESIZE
  /\ queue' = [queue EXCEPT ![g] = Append(@, v)]
  /\ UNCHANGED open

Take(g, k) ==
  /\ "r" \in open[g] /\ k <= Len(queue[g])
  /\ queue' = [queue EXCEPT ![g] = SubSeq(@, k + 1, Len(@))]
  /\ UNCHANGED open

Close(g, e) ==
  /\ e \in open[g] /\ open' = [open EXCEPT ![g] = @ \ {e}]
  /\ queue' = [queue EXCEPT ![g] = IF open'[g] = {} THEN <<>> ELSE @]

Next ==
  \E g \in Pipes :
    \/ Create(g)
    \/ \E v \in Val : Put(g, v)
    \/ \E k \in 1 .. PIPESIZE : Take(g, k)
    \/ \E e \in {"r", "w"} : Close(g, e)

Spec == Init /\ [][Next]_<<open, queue>>
=============================================================================
