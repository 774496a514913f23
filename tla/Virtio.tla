------------------------------- MODULE Virtio -------------------------------
(***************************************************************************)
(* The disk driver of kernel/virtio_disk.c: the table of descriptors, the  *)
(* two rings it shares with the device, and the callers that sleep for     *)
(* descriptors or for their transfer.                                      *)
(*                                                                         *)
(* A section under vdisk_lock is one step, up to the sleep that releases   *)
(* it; the interrupt handler takes a step per entry of the used ring,      *)
(* during which the device may add others.  The rings hold the entries the *)
(* other side has not seen; the device may finish requests in any order.   *)
(***************************************************************************)
EXTENDS Integers

CONSTANTS
  Callers,
  Bufs,
  NoBuf,
  Blocks,
  Val,
  Zero,     \* what static memory holds at boot
  Disks,    \* the contents the disk may have at boot
  NoReq,
  NUM,      \* the number of descriptors
  Sizes     \* how many of them the queue may have: alloc_desc never finds the others free

ASSUME VirtioAssumption ==
  /\ NUM \in Nat \ {0} /\ Sizes \subseteq 1 .. NUM
  /\ NoBuf \notin Bufs /\ Zero \in Val /\ Disks \subseteq [Blocks -> Val]

Descs == 0 .. NUM - 1
NoDesc == NUM  \* in next: a descriptor without VRING_DESC_F_NEXT
Requests == [write : BOOLEAN, block : Blocks, buf : Bufs]

VARIABLES
  free,     \* disk.free
  next,     \* disk.desc[i].next
  info,     \* disk.info[i].b
  req,      \* what the chain of descriptors that starts at i asks for
  avail,    \* first descriptors of requests the device has not finished
  used,     \* those it has finished and the driver has not seen
  irq,      \* the device has raised its interrupt
  intr,     \* virtio_disk_intr holds vdisk_lock
  busy,     \* b->disk
  blockno,  \* b->blockno
  data,     \* b->data
  platter,  \* the blocks on the disk
  rw,       \* where each caller is in virtio_disk_rw
  rbuf,     \* its arguments b and write
  rwrite,
  idx,      \* its first descriptor
  panic

queue == <<free, next, info, req>>
rings == <<avail, used, irq>>
content == <<data, platter>>
locals == <<rw, rbuf, rwrite, idx>>
virtioVars == <<queue, rings, intr, busy, blockno, content, locals, panic>>

VirtioInit ==
  /\ \E n \in Sizes : free = [i \in Descs |-> i < n]
  /\ next = [i \in Descs |-> NoDesc]
  /\ info = [i \in Descs |-> NoBuf]
  /\ req = [i \in Descs |-> NoReq]
  /\ avail = {} /\ used = {} /\ irq = FALSE /\ intr = FALSE
  /\ busy = [b \in Bufs |-> FALSE]
  /\ data = [b \in Bufs |-> Zero]
  /\ platter \in Disks
  /\ rw = [p \in Callers |-> "out"]
  /\ rbuf = [p \in Callers |-> NoBuf]
  /\ rwrite = [p \in Callers |-> FALSE]
  /\ idx = [p \in Callers |-> NoDesc]
  /\ panic = "none"

At(p, l) == rw[p] = l /\ ~intr /\ panic = "none"

(* wakeup of those that rw has at label l. *)
WokenNobody(l, m) == rw
Woken(l, m) == [q \in Callers |-> IF rw[q] = l THEN m ELSE rw[q]]

(* virtio_disk_rw(b, w) is called by p. *)
CallRw(p, b, w) ==
  /\ rw' = [rw EXCEPT ![p] = "alloc"]
  /\ rbuf' = [rbuf EXCEPT ![p] = b]
  /\ rwrite' = [rwrite EXCEPT ![p] = w]
  /\ UNCHANGED idx

(* The free descriptor that alloc_desc finds when those of S are taken. *)
IsNextFree(i, S) == free[i] /\ i \notin S /\ \A j \in 0 .. i - 1 : free[j] => j \in S

CanAlloc == \E i, j, k \in Descs : free[i] /\ free[j] /\ free[k] /\ i # j /\ i # k /\ j # k

(* disk.free after alloc3_desc. *)
TakenTwo(i, j, k) == [free EXCEPT ![i] = FALSE, ![j] = FALSE]
Taken(i, j, k) == [free EXCEPT ![i] = FALSE, ![j] = FALSE, ![k] = FALSE]

(* alloc3_desc succeeds: the request goes to the device, and p sleeps      *)
(* until it is done.                                                       *)
Submit(p) ==
  /\ At(p, "alloc")
  /\ \E i, j, k \in Descs :
       /\ IsNextFree(i, {}) /\ IsNextFree(j, {i}) /\ IsNextFree(k, {i, j})
       /\ free' = Taken(i, j, k)
       /\ next' = [next EXCEPT ![i] = j, ![j] = k, ![k] = NoDesc]
       /\ info' = [info EXCEPT ![i] = rbuf[p]]
       /\ req' = [req EXCEPT ![i] = [write |-> rwrite[p], block |-> blockno[rbuf[p]],
                                     buf |-> rbuf[p]]]
       /\ avail' = avail \cup {i}
       /\ idx' = [idx EXCEPT ![p] = i]
  /\ busy' = [busy EXCEPT ![rbuf[p]] = TRUE]
  /\ rw' = [rw EXCEPT ![p] = "wait asleep"]
  /\ UNCHANGED <<used, irq, intr, blockno, content, rbuf, rwrite, panic>>

(* alloc3_desc fails and p sleeps for descriptors.  If it had found one,   *)
(* free_desc wakes the others that sleep for them.                         *)
NoDescs(p) ==
  /\ At(p, "alloc") /\ ~CanAlloc
  /\ rw' = [(IF \E i \in Descs : free[i] THEN Woken("alloc asleep", "alloc") ELSE rw)
              EXCEPT ![p] = "alloc asleep"]
  /\ UNCHANGED <<queue, rings, intr, busy, blockno, content, rbuf, rwrite, idx, panic>>

(* The device (external) does the transfer of request i and raises its     *)
(* interrupt.                                                              *)
Transfer(i) ==
  LET r == req[i] IN
  /\ i \in avail /\ panic = "none"
  /\ IF r.write
     THEN platter' = [platter EXCEPT ![r.block] = data[r.buf]] /\ UNCHANGED data
     ELSE data' = [data EXCEPT ![r.buf] = platter[r.block]] /\ UNCHANGED platter
  /\ avail' = avail \ {i} /\ used' = used \cup {i} /\ irq' = TRUE
  /\ UNCHANGED <<queue, intr, busy, blockno, locals, panic>>

(* virtio_disk_intr acknowledges the interrupt, handles the used ring      *)
(* entry by entry and returns when it finds no more.                       *)
IntrAck ==
  /\ irq /\ ~intr /\ panic = "none"
  /\ irq' = FALSE /\ intr' = TRUE
  /\ UNCHANGED <<queue, avail, used, busy, blockno, content, locals, panic>>

(* The device may report that the request failed. *)
IntrStatus(i) ==
  /\ intr /\ i \in used /\ panic = "none"
  /\ panic' = "virtio_disk_intr status"
  /\ UNCHANGED <<queue, rings, intr, busy, blockno, content, locals>>

IntrEntry(i) ==
  LET b == info[i] IN
  /\ intr /\ i \in used /\ panic = "none"
  /\ used' = used \ {i}
  /\ busy' = [busy EXCEPT ![b] = FALSE]
  /\ rw' = [q \in Callers |-> IF rw[q] = "wait asleep" /\ rbuf[q] = b THEN "wait" ELSE rw[q]]
  /\ UNCHANGED <<queue, avail, irq, intr, blockno, content, rbuf, rwrite, idx, panic>>

IntrReturn ==
  /\ intr /\ used = {} /\ panic = "none"
  /\ intr' = FALSE
  /\ UNCHANGED <<queue, rings, busy, blockno, content, locals, panic>>

(* free_chain: it follows next, and panics at a descriptor that is free. *)
Chain(i) == {i} \cup ({next[i]} \ {NoDesc})
              \cup (IF next[i] = NoDesc THEN {} ELSE {next[next[i]]} \ {NoDesc})

(* b->disk tells that the transfer is done. *)
DoneWhenWoken(p) == TRUE
Done(p) == ~busy[rbuf[p]]

(* p is awake.  When its transfer is done the descriptors are freed and    *)
(* those who wait for some are woken; otherwise p sleeps again.            *)
Finish(p) ==
  LET chain == Chain(idx[p]) IN
  /\ At(p, "wait")
  /\ IF ~Done(p)
     THEN rw' = [rw EXCEPT ![p] = "wait asleep"] /\ UNCHANGED <<queue, rbuf, rwrite, idx, panic>>
     ELSE IF \E i \in chain : free[i]
     THEN panic' = "free_desc 2" /\ UNCHANGED <<queue, locals>>
     ELSE /\ free' = [i \in Descs |-> free[i] \/ i \in chain]
          /\ next' = [i \in Descs |-> IF i \in chain THEN NoDesc ELSE next[i]]
          /\ req' = [i \in Descs |-> IF i \in chain THEN NoReq ELSE req[i]]
          /\ info' = [info EXCEPT ![idx[p]] = NoBuf]
          /\ rw' = [Woken("alloc asleep", "alloc") EXCEPT ![p] = "out"]
          /\ rbuf' = [rbuf EXCEPT ![p] = NoBuf]
          /\ rwrite' = [rwrite EXCEPT ![p] = FALSE]
          /\ idx' = [idx EXCEPT ![p] = NoDesc]
          /\ UNCHANGED panic
  /\ UNCHANGED <<rings, intr, busy, blockno, content>>

(* kill wakes p whatever it sleeps for. *)
KillWakes(p) ==
  /\ rw[p] \in {"alloc asleep", "wait asleep"} /\ panic = "none"
  /\ rw' = [rw EXCEPT ![p] = IF @ = "wait asleep" THEN "wait" ELSE "alloc"]
  /\ UNCHANGED <<queue, rings, intr, busy, blockno, content, rbuf, rwrite, idx, panic>>

IntrStep == IntrAck \/ IntrReturn \/ \E i \in Descs : IntrEntry(i) \/ IntrStatus(i)
-----------------------------------------------------------------------------
(* The descriptors of a request belong to it alone until its caller has    *)
(* freed them: no two requests share one, and none of them is free.        *)
DescsOwned ==
  \A p, q \in Callers : idx[p] # NoDesc =>
    /\ \A i \in Chain(idx[p]) : ~free[i]
    /\ p # q /\ idx[q] # NoDesc => Chain(idx[p]) \cap Chain(idx[q]) = {}

(* While the device may still touch a buffer, its caller is in             *)
(* virtio_disk_rw for that buffer: no buffer changes hands under a         *)
(* transfer.                                                               *)
BufferHeld ==
  \A i \in avail : \E p \in Callers :
    idx[p] = i /\ rbuf[p] = req[i].buf /\ rw[p] \in {"wait", "wait asleep"} /\ busy[rbuf[p]]

(* No wakeup is lost: a caller that sleeps for descriptors does so         *)
(* because there are not enough, and one that sleeps for its transfer      *)
(* because the transfer or its interrupt is still to come.                 *)
NoLostWakeup ==
  \A p \in Callers :
    /\ rw[p] = "alloc asleep" => ~CanAlloc
    /\ rw[p] = "wait asleep" => idx[p] \in avail \/ (idx[p] \in used /\ (irq \/ intr))
=============================================================================
