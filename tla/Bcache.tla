------------------------------- MODULE Bcache -------------------------------
(***************************************************************************)
(* The buffer cache of kernel/bio.c with its sleep locks, on top of the    *)
(* disk driver of module Virtio.                                           *)
(*                                                                         *)
(* A section under bcache.lock or under the spin lock of a sleep lock is   *)
(* one step.  A caller is what a process does with one buffer, from bread  *)
(* to brelse; a process that holds a buffer while it reads another, as     *)
(* install_trans, write_log, bmap and itrunc do, is two callers.  The      *)
(* callers are those of log.c and fs.c: who changes a buffer passes it to  *)
(* log_write, which pins it, or writes it out before it releases it; a     *)
(* pinned buffer is unpinned by install_trans after it is written home.    *)
(***************************************************************************)
EXTENDS Virtio, FiniteSets

CONSTANTS
  NBUF,
  NoBlock,   \* b->blockno of a buffer that was never used
  NoCaller,
  Written,   \* the blocks that callers change; the others are only read
  MaxPins    \* the blocks that begin_op lets into the log

ASSUME BcacheAssumption ==
  /\ NBUF \in Nat /\ Bufs = 1 .. NBUF /\ NoBlock \notin Blocks /\ NoCaller \notin Callers
  /\ MaxPins \in Nat /\ IsFiniteSet(Callers) /\ Written \subseteq Blocks

VARIABLES
  valid,   \* b->valid
  refcnt,  \* b->refcnt
  lru,     \* the list from head.next, the most recently used, to head.prev
  slock,   \* the caller that holds b->lock
  pinned,  \* the blocks in the log
  pc,      \* where each caller is
  want,    \* the block it asked for
  cbuf     \* the buffer it has

cacheVars == <<valid, refcnt, lru, pinned>>
callVars == <<pc, want, cbuf>>
vars == <<virtioVars, cacheVars, slock, callVars>>

Init ==
  /\ VirtioInit
  /\ blockno = [b \in Bufs |-> NoBlock]
  /\ valid = [b \in Bufs |-> FALSE]
  /\ refcnt = [b \in Bufs |-> 0]
  /\ lru = [i \in 1 .. NBUF |-> NBUF + 1 - i]
  /\ slock = [b \in Bufs |-> NoCaller]
  /\ pinned = {}
  /\ pc = [p \in Callers |-> "idle"]
  /\ want = [p \in Callers |-> NoBlock]
  /\ cbuf = [p \in Callers |-> NoBuf]

Is(p, l) == pc[p] = l /\ panic = "none"
Goto(p, l) == pc' = [pc EXCEPT ![p] = l]
Panic(m) == panic' = m /\ UNCHANGED <<queue, rings, intr, busy, blockno, content, locals,
                                      cacheVars, slock, callVars>>
driverVars == <<queue, rings, intr, busy, content, locals>>

(* bget: the buffer of block k, or the least recently used one that nobody *)
(* refers to.                                                              *)
Cached(k) == {b \in Bufs : blockno[b] = k}
UnusedInvalid == {i \in 1 .. NBUF : refcnt[lru[i]] = 0 /\ ~valid[lru[i]]}
Unused == {i \in 1 .. NBUF : refcnt[lru[i]] = 0}
Recycled == lru[CHOOSE i \in Unused : \A j \in Unused : j <= i]

StillValidRecycled(b, k) == valid[b]
StillValid(b, k) == valid[b] /\ blockno[b] = k

bget(p, k) ==
  /\ Is(p, "idle")
  /\ IF Cached(k) = {} /\ Unused = {}
     THEN Panic("bget: no buffers")
     ELSE \E b \in IF Cached(k) # {} THEN Cached(k) ELSE {Recycled} :
          /\ refcnt' = [refcnt EXCEPT ![b] = IF Cached(k) # {} THEN @ + 1 ELSE 1]
          /\ valid' = [valid EXCEPT ![b] = StillValid(b, k)]
          /\ blockno' = [blockno EXCEPT ![b] = k]
          /\ cbuf' = [cbuf EXCEPT ![p] = b]
          /\ want' = [want EXCEPT ![p] = k]
          /\ Goto(p, "lock")
          /\ UNCHANGED <<driverVars, panic, lru, slock, pinned>>

(* acquiresleep; then bread reads a buffer that is not valid. *)
acquiresleep(p) ==
  LET b == cbuf[p] IN
  /\ Is(p, "lock")
  /\ IF slock[b] # NoCaller
     THEN Goto(p, "lock asleep") /\ UNCHANGED <<locals, slock>>
     ELSE /\ slock' = [slock EXCEPT ![b] = p]
          /\ Goto(p, IF valid[b] THEN "use" ELSE "read")
          /\ IF valid[b] THEN UNCHANGED locals ELSE CallRw(p, b, FALSE)
  /\ UNCHANGED <<queue, rings, intr, busy, blockno, content, panic, cacheVars, want, cbuf>>

(* virtio_disk_rw returns to bread, to bwrite, or to install_trans.        *)
RwReturn(p) ==
  /\ Finish(p)
  /\ IF rw'[p] = "out"
     THEN /\ valid' = [valid EXCEPT ![cbuf[p]] = TRUE]
          /\ Goto(p, IF pc[p] = "install" THEN "bunpin" ELSE "use")
     ELSE UNCHANGED <<valid, pc>>
  /\ UNCHANGED <<refcnt, lru, slock, pinned, want, cbuf>>

(* The caller changes the buffer and calls log_write, which pins it unless *)
(* its block is in the log already.                                        *)
PinsAlways(k) == 1
Pins(k) == IF k \in pinned THEN 0 ELSE 1

log_write(p, v) ==
  LET b == cbuf[p]
      k == blockno[b] IN
  /\ Is(p, "use") /\ k \in Written
  /\ k \in pinned \/ Cardinality(pinned) < MaxPins
  /\ data' = [data EXCEPT ![b] = v]
  /\ refcnt' = [refcnt EXCEPT ![b] = @ + Pins(k)]
  /\ pinned' = pinned \cup {k}
  /\ UNCHANGED <<queue, rings, intr, busy, blockno, platter, locals, panic, valid, lru, slock, callVars>>

(* The caller changes the buffer and calls bwrite. *)
bwrite(p, v) ==
  LET b == cbuf[p] IN
  /\ Is(p, "use") /\ blockno[b] \in Written \ pinned
  /\ IF slock[b] # p
     THEN Panic("bwrite")
     ELSE /\ data' = [data EXCEPT ![b] = v]
          /\ CallRw(p, b, TRUE)
          /\ Goto(p, "write")
          /\ UNCHANGED <<queue, rings, intr, busy, blockno, platter, panic, cacheVars, slock, want, cbuf>>

(* install_trans writes a pinned buffer home and unpins it. *)
Install(p) ==
  LET b == cbuf[p] IN
  /\ Is(p, "use") /\ blockno[b] \in pinned
  /\ IF slock[b] # p
     THEN Panic("bwrite")
     ELSE /\ CallRw(p, b, TRUE)
          /\ Goto(p, "install")
          /\ UNCHANGED <<queue, rings, intr, busy, blockno, content, panic, cacheVars, slock, want, cbuf>>

bunpin(p) ==
  /\ Is(p, "bunpin")
  /\ refcnt' = [refcnt EXCEPT ![cbuf[p]] = @ - 1]
  /\ pinned' = pinned \ {blockno[cbuf[p]]}
  /\ Goto(p, "use")
  /\ UNCHANGED <<driverVars, blockno, panic, valid, lru, slock, want, cbuf>>

(* brelse releases the sleep lock, and then its reference. *)
releasesleep(p) ==
  LET b == cbuf[p] IN
  /\ Is(p, "use")
  /\ IF slock[b] # p
     THEN Panic("brelse")
     ELSE /\ slock' = [slock EXCEPT ![b] = NoCaller]
          /\ pc' = [q \in Callers |-> IF q = p THEN "brelse"
                                      ELSE IF pc[q] = "lock asleep" /\ cbuf[q] = b THEN "lock"
                                      ELSE pc[q]]
          /\ UNCHANGED <<driverVars, blockno, panic, cacheVars, want, cbuf>>

(* The list once b is moved to its front. *)
ToFront(b) ==
  LET j == CHOOSE i \in 1 .. NBUF : lru[i] = b
  IN  [i \in 1 .. NBUF |-> IF i = 1 THEN b ELSE IF i <= j THEN lru[i - 1] ELSE lru[i]]

brelse(p) ==
  LET b == cbuf[p] IN
  /\ Is(p, "brelse")
  /\ refcnt' = [refcnt EXCEPT ![b] = @ - 1]
  /\ lru' = IF refcnt[b] = 1 THEN ToFront(b) ELSE lru
  /\ Goto(p, "idle")
  /\ want' = [want EXCEPT ![p] = NoBlock]
  /\ cbuf' = [cbuf EXCEPT ![p] = NoBuf]
  /\ UNCHANGED <<driverVars, blockno, panic, valid, slock, pinned>>

KillLock(p) ==
  /\ Is(p, "lock asleep")
  /\ Goto(p, "lock")
  /\ UNCHANGED <<driverVars, blockno, panic, cacheVars, slock, want, cbuf>>

(* The driver's own steps. *)
Driver ==
  /\ \/ \E p \in Callers : Submit(p) \/ NoDescs(p) \/ KillWakes(p)
     \/ \E i \in Descs : Transfer(i)
     \/ IntrStep
  /\ UNCHANGED <<cacheVars, slock, callVars>>

Next ==
  \/ \E p \in Callers :
       \/ \E k \in Blocks : bget(p, k)
       \/ acquiresleep(p) \/ RwReturn(p) \/ Install(p) \/ bunpin(p) \/ releasesleep(p) \/ brelse(p)
       \/ \E v \in Val : log_write(p, v) \/ bwrite(p, v)
       \/ KillLock(p)
  \/ Driver

Spec == Init /\ [][Next]_vars
-----------------------------------------------------------------------------
(* The references to each buffer are counted: those of the callers that    *)
(* have it, from bget to brelse, and the pin of the log.                   *)
RefsCounted ==
  \A b \in Bufs :
    refcnt[b] = Cardinality({p \in Callers : cbuf[p] = b})
                  + (IF blockno[b] \in pinned THEN 1 ELSE 0)

(* The assertions of bio.c and virtio_disk.c hold, but for two: the device *)
(* may report a failure, and bget may run out of buffers.  It does only    *)
(* when the callers and the log really have them all: no reference is left *)
(* behind, however often buffers are recycled, pinned and unpinned.        *)
AssertionsHold ==
  /\ panic \in {"none", "bget: no buffers", "virtio_disk_intr status"}
  /\ panic = "bget: no buffers" =>
       NBUF <= Cardinality({p \in Callers : cbuf[p] # NoBuf}) + Cardinality(pinned)

Valid(k) == {b \in Cached(k) : valid[b]}
Value == [k \in Blocks |-> IF Valid(k) = {} THEN platter[k] ELSE data[CHOOSE b \in Valid(k) : TRUE]]
Owner == [k \in Blocks |->
            LET S == {p \in Callers : want[p] = k /\ pc[p] \in {"use", "write", "install", "bunpin"}}
            IN  IF S = {} THEN NoCaller ELSE CHOOSE p \in S : TRUE]

S == INSTANCE Store WITH value <- Value, durable <- platter, owner <- Owner

(* The cache implements the block store: a change is seen by whoever reads *)
(* the block next, also after its buffer was recycled and read again.      *)
OneCopy == S!Spec
=============================================================================
