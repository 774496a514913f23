-------------------------------- MODULE Log ---------------------------------
(***************************************************************************)
(* The redo log of kernel/log.c over a buffer cache that may drop any      *)
(* block that is not pinned or locked (kernel/bio.c), with crashes at any  *)
(* point, also during recovery.                                            *)
(*                                                                         *)
(* A write of one block to the disk is atomic, and so is a critical        *)
(* section of log.lock.  The copies of the log's own blocks in the cache   *)
(* are left out: bwrite writes them through, so they equal the disk.       *)
(* A process in a system call modifies a block while it holds the block's  *)
(* sleep lock, then calls log_write, then brelse.                          *)
(***************************************************************************)
EXTENDS Integers, Sequences, FiniteSets

CONSTANTS
  Procs,
  InitProc,     \* the process whose forkret calls fsinit and initlog
  Blocks,       \* the file system's blocks, the log's excluded
  NoBlock,
  Val,          \* contents of a block
  Zero,         \* what mkfs fills the image with
  NoVal,        \* the block is not in the cache
  MAXOPBLOCKS,
  LOGSIZE,
  LogArea,      \* log.size, from the superblock: mkfs puts LOGSIZE there
  OpBlocks      \* blocks a system call really writes

ASSUME LogAssumption ==
  /\ IsFiniteSet(Procs) /\ InitProc \in Procs
  /\ NoBlock \notin Blocks /\ NoVal \notin Val /\ Zero \in Val
  /\ MAXOPBLOCKS \in Nat /\ LOGSIZE \in Nat /\ LogArea \in Nat
  /\ OpBlocks \in 0 .. MAXOPBLOCKS

(* The sizes with which the log cannot overflow: a call leaves one block   *)
(* of its reservation, and the log has a block more than one reservation.  *)
ASSUME SpaceAssumption ==
  OpBlocks < MAXOPBLOCKS /\ MAXOPBLOCKS < LOGSIZE /\ LogArea = LOGSIZE

VARIABLES
  disk,        \* the home locations on disk
  head,        \* the header block on disk: the blocks of a committed transaction
  ldata,       \* the data blocks of the log on disk
  cache,       \* the buffer cache
  pins,        \* pins[b]: what bpin added to the reference count of b's buffer
  lh,          \* log.lh: the blocks of the current transaction
  outstanding, \* log.outstanding
  committing,  \* log.committing
  pc,          \* where each process is
  buf,         \* the block a process has locked and modified
  mine,        \* history: the blocks a system call has modified
  tail,        \* the loop variable of write_log and install_trans
  panic

diskVars == <<disk, head, ldata>>
logVars == <<lh, outstanding, committing>>
cacheVars == <<cache, pins>>
procVars == <<pc, buf, mine, tail>>
vars == <<diskVars, logVars, cacheVars, procVars, panic>>

Goto(p, l) == pc' = [pc EXCEPT ![p] = l]

At(p, l) == pc[p] = l /\ panic = "none"

InLog(b) == \E i \in 1 .. Len(lh) : lh[i] = b
Unlocked(b) == \A p \in Procs : buf[p] # b
View(b) == IF cache[b] = NoVal THEN disk[b] ELSE cache[b]

Recovering == {"rhead", "rinstall"}
Up == pc[InitProc] \notin Recovering /\ panic = "none"

(* The first boot with an image of mkfs: any file system, and a log that   *)
(* was never used.  The kernel's memory is as it is after a crash, and the *)
(* first process is in initlog.                                            *)
Init ==
  /\ disk \in [Blocks -> Val]
  /\ head = <<>>
  /\ ldata = [i \in 1 .. LOGSIZE |-> Zero]
  /\ cache = [b \in Blocks |-> NoVal]
  /\ pins = [b \in Blocks |-> 0]
  /\ lh = <<>> /\ outstanding = 0 /\ committing = FALSE
  /\ pc = [p \in Procs |-> IF p = InitProc THEN "rhead" ELSE "idle"]
  /\ buf = [p \in Procs |-> NoBlock]
  /\ mine = [p \in Procs |-> {}]
  /\ tail = [p \in Procs |-> 0]
  /\ panic = "none"

(* The machine stops and starts again: memory is lost, the disk is not. *)
Crash ==
  /\ cache' = [b \in Blocks |-> NoVal]
  /\ pins' = [b \in Blocks |-> 0]
  /\ lh' = <<>> /\ outstanding' = 0 /\ committing' = FALSE
  /\ pc' = [p \in Procs |-> IF p = InitProc THEN "rhead" ELSE "idle"]
  /\ buf' = [p \in Procs |-> NoBlock]
  /\ mine' = [p \in Procs |-> {}]
  /\ tail' = [p \in Procs |-> 0]
  /\ panic' = "none"
  /\ UNCHANGED diskVars
-----------------------------------------------------------------------------
(* recover_from_log. *)

ReadHead ==
  /\ At(InitProc, "rhead")
  /\ lh' = head
  /\ Goto(InitProc, "rinstall")
  /\ UNCHANGED <<diskVars, cacheVars, outstanding, committing, buf, mine, tail, panic>>

(* One round of install_trans: the block goes home, in the cache and on    *)
(* the disk.                                                               *)
InstallBlock(p) ==
  LET b == lh[tail[p] + 1] IN
  /\ tail[p] < Len(lh)
  /\ Unlocked(b)
  /\ cache' = [cache EXCEPT ![b] = ldata[tail[p] + 1]]
  /\ disk' = [disk EXCEPT ![b] = ldata[tail[p] + 1]]
  /\ tail' = [tail EXCEPT ![p] = @ + 1]
  /\ UNCHANGED <<head, ldata, logVars, pc, buf, mine, panic>>

RInstall ==
  /\ At(InitProc, "rinstall")
  /\ InstallBlock(InitProc)
  /\ UNCHANGED pins

(* log.lh.n = 0 and write_head. *)
EraseLog(p, l) ==
  /\ tail[p] = Len(lh)
  /\ lh' = <<>>
  /\ head' = <<>>
  /\ Goto(p, l)
  /\ tail' = [tail EXCEPT ![p] = 0]
  /\ UNCHANGED <<disk, ldata, cacheVars, outstanding, committing, buf, mine, panic>>

RClear == At(InitProc, "rinstall") /\ EraseLog(InitProc, "idle")
-----------------------------------------------------------------------------
(* wakeup(&log) *)
Wakeup(f) == [p \in Procs |-> IF f[p] = "asleep" THEN "woken" ELSE f[p]]

(* Faulty variant of NoSpace: begin_op does not count the caller. *)
NoSpaceForOthers == Len(lh) + outstanding * MAXOPBLOCKS > LOGSIZE

NoSpace == Len(lh) + (outstanding + 1) * MAXOPBLOCKS > LOGSIZE

begin_op(p) ==
  /\ Up /\ pc[p] \in {"idle", "woken"}
  /\ IF committing \/ NoSpace
     THEN Goto(p, "asleep") /\ UNCHANGED outstanding
     ELSE Goto(p, "op") /\ outstanding' = outstanding + 1
  /\ UNCHANGED <<diskVars, cacheVars, lh, committing, buf, mine, tail, panic>>

(* The system call reads block b, locks it and changes it to v. *)
Modify(p, b, v) ==
  /\ At(p, "op") /\ Unlocked(b)
  /\ Cardinality(mine[p] \cup {b}) <= OpBlocks
  /\ cache' = [cache EXCEPT ![b] = v]
  /\ buf' = [buf EXCEPT ![p] = b]
  /\ mine' = [mine EXCEPT ![p] = @ \cup {b}]
  /\ Goto(p, "dirty")
  /\ UNCHANGED <<diskVars, logVars, pins, tail, panic>>

Panic(m) == panic' = m /\ UNCHANGED <<diskVars, logVars, cacheVars, procVars>>

(* Faulty variant of log_write: the buffer is not pinned. *)
LogWriteNoPin(p) ==
  /\ At(p, "dirty")
  /\ Len(lh) < LOGSIZE /\ Len(lh) < LogArea - 1
  /\ lh' = IF InLog(buf[p]) THEN lh ELSE Append(lh, buf[p])
  /\ buf' = [buf EXCEPT ![p] = NoBlock]
  /\ Goto(p, "op")
  /\ UNCHANGED <<diskVars, cacheVars, outstanding, committing, mine, tail, panic>>

(* log_write, and the brelse that follows it. *)
log_write(p) ==
  /\ At(p, "dirty")
  /\ IF Len(lh) >= LOGSIZE \/ Len(lh) >= LogArea - 1
     THEN Panic("too big a transaction")
     ELSE IF outstanding < 1
     THEN Panic("log_write outside of trans")
     ELSE /\ IF InLog(buf[p])
             THEN UNCHANGED <<lh, pins>>
             ELSE /\ lh' = Append(lh, buf[p])
                  /\ pins' = [pins EXCEPT ![buf[p]] = @ + 1]
          /\ buf' = [buf EXCEPT ![p] = NoBlock]
          /\ Goto(p, "op")
          /\ UNCHANGED <<diskVars, cache, outstanding, committing, mine, tail, panic>>

end_op(p) ==
  /\ At(p, "op")
  /\ IF committing
     THEN Panic("log.committing")
     ELSE /\ outstanding' = outstanding - 1
          /\ mine' = [mine EXCEPT ![p] = {}]
          /\ IF outstanding = 1
             THEN committing' = TRUE /\ Goto(p, "commit")
             ELSE committing' = FALSE /\ pc' = [Wakeup(pc) EXCEPT ![p] = "idle"]
          /\ UNCHANGED <<diskVars, cacheVars, lh, buf, tail, panic>>
-----------------------------------------------------------------------------
(* commit, which runs without log.lock while log.committing is set. *)

StartCommit(p) ==
  /\ At(p, "commit")
  /\ Goto(p, IF lh = <<>> THEN "done" ELSE "wlog")
  /\ UNCHANGED <<diskVars, logVars, cacheVars, buf, mine, tail, panic>>

(* One round of write_log. *)
WriteLog(p) ==
  LET b == lh[tail[p] + 1] IN
  /\ At(p, "wlog") /\ tail[p] < Len(lh)
  /\ Unlocked(b)
  /\ cache' = [cache EXCEPT ![b] = View(b)]
  /\ ldata' = [ldata EXCEPT ![tail[p] + 1] = View(b)]
  /\ tail' = [tail EXCEPT ![p] = @ + 1]
  /\ UNCHANGED <<disk, head, logVars, pins, pc, buf, mine, panic>>

WriteHead(p) ==
  /\ At(p, "wlog") /\ tail[p] = Len(lh)
  /\ head' = lh
  /\ Goto(p, "install")
  /\ tail' = [tail EXCEPT ![p] = 0]
  /\ UNCHANGED <<disk, ldata, logVars, cacheVars, buf, mine, panic>>

Install(p) ==
  /\ At(p, "install")
  /\ InstallBlock(p)
  /\ pins' = [pins EXCEPT ![lh[tail[p] + 1]] = @ - 1]

Clear(p) == At(p, "install") /\ EraseLog(p, "done")

(* Faulty variant of Done: no wakeup after the commit. *)
DoneNoWakeup(p) ==
  /\ At(p, "done")
  /\ committing' = FALSE
  /\ Goto(p, "idle")
  /\ UNCHANGED <<diskVars, cacheVars, lh, outstanding, buf, mine, tail, panic>>

(* end_op, after commit. *)
Done(p) ==
  /\ At(p, "done")
  /\ committing' = FALSE
  /\ pc' = [Wakeup(pc) EXCEPT ![p] = "idle"]
  /\ UNCHANGED <<diskVars, cacheVars, lh, outstanding, buf, mine, tail, panic>>

CommitStep(p) ==
  StartCommit(p) \/ WriteLog(p) \/ WriteHead(p) \/ Install(p) \/ Clear(p) \/ Done(p)
-----------------------------------------------------------------------------
(* Any process reads block b, or bget takes its buffer for another block. *)

Fill(b) ==
  /\ Up /\ cache[b] = NoVal
  /\ cache' = [cache EXCEPT ![b] = disk[b]]
  /\ UNCHANGED <<diskVars, logVars, pins, procVars, panic>>

Evict(b) ==
  /\ Up /\ cache[b] # NoVal
  /\ pins[b] = 0 /\ Unlocked(b)
  /\ cache' = [cache EXCEPT ![b] = NoVal]
  /\ UNCHANGED <<diskVars, logVars, pins, procVars, panic>>

Recover == ReadHead \/ RInstall \/ RClear

Next ==
  \/ Crash
  \/ Recover
  \/ \E p \in Procs :
       \/ begin_op(p) \/ log_write(p) \/ end_op(p) \/ CommitStep(p)
       \/ \E b \in Blocks, v \in Val : Modify(p, b, v)
  \/ \E b \in Blocks : Fill(b) \/ Evict(b)

Spec == Init /\ [][Next]_vars

(* Every process that can run does, and every system call ends. *)
Fairness ==
  /\ WF_vars(Recover)
  /\ \A p \in Procs :
       /\ WF_vars(pc[p] = "woken" /\ begin_op(p))
       /\ WF_vars(log_write(p))
       /\ SF_vars(end_op(p))
       /\ WF_vars(CommitStep(p))

FairSpec == Spec /\ Fairness
-----------------------------------------------------------------------------
Labels == {"rhead", "rinstall", "idle", "woken", "asleep", "op", "dirty",
           "commit", "wlog", "install", "done"}
Messages == {"none", "too big a transaction", "log_write outside of trans", "log.committing"}

(* Every variable has a value of its type; a logged block is pinned once,  *)
(* and the log never outgrows its blocks on disk.                          *)
TypeOK ==
  /\ disk \in [Blocks -> Val]
  /\ head \in Seq(Blocks) /\ Len(head) <= LOGSIZE
  /\ ldata \in [1 .. LOGSIZE -> Val]
  /\ cache \in [Blocks -> Val \cup {NoVal}]
  /\ pins \in [Blocks -> 0 .. 1]
  /\ lh \in Seq(Blocks) /\ Len(lh) <= LOGSIZE
  /\ outstanding \in Nat /\ committing \in BOOLEAN
  /\ pc \in [Procs -> Labels]
  /\ buf \in [Procs -> Blocks \cup {NoBlock}]
  /\ mine \in [Procs -> SUBSET Blocks]
  /\ tail \in [Procs -> 0 .. LOGSIZE]
  /\ panic \in Messages

(* The reservation begin_op makes is enough: a system call that keeps to   *)
(* its blocks never finds the log full, no matter how many run at once,    *)
(* and end_op never finds a commit in progress.                            *)
NoPanic == panic = "none"

(* A process asleep in begin_op is woken: by the commit it waits for, or   *)
(* by an end_op that frees log space.                                      *)
WakesUp == \A p \in Procs : pc[p] = "asleep" ~> pc[p] # "asleep"

(* The contents that recovery would leave, and what the kernel sees. *)
Home(h, l, d, b) ==
  IF \E i \in 1 .. Len(h) : h[i] = b
  THEN l[CHOOSE i \in 1 .. Len(h) : h[i] = b]
  ELSE d[b]
Recovered == [b \in Blocks |-> Home(head, ldata, disk, b)]
Current == IF pc[InitProc] \in Recovering THEN Recovered ELSE [b \in Blocks |-> View(b)]
Active == {p \in Procs : pc[p] \in {"op", "dirty"}}

J == INSTANCE Journal WITH durable <- Recovered, current <- Current, active <- Active

(* The log implements the atomic journal: a crash at any point, also       *)
(* during a commit or during recovery, brings back the contents of the     *)
(* last commit, and commits, installs, recovery and evictions from the     *)
(* cache change nothing that anybody sees.                                 *)
Atomic == J!Spec
=============================================================================
