-------------------------------- MODULE Proc --------------------------------
(***************************************************************************)
(* The process table of kernel/proc.c: fork, exit, wait, waitx, kill,      *)
(* sleep and wakeup, with the lock of every slot, wait_lock, tickslock and *)
(* the switches between processes and the schedulers of the CPUs.  wait    *)
(* and waitx differ in the times that waitx reports; times are left out.   *)
(*                                                                         *)
(* A critical section of one slot's lock is one step, except where the     *)
(* lock outlives it: a process that calls sched keeps its own lock until   *)
(* the scheduler of its CPU has left the process's kernel stack.           *)
(* wait_lock and tickslock are held over several steps.  A call that       *)
(* starts by taking one of them is one step with that; only in wait is a   *)
(* caller that spins for it, and cannot be preempted, apart.  A process    *)
(* that holds no lock may be preempted at any point.  Which runnable       *)
(* process a CPU takes is left open, so that what holds here holds under   *)
(* every policy that takes p->lock the way the round robin does.           *)
(***************************************************************************)
EXTENDS Integers, FiniteSetsExt

CONSTANTS
  NPROC,
  Cpus,
  Cpu0,      \* the CPU that runs clockintr
  Calls,     \* the system calls that the process of each slot makes
  KillPids,  \* arguments of kill
  MaxPid,    \* bound on the pids
  MaxTicks   \* bound on the clock

ASSUME ProcAssumption ==
  /\ NPROC \in Nat \ {0} /\ MaxPid \in Nat \ {0} /\ MaxTicks \in Nat
  /\ Cpu0 \in Cpus /\ KillPids \subseteq Nat
  /\ Calls \in [1 .. NPROC -> SUBSET {"fork", "exit", "wait", "kill", "sleep"}]
  /\ Calls[1] \subseteq {"fork", "wait"}

Slots == 1 .. NPROC
NoProc == 0
initproc == 1
TicksChan == NPROC + 1   \* the channel &ticks
Clock == NPROC + 1       \* clockintr, as the holder of tickslock

VARIABLES
  state, pid, parent, chan, killed,  \* the fields of struct proc
  lock,       \* lock[s]: s holds its own p->lock on the way to the scheduler
  wait_lock,  \* its holder
  tickslock,  \* its holder
  ticks,
  cpu,        \* c->proc
  nextpid,
  pc,         \* where the kernel thread of each process is
  idx,        \* the loop variable of the function the process is in
  widx,       \* the loop variable of wakeup
  arg,        \* fork: the child; kill: the pid; sleep: the tick to wait for
  clock,      \* NoProc, or Clock (clockintr wants tickslock), or the slot its wakeup is at
  fresh       \* s was given a CPU inside a system call, and has not gone on yet

fields == <<state, pid, parent, chan, killed>>
locks == <<lock, wait_lock, tickslock>>
locals == <<pc, idx, widx, arg>>
vars == <<fields, locks, locals, ticks, cpu, nextpid, clock, fresh>>

Goto(s, l) == pc' = [pc EXCEPT ![s] = l]
GoesOn(s) == fresh' = [fresh EXCEPT ![s] = FALSE]

(* userinit: the first process can be run, and nothing else is. *)
Init ==
  /\ state = [s \in Slots |-> IF s = initproc THEN "RUNNABLE" ELSE "UNUSED"]
  /\ pid = [s \in Slots |-> IF s = initproc THEN 1 ELSE 0]
  /\ parent = [s \in Slots |-> NoProc]
  /\ chan = [s \in Slots |-> 0]
  /\ killed = [s \in Slots |-> FALSE]
  /\ lock = [s \in Slots |-> FALSE]
  /\ wait_lock = NoProc /\ tickslock = NoProc
  /\ ticks = 0 /\ nextpid = 2
  /\ cpu = [c \in Cpus |-> NoProc]
  /\ pc = [s \in Slots |-> "user"]
  /\ idx = [s \in Slots |-> 1]
  /\ widx = [s \in Slots |-> 1]
  /\ arg = [s \in Slots |-> 0]
  /\ clock = NoProc
  /\ fresh = [s \in Slots |-> FALSE]

HoldsLock(s) == lock[s] \/ wait_lock = s \/ tickslock = s

(* Process s executes: it has a CPU, on which no interrupt is handled. *)
Running(s) ==
  /\ state[s] = "RUNNING"
  /\ \E c \in Cpus : cpu[c] = s /\ ~(c = Cpu0 /\ clock # NoProc)

At(s, l) == Running(s) /\ pc[s] = l

(* A system call.  A killed process does not get that far.  Init only      *)
(* forks and waits (user/init.c), see ProcAssumption.                      *)
Calling(s, call) ==
  At(s, "user") /\ ~killed[s] /\ call \in Calls[s]

(* Back to user space, with the locals as they were. *)
Return(s) ==
  /\ pc' = [pc EXCEPT ![s] = "user"]
  /\ idx' = [idx EXCEPT ![s] = 1]
  /\ arg' = [arg EXCEPT ![s] = 0]
  /\ UNCHANGED widx

(* freeproc, without the memory that hangs from the slot. *)
freeproc(s) ==
  /\ state' = [state EXCEPT ![s] = "UNUSED"]
  /\ pid' = [pid EXCEPT ![s] = 0]
  /\ parent' = [parent EXCEPT ![s] = NoProc]
  /\ chan' = [chan EXCEPT ![s] = 0]
  /\ killed' = [killed EXCEPT ![s] = FALSE]
-----------------------------------------------------------------------------
(* Switching. *)

(* scheduler takes s; s returns from sched, ends its sleep and releases    *)
(* its lock.                                                               *)
Dispatch(c, s) ==
  /\ cpu[c] = NoProc /\ ~lock[s] /\ state[s] = "RUNNABLE"
  /\ ~(c = Cpu0 /\ clock # NoProc)
  /\ state' = [state EXCEPT ![s] = "RUNNING"]
  /\ cpu' = [cpu EXCEPT ![c] = s]
  /\ chan' = [chan EXCEPT ![s] = 0]
  /\ Goto(s, CASE pc[s] = "wait asleep" -> "wait"
               [] pc[s] = "sleep asleep" -> "sleep"
               [] OTHER -> pc[s])
  /\ fresh' = [fresh EXCEPT ![s] = pc[s] # "user"]
  /\ UNCHANGED <<pid, parent, killed, locks, idx, widx, arg, ticks, nextpid, clock>>

(* The scheduler is back on its own stack and releases the lock. *)
Switch(c) ==
  /\ cpu[c] # NoProc /\ lock[cpu[c]]
  /\ lock' = [lock EXCEPT ![cpu[c]] = FALSE]
  /\ cpu' = [cpu EXCEPT ![c] = NoProc]
  /\ UNCHANGED <<fields, wait_lock, tickslock, locals, ticks, nextpid, clock, fresh>>

(* A timer interrupt.  Interrupts are off while a lock is held and while   *)
(* acquire spins, so a time slice inside the kernel is not over before the *)
(* process has made a step.                                                *)
yield(s) ==
  /\ Running(s) /\ ~HoldsLock(s) /\ ~fresh[s]
  /\ lock' = [lock EXCEPT ![s] = TRUE]
  /\ state' = [state EXCEPT ![s] = "RUNNABLE"]
  /\ UNCHANGED <<pid, parent, chan, killed, wait_lock, tickslock, locals, ticks, cpu, nextpid, clock,
                 fresh>>

(* One round of wakeup(ch), called by s with another lock held. *)
Wake(s, ch, i) ==
  /\ i # s => ~lock[i]
  /\ state' = [state EXCEPT ![i] =
                 IF i # s /\ state[i] = "SLEEPING" /\ chan[i] = ch THEN "RUNNABLE" ELSE @]

(* wakeup(ch) from label l; then n. *)
WakeLoop(s, l, ch, n) ==
  /\ At(s, l)
  /\ GoesOn(s)
  /\ Wake(s, ch, widx[s])
  /\ IF widx[s] = NPROC
     THEN widx' = [widx EXCEPT ![s] = 1] /\ Goto(s, n)
     ELSE widx' = [widx EXCEPT ![s] = @ + 1] /\ UNCHANGED pc
-----------------------------------------------------------------------------
(* fork *)

Fork(s) ==
  /\ Calling(s, "fork")
  /\ GoesOn(s)
  /\ nextpid + Cardinality({q \in Slots : pc[q] = "alloc"}) <= MaxPid
  /\ Goto(s, "alloc")
  /\ UNCHANGED <<fields, locks, idx, widx, arg, ticks, cpu, nextpid, clock>>

(* allocproc looks at one slot; the rest of allocproc and of fork, up to   *)
(* the release of the child's lock, follows if the slot is free.  Memory   *)
(* may run out at any point of that.                                       *)
Alloc(s) ==
  LET i == idx[s] IN
  /\ At(s, "alloc") /\ ~lock[i]
  /\ GoesOn(s)
  /\ \/ /\ state[i] = "UNUSED"
        /\ state' = [state EXCEPT ![i] = "USED"]
        /\ pid' = [pid EXCEPT ![i] = nextpid]
        /\ nextpid' = nextpid + 1
        /\ arg' = [arg EXCEPT ![s] = i]
        /\ idx' = [idx EXCEPT ![s] = 1]
        /\ pc' = [pc EXCEPT ![s] = "fork parent", ![i] = "user"]
        /\ UNCHANGED <<parent, chan, killed, widx>>
     \/ /\ state[i] = "UNUSED"
        /\ freeproc(i)
        /\ nextpid' = nextpid + 1
        /\ Return(s)
     \/ /\ state[i] # "UNUSED" /\ i < NPROC
        /\ idx' = [idx EXCEPT ![s] = i + 1]
        /\ UNCHANGED <<fields, pc, widx, arg, nextpid>>
     \/ /\ state[i] # "UNUSED" /\ i = NPROC
        /\ Return(s)
        /\ UNCHANGED <<fields, nextpid>>
  /\ UNCHANGED <<locks, ticks, cpu, clock>>

ForkParent(s) ==
  /\ At(s, "fork parent") /\ wait_lock = NoProc
  /\ GoesOn(s)
  /\ parent' = [parent EXCEPT ![arg[s]] = s]
  /\ Goto(s, "fork run")
  /\ UNCHANGED <<state, pid, chan, killed, locks, idx, widx, arg, ticks, cpu, nextpid, clock>>

ForkRun(s) ==
  /\ At(s, "fork run") /\ ~lock[arg[s]]
  /\ GoesOn(s)
  /\ state' = [state EXCEPT ![arg[s]] = "RUNNABLE"]
  /\ Return(s)
  /\ UNCHANGED <<pid, parent, chan, killed, locks, ticks, cpu, nextpid, clock>>
-----------------------------------------------------------------------------
(* exit *)

(* The process calls exit, or notices in usertrap that it was killed, and  *)
(* takes wait_lock.                                                        *)
Exit(s) ==
  /\ At(s, "user") /\ s # initproc
  /\ GoesOn(s)
  /\ killed[s] \/ "exit" \in Calls[s]
  /\ wait_lock = NoProc /\ wait_lock' = s
  /\ Goto(s, "reparent")
  /\ UNCHANGED <<fields, lock, tickslock, idx, widx, arg, ticks, cpu, nextpid, clock>>

ChildrenFrom(s, i) == {q \in i .. NPROC : parent[q] = s}

(* The next child goes to init. *)
OrphansLiving(s) == {q \in ChildrenFrom(s, idx[s]) : state[q] # "ZOMBIE"}
Orphans(s) == ChildrenFrom(s, idx[s])

Reparent(s) ==
  LET kids == Orphans(s) IN
  /\ At(s, "reparent")
  /\ GoesOn(s)
  /\ \/ /\ kids # {}
        /\ parent' = [parent EXCEPT ![Min(kids)] = initproc]
        /\ idx' = [idx EXCEPT ![s] = Min(kids)]
        /\ Goto(s, "wake init")
     \/ /\ kids = {}
        /\ idx' = [idx EXCEPT ![s] = 1]
        /\ Goto(s, "wake parent")
        /\ UNCHANGED parent
  /\ UNCHANGED <<state, pid, chan, killed, locks, widx, arg, ticks, cpu, nextpid, clock>>

WakeInit(s) ==
  /\ WakeLoop(s, "wake init", initproc, "reparent")
  /\ UNCHANGED <<pid, parent, chan, killed, locks, idx, arg, ticks, cpu, nextpid, clock>>

WakeParent(s) ==
  /\ WakeLoop(s, "wake parent", parent[s], "zombie")
  /\ UNCHANGED <<pid, parent, chan, killed, locks, idx, arg, ticks, cpu, nextpid, clock>>

Zombie(s) ==
  /\ At(s, "zombie")
  /\ GoesOn(s)
  /\ lock' = [lock EXCEPT ![s] = TRUE]
  /\ state' = [state EXCEPT ![s] = "ZOMBIE"]
  /\ wait_lock' = NoProc
  /\ Goto(s, "user")
  /\ UNCHANGED <<pid, parent, chan, killed, tickslock, idx, widx, arg, ticks, cpu,
                 nextpid, clock>>
-----------------------------------------------------------------------------
(* wait and waitx *)

Wait(s) ==
  /\ Calling(s, "wait")
  /\ GoesOn(s)
  /\ Goto(s, "wait")
  /\ UNCHANGED <<fields, locks, idx, widx, arg, ticks, cpu, nextpid, clock>>

WaitLock(s) ==
  /\ At(s, "wait") /\ wait_lock = NoProc
  /\ GoesOn(s)
  /\ wait_lock' = s
  /\ Goto(s, "scan")
  /\ UNCHANGED <<fields, lock, tickslock, idx, widx, arg, ticks, cpu, nextpid, clock>>

(* The next child: it is reaped if it is a zombie, unless its exit status  *)
(* cannot be copied out.  After the last, wait gives up if there are no    *)
(* children or the caller was killed.                                      *)
ChildUnlockedNot(q) == TRUE
ChildUnlocked(q) == ~lock[q]
SlotAfterLast(q) == NPROC + 1
SlotAfter(q) == q + 1

Scan(s) ==
  LET kids == ChildrenFrom(s, idx[s])
      q == Min(kids) IN
  /\ At(s, "scan")
  /\ GoesOn(s)
  /\ \/ /\ kids # {} /\ ChildUnlocked(q) /\ state[q] = "ZOMBIE"
        /\ wait_lock' = NoProc
        /\ \/ freeproc(q) /\ Return(s)
           \/ s # initproc /\ UNCHANGED fields /\ Return(s)
     \/ /\ kids # {} /\ ChildUnlocked(q) /\ state[q] # "ZOMBIE"
        /\ idx' = [idx EXCEPT ![s] = SlotAfter(q)]
        /\ UNCHANGED <<fields, wait_lock, pc, widx, arg>>
     \/ /\ kids = {}
        /\ IF killed[s] \/ ChildrenFrom(s, 1) = {}
           THEN wait_lock' = NoProc /\ Return(s)
           ELSE /\ idx' = [idx EXCEPT ![s] = 1]
                /\ Goto(s, "wait sleep")
                /\ UNCHANGED <<wait_lock, widx, arg>>
        /\ UNCHANGED fields
  /\ UNCHANGED <<lock, tickslock, ticks, cpu, nextpid, clock>>

(* The part of sleep(ch, lk) up to sched, apart from lk. *)
SleepOn(s, ch, l) ==
  /\ lock' = [lock EXCEPT ![s] = TRUE]
  /\ state' = [state EXCEPT ![s] = "SLEEPING"]
  /\ chan' = [chan EXCEPT ![s] = ch]
  /\ Goto(s, l)
  /\ UNCHANGED <<pid, parent, killed, idx, widx, arg, ticks, cpu, nextpid, clock>>

(* Faulty variant of sleep: lk is released before p->lock is taken. *)
WaitSleepTooLate(s) ==
  /\ At(s, "wait sleep")
  /\ GoesOn(s)
  /\ \/ /\ wait_lock = s /\ wait_lock' = NoProc
        /\ UNCHANGED <<fields, lock, tickslock, locals, ticks, cpu, nextpid, clock>>
     \/ /\ wait_lock # s
        /\ SleepOn(s, s, "wait asleep")
        /\ UNCHANGED <<wait_lock, tickslock>>

WaitSleep(s) ==
  /\ At(s, "wait sleep")
  /\ GoesOn(s)
  /\ SleepOn(s, s, "wait asleep")
  /\ wait_lock' = NoProc
  /\ UNCHANGED tickslock
-----------------------------------------------------------------------------
(* kill *)

Kill(s, k) ==
  /\ Calling(s, "kill")
  /\ GoesOn(s)
  /\ Goto(s, "kill")
  /\ arg' = [arg EXCEPT ![s] = k]
  /\ UNCHANGED <<fields, locks, idx, widx, ticks, cpu, nextpid, clock>>

KillScan(s) ==
  LET i == idx[s] IN
  /\ At(s, "kill") /\ ~lock[i]
  /\ GoesOn(s)
  /\ \/ /\ pid[i] = arg[s]
        /\ killed' = [killed EXCEPT ![i] = TRUE]
        /\ state' = [state EXCEPT ![i] = IF @ = "SLEEPING" THEN "RUNNABLE" ELSE @]
        /\ Return(s)
     \/ /\ pid[i] # arg[s] /\ i < NPROC
        /\ idx' = [idx EXCEPT ![s] = i + 1]
        /\ UNCHANGED <<state, killed, pc, widx, arg>>
     \/ /\ pid[i] # arg[s] /\ i = NPROC
        /\ Return(s)
        /\ UNCHANGED <<state, killed>>
  /\ UNCHANGED <<pid, parent, chan, locks, ticks, cpu, nextpid, clock>>
-----------------------------------------------------------------------------
(* sys_sleep and clockintr *)

SysSleep(s, n) ==
  /\ Calling(s, "sleep") /\ tickslock = NoProc /\ ticks + n <= MaxTicks
  /\ GoesOn(s)
  /\ tickslock' = s
  /\ arg' = [arg EXCEPT ![s] = ticks + n]
  /\ Goto(s, "sleep check")
  /\ UNCHANGED <<fields, lock, wait_lock, idx, widx, ticks, cpu, nextpid, clock>>

SleepLock(s) ==
  /\ At(s, "sleep") /\ tickslock = NoProc
  /\ GoesOn(s)
  /\ tickslock' = s
  /\ Goto(s, "sleep check")
  /\ UNCHANGED <<fields, lock, wait_lock, idx, widx, arg, ticks, cpu, nextpid, clock>>

SleepCheck(s) ==
  /\ At(s, "sleep check")
  /\ GoesOn(s)
  /\ IF ticks < arg[s] /\ ~killed[s]
     THEN Goto(s, "sleep sleep") /\ UNCHANGED <<tickslock, idx, widx, arg>>
     ELSE tickslock' = NoProc /\ Return(s)
  /\ UNCHANGED <<fields, lock, wait_lock, ticks, cpu, nextpid, clock>>

SleepSleep(s) ==
  /\ At(s, "sleep sleep")
  /\ GoesOn(s)
  /\ SleepOn(s, TicksChan, "sleep asleep")
  /\ tickslock' = NoProc
  /\ UNCHANGED wait_lock

(* The timer interrupts Cpu0 when no lock is held there. *)
ClockIntr ==
  /\ clock = NoProc /\ ticks < MaxTicks
  /\ cpu[Cpu0] # NoProc => ~HoldsLock(cpu[Cpu0])
  /\ clock' = Clock
  /\ UNCHANGED <<fields, locks, locals, ticks, cpu, nextpid, fresh>>

(* upd_time, between the tick and the wakeup, takes and releases the lock  *)
(* of every slot, as the wakeup does, and changes times only.              *)
ClockTick ==
  /\ clock = Clock /\ tickslock = NoProc
  /\ tickslock' = Clock
  /\ ticks' = ticks + 1
  /\ clock' = 1
  /\ UNCHANGED <<fields, lock, wait_lock, locals, cpu, nextpid, fresh>>

ClockWake ==
  /\ clock \in Slots
  /\ Wake(cpu[Cpu0], TicksChan, clock)
  /\ IF clock = NPROC
     THEN clock' = NoProc /\ tickslock' = NoProc
     ELSE clock' = clock + 1 /\ UNCHANGED tickslock
  /\ UNCHANGED <<pid, parent, chan, killed, lock, wait_lock, locals, ticks, cpu, nextpid, fresh>>
-----------------------------------------------------------------------------
Call(s) ==
  \/ Fork(s) \/ Exit(s) \/ Wait(s)
  \/ \E k \in KillPids : Kill(s, k)
  \/ \E n \in 0 .. MaxTicks : SysSleep(s, n)

(* What a process does in the kernel once it has made its call. *)
KernelStep(s) ==
  \/ Alloc(s) \/ ForkParent(s) \/ ForkRun(s)
  \/ Reparent(s) \/ WakeInit(s) \/ WakeParent(s) \/ Zombie(s)
  \/ WaitLock(s) \/ Scan(s) \/ WaitSleep(s)
  \/ KillScan(s)
  \/ SleepLock(s) \/ SleepCheck(s) \/ SleepSleep(s)

ClockStep == ClockIntr \/ ClockTick \/ ClockWake

Next ==
  \/ \E c \in Cpus : Switch(c) \/ \E s \in Slots : Dispatch(c, s)
  \/ \E s \in Slots : yield(s) \/ Call(s) \/ KernelStep(s)
  \/ ClockStep

Spec == Init /\ [][Next]_vars

(* The timer preempts a process in user space, every runnable process gets *)
(* a CPU in turn, whoever waits for a spin lock gets it in the end, init   *)
(* calls wait over and over, and a pending timer interrupt is taken when   *)
(* the CPU enables interrupts.                                             *)
Fairness ==
  /\ \A c \in Cpus : WF_vars(Switch(c))
  /\ \A s \in Slots : /\ SF_vars(\E c \in Cpus : Dispatch(c, s))
                      /\ SF_vars(KernelStep(s))
                      /\ WF_vars(pc[s] = "user" /\ yield(s))
  /\ SF_vars(Wait(initproc))
  /\ SF_vars(ClockStep)

FairSpec == Spec /\ Fairness
-----------------------------------------------------------------------------
(* A kernel stack is used by one CPU at a time, and a slot is not freed,   *)
(* let alone given to another process, before its CPU has left it.         *)
StackInUse ==
  \A c \in Cpus : cpu[c] # NoProc =>
    /\ state[cpu[c]] \notin {"UNUSED", "USED"}
    /\ \A d \in Cpus : cpu[d] = cpu[c] => d = c

(* The parent of a process is there to reap it: it has neither exited nor  *)
(* been freed, whatever forks, exits and reparentings overlap.             *)
ParentAlive ==
  \A s \in Slots : parent[s] # NoProc =>
    /\ state[parent[s]] \in {"SLEEPING", "RUNNABLE", "RUNNING"}
    /\ state[s] # "UNUSED"

(* No wakeup is missed: a process asleep in wait has no zombie child,      *)
(* unless somebody is in the middle of an exit or a wait, and one asleep   *)
(* in sys_sleep still has a tick to wait for, or clockintr is on its way.  *)
NoLostWakeup ==
  \A s \in Slots : state[s] = "SLEEPING" =>
    /\ chan[s] = s /\ wait_lock = NoProc =>
         \A q \in Slots : parent[q] = s => state[q] # "ZOMBIE"
    /\ chan[s] = TicksChan => ticks < arg[s] \/ (clock # NoProc /\ clock <= s)

(* Zombies whose parent is gone are reaped. *)
OrphansReaped ==
  \A s \in Slots \ {initproc} : state[s] = "ZOMBIE" /\ parent[s] = initproc ~> state[s] # "ZOMBIE"
=============================================================================
