------------------------------- MODULE Sched --------------------------------
(***************************************************************************)
(* What the schedulers of kernel/proc.c share: the slots with their locks, *)
(* the CPUs, and the processes as a scheduler sees them.  The modules Pbs  *)
(* and Mlfq add the loops that choose a process.                           *)
(*                                                                         *)
(* Here a lock is held by a CPU, as kernel/spinlock.c has it, and the      *)
(* assertions of acquire, release and sched are explicit.                  *)
(***************************************************************************)
EXTENDS Integers

CONSTANTS
  NPROC,
  Cpus,
  NoCpu,
  MaxTicks   \* bound on the creation times

Slots == 1 .. NPROC
NoProc == 0
InitProc == 1

VARIABLES
  state,         \* p->state
  creationTime,  \* p->creationTime
  lock,          \* the CPU that holds p->lock
  proc,          \* c->proc
  check,         \* scheduler's candidate
  i,             \* scheduler's loop variable
  pc,            \* where each CPU is
  ticks,
  panic

table == <<state, creationTime>>
sched == <<proc, check, i, pc>>

Goto(c, l) == pc' = [pc EXCEPT ![c] = l]
At(c, l) == pc[c] = l /\ panic = "none"

NoLock(c) == \A s \in Slots : lock[s] # c

(* acquire(&p->lock) on c: the step waits for the lock, or panics. *)
CanAcquire(c, s) == lock[s] \in {NoCpu, c}
Panic(m) == panic' = m /\ UNCHANGED <<table, lock, sched, ticks>>

SchedInit ==
  /\ state = [s \in Slots |-> IF s = InitProc THEN "RUNNABLE" ELSE "UNUSED"]
  /\ creationTime = [s \in Slots |-> 0]
  /\ lock = [s \in Slots |-> NoCpu]
  /\ proc = [c \in Cpus |-> NoProc]
  /\ check = [c \in Cpus |-> NoProc]
  /\ i = [c \in Cpus |-> 1]
  /\ pc = [c \in Cpus |-> "scan"]
  /\ ticks = 0
  /\ panic = "none"

(* swtch to s: it runs whether or not its lock is held. *)
Run(c, s) ==
  /\ state' = [state EXCEPT ![s] = "RUNNING"]
  /\ proc' = [proc EXCEPT ![c] = s]
  /\ Goto(c, "resume")

(* The process returns from sched, or starts at forkret, and releases its  *)
(* lock.                                                                   *)
Resume(c) ==
  /\ At(c, "resume")
  /\ IF lock[proc[c]] # c
     THEN Panic("release")
     ELSE /\ lock' = [lock EXCEPT ![proc[c]] = NoCpu]
          /\ Goto(c, "user")
          /\ UNCHANGED <<table, proc, check, i, ticks, panic>>

(* At label l the process takes its lock and calls sched in state st. *)
GiveUp(c, l, st) ==
  /\ At(c, l) /\ CanAcquire(c, proc[c])
  /\ IF lock[proc[c]] = c
     THEN Panic("acquire")
     ELSE IF ~NoLock(c)
     THEN Panic("sched locks")
     ELSE /\ lock' = [lock EXCEPT ![proc[c]] = c]
          /\ state' = [state EXCEPT ![proc[c]] = st]
          /\ Goto(c, "back")
          /\ UNCHANGED <<creationTime, proc, check, i, ticks, panic>>

Sleep(c) == GiveUp(c, "user", "SLEEPING")
Exit(c) == proc[c] # InitProc /\ GiveUp(c, "user", "ZOMBIE")

(* The scheduler is back, releases the lock and goes on at label l. *)
Back(c, l) ==
  /\ At(c, "back")
  /\ lock' = [lock EXCEPT ![proc[c]] = NoCpu]
  /\ proc' = [proc EXCEPT ![c] = NoProc]
  /\ Goto(c, l)
  /\ UNCHANGED <<table, ticks, panic>>

(* A process, or an interrupt, wakes s.  A CPU with a lock takes no        *)
(* interrupt.                                                              *)
Wakeup(s) ==
  /\ panic = "none" /\ state[s] = "SLEEPING" /\ lock[s] = NoCpu
  /\ \E c \in Cpus : NoLock(c)
  /\ state' = [state EXCEPT ![s] = "RUNNABLE"]
  /\ UNCHANGED <<creationTime, lock, sched, ticks, panic>>

(* A process on c creates s and goes on at label l. *)
Fork(c, s, l) ==
  /\ At(c, "user") /\ state[s] = "UNUSED" /\ lock[s] = NoCpu
  /\ \A t \in 1 .. s - 1 : state[t] # "UNUSED"
  /\ state' = [state EXCEPT ![s] = "RUNNABLE"]
  /\ creationTime' = [creationTime EXCEPT ![s] = ticks]
  /\ Goto(c, l)
  /\ UNCHANGED <<lock, proc, check, i, ticks, panic>>

(* A process on c reaps s. *)
Reap(c, s) ==
  /\ At(c, "user") /\ state[s] = "ZOMBIE" /\ lock[s] = NoCpu
  /\ state' = [state EXCEPT ![s] = "UNUSED"]
  /\ UNCHANGED <<creationTime, lock, sched, ticks, panic>>

(* clockintr, as far as creation times go: it takes every lock in turn. *)
Tick ==
  /\ panic = "none" /\ ticks < MaxTicks
  /\ \A s \in Slots : lock[s] = NoCpu
  /\ ticks' = ticks + 1
  /\ UNCHANGED <<table, lock, sched, panic>>
-----------------------------------------------------------------------------
(* What the assertions in spinlock.c and sched say: a CPU never takes a    *)
(* lock it has, never releases one it has not, and switches to the         *)
(* scheduler with one lock only.                                           *)
LocksRight == panic = "none"
=============================================================================
