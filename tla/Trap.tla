-------------------------------- MODULE Trap --------------------------------
(***************************************************************************)
(* Traps, interrupts and switches: what usertrap, kerneltrap, usertrapret  *)
(* (kernel/trap.c), the vectors of trampoline.S and kernelvec.S, push_off  *)
(* and pop_off (kernel/spinlock.c), and sched and the scheduler            *)
(* (kernel/proc.c) do to the registers of a CPU that a trap uses.          *)
(*                                                                         *)
(* What runs with interrupts off on one CPU and touches nothing of another *)
(* is one step.  A system call is reduced to the spin locks it takes and   *)
(* the sleeps it makes.  Whether a timer interrupt makes the process yield *)
(* depends on the scheduling policy and is left open.                      *)
(***************************************************************************)
EXTENDS Naturals, Sequences

CONSTANTS
  Procs,
  Cpus,       \* also the scheduler threads of the CPUs
  Nobody,
  Causes,     \* what the traps from user space are
  MaxLocks,   \* bound on the spin locks a system call holds at once
  Pcs         \* user program counters are counted modulo this

ASSUME TrapAssumption ==
  /\ Procs \cap Cpus = {} /\ Nobody \notin Procs \cup Cpus
  /\ MaxLocks \in Nat /\ Pcs \in Nat \ {0}

Threads == Procs \cup Cpus

VARIABLES
  cur,                                      \* the thread each CPU executes
  mode, sie, spp, spie, sepc, scause, stvec, tp,  \* its registers
  noff, intena, proc,                       \* struct cpu
  at, locks,   \* where a thread is, and how many locks of its call it holds,
               \* myproc's push_off among them
  stk,         \* what a kernel interrupt suspended, with the registers it saved
  then,        \* where the thread goes on after sched, and
  saved,       \* sched's local intena
  mine,        \* myproc's local c
  epc, hartid, \* of p->trapframe
  upc,         \* where the process is to go on in user space
  plock,       \* the CPU that holds p->lock
  astray,      \* a trap returned to some other place
  panic

csrs == <<mode, spp, spie, sepc, scause, stvec, tp>>
cpu == <<noff, intena>>
thread == <<at, locks, stk, then, saved>>
frame == <<epc, hartid>>
self == <<proc, mine>>
vars == <<cur, sie, csrs, cpu, thread, frame, upc, plock, astray, panic, self>>

(* sepc once usertrap has saved it or sret has gone there: no step reads   *)
(* it again, the next trap overwrites it.                                  *)
Past == <<Nobody, 0>>

(* The first process is waiting for its turn in forkret. *)
Init ==
  /\ cur = [c \in Cpus |-> c] /\ mode = [c \in Cpus |-> "kernel"]
  /\ sie = [c \in Cpus |-> FALSE] /\ spp = [c \in Cpus |-> "kernel"] /\ spie = [c \in Cpus |-> FALSE]
  /\ sepc = [c \in Cpus |-> Past] /\ scause = [c \in Cpus |-> "none"]
  /\ stvec = [c \in Cpus |-> "kernelvec"] /\ tp = [c \in Cpus |-> c]
  /\ noff = [c \in Cpus |-> 0] /\ intena = [c \in Cpus |-> FALSE]
  /\ proc = [c \in Cpus |-> Nobody] /\ mine = [t \in Threads |-> Nobody]
  /\ \E p \in Procs : at = [t \in Threads |-> IF t \in Cpus THEN "loop"
                                              ELSE IF t = p THEN "forkret" ELSE "unused"]
  /\ locks = [t \in Threads |-> 0] /\ stk = [t \in Threads |-> <<>>]
  /\ then = [t \in Threads |-> "none"] /\ saved = [t \in Threads |-> FALSE]
  /\ epc = [p \in Procs |-> <<p, 0>>] /\ hartid = [p \in Procs |-> Nobody]
  /\ upc = [p \in Procs |-> 0]
  /\ plock = [p \in Procs |-> Nobody]
  /\ astray = FALSE /\ panic = "none"

(* CPU c executes its current thread in the kernel, at label l. *)
In(c, l) == mode[c] = "kernel" /\ at[cur[c]] = l /\ panic = "none"
Goto(c, l) == at' = [at EXCEPT ![cur[c]] = l]
Set(f, c, v) == [f EXCEPT ![c] = v]
Panic(m) == panic' = m /\ UNCHANGED <<cur, sie, csrs, cpu, thread, frame, upc, plock, astray, self>>

(* The cpu that mycpu() finds. *)
Me(c) == tp[c]

push_off(c) ==
  /\ sie' = Set(sie, c, FALSE)
  /\ noff' = [noff EXCEPT ![Me(c)] = @ + 1]
  /\ intena' = IF noff[Me(c)] = 0 THEN Set(intena, Me(c), sie[c]) ELSE intena

PopPanics(c) == sie[c] \/ noff[Me(c)] < 1
pop_off(c) ==
  /\ noff' = [noff EXCEPT ![Me(c)] = @ - 1]
  /\ sie' = Set(sie, c, sie[c] \/ (noff[Me(c)] = 1 /\ intena[Me(c)]))
  /\ UNCHANGED intena
-----------------------------------------------------------------------------
(* A trap from user space: the CPU saves where it was and goes to stvec;   *)
(* uservec loads tp from the trap frame.                                   *)
UserTrap(c, why) ==
  LET p == cur[c] IN
  /\ mode[c] = "user" /\ panic = "none"
  /\ IF stvec[c] # "uservec" THEN Panic("kernelvec from user space")
     ELSE /\ mode' = Set(mode, c, "kernel") /\ sie' = Set(sie, c, FALSE)
          /\ spp' = Set(spp, c, "user") /\ spie' = Set(spie, c, TRUE)
          /\ sepc' = Set(sepc, c, <<p, upc[p]>>) /\ scause' = Set(scause, c, why)
          /\ upc' = IF why = "syscall" THEN Set(upc, p, (upc[p] + 1) % Pcs) ELSE upc
          /\ tp' = Set(tp, c, hartid[p])
          /\ Goto(c, "usertrap")
          /\ UNCHANGED <<cur, stvec, cpu, locks, stk, then, saved, frame, plock, astray, panic, self>>

(* Where usertrap goes: killed processes exit, and a timer interrupt may   *)
(* make the process yield.                                                 *)
After(why) ==
  {"exit"} \cup (CASE why = "syscall" -> {"syscall"}
                   [] why = "timer" -> {"yield", "ret"}
                   [] why = "bad" -> {}
                   [] OTHER -> {"ret"})

SavedEpc(c) == IF scause[c] = "syscall" THEN <<sepc[c][1], (sepc[c][2] + 1) % Pcs>> ELSE sepc[c]

usertrap(c) ==
  /\ In(c, "usertrap")
  /\ IF spp[c] # "user" THEN Panic("usertrap: not from user mode")
     ELSE \E l \in After(scause[c]) :
          /\ stvec' = Set(stvec, c, "kernelvec")
          /\ epc' = Set(epc, cur[c], SavedEpc(c))
          /\ sie' = Set(sie, c, l = "syscall")
          /\ scause' = Set(scause, c, "none") /\ sepc' = Set(sepc, c, Past)
          /\ Goto(c, l)
          /\ UNCHANGED <<cur, mode, spp, spie, tp, cpu, locks, stk, then, saved,
                         hartid, upc, plock, astray, panic, self>>

(* A system call takes and releases spin locks and, holding one, sleeps:   *)
(* sleep takes p->lock and releases the other, which it takes again when   *)
(* it is back.                                                             *)
acquire(c) ==
  /\ In(c, "syscall") /\ locks[cur[c]] < MaxLocks
  /\ push_off(c)
  /\ locks' = [locks EXCEPT ![cur[c]] = @ + 1]
  /\ UNCHANGED <<cur, csrs, at, stk, then, saved, frame, upc, plock, astray, panic, self>>

release(c) ==
  /\ In(c, "syscall") /\ locks[cur[c]] > 0
  /\ IF PopPanics(c) THEN Panic("pop_off")
     ELSE /\ pop_off(c)
          /\ locks' = [locks EXCEPT ![cur[c]] = @ - 1]
          /\ UNCHANGED <<cur, csrs, at, stk, then, saved, frame, upc, plock, astray, panic, self>>

sleep(c) ==
  LET p == cur[c] IN
  /\ In(c, "syscall") /\ locks[p] = 1 /\ plock[p] = Nobody
  /\ plock' = Set(plock, p, Me(c)) /\ locks' = Set(locks, p, 0)
  /\ then' = Set(then, p, "relock") /\ Goto(c, "sched")
  /\ UNCHANGED <<cur, sie, csrs, cpu, stk, saved, frame, upc, astray, panic, self>>

relock(c) ==
  /\ In(c, "relock")
  /\ push_off(c)
  /\ locks' = Set(locks, cur[c], 1) /\ Goto(c, "syscall")
  /\ UNCHANGED <<cur, csrs, stk, then, saved, frame, upc, plock, astray, panic, self>>

(* myproc turns interrupts off before it asks which CPU it is on,          *)
mycpuFirst(c) ==
  \/ /\ In(c, "syscall")
     /\ mine' = Set(mine, cur[c], Me(c)) /\ Goto(c, "mycpu")
     /\ UNCHANGED <<cur, sie, csrs, cpu, locks, stk, then, saved, frame, upc, plock, astray, panic, proc>>
  \/ /\ In(c, "mycpu")
     /\ push_off(c)
     /\ locks' = [locks EXCEPT ![cur[c]] = @ + 1] /\ Goto(c, "myproc")
     /\ UNCHANGED <<cur, csrs, stk, then, saved, frame, upc, plock, astray, panic, self>>

myproc(c) ==
  /\ In(c, "syscall")
  /\ push_off(c)
  /\ locks' = [locks EXCEPT ![cur[c]] = @ + 1]
  /\ mine' = Set(mine, cur[c], Me(c))
  /\ Goto(c, "myproc")
  /\ UNCHANGED <<cur, csrs, stk, then, saved, frame, upc, plock, astray, panic, proc>>

(* and on again when it has read the process of that CPU. *)
MyprocRead(c) ==
  /\ In(c, "myproc")
  /\ IF PopPanics(c) THEN Panic("pop_off")
     ELSE /\ pop_off(c)
          /\ locks' = [locks EXCEPT ![cur[c]] = @ - 1]
          /\ mine' = Set(mine, cur[c], Nobody)
          /\ Goto(c, "syscall")
          /\ UNCHANGED <<cur, csrs, stk, then, saved, frame, upc, plock, astray, panic, proc>>

(* The call returns, or the process exits. *)
SyscallDone(c) ==
  /\ In(c, "syscall") /\ locks[cur[c]] = 0
  /\ Goto(c, "ret") \/ Goto(c, "exit")
  /\ UNCHANGED <<cur, sie, csrs, cpu, locks, stk, then, saved, frame, upc, plock, astray, panic, self>>

(* yield, called by usertrap or kerneltrap, and exit. *)
yield(c) ==
  LET p == cur[c] IN
  /\ In(c, "yield") \/ In(c, "exit")
  /\ plock[p] = Nobody
  /\ plock' = Set(plock, p, Me(c)) /\ push_off(c)
  /\ then' = Set(then, p, IF at[p] = "exit" THEN "unused" ELSE IF stk[p] = <<>> THEN "ret" ELSE "kernelret")
  /\ Goto(c, "sched")
  /\ UNCHANGED <<cur, csrs, locks, stk, saved, frame, upc, astray, panic, self>>

sched(c) ==
  LET p == cur[c] IN
  /\ In(c, "sched")
  /\ IF plock[p] # Me(c) \/ noff[Me(c)] # 1 \/ sie[c] THEN Panic("sched")
     ELSE /\ saved' = Set(saved, p, intena[Me(c)])
          /\ at' = [at EXCEPT ![p] = "away", ![Me(c)] = "back"]
          /\ cur' = Set(cur, c, Me(c))
          /\ UNCHANGED <<sie, csrs, cpu, locks, stk, then, frame, upc, plock, astray, panic, self>>

(* The rest of sched: intena belongs to the thread.  Its callers then      *)
(* release p->lock.                                                        *)
IntenaKept(p, c) == intena[Me(c)]
Intena(p, c) == saved[p]

resume(c) ==
  LET p == cur[c] IN
  /\ In(c, "resume")
  /\ IF plock[p] # Me(c) \/ PopPanics(c) THEN Panic("release")
     ELSE /\ plock' = Set(plock, p, Nobody)
          /\ intena' = Set(intena, Me(c), Intena(p, c))
          /\ noff' = [noff EXCEPT ![Me(c)] = @ - 1]
          /\ sie' = Set(sie, c, noff[Me(c)] = 1 /\ Intena(p, c))
          /\ Goto(c, then[p]) /\ then' = Set(then, p, "none") /\ saved' = Set(saved, p, FALSE)
          /\ UNCHANGED <<cur, csrs, locks, stk, frame, upc, astray, panic, self>>

(* A new process gets the slot, and starts in forkret. *)
fork(p) ==
  /\ at[p] = "unused" /\ panic = "none"
  /\ at' = Set(at, p, "forkret")
  /\ epc' = Set(epc, p, <<p, 0>>) /\ upc' = Set(upc, p, 0)
  /\ UNCHANGED <<cur, sie, csrs, cpu, locks, stk, then, saved, hartid, plock, astray, panic, self>>

forkret(c) ==
  LET p == cur[c] IN
  /\ In(c, "forkret")
  /\ IF plock[p] # Me(c) \/ PopPanics(c) THEN Panic("release")
     ELSE /\ plock' = Set(plock, p, Nobody) /\ pop_off(c)
          /\ Goto(c, "ret")
          /\ UNCHANGED <<cur, csrs, locks, stk, then, saved, frame, upc, astray, panic, self>>

(* usertrapret turns interrupts off before it changes stvec, *)
intr_offNot(c) == sie
intr_off(c) == Set(sie, c, FALSE)

usertrapret(c) ==
  /\ In(c, "ret")
  /\ sie' = intr_off(c) /\ stvec' = Set(stvec, c, "uservec")
  /\ Goto(c, "sret")
  /\ UNCHANGED <<cur, mode, spp, spie, sepc, scause, tp, cpu, locks, stk, then, saved, frame, upc,
                 plock, astray, panic, self>>

(* and goes to user space through userret, which restores the user's tp. *)
userret(c) ==
  LET p == cur[c] IN
  /\ In(c, "sret")
  /\ hartid' = Set(hartid, p, tp[c])
  /\ spp' = Set(spp, c, "user") /\ spie' = Set(spie, c, TRUE) /\ sepc' = Set(sepc, c, Past)
  /\ mode' = Set(mode, c, "user") /\ sie' = Set(sie, c, TRUE) /\ tp' = Set(tp, c, Nobody)
  /\ astray' = (astray \/ epc[p] # <<p, upc[p]>>)
  /\ Goto(c, "user")
  /\ UNCHANGED <<cur, scause, stvec, cpu, locks, stk, then, saved, epc, upc, plock, panic, self>>
-----------------------------------------------------------------------------
(* An interrupt in the kernel: kernelvec and the start of kerneltrap save  *)
(* the registers on the stack of the thread.                               *)
KernelTrap(c, why) ==
  LET t == cur[c] IN
  /\ mode[c] = "kernel" /\ sie[c] /\ panic = "none"
  /\ IF stvec[c] # "kernelvec" THEN Panic("uservec from the kernel")
     ELSE /\ sepc' = Set(sepc, c, <<t, Pcs + Len(stk[t])>>) /\ scause' = Set(scause, c, why)
          /\ spp' = Set(spp, c, "kernel") /\ spie' = Set(spie, c, TRUE) /\ sie' = Set(sie, c, FALSE)
          /\ stk' = [stk EXCEPT ![t] =
               Append(@, [at |-> at[t], sepc |-> sepc'[c], spp |-> spp'[c], spie |-> spie'[c], tp |-> tp[c]])]
          /\ Goto(c, "kerneltrap")
          /\ UNCHANGED <<cur, mode, stvec, tp, cpu, locks, then, saved, frame, upc, plock, astray, panic, self>>

(* devintr takes and releases locks, and the timer makes a process yield;  *)
(* interrupts stay off.                                                    *)
kerneltrap(c) ==
  LET t == cur[c] IN
  /\ In(c, "kerneltrap")
  /\ IF spp[c] # "kernel" \/ sie[c] THEN Panic("kerneltrap")
     ELSE /\ \/ UNCHANGED intena
             \/ intena' = IF noff[Me(c)] = 0 THEN Set(intena, Me(c), FALSE) ELSE intena
          /\ \/ Goto(c, "kernelret")
             \/ scause[c] = "timer" /\ proc[Me(c)] # Nobody /\ Goto(c, "yield")
          /\ scause' = Set(scause, c, "none")
          /\ UNCHANGED <<cur, mode, sie, spp, spie, sepc, stvec, tp, noff, locks, stk, then, saved, frame,
                         upc, plock, astray, panic, self>>

(* The end of kerneltrap restores sepc and sstatus, kernelvec the other    *)
(* registers but tp.                                                       *)
RestoredNot(f, c) == [sepc |-> sepc[c], spp |-> spp[c], spie |-> spie[c], tp |-> tp[c]]
Restored(f, c) == [sepc |-> f.sepc, spp |-> f.spp, spie |-> f.spie, tp |-> tp[c]]

kernelret(c) ==
  LET t == cur[c]
      f == stk[t][Len(stk[t])]
      r == Restored(f, c) IN
  /\ In(c, "kernelret")
  /\ stk' = [stk EXCEPT ![t] = SubSeq(@, 1, Len(@) - 1)]
  /\ sepc' = Set(sepc, c, Past) /\ tp' = Set(tp, c, r.tp)
  /\ mode' = Set(mode, c, r.spp) /\ sie' = Set(sie, c, r.spie)
  /\ spp' = Set(spp, c, "user") /\ spie' = Set(spie, c, TRUE)
  /\ astray' = (astray \/ r.sepc # f.sepc)
  /\ Goto(c, f.at)
  /\ UNCHANGED <<cur, scause, stvec, cpu, locks, then, saved, frame, upc, plock, panic, self>>
-----------------------------------------------------------------------------
(* The scheduler thread of c: every round of its loop enables interrupts;  *)
(* it takes p->lock and switches to p,                                     *)
intr_on(c) ==
  /\ In(c, "loop") /\ cur[c] \in Cpus /\ ~sie[c]
  /\ sie' = Set(sie, c, TRUE)
  /\ UNCHANGED <<cur, csrs, cpu, thread, frame, upc, plock, astray, panic, self>>

Switch(c, p) ==
  /\ In(c, "loop") /\ plock[p] = Nobody /\ at[p] \in {"away", "forkret"} /\ then[p] # "unused"
  /\ \A d \in Cpus : cur[d] # p
  /\ push_off(c)
  /\ plock' = Set(plock, p, Me(c))
  /\ at' = [at EXCEPT ![cur[c]] = "away", ![p] = IF @ = "away" THEN "resume" ELSE @]
  /\ cur' = Set(cur, c, p) /\ proc' = Set(proc, Me(c), p)
  /\ UNCHANGED <<csrs, locks, stk, then, saved, frame, upc, astray, panic, mine>>

(* and releases the lock when that comes back.  The slot of a process that *)
(* has exited can be used again.                                           *)
Back(c) ==
  /\ In(c, "back")
  /\ \E p \in Procs :
       /\ plock[p] = Me(c)
       /\ IF PopPanics(c) THEN Panic("pop_off")
          ELSE /\ plock' = Set(plock, p, Nobody) /\ pop_off(c)
               /\ at' = [at EXCEPT ![cur[c]] = "loop", ![p] = IF then[p] = "unused" THEN "unused" ELSE @]
               /\ then' = Set(then, p, IF then[p] = "unused" THEN "none" ELSE then[p])
               /\ proc' = Set(proc, Me(c), Nobody)
               /\ UNCHANGED <<cur, csrs, locks, stk, saved, frame, upc, astray, panic, mine>>

Next ==
  \/ \E c \in Cpus :
       \/ \E why \in Causes : UserTrap(c, why)
       \/ \E why \in Causes \cap {"timer", "device"} : KernelTrap(c, why)
       \/ usertrap(c) \/ acquire(c) \/ release(c) \/ sleep(c) \/ relock(c) \/ myproc(c) \/ MyprocRead(c)
       \/ SyscallDone(c) \/ yield(c) \/ sched(c) \/ resume(c) \/ forkret(c) \/ usertrapret(c) \/ userret(c)
       \/ kerneltrap(c) \/ kernelret(c)
       \/ intr_on(c) \/ Back(c) \/ \E p \in Procs : Switch(c, p)
  \/ \E p \in Procs : fork(p)

Spec == Init /\ [][Next]_vars
-----------------------------------------------------------------------------
(* No assertion fails, and no trap finds the vector of the other mode in   *)
(* stvec.                                                                  *)
NoPanic == panic = "none"

(* A trap returns to where it came from, also when the thread yielded in   *)
(* between and goes on after the traps of others, on this CPU or another.  *)
ResumesRight == ~astray

(* myproc returns the process that called it: between its read of tp and   *)
(* that of c->proc the thread does not move to another CPU.                *)
MyprocRight ==
  \A c \in Cpus : mode[c] = "kernel" /\ at[cur[c]] = "myproc" => proc[mine[cur[c]]] = cur[c]

(* Interrupts are off exactly while they have to be: a CPU that holds a    *)
(* spin lock takes none, noff counts its locks, a system call without a    *)
(* lock can be interrupted, whoever ran on the CPU before, and a kernel    *)
(* stack, which is a page, holds one interrupt at a time.                  *)
Held(c) == IF cur[c] \in Cpus
           THEN IF \E p \in Procs : plock[p] = c THEN 1 ELSE 0
           ELSE locks[cur[c]] + (IF plock[cur[c]] = c THEN 1 ELSE 0)
InterruptsOff ==
  /\ \A c \in Cpus : mode[c] = "kernel" =>
       /\ tp[c] = c
       /\ noff[c] = Held(c)
       /\ noff[c] > 0 => ~sie[c]
       /\ at[cur[c]] \in {"syscall", "relock"} /\ noff[c] = 0 => sie[c]
  /\ \A t \in Threads : Len(stk[t]) <= 1

=============================================================================
