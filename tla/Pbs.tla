-------------------------------- MODULE Pbs ---------------------------------
(***************************************************************************)
(* The priority based scheduler of kernel/proc.c.  It does not preempt:    *)
(* trap.c has no yield for it.                                             *)
(***************************************************************************)
EXTENDS Sched

CONSTANTS
  Priorities,  \* arguments of set_priority
  MaxCalled    \* bound on countTimeCalled

VARIABLES
  sprior,          \* p->sprior
  dprior,          \* p->dprior
  idle,            \* p->runTimePrev = 0 and p->sleepTimePrev = 0
  countTimeCalled  \* p->countTimeCalled

prio == <<sprior, dprior, idle, countTimeCalled>>
vars == <<table, lock, sched, ticks, panic, prio>>

Clamp(n) == IF n > 100 THEN 100 ELSE IF n < 0 THEN 0 ELSE n

(* niceness is 5, except that a process with no past divides 0 by 0: the   *)
(* compiler makes that 0, and RISC-V's divu would make it -1.              *)
calculateDynamicPriority(sp, id) ==
  IF id THEN {Clamp(sp + 5), Clamp(sp + 6)} ELSE {Clamp(sp)}

Init ==
  /\ SchedInit
  /\ sprior = [s \in Slots |-> 60]
  /\ dprior = [s \in Slots |-> 0]
  /\ idle = [s \in Slots |-> TRUE]
  /\ countTimeCalled = [s \in Slots |-> 0]

(* s is to run rather than t; d is the dynamic priority of s. *)
Before(s, t, d) ==
  \/ d < dprior[t]
  \/ d = dprior[t] /\ countTimeCalled[s] < countTimeCalled[t]
  \/ d = dprior[t] /\ countTimeCalled[s] = countTimeCalled[t] /\ creationTime[s] > creationTime[t]

(* The loop over the table.  A process that ties with the candidate and    *)
(* does not replace it stays locked: the continue skips the release.       *)
Scan(c) ==
  LET s == i[c]
      t == check[c] IN
  /\ At(c, "scan") /\ CanAcquire(c, s)
  /\ IF lock[s] = c
     THEN Panic("acquire") /\ UNCHANGED prio
     ELSE \E d \in calculateDynamicPriority(sprior[s], idle[s]) :
          /\ dprior' = [dprior EXCEPT ![s] = d]
          /\ \/ /\ state[s] = "RUNNABLE" /\ t = NoProc
                /\ check' = [check EXCEPT ![c] = s]
                /\ lock' = [lock EXCEPT ![s] = c]
             \/ /\ state[s] = "RUNNABLE" /\ t # NoProc /\ Before(s, t, d)
                /\ check' = [check EXCEPT ![c] = s]
                /\ lock' = [lock EXCEPT ![s] = c, ![t] = NoCpu]
             \/ /\ state[s] = "RUNNABLE" /\ t # NoProc /\ ~Before(s, t, d) /\ d = dprior[t]
                /\ lock' = [lock EXCEPT ![s] = c]
                /\ UNCHANGED check
             \/ /\ state[s] = "RUNNABLE" => t # NoProc /\ d > dprior[t]
                /\ UNCHANGED <<check, lock>>
          /\ IF s = NPROC
             THEN i' = [i EXCEPT ![c] = 1] /\ Goto(c, "choose")
             ELSE i' = [i EXCEPT ![c] = s + 1] /\ UNCHANGED pc
          /\ UNCHANGED <<table, proc, ticks, panic, sprior, idle, countTimeCalled>>

Choose(c) ==
  /\ At(c, "choose")
  /\ IF check[c] = NoProc
     THEN Goto(c, "scan") /\ UNCHANGED <<state, proc, idle, countTimeCalled>>
     ELSE /\ countTimeCalled[check[c]] < MaxCalled
          /\ Run(c, check[c])
          /\ idle' = [idle EXCEPT ![check[c]] = TRUE]
          /\ countTimeCalled' = [countTimeCalled EXCEPT ![check[c]] = @ + 1]
  /\ UNCHANGED <<creationTime, lock, check, i, ticks, panic, sprior, dprior>>

Return(c) ==
  /\ Back(c, "scan")
  /\ check' = [check EXCEPT ![c] = NoProc]
  /\ UNCHANGED <<i, prio>>

(* allocproc does not reset countTimeCalled and dprior. *)
NewProcess(c, s) ==
  /\ Fork(c, s, "user")
  /\ sprior' = [sprior EXCEPT ![s] = 60]
  /\ idle' = [idle EXCEPT ![s] = TRUE]
  /\ UNCHANGED <<dprior, countTimeCalled>>

(* clockintr: upd_time counts the tick for every running process. *)
Clock ==
  /\ Tick
  /\ idle' = [s \in Slots |-> idle[s] /\ state[s] # "RUNNING"]
  /\ UNCHANGED <<sprior, dprior, countTimeCalled>>

(* wakeup leaves sleepTimePrev alone, because nothing sets sleepStartTime; *)
(* kill counts every tick since boot as slept.                             *)
Wake(s) == Wakeup(s) /\ UNCHANGED prio

Kill(s) ==
  /\ Wakeup(s)
  /\ idle' = [idle EXCEPT ![s] = @ /\ ticks = 0]
  /\ UNCHANGED <<sprior, dprior, countTimeCalled>>

Step(c) ==
  /\ Resume(c) \/ Sleep(c) \/ Exit(c) \/ \E s \in Slots : Reap(c, s)
  /\ UNCHANGED prio

(* A process on c calls set_priority, which has found slot s; when it      *)
(* takes the lock again, the slot may be free or another process's.        *)
set_priority(c, s, p) ==
  /\ At(c, "user") /\ lock[s] = NoCpu
  /\ sprior' = [sprior EXCEPT ![s] = p]
  /\ \E d \in calculateDynamicPriority(p, idle[s]) : dprior' = [dprior EXCEPT ![s] = d]
  /\ UNCHANGED <<table, lock, sched, ticks, panic, idle, countTimeCalled>>

Next ==
  \/ \E c \in Cpus :
       \/ Scan(c) \/ Choose(c) \/ Return(c) \/ Step(c)
       \/ \E s \in Slots : NewProcess(c, s) \/ \E p \in Priorities : set_priority(c, s, p)
  \/ \E s \in Slots : Wake(s) \/ Kill(s)
  \/ Clock

Spec == Init /\ [][Next]_vars
=============================================================================
