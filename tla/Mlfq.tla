-------------------------------- MODULE Mlfq --------------------------------
(***************************************************************************)
(* The multi-level feedback queue of kernel/proc.c and kernel/trap.c.      *)
(* Levels are 0 .. Last, 0 .. 4 in the code.  ctime is never assigned, so  *)
(* that within a level the first runnable slot wins.                       *)
(***************************************************************************)
EXTENDS Sched

CONSTANTS
  Last,  \* the lowest priority
  AGE    \* 36 in the code: more than a slice of a level above the last

VARIABLES
  priority_level,  \* p->priority_level
  ass_ticks,       \* p->ass_ticks
  ticks_elapsed,   \* p->ticks_elapsed
  wait_time,       \* p->wait_time, AGE + 1 when it is more
  level            \* the level each CPU's scheduler looks at

queue == <<priority_level, ass_ticks, ticks_elapsed, wait_time>>
vars == <<table, lock, sched, ticks, panic, queue, level>>

Init ==
  /\ SchedInit
  /\ priority_level = [s \in Slots |-> 0]
  /\ ass_ticks = [s \in Slots |-> 1]
  /\ ticks_elapsed = [s \in Slots |-> 0]
  /\ wait_time = [s \in Slots |-> 0]
  /\ level = [c \in Cpus |-> 0]

(* The next slot of a loop over the table, which ends at label l. *)
NextSlot(c, l) ==
  IF i[c] = NPROC
  THEN i' = [i EXCEPT ![c] = 1] /\ Goto(c, l)
  ELSE i' = [i EXCEPT ![c] = @ + 1] /\ UNCHANGED pc
-----------------------------------------------------------------------------
(* aging_check takes no lock: what it saw of a process may have changed    *)
(* when it promotes it.  The scheduler starts here ("scan").               *)
TooOld(s) ==
  state[s] \in {"SLEEPING", "RUNNABLE"} /\ wait_time[s] > AGE /\ priority_level[s] # 0

AgeCheck(c) ==
  /\ At(c, "scan")
  /\ IF TooOld(i[c])
     THEN Goto(c, "promote") /\ UNCHANGED i
     ELSE NextSlot(c, "level")
  /\ level' = [level EXCEPT ![c] = 0]
  /\ UNCHANGED <<table, lock, proc, check, ticks, panic, queue>>

Promote(c) ==
  /\ At(c, "promote")
  /\ wait_time' = [wait_time EXCEPT ![i[c]] = 0]
  /\ priority_level' = [priority_level EXCEPT ![i[c]] = @ - 1]
  /\ ass_ticks' = [ass_ticks EXCEPT ![i[c]] = @ \div 2]
  /\ IF i[c] = NPROC
     THEN i' = [i EXCEPT ![c] = 1] /\ Goto(c, "level")
     ELSE i' = [i EXCEPT ![c] = @ + 1] /\ Goto(c, "scan")
  /\ UNCHANGED <<table, lock, proc, check, ticks, panic, ticks_elapsed, level>>

(* One slot of the loop over a level above the last.  The candidate stays  *)
(* locked.                                                                 *)
Scan(c) ==
  LET s == i[c] IN
  /\ At(c, "level") /\ level[c] < Last /\ CanAcquire(c, s)
  /\ IF lock[s] = c
     THEN Panic("acquire")
     ELSE /\ IF state[s] = "RUNNABLE" /\ priority_level[s] = level[c] /\ check[c] = NoProc
             THEN check' = [check EXCEPT ![c] = s] /\ lock' = [lock EXCEPT ![s] = c]
             ELSE UNCHANGED <<check, lock>>
          /\ NextSlot(c, "choose")
          /\ UNCHANGED <<table, proc, ticks, panic>>
  /\ UNCHANGED <<queue, level>>

Choose(c) ==
  /\ At(c, "choose")
  /\ IF check[c] = NoProc
     THEN /\ level' = [level EXCEPT ![c] = @ + 1]
          /\ Goto(c, "level")
          /\ UNCHANGED <<state, proc, wait_time>>
     ELSE /\ Run(c, check[c])
          /\ wait_time' = [wait_time EXCEPT ![check[c]] = 0]
          /\ UNCHANGED level
  /\ UNCHANGED <<creationTime, lock, check, i, ticks, panic, priority_level, ass_ticks, ticks_elapsed>>

(* One slot of the round robin over the last level. *)
ScanLast(c) ==
  LET s == i[c] IN
  /\ At(c, "level") /\ level[c] = Last /\ CanAcquire(c, s)
  /\ IF lock[s] = c
     THEN Panic("acquire")
     ELSE /\ IF state[s] = "RUNNABLE" /\ priority_level[s] = Last
             THEN Run(c, s) /\ lock' = [lock EXCEPT ![s] = c] /\ UNCHANGED i
             ELSE NextSlot(c, "scan") /\ UNCHANGED <<state, lock, proc>>
          /\ UNCHANGED <<creationTime, check, ticks, panic>>
  /\ UNCHANGED <<queue, level>>

(* Back in the scheduler: a level above the last starts over, the last one *)
(* goes on with the next slot.                                             *)
Return(c) ==
  /\ IF level[c] < Last
     THEN Back(c, "scan") /\ UNCHANGED i
     ELSE IF i[c] = NPROC
     THEN Back(c, "scan") /\ i' = [i EXCEPT ![c] = 1]
     ELSE Back(c, "level") /\ i' = [i EXCEPT ![c] = @ + 1]
  /\ check' = [check EXCEPT ![c] = NoProc]
  /\ UNCHANGED <<queue, level>>
-----------------------------------------------------------------------------
(* A tick.  Every CPU takes its timer interrupt before the next one.       *)
(* clockintr counts it for every process that runs; a process whose slice  *)
(* is up is demoted and yields.                                            *)
Timer ==
  LET Running(s) == \E c \in Cpus : pc[c] = "user" /\ proc[c] = s
      Expired(s) == Running(s) /\ ticks_elapsed[s] + 1 >= ass_ticks[s]
      Demoted(s) == Expired(s) /\ priority_level[s] < Last IN
  /\ panic = "none"
  /\ \A s \in Slots : lock[s] = NoCpu
  /\ \A c \in Cpus : pc[c] # "yield"
  /\ wait_time' = [s \in Slots |->
       IF state[s] = "RUNNING" /\ wait_time[s] <= AGE THEN wait_time[s] + 1 ELSE wait_time[s]]
  /\ ticks_elapsed' = [s \in Slots |->
       IF Expired(s) THEN 0 ELSE IF Running(s) THEN ticks_elapsed[s] + 1 ELSE ticks_elapsed[s]]
  /\ priority_level' = [s \in Slots |->
       IF Demoted(s) THEN priority_level[s] + 1 ELSE priority_level[s]]
  /\ ass_ticks' = [s \in Slots |-> IF Demoted(s) THEN ass_ticks[s] * 2 ELSE ass_ticks[s]]
  /\ pc' = [c \in Cpus |-> IF pc[c] = "user" /\ Expired(proc[c]) THEN "yield" ELSE pc[c]]
  /\ UNCHANGED <<table, lock, proc, check, i, ticks, panic, level>>

yield(c) == GiveUp(c, "yield", "RUNNABLE") /\ UNCHANGED <<queue, level>>

Step(c) ==
  /\ Resume(c) \/ Sleep(c) \/ Exit(c) \/ \E s \in Slots : Reap(c, s)
  /\ UNCHANGED <<queue, level>>

(* allocproc does not reset wait_time.  A parent that is not in the first  *)
(* level gives way to the child, with a new slice.                         *)
NewProcess(c, s) ==
  LET gives == priority_level[proc[c]] > 0 IN
  /\ Fork(c, s, IF gives THEN "yield" ELSE "user")
  /\ priority_level' = [priority_level EXCEPT ![s] = 0]
  /\ ass_ticks' = [ass_ticks EXCEPT ![s] = 1]
  /\ ticks_elapsed' = [ticks_elapsed EXCEPT ![s] = 0, ![proc[c]] = IF gives THEN 0 ELSE @]
  /\ UNCHANGED <<wait_time, level>>

(* wakeup and kill end a sleep, and start a new slice. *)
Wake(s) ==
  /\ Wakeup(s)
  /\ ticks_elapsed' = [ticks_elapsed EXCEPT ![s] = 0]
  /\ UNCHANGED <<priority_level, ass_ticks, wait_time, level>>

Scheduler(c) ==
  AgeCheck(c) \/ Promote(c) \/ Scan(c) \/ Choose(c) \/ ScanLast(c) \/ Return(c)

Next ==
  \/ \E c \in Cpus : Scheduler(c) \/ yield(c) \/ Step(c) \/ \E s \in Slots : NewProcess(c, s)
  \/ \E s \in Slots : Wake(s)
  \/ Timer

Spec == Init /\ [][Next]_vars
-----------------------------------------------------------------------------
(* README.md: there are five levels, "priority 0 is the highest and        *)
(* priority 4 is lowest".  A process in another one is never chosen.       *)
LevelsInRange ==
  \A s \in Slots : state[s] # "UNUSED" => priority_level[s] \in 0 .. Last
=============================================================================
