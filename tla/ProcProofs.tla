----------------------------- MODULE ProcProofs -----------------------------
(***************************************************************************)
(* The process table is right for any number of slots and CPUs: no kernel  *)
(* stack is shared, the parent of a process can reap it, and no wakeup is  *)
(* lost.                                                                   *)
(***************************************************************************)
EXTENDS Proc, WellFoundedInduction, TLAPS

(* Where a process is, by the lock it holds there. *)
ExitLabels == {"reparent", "wake init", "wake parent", "zombie"}
WaitLocked == {"reparent", "wake init", "wake parent", "zombie", "scan", "wait sleep"}
TicksLocked == {"sleep check", "sleep sleep"}
Asleep == {"wait asleep", "sleep asleep"}
Loops == {"alloc", "kill", "scan", "reparent", "wake init"}
Forking == {"fork parent", "fork run"}

States == {"UNUSED", "USED", "SLEEPING", "RUNNABLE", "RUNNING", "ZOMBIE"}
Alive == {"SLEEPING", "RUNNABLE", "RUNNING"}

Indices == 1 .. NPROC + 1   \* where a loop over the slots is
IsOn(f, D) == f = [x \in D |-> f[x]]

FieldTypes ==
  /\ state \in [Slots -> States] /\ parent \in [Slots -> Slots \cup {NoProc}]
  /\ chan \in [Slots -> Slots \cup {NoProc, TicksChan}]
TimeTypes ==
  /\ ticks \in Nat /\ clock \in 0 .. NPROC + 1
LockTypes ==
  /\ lock \in [Slots -> BOOLEAN] /\ cpu \in [Cpus -> Slots \cup {NoProc}]
  /\ wait_lock \in Slots \cup {NoProc} /\ tickslock \in Slots \cup {NoProc, Clock}
LocalTypes ==
  /\ IsOn(pc, Slots) /\ idx \in [Slots -> Indices]
  /\ widx \in [Slots -> Slots] /\ arg \in [Slots -> Nat]
Types == FieldTypes /\ TimeTypes /\ LockTypes /\ LocalTypes

(* A process is on a CPU, and on one, just while it runs or has its lock   *)
(* on the way to the scheduler; clockintr interrupts none that has it.     *)
CpuUsed(c) == cpu[c] # NoProc => state[cpu[c]] = "RUNNING" \/ lock[cpu[c]]
OnOneCpu(c, d) == cpu[c] # NoProc /\ cpu[c] = cpu[d] => c = d
HasCpu(s) == state[s] = "RUNNING" \/ lock[s] => \E c \in Cpus : cpu[c] = s
LeavesCpu(s) == lock[s] => state[s] \in {"SLEEPING", "RUNNABLE", "ZOMBIE"}
Interrupted == clock # NoProc /\ cpu[Cpu0] # NoProc => ~lock[cpu[Cpu0]]
CpuInv ==
  /\ \A c \in Cpus : CpuUsed(c) /\ \A d \in Cpus : OnOneCpu(c, d)
  /\ \A s \in Slots : HasCpu(s) /\ LeavesCpu(s)
  /\ Interrupted

(* A process that is not there is nowhere in the kernel, a process is      *)
(* asleep where its channel says, and a loop variable is reset after the   *)
(* loop.                                                                   *)
InKernel(s) == pc[s] # "user" => state[s] \in Alive
SleepsAt(s) ==
  state[s] = "SLEEPING" => \/ pc[s] = "wait asleep" /\ chan[s] = s
                           \/ pc[s] = "sleep asleep" /\ chan[s] = TicksChan
NotAwake(s) == pc[s] \in Asleep => state[s] \in {"SLEEPING", "RUNNABLE"}
IdxReset(s) == idx[s] # 1 => pc[s] \in Loops
IdxInside(s) == pc[s] \in {"alloc", "kill"} => idx[s] \in Slots
WidxReset(s) == widx[s] # 1 => pc[s] \in {"wake init", "wake parent"}
PlaceInv ==
  \A s \in Slots :
    InKernel(s) /\ SleepsAt(s) /\ NotAwake(s) /\ IdxReset(s) /\ IdxInside(s) /\ WidxReset(s)

(* Who holds the two locks. *)
WaitHolder(s) == wait_lock = s <=> pc[s] \in WaitLocked
TicksHolder(s) == tickslock = s <=> pc[s] \in TicksLocked
ClockHolds == tickslock = Clock <=> clock \in Slots
HolderInv == (\A s \in Slots : WaitHolder(s) /\ TicksHolder(s)) /\ ClockHolds

(* The child that fork has taken is nobody else's. *)
HasChild(s) == pc[s] \in Forking => arg[s] \in Slots /\ state[arg[s]] = "USED"
OwnChild(s, t) == pc[s] \in Forking /\ pc[t] \in Forking /\ arg[s] = arg[t] => s = t
ForkInv == \A s \in Slots : HasChild(s) /\ \A t \in Slots : OwnChild(s, t)

(* Init is there, and an exiting process gives its children away. *)
InitThere == state[initproc] \in Alive /\ pc[initproc] \notin ExitLabels
ParentThere(s) == parent[s] # NoProc => state[parent[s]] \in Alive /\ state[s] # "UNUSED"
GivenAway(s, q) == pc[s] \in {"reparent", "wake init"} /\ q < idx[s] => parent[q] # s
Childless(s, q) == pc[s] \in {"wake parent", "zombie"} => parent[q] # s
FamilyInv ==
  /\ InitThere
  /\ \A s \in Slots : ParentThere(s) /\ \A q \in Slots : GivenAway(s, q) /\ Childless(s, q)

(* What is left of a search for zombies, and of a wakeup. *)
Searched(s, q) == pc[s] = "scan" /\ q < idx[s] /\ parent[q] = s => state[q] # "ZOMBIE"
NoneFound(s, q) == pc[s] = "wait sleep" /\ parent[q] = s => state[q] # "ZOMBIE"
InitWoken ==
  wait_lock # NoProc /\ pc[wait_lock] = "wake init" /\ widx[wait_lock] <= initproc
WillWake(s, q) ==
  state[s] = "SLEEPING" /\ chan[s] = s /\ parent[q] = s =>
    /\ pc[q] = "wake parent" => widx[q] <= s
    /\ pc[q] # "zombie"
    /\ state[q] = "ZOMBIE" => s = initproc /\ InitWoken
WakeInv == \A s, q \in Slots : Searched(s, q) /\ NoneFound(s, q) /\ WillWake(s, q)

(* Who sleeps for ticks has some left. *)
TicksToGo(s) == pc[s] = "sleep sleep" => ticks < arg[s]
TickComes(s) ==
  state[s] = "SLEEPING" /\ chan[s] = TicksChan => ticks < arg[s] \/ (clock # NoProc /\ clock <= s)
TickInv == \A s \in Slots : TicksToGo(s) /\ TickComes(s)

IInv ==
  Types /\ CpuInv /\ PlaceInv /\ HolderInv /\ ForkInv /\ FamilyInv /\ WakeInv /\ TickInv
-----------------------------------------------------------------------------
(* The steps that have several cases, case by case and with the slots that *)
(* they name.                                                              *)

Place(s, l) == state[s] = "RUNNING" /\ pc[s] = l
Locals(s, l, i, a) ==
  /\ pc' = [pc EXCEPT ![s] = l] /\ idx' = [idx EXCEPT ![s] = i] /\ arg' = [arg EXCEPT ![s] = a]
  /\ UNCHANGED widx

(* s only moves on in the kernel, with no lock. *)
Local(s, l, i, a) ==
  /\ state[s] = "RUNNING" /\ pc[s] \in {"user", "alloc", "kill"}
  /\ l \in {"user", "wait", "alloc", "kill"} /\ (l \in {"user", "wait"} => i = 1)
  /\ Locals(s, l, i, a)
  /\ UNCHANGED <<state, parent, chan, locks, ticks, cpu, clock>>

(* allocproc takes slot i, or runs out of memory for it. *)
Take(s, i) ==
  /\ Place(s, "alloc") /\ state[i] = "UNUSED" /\ ~lock[i]
  /\ state' = [state EXCEPT ![i] = "USED"]
  /\ pc' = [pc EXCEPT ![s] = "fork parent", ![i] = "user"]
  /\ idx' = [idx EXCEPT ![s] = 1] /\ arg' = [arg EXCEPT ![s] = i]
  /\ UNCHANGED <<parent, chan, locks, widx, ticks, cpu, clock>>
NoMemory(s, i) ==
  /\ Place(s, "alloc") /\ state[i] = "UNUSED" /\ ~lock[i]
  /\ state' = [state EXCEPT ![i] = "UNUSED"]
  /\ parent' = [parent EXCEPT ![i] = NoProc] /\ chan' = [chan EXCEPT ![i] = 0]
  /\ Locals(s, "user", 1, 0)
  /\ UNCHANGED <<locks, ticks, cpu, clock>>

(* kill finds slot i. *)
Hit(s, i) ==
  /\ Place(s, "kill") /\ ~lock[i]
  /\ state' = [state EXCEPT ![i] = IF @ = "SLEEPING" THEN "RUNNABLE" ELSE @]
  /\ Locals(s, "user", 1, 0)
  /\ UNCHANGED <<parent, chan, locks, ticks, cpu, clock>>

(* exit gives the child q to init, or finds no more. *)
GiveAway(s, q) ==
  /\ Place(s, "reparent") /\ parent[q] = s
  /\ \A x \in Slots : idx[s] <= x /\ x < q => parent[x] # s
  /\ parent' = [parent EXCEPT ![q] = initproc]
  /\ Locals(s, "wake init", q, arg[s])
  /\ UNCHANGED <<state, chan, locks, ticks, cpu, clock>>
NoKids(s) ==
  /\ Place(s, "reparent") /\ \A x \in Slots : idx[s] <= x => parent[x] # s
  /\ Locals(s, "wake parent", 1, arg[s])
  /\ UNCHANGED <<state, parent, chan, locks, ticks, cpu, clock>>

(* wait frees the child q, gives up, passes the child q by, or is to       *)
(* sleep.                                                                  *)
Free(s, q) ==
  /\ Place(s, "scan") /\ parent[q] = s /\ state[q] = "ZOMBIE" /\ ~lock[q]
  /\ state' = [state EXCEPT ![q] = "UNUSED"] /\ wait_lock' = NoProc
  /\ parent' = [parent EXCEPT ![q] = NoProc] /\ chan' = [chan EXCEPT ![q] = 0]
  /\ Locals(s, "user", 1, 0)
  /\ UNCHANGED <<lock, tickslock, ticks, cpu, clock>>
GiveUp(s) ==
  /\ Place(s, "scan") /\ wait_lock' = NoProc
  /\ Locals(s, "user", 1, 0)
  /\ UNCHANGED <<state, parent, chan, lock, tickslock, ticks, cpu, clock>>
PassBy(s, q) ==
  /\ Place(s, "scan") /\ parent[q] = s /\ state[q] # "ZOMBIE"
  /\ \A x \in Slots : idx[s] <= x /\ x < q => parent[x] # s
  /\ Locals(s, "scan", q + 1, arg[s])
  /\ UNCHANGED <<state, parent, chan, locks, ticks, cpu, clock>>
ToSleep(s) ==
  /\ Place(s, "scan") /\ \A x \in Slots : idx[s] <= x => parent[x] # s
  /\ Locals(s, "wait sleep", 1, arg[s])
  /\ UNCHANGED <<state, parent, chan, locks, ticks, cpu, clock>>

(* A round of wakeup(ch) at label l, before it goes on at n. *)
Round(s, l, ch, n) ==
  LET i == widx[s] IN
  /\ Place(s, l) /\ (i # s => ~lock[i])
  /\ state' = [state EXCEPT ![i] =
                 IF i # s /\ state[i] = "SLEEPING" /\ chan[i] = ch THEN "RUNNABLE" ELSE @]
  /\ \/ i = NPROC /\ widx' = [widx EXCEPT ![s] = 1] /\ pc' = [pc EXCEPT ![s] = n]
     \/ i < NPROC /\ widx' = [widx EXCEPT ![s] = i + 1] /\ UNCHANGED pc
  /\ UNCHANGED <<parent, chan, locks, idx, arg, ticks, cpu, clock>>

Labels1 == {"user", "wait", "alloc", "kill"}
Simple(s) ==
  \/ yield(s) \/ ForkParent(s) \/ ForkRun(s) \/ Exit(s) \/ NoKids(s)
  \/ Round(s, "wake init", initproc, "reparent") \/ Round(s, "wake parent", parent[s], "zombie")
  \/ Zombie(s) \/ WaitLock(s) \/ GiveUp(s) \/ ToSleep(s) \/ WaitSleep(s)
  \/ SleepLock(s) \/ SleepCheck(s) \/ SleepSleep(s) \/ \E n \in 0 .. MaxTicks : SysSleep(s, n)
OfSlot(s, i) ==
  \/ Take(s, i) \/ NoMemory(s, i) \/ Hit(s, i) \/ GiveAway(s, i) \/ PassBy(s, i) \/ Free(s, i)
  \/ \E l \in Labels1, a \in Nat : Local(s, l, i, a)
Case ==
  \/ \E c \in Cpus : Switch(c) \/ \E s \in Slots : Dispatch(c, s)
  \/ \E s \in Slots : Simple(s) \/ \E i \in Slots : OfSlot(s, i)
  \/ ClockStep
-----------------------------------------------------------------------------
LEMMA Sizes == NPROC \in Nat /\ NPROC >= 1 /\ Cpu0 \in Cpus
  BY ProcAssumption

LEMMA SlotsAre ==
  /\ Slots \subseteq Nat /\ initproc \in Slots /\ \A s \in Slots : 1 <= s /\ s <= NPROC
  /\ NoProc \notin Slots /\ TicksChan \notin Slots /\ Clock \notin Slots
  /\ TicksChan # NoProc /\ Clock # NoProc
  BY Sizes DEF Slots, initproc, NoProc, TicksChan, Clock

LEMMA IndicesAre ==
  /\ 1 \in Slots /\ Slots \subseteq Indices /\ Indices \subseteq Nat
  /\ \A q \in Slots : q + 1 \in Indices
  /\ \A q \in Slots : q < NPROC => q + 1 \in Slots
  BY Sizes DEF Slots, Indices

(* The first slot of a set is in it. *)
LEMMA MinOf ==
  ASSUME NEW S \in SUBSET Slots, S # {}
  PROVE  Min(S) \in S /\ \A x \in S : Min(S) <= x
  <1> DEFINE R == OpToRel(<, Nat)
  <1>1. IsWellFoundedOn(R, Nat)
    BY Zenon, NatLessThanWellFounded
  <1>2. S \subseteq Nat
    BY SlotsAre
  <1>3. PICK m \in S : \A y \in S : ~(<<y, m>> \in R)
    BY Zenon, <1>1, <1>2, WFMin
  <1>4. \A y \in S : ~(y < m)
    BY Zenon, <1>2, <1>3 DEF OpToRel
  <1> HIDE DEF R
  <1>5. \A y \in S : m <= y
    BY <1>2, <1>4
  <1> QED BY Zenon, <1>3, <1>5 DEF Min

(* The first child from idx[s] on. *)
LEMMA FirstChild ==
  ASSUME LocalTypes, NEW s \in Slots
  PROVE  /\ ChildrenFrom(s, idx[s]) # {} =>
              \E q \in Slots :
                /\ q = Min(ChildrenFrom(s, idx[s])) /\ parent[q] = s
                /\ \A x \in Slots : idx[s] <= x /\ x < q => parent[x] # s
         /\ ChildrenFrom(s, idx[s]) = {} => \A x \in Slots : idx[s] <= x => parent[x] # s
  <1> DEFINE kids == ChildrenFrom(s, idx[s])
  <1>0. idx[s] \in 1 .. NPROC + 1
    BY DEF LocalTypes, Indices
  <1>1. kids \subseteq Slots /\ \A x \in Slots : idx[s] <= x /\ parent[x] = s => x \in kids
    BY Sizes, <1>0 DEF ChildrenFrom, Slots
  <1>2. \A x \in kids : parent[x] = s
    BY DEF ChildrenFrom
  <1>3. kids # {} => Min(kids) \in kids /\ \A x \in kids : Min(kids) <= x
    BY Zenon, <1>1, MinOf
  <1> HIDE DEF kids
  <1>4. ASSUME kids # {}, NEW x \in Slots, idx[s] <= x, x < Min(kids) PROVE parent[x] # s
    <2>1. x \in kids => Min(kids) <= x /\ Min(kids) \in Slots
      BY Zenon, <1>1, <1>3, <1>4
    <2>2. x \notin kids
      <3> DEFINE m == Min(kids)
      <3>1. x \in kids => x \in Nat /\ m \in Nat /\ m <= x
        BY Zenon, <2>1, SlotsAre
      <3>2. x < m
        BY Zenon, <1>4
      <3> HIDE DEF m
      <3> QED BY <3>1, <3>2
    <2> QED BY Zenon, <1>1, <1>4, <2>2
  <1>5. kids # {} => \E q \in Slots :
          q = Min(kids) /\ parent[q] = s /\ \A x \in Slots : idx[s] <= x /\ x < q => parent[x] # s
    BY Zenon, <1>1, <1>2, <1>3, <1>4
  <1>6. kids = {} => \A x \in Slots : idx[s] <= x => parent[x] # s
    BY Zenon, <1>1
  <1> QED BY Zenon, <1>5, <1>6 DEF kids

LEMMA AllocCases ==
  ASSUME IInv, NEW s \in Slots, Alloc(s)
  PROVE  \E i \in Slots : OfSlot(s, i)
  <1> DEFINE i == idx[s]
  <1>1. i \in Slots /\ pc[s] = "alloc" /\ state[s] = "RUNNING" /\ arg[s] \in Nat
    BY Zenon DEF IInv, PlaceInv, IdxInside, IdxReset, Types, LocalTypes, Alloc, At, Running
  <1>0. pc = [pc EXCEPT ![s] = "alloc"] /\ arg = [arg EXCEPT ![s] = arg[s]]
    BY <1>1 DEF IInv, Types, LocalTypes, IsOn
  <1>2. CASE state[i] = "UNUSED"
    BY Zenon, <1>1, <1>2 DEF Alloc, OfSlot, Take, NoMemory, Place, freeproc, Return, Locals, locks, fields
  <1>3. CASE state[i] # "UNUSED" /\ i < NPROC
    <2>1. i + 1 \in Slots
      BY <1>1, <1>3, Sizes DEF Slots
    <2>2. Local(s, "alloc", i + 1, arg[s])
      <3>1. idx' = [idx EXCEPT ![s] = i + 1] /\ UNCHANGED <<fields, pc, widx, arg>>
        <4>1. i # NPROC
          BY <1>3, Sizes
        <4> QED BY Zenon, <1>3, <4>1 DEF Alloc
      <3> QED BY Zenon, <1>0, <1>1, <1>3, <3>1 DEF Alloc, Local, Locals, fields
    <2> QED BY Zenon, <1>1, <2>1, <2>2 DEF OfSlot, Labels1
  <1>4. CASE state[i] # "UNUSED" /\ i = NPROC
    <2>1. Local(s, "user", 1, 0)
      <3>1. Return(s) /\ UNCHANGED fields
        <4>1. ~(i < NPROC)
          BY <1>4, Sizes
        <4> QED BY Zenon, <1>4, <4>1 DEF Alloc
      <3> QED BY Zenon, <1>0, <1>1, <1>4, <3>1 DEF Alloc, Local, Locals, fields, Return
    <2>2. 1 \in Slots /\ 0 \in Nat
      BY Sizes DEF Slots
    <2> QED BY Zenon, <2>1, <2>2 DEF OfSlot, Labels1
  <1> QED BY <1>1, <1>2, <1>3, <1>4, Sizes DEF Slots

LEMMA KillCases ==
  ASSUME IInv, NEW s \in Slots, KillScan(s)
  PROVE  \E i \in Slots : OfSlot(s, i)
  <1> DEFINE i == idx[s]
  <1>1. i \in Slots /\ pc[s] = "kill" /\ state[s] = "RUNNING" /\ arg[s] \in Nat
    BY DEF IInv, PlaceInv, IdxInside, IdxReset, Types, LocalTypes, KillScan, At, Running
  <1>2. CASE pid[i] = arg[s]
    BY Zenon, <1>1, <1>2 DEF KillScan, OfSlot, Hit, Place, Return, Locals
  <1>3. CASE pid[i] # arg[s] /\ i < NPROC
    <2>1. i + 1 \in Slots
      BY <1>1, <1>3, Sizes DEF Slots
    <2>2. Local(s, "kill", i + 1, arg[s])
      <3>1. pc = [pc EXCEPT ![s] = "kill"] /\ arg = [arg EXCEPT ![s] = arg[s]] /\ i # NPROC
        BY <1>1, <1>3, Sizes DEF IInv, Types, LocalTypes, IsOn
      <3> QED BY Zenon, <1>1, <1>3, <3>1 DEF KillScan, Local, Locals
    <2> QED BY Zenon, <1>1, <2>1, <2>2 DEF OfSlot, Labels1
  <1>4. CASE pid[i] # arg[s] /\ i = NPROC
    <2>1. Local(s, "user", 1, 0)
      BY <1>1, <1>4, Sizes DEF KillScan, Local, Locals, Return
    <2>2. 1 \in Slots /\ 0 \in Nat
      BY Sizes DEF Slots
    <2> QED BY Zenon, <2>1, <2>2 DEF OfSlot, Labels1
  <1> QED BY <1>1, <1>2, <1>3, <1>4, Sizes DEF Slots

LEMMA StartCases ==
  ASSUME IInv, NEW s \in Slots, Fork(s) \/ Wait(s) \/ \E k \in KillPids : Kill(s, k)
  PROVE  \E i \in Slots : OfSlot(s, i)
  <1>1. idx[s] = 1 /\ pc[s] = "user" /\ state[s] = "RUNNING" /\ arg[s] \in Nat
    BY Zenon DEF IInv, PlaceInv, IdxInside, IdxReset, Types, LocalTypes, Fork, Wait, Kill, Calling, At, Running, Loops
  <1>2. idx = [idx EXCEPT ![s] = 1] /\ arg = [arg EXCEPT ![s] = arg[s]] /\ 1 \in Slots
    BY <1>1, Sizes DEF IInv, Types, LocalTypes, Slots
  <1>3. CASE Fork(s)
    <2>1. Local(s, "alloc", 1, arg[s])
      BY <1>1, <1>2, <1>3 DEF Fork, Local, Locals, Goto, fields
    <2> QED BY Zenon, <1>1, <1>2, <2>1 DEF OfSlot, Labels1
  <1>4. CASE Wait(s)
    <2>1. Local(s, "wait", 1, arg[s])
      BY <1>1, <1>2, <1>4 DEF Wait, Local, Locals, Goto, fields
    <2> QED BY Zenon, <1>1, <1>2, <2>1 DEF OfSlot, Labels1
  <1>5. ASSUME NEW k \in KillPids, Kill(s, k) PROVE \E i \in Slots : OfSlot(s, i)
    <2>1. Local(s, "kill", 1, k)
      BY <1>1, <1>2, <1>5 DEF Kill, Local, Locals, Goto, fields
    <2>2. k \in Nat
      BY ProcAssumption
    <2> QED BY Zenon, <1>1, <1>2, <2>1, <2>2 DEF OfSlot, Labels1
  <1> QED BY Zenon, <1>3, <1>4, <1>5

LEMMA ReparentCases ==
  ASSUME IInv, NEW s \in Slots, Reparent(s)
  PROVE  NoKids(s) \/ \E q \in Slots : OfSlot(s, q)
  <1> DEFINE kids == ChildrenFrom(s, idx[s])
             q == Min(kids)
  <1>1. LocalTypes /\ pc[s] = "reparent" /\ state[s] = "RUNNING"
    BY Zenon DEF IInv, Types, Reparent, At, Running
  <1>2. arg = [arg EXCEPT ![s] = arg[s]]
    BY <1>1 DEF LocalTypes, IsOn
  <1>3. CASE kids # {}
    <2>1. q \in Slots /\ parent[q] = s /\ \A x \in Slots : idx[s] <= x /\ x < q => parent[x] # s
      BY Zenon, <1>1, <1>3, FirstChild
    <2>2. GiveAway(s, q)
      BY Zenon, <1>1, <1>2, <1>3, <2>1 DEF Reparent, GiveAway, Place, Locals, Orphans, Goto
    <2> QED BY Zenon, <2>1, <2>2 DEF OfSlot
  <1>4. CASE kids = {}
    <2>1. \A x \in Slots : idx[s] <= x => parent[x] # s
      BY Zenon, <1>1, <1>4, FirstChild
    <2> QED BY Zenon, <1>1, <1>2, <1>4, <2>1 DEF Reparent, NoKids, Place, Locals, Orphans, Goto
  <1> QED BY <1>3, <1>4

LEMMA ScanCases ==
  ASSUME IInv, NEW s \in Slots, Scan(s)
  PROVE  GiveUp(s) \/ ToSleep(s) \/ \E q \in Slots : OfSlot(s, q)
  <1> DEFINE kids == ChildrenFrom(s, idx[s])
             q == Min(kids)
  <1>1. LocalTypes /\ pc[s] = "scan" /\ state[s] = "RUNNING"
    BY Zenon DEF IInv, Types, Scan, At, Running
  <1>2. arg = [arg EXCEPT ![s] = arg[s]] /\ pc = [pc EXCEPT ![s] = "scan"]
    BY <1>1 DEF LocalTypes, IsOn
  <1>3. CASE kids # {}
    <2>1. q \in Slots /\ parent[q] = s /\ \A x \in Slots : idx[s] <= x /\ x < q => parent[x] # s
      BY Zenon, <1>1, <1>3, FirstChild
    <2>2. CASE state[q] = "ZOMBIE" /\ Return(s) /\ freeproc(q) /\ wait_lock' = NoProc
      <3>1. Free(s, q)
        BY Zenon, <1>1, <1>3, <2>1, <2>2 DEF Scan, Free, Place, Locals, freeproc, Return, ChildUnlocked
      <3> QED BY Zenon, <2>1, <3>1 DEF OfSlot
    <2>3. CASE wait_lock' = NoProc /\ UNCHANGED fields /\ Return(s)
      BY Zenon, <1>1, <1>3, <2>3 DEF Scan, GiveUp, Place, Locals, Return, fields
    <2>4. CASE state[q] # "ZOMBIE"
      <3>1. PassBy(s, q)
        BY Zenon, <1>1, <1>2, <1>3, <2>1, <2>4 DEF Scan, PassBy, Place, Locals, SlotAfter, fields, locks
      <3> QED BY Zenon, <2>1, <3>1 DEF OfSlot
    <2> QED BY Zenon, <1>3, <2>2, <2>3, <2>4 DEF Scan
  <1>4. CASE kids = {}
    <2>1. \A x \in Slots : idx[s] <= x => parent[x] # s
      BY Zenon, <1>1, <1>4, FirstChild
    <2>2. CASE killed[s] \/ ChildrenFrom(s, 1) = {}
      BY Zenon, <1>1, <1>4, <2>2 DEF Scan, GiveUp, Place, Locals, Return, fields
    <2>3. CASE ~(killed[s] \/ ChildrenFrom(s, 1) = {})
      BY Zenon, <1>1, <1>2, <1>4, <2>1, <2>3 DEF Scan, ToSleep, Place, Locals, Goto, fields, locks
    <2> QED BY Zenon, <2>2, <2>3
  <1> QED BY <1>3, <1>4

LEMMA RoundCases ==
  ASSUME IInv, NEW s \in Slots
  PROVE  /\ WakeInit(s) => Round(s, "wake init", initproc, "reparent")
         /\ WakeParent(s) => Round(s, "wake parent", parent[s], "zombie")
  <1>1. widx[s] \in Slots
    BY DEF IInv, Types, LocalTypes, IsOn
  <1>2. widx[s] # NPROC => widx[s] < NPROC
    BY <1>1, Sizes DEF Slots
  <1> QED
    BY Zenon, <1>1, <1>2 DEF WakeInit, WakeParent, WakeLoop, Wake, Round, Place, At, Running, Goto

LEMMA Cases == ASSUME IInv, Next PROVE Case
  <1>1. ASSUME NEW s \in Slots, Call(s) \/ KernelStep(s) \/ yield(s)
        PROVE  Simple(s) \/ \E i \in Slots : OfSlot(s, i)
    <2>1. CASE Fork(s) \/ Wait(s) \/ \E k \in KillPids : Kill(s, k)
      BY Zenon, <2>1, StartCases
    <2>2. CASE Alloc(s) \/ KillScan(s)
      BY Zenon, <2>2, AllocCases, KillCases
    <2>3. CASE Reparent(s) \/ Scan(s)
      BY Zenon, <2>3, ReparentCases, ScanCases DEF Simple
    <2>4. CASE WakeInit(s) \/ WakeParent(s)
      BY Zenon, <2>4, RoundCases DEF Simple
    <2> QED BY Zenon, <1>1, <2>1, <2>2, <2>3, <2>4 DEF Simple, Call, KernelStep
  <1> QED BY Zenon, <1>1 DEF Next, Case

-----------------------------------------------------------------------------
(* The same steps, value by value. *)

Sets(f, g, s, v) == g[s] = v /\ \A p \in Slots : p # s => g[p] = f[p]
Moves(s, k, l) == state[s] = "RUNNING" /\ pc[s] = k /\ Sets(pc, pc', s, l)
Resets(s, i, a) == Sets(idx, idx', s, i) /\ Sets(arg, arg', s, a)
OnCpu(s) == \E d \in Cpus : cpu[d] = s /\ ~(d = Cpu0 /\ clock # NoProc)

PDispatch(c, s) ==
  /\ cpu[c] = NoProc /\ ~lock[s] /\ state[s] = "RUNNABLE" /\ (c = Cpu0 => clock = NoProc)
  /\ Sets(state, state', s, "RUNNING") /\ Sets(chan, chan', s, 0)
  /\ cpu'[c] = s /\ \A d \in Cpus : d # c => cpu'[d] = cpu[d]
  /\ \E m : /\ Sets(pc, pc', s, m)
            /\ \/ pc[s] = "wait asleep" /\ m = "wait"
               \/ pc[s] = "sleep asleep" /\ m = "sleep"
               \/ pc[s] \notin Asleep /\ m = pc[s]
  /\ UNCHANGED <<parent, locks, idx, widx, arg, ticks, clock>>
PSwitch(c, s) ==
  /\ cpu[c] = s /\ lock[s] /\ Sets(lock, lock', s, FALSE)
  /\ cpu'[c] = NoProc /\ \A d \in Cpus : d # c => cpu'[d] = cpu[d]
  /\ UNCHANGED <<state, parent, chan, wait_lock, tickslock, locals, ticks, clock>>
PYield(s) ==
  /\ state[s] = "RUNNING" /\ OnCpu(s) /\ wait_lock # s /\ tickslock # s
  /\ Sets(lock, lock', s, TRUE) /\ Sets(state, state', s, "RUNNABLE")
  /\ UNCHANGED <<parent, chan, wait_lock, tickslock, locals, ticks, cpu, clock>>
PLocal(s, k, l, i, a) ==
  /\ k \in {"user", "alloc", "kill"} /\ Moves(s, k, l) /\ Resets(s, i, a)
  /\ \/ l \in {"alloc", "kill"}
     \/ l \in {"user", "wait"} /\ i = 1
  /\ UNCHANGED <<state, parent, chan, locks, widx, ticks, cpu, clock>>
PTake(s, i) ==
  /\ state[s] = "RUNNING" /\ pc[s] = "alloc" /\ state[i] = "UNUSED" /\ ~lock[i]
  /\ Sets(state, state', i, "USED")
  /\ pc'[s] = "fork parent" /\ pc'[i] = "user" /\ \A p \in Slots : p # s /\ p # i => pc'[p] = pc[p]
  /\ Resets(s, 1, i)
  /\ UNCHANGED <<parent, chan, locks, widx, ticks, cpu, clock>>
PNoMemory(s, i) ==
  /\ Moves(s, "alloc", "user") /\ state[i] = "UNUSED" /\ ~lock[i]
  /\ Sets(state, state', i, "UNUSED") /\ Sets(parent, parent', i, NoProc) /\ Sets(chan, chan', i, 0)
  /\ Resets(s, 1, 0)
  /\ UNCHANGED <<locks, widx, ticks, cpu, clock>>
PForkParent(s, i) ==
  /\ Moves(s, "fork parent", "fork run") /\ i = arg[s] /\ wait_lock = NoProc
  /\ Sets(parent, parent', i, s)
  /\ UNCHANGED <<state, chan, locks, idx, widx, arg, ticks, cpu, clock>>
PForkRun(s, i) ==
  /\ Moves(s, "fork run", "user") /\ i = arg[s] /\ ~lock[i]
  /\ Sets(state, state', i, "RUNNABLE") /\ Resets(s, 1, 0)
  /\ UNCHANGED <<parent, chan, locks, widx, ticks, cpu, clock>>
PWaitLock(s, k, l, a) ==
  /\ Moves(s, k, l) /\ wait_lock = NoProc /\ wait_lock' = s
  /\ \/ k = "user" /\ l = "reparent" /\ s # initproc
     \/ k \in {"user", "wait"} /\ l = "scan"
  /\ Sets(arg, arg', s, a)
  /\ UNCHANGED <<state, parent, chan, lock, tickslock, idx, widx, ticks, cpu, clock>>
PGiveAway(s, q) ==
  /\ Moves(s, "reparent", "wake init") /\ parent[q] = s
  /\ \A x \in Slots : idx[s] <= x /\ x < q => parent[x] # s
  /\ Sets(parent, parent', q, initproc) /\ Sets(idx, idx', s, q)
  /\ UNCHANGED <<state, chan, locks, widx, arg, ticks, cpu, clock>>
PNoKids(s) ==
  /\ Moves(s, "reparent", "wake parent") /\ \A x \in Slots : idx[s] <= x => parent[x] # s
  /\ Sets(idx, idx', s, 1)
  /\ UNCHANGED <<state, parent, chan, locks, widx, arg, ticks, cpu, clock>>
PRound(s, l, ch, n, i) ==
  /\ state[s] = "RUNNING" /\ pc[s] = l /\ i = widx[s] /\ (i # s => ~lock[i])
  /\ \A p \in Slots : p # i => state'[p] = state[p]
  /\ \/ i # s /\ state[i] = "SLEEPING" /\ chan[i] = ch /\ state'[i] = "RUNNABLE"
     \/ ~(i # s /\ state[i] = "SLEEPING" /\ chan[i] = ch) /\ state'[i] = state[i]
  /\ \/ i = NPROC /\ Sets(widx, widx', s, 1) /\ Sets(pc, pc', s, n)
     \/ i < NPROC /\ Sets(widx, widx', s, i + 1) /\ UNCHANGED pc
  /\ UNCHANGED <<parent, chan, locks, idx, arg, ticks, cpu, clock>>
PZombie(s) ==
  /\ Moves(s, "zombie", "user") /\ OnCpu(s) /\ wait_lock' = NoProc
  /\ Sets(lock, lock', s, TRUE) /\ Sets(state, state', s, "ZOMBIE")
  /\ UNCHANGED <<parent, chan, tickslock, idx, widx, arg, ticks, cpu, clock>>
PFree(s, q) ==
  /\ Moves(s, "scan", "user") /\ wait_lock' = NoProc
  /\ parent[q] = s /\ state[q] = "ZOMBIE" /\ ~lock[q]
  /\ Sets(state, state', q, "UNUSED") /\ Sets(parent, parent', q, NoProc) /\ Sets(chan, chan', q, 0)
  /\ Resets(s, 1, 0)
  /\ UNCHANGED <<lock, tickslock, widx, ticks, cpu, clock>>
PGiveUp(s) ==
  /\ Moves(s, "scan", "user") /\ wait_lock' = NoProc /\ Resets(s, 1, 0)
  /\ UNCHANGED <<state, parent, chan, lock, tickslock, widx, ticks, cpu, clock>>
PPassBy(s, q) ==
  /\ Moves(s, "scan", "scan") /\ parent[q] = s /\ state[q] # "ZOMBIE"
  /\ \A x \in Slots : idx[s] <= x /\ x < q => parent[x] # s
  /\ Sets(idx, idx', s, q + 1)
  /\ UNCHANGED <<state, parent, chan, locks, widx, arg, ticks, cpu, clock>>
PToSleep(s) ==
  /\ Moves(s, "scan", "wait sleep") /\ \A x \in Slots : idx[s] <= x => parent[x] # s
  /\ Sets(idx, idx', s, 1)
  /\ UNCHANGED <<state, parent, chan, locks, widx, arg, ticks, cpu, clock>>
PSleeps(s, k, ch, l) ==
  /\ Moves(s, k, l) /\ OnCpu(s)
  /\ \/ k = "wait sleep" /\ l = "wait asleep" /\ ch = s /\ wait_lock' = NoProc /\ UNCHANGED tickslock
     \/ k = "sleep sleep" /\ l = "sleep asleep" /\ ch = TicksChan /\ tickslock' = NoProc
        /\ UNCHANGED wait_lock
  /\ Sets(lock, lock', s, TRUE) /\ Sets(state, state', s, "SLEEPING") /\ Sets(chan, chan', s, ch)
  /\ UNCHANGED <<parent, idx, widx, arg, ticks, cpu, clock>>
PHit(s, i) ==
  /\ Moves(s, "kill", "user") /\ ~lock[i] /\ Resets(s, 1, 0)
  /\ \A p \in Slots : p # i => state'[p] = state[p]
  /\ \/ state[i] = "SLEEPING" /\ state'[i] = "RUNNABLE"
     \/ state[i] # "SLEEPING" /\ state'[i] = state[i]
  /\ UNCHANGED <<parent, chan, locks, widx, ticks, cpu, clock>>
PTicksLock(s, k, a) ==
  /\ k \in {"user", "sleep"} /\ Moves(s, k, "sleep check") /\ Sets(arg, arg', s, a)
  /\ tickslock = NoProc /\ tickslock' = s
  /\ UNCHANGED <<state, parent, chan, lock, wait_lock, idx, widx, ticks, cpu, clock>>
PSleepCheck(s) ==
  /\ \/ /\ Moves(s, "sleep check", "sleep sleep") /\ ticks < arg[s]
        /\ UNCHANGED <<tickslock, idx, arg>>
     \/ Moves(s, "sleep check", "user") /\ tickslock' = NoProc /\ Resets(s, 1, 0)
  /\ UNCHANGED <<state, parent, chan, lock, wait_lock, widx, ticks, cpu, clock>>
PClockWake(i) ==
  /\ i = clock
  /\ \A p \in Slots : p # i => state'[p] = state[p]
  /\ \/ i # cpu[Cpu0] /\ ~lock[i] /\ state[i] = "SLEEPING" /\ chan[i] = TicksChan
        /\ state'[i] = "RUNNABLE"
     \/ ~(i # cpu[Cpu0] /\ state[i] = "SLEEPING" /\ chan[i] = TicksChan) /\ state'[i] = state[i]
  /\ \/ i = NPROC /\ clock' = NoProc /\ tickslock' = NoProc
     \/ i < NPROC /\ clock' = i + 1 /\ UNCHANGED tickslock
  /\ UNCHANGED <<parent, chan, lock, wait_lock, locals, ticks, cpu>>

(* What one process does, in the kernel functions that it runs. *)
PProc(s) ==
  \/ PYield(s) \/ PNoKids(s) \/ PZombie(s) \/ PGiveUp(s) \/ PToSleep(s)
  \/ PSleepCheck(s)
  \/ \E k, ch, l : PSleeps(s, k, ch, l)
  \/ \E k, l : \E a \in Nat : PWaitLock(s, k, l, a) \/ PTicksLock(s, k, a)
PSlot(s, i) ==
  \/ PTake(s, i) \/ PNoMemory(s, i) \/ PForkParent(s, i) \/ PForkRun(s, i) \/ PGiveAway(s, i)
  \/ PPassBy(s, i) \/ PHit(s, i) \/ PFree(s, i)
  \/ PRound(s, "wake init", initproc, "reparent", i)
  \/ PRound(s, "wake parent", parent[s], "zombie", i)
  \/ \E k, l : \E a \in Nat : PLocal(s, k, l, i, a)
AnyPoint ==
  \/ \E c \in Cpus, s \in Slots : PDispatch(c, s) \/ PSwitch(c, s)
  \/ \E s \in Slots : PProc(s) \/ \E i \in Slots : PSlot(s, i)
  \/ \E i \in Slots : PClockWake(i)
  \/ ClockIntr \/ ClockTick
\* One step, by its parameters.
Point(c, s, i, k, ch, l, a) ==
  \/ PDispatch(c, s) \/ PSwitch(c, s) \/ PYield(s) \/ PLocal(s, k, l, i, a) \/ PTake(s, i)
  \/ PNoMemory(s, i) \/ PForkParent(s, i) \/ PForkRun(s, i) \/ PWaitLock(s, k, l, a)
  \/ PGiveAway(s, i) \/ PNoKids(s) \/ PRound(s, "wake init", initproc, "reparent", i)
  \/ PRound(s, "wake parent", parent[s], "zombie", i) \/ PZombie(s) \/ PFree(s, i)
  \/ PGiveUp(s) \/ PPassBy(s, i) \/ PToSleep(s) \/ PSleeps(s, k, ch, l)
  \/ PHit(s, i) \/ PTicksLock(s, k, a) \/ PSleepCheck(s) \/ ClockIntr \/ ClockTick
  \/ PClockWake(i) \/ UNCHANGED vars
-----------------------------------------------------------------------------
LEMMA SetsExcept ==
  ASSUME NEW f, IsOn(f, Slots), NEW s \in Slots, NEW v
  PROVE  Sets(f, [f EXCEPT ![s] = v], s, v)
  BY Zenon DEF Sets, IsOn

LEMMA SetsSame ==
  ASSUME NEW f, NEW s, NEW v, f[s] = v
  PROVE  Sets(f, f, s, v)
  BY Zenon DEF Sets

(* The functions are functions on the slots. *)
LEMMA Domains ==
  ASSUME Types
  PROVE  /\ IsOn(state, Slots) /\ IsOn(parent, Slots) /\ IsOn(chan, Slots) /\ IsOn(lock, Slots)
         /\ IsOn(pc, Slots) /\ IsOn(idx, Slots) /\ IsOn(widx, Slots) /\ IsOn(arg, Slots)
         /\ IsOn(cpu, Cpus)
  BY Zenon DEF Types, FieldTypes, TimeTypes, LockTypes, LocalTypes, IsOn

LEMMA PointOfCpu ==
  ASSUME IInv, NEW c \in Cpus
  PROVE  /\ \A s \in Slots : Dispatch(c, s) => PDispatch(c, s)
         /\ Switch(c) => \E s \in Slots : PSwitch(c, s)
  <1>1. Types /\ cpu \in [Cpus -> Slots \cup {NoProc}]
    BY Zenon DEF IInv, Types, LockTypes
  <1>2. ASSUME NEW s \in Slots, Dispatch(c, s) PROVE PDispatch(c, s)
    <2>1. Sets(state, state', s, "RUNNING") /\ Sets(chan, chan', s, 0)
      BY Zenon, <1>1, <1>2, Domains, SetsExcept DEF Dispatch
    <2>2. cpu'[c] = s /\ \A d \in Cpus : d # c => cpu'[d] = cpu[d]
      BY Zenon, <1>1, <1>2, Domains DEF Dispatch, IsOn
    <2> DEFINE l == CASE pc[s] = "wait asleep" -> "wait"
                      [] pc[s] = "sleep asleep" -> "sleep"
                      [] OTHER -> pc[s]
    <2>3. \/ pc[s] = "wait asleep" /\ l = "wait"
          \/ pc[s] = "sleep asleep" /\ l = "sleep"
          \/ pc[s] \notin Asleep /\ l = pc[s]
      BY Zenon DEF Asleep
    <2>4. Sets(pc, pc', s, l)
      BY Zenon, <1>1, <1>2, Domains, SetsExcept DEF Dispatch, Goto
    <2> HIDE DEF l
    <2> QED BY Zenon, <1>2, <2>1, <2>2, <2>3, <2>4 DEF Dispatch, PDispatch
  <1>3. ASSUME Switch(c) PROVE \E s \in Slots : PSwitch(c, s)
    <2>1. cpu[c] \in Slots
      BY Zenon, <1>1, <1>3 DEF Switch
    <2>2. Sets(lock, lock', cpu[c], FALSE)
      BY Zenon, <1>1, <1>3, <2>1, Domains, SetsExcept DEF Switch
    <2>3. cpu'[c] = NoProc /\ \A d \in Cpus : d # c => cpu'[d] = cpu[d]
      BY Zenon, <1>1, <1>3, Domains DEF Switch, IsOn
    <2>4. PSwitch(c, cpu[c])
      BY Zenon, <1>3, <2>1, <2>2, <2>3 DEF Switch, PSwitch, fields
    <2> QED BY Zenon, <2>1, <2>4
  <1> QED BY Zenon, <1>2, <1>3

LEMMA PointOfProc ==
  ASSUME IInv, NEW s \in Slots, Simple(s)
  PROVE  PProc(s) \/ \E i \in Slots : PSlot(s, i)
  <1> USE DEF Place, Locals, Running, At, Goto, Return, fields, locks, locals, Moves, Resets
  <1>1. Types /\ widx[s] \in Slots /\ arg[s] \in Nat /\ (pc[s] \in Forking => arg[s] \in Slots)
    BY Zenon DEF IInv, Types, LocalTypes, ForkInv, HasChild
  <1>2. CASE yield(s)
    BY Zenon, <1>1, <1>2, Domains, SetsExcept DEF yield, HoldsLock, PYield, OnCpu, PProc
  <1>3. CASE ForkParent(s)
    <2>1. arg[s] \in Slots
      BY Zenon, <1>1, <1>3 DEF ForkParent, Forking
    <2> QED BY Zenon, <1>1, <1>3, <2>1, Domains, SetsExcept DEF ForkParent, PForkParent, PSlot
  <1>4. CASE ForkRun(s)
    <2>1. arg[s] \in Slots
      BY Zenon, <1>1, <1>4 DEF ForkRun, Forking
    <2> QED BY Zenon, <1>1, <1>4, <2>1, Domains, SetsExcept DEF ForkRun, PForkRun, PSlot
  <1>5. CASE Exit(s)
    <2>1. PWaitLock(s, "user", "reparent", arg[s])
      BY Zenon, <1>1, <1>5, Domains, SetsExcept, SetsSame DEF Exit, PWaitLock
    <2> QED BY Zenon, <1>1, <2>1 DEF PProc
  <1>7. CASE WaitLock(s)
    <2>1. PWaitLock(s, "wait", "scan", arg[s])
      BY Zenon, <1>1, <1>7, Domains, SetsExcept, SetsSame DEF WaitLock, PWaitLock
    <2> QED BY Zenon, <1>1, <2>1 DEF PProc
  <1>8. CASE NoKids(s)
    <2>1. arg' = arg
      BY Zenon, <1>1, <1>8, Domains DEF NoKids, IsOn
    <2> QED BY Zenon, <1>1, <1>8, <2>1, Domains, SetsExcept DEF NoKids, PNoKids, PProc
  <1>9. ASSUME NEW l, NEW ch, NEW n, Round(s, l, ch, n) PROVE PRound(s, l, ch, n, widx[s])
    <2> DEFINE i == widx[s]
               hit == i # s /\ state[i] = "SLEEPING" /\ chan[i] = ch
    <2>1. /\ Sets(widx, [widx EXCEPT ![s] = 1], s, 1) /\ Sets(pc, [pc EXCEPT ![s] = n], s, n)
          /\ Sets(widx, [widx EXCEPT ![s] = i + 1], s, i + 1)
      BY Zenon, <1>1, Domains, SetsExcept
    <2>2. \A p \in Slots : p # i => state'[p] = state[p]
      BY Zenon, <1>1, <1>9, Domains DEF Round, IsOn
    <2>3. state'[i] = IF hit THEN "RUNNABLE" ELSE state[i]
      BY Zenon, <1>1, <1>9, Domains DEF Round, IsOn
    <2>4. (hit /\ state'[i] = "RUNNABLE") \/ (~hit /\ state'[i] = state[i])
      BY Zenon, <2>3
    <2> QED BY Zenon, <1>9, <2>1, <2>2, <2>4 DEF Round, PRound
  <1>10. CASE Zombie(s)
    BY Zenon, <1>1, <1>10, Domains, SetsExcept DEF Zombie, PZombie, OnCpu, PProc
  <1>11. CASE GiveUp(s)
    BY Zenon, <1>1, <1>11, Domains, SetsExcept DEF GiveUp, PGiveUp, PProc
  <1>12. CASE ToSleep(s)
    <2>1. arg' = arg
      BY Zenon, <1>1, <1>12, Domains DEF ToSleep, IsOn
    <2> QED BY Zenon, <1>1, <1>12, <2>1, Domains, SetsExcept DEF ToSleep, PToSleep, PProc
  <1>13. CASE WaitSleep(s)
    BY Zenon, <1>1, <1>13, Domains, SetsExcept DEF WaitSleep, SleepOn, PSleeps, OnCpu, PProc
  <1>14. CASE SleepSleep(s)
    BY Zenon, <1>1, <1>14, Domains, SetsExcept DEF SleepSleep, SleepOn, PSleeps, OnCpu, PProc
  <1>16. CASE SleepLock(s)
    <2>1. PTicksLock(s, "sleep", arg[s])
      BY Zenon, <1>1, <1>16, Domains, SetsExcept, SetsSame DEF SleepLock, PTicksLock
    <2> QED BY Zenon, <1>1, <2>1 DEF PProc
  <1>17. ASSUME NEW n \in 0 .. MaxTicks, SysSleep(s, n) PROVE PProc(s)
    <2>1. PTicksLock(s, "user", ticks + n)
      BY Zenon, <1>1, <1>17, Domains, SetsExcept DEF SysSleep, Calling, PTicksLock
    <2>2. ticks + n \in Nat
      BY <1>1 DEF Types, TimeTypes
    <2> QED BY Zenon, <2>1, <2>2 DEF PProc
  <1>18. CASE SleepCheck(s)
    <2>1. \/ /\ ticks < arg[s] /\ UNCHANGED <<tickslock, idx, widx, arg>>
             /\ pc' = [pc EXCEPT ![s] = "sleep sleep"]
          \/ Return(s) /\ tickslock' = NoProc
      BY Zenon, <1>18 DEF SleepCheck
    <2>2. Running(s) /\ UNCHANGED <<fields, lock, wait_lock, ticks, cpu, nextpid, clock>>
      BY Zenon, <1>18 DEF SleepCheck
    <2>3. pc[s] = "sleep check"
      BY Zenon, <1>18 DEF SleepCheck
    <2>4. Sets(pc, [pc EXCEPT ![s] = "sleep sleep"], s, "sleep sleep")
      BY Zenon, <1>1, Domains, SetsExcept
    <2>5. ASSUME Return(s) PROVE Sets(pc, pc', s, "user") /\ Resets(s, 1, 0) /\ UNCHANGED widx
      BY Zenon, <1>1, <2>5, Domains, SetsExcept
    <2> QED BY Zenon, <2>1, <2>2, <2>3, <2>4, <2>5 DEF PSleepCheck, PProc
  <1> QED
    BY Zenon, <1>1, <1>2, <1>3, <1>4, <1>5, <1>7, <1>8, <1>9, <1>10, <1>11, <1>12, <1>13, <1>14,
       <1>16, <1>17, <1>18 DEF Simple, PSlot

LEMMA PointOfSlot ==
  ASSUME IInv, NEW s \in Slots, NEW i \in Slots, OfSlot(s, i)
  PROVE  PSlot(s, i)
  <1> USE DEF Place, Locals, Moves, Resets
  <1>1. Types
    BY Zenon DEF IInv
  <1>2. CASE Take(s, i)
    <2>1. s # i
      BY Zenon, <1>2 DEF Take
    <2>2. /\ pc'[s] = "fork parent" /\ pc'[i] = "user"
          /\ \A p \in Slots : p # s /\ p # i => pc'[p] = pc[p]
      BY Zenon, <1>1, <1>2, <2>1, Domains DEF Take, IsOn
    <2> QED BY Zenon, <1>1, <1>2, <2>2, Domains, SetsExcept DEF Take, PTake, PSlot
  <1>3. CASE NoMemory(s, i)
    BY Zenon, <1>1, <1>3, Domains, SetsExcept DEF NoMemory, PNoMemory, PSlot
  <1>4. CASE Hit(s, i)
    <2>1. \A p \in Slots : p # i => state'[p] = state[p]
      BY Zenon, <1>1, <1>4, Domains DEF Hit, IsOn
    <2>2. state'[i] = IF state[i] = "SLEEPING" THEN "RUNNABLE" ELSE state[i]
      BY Zenon, <1>1, <1>4, Domains DEF Hit, IsOn
    <2> QED BY Zenon, <1>1, <1>4, <2>1, <2>2, Domains, SetsExcept DEF Hit, PHit, PSlot
  <1>5. CASE GiveAway(s, i)
    <2>1. arg' = arg
      BY Zenon, <1>1, <1>5, Domains DEF GiveAway, IsOn
    <2> QED BY Zenon, <1>1, <1>5, <2>1, Domains, SetsExcept DEF GiveAway, PGiveAway, PSlot
  <1>6. CASE PassBy(s, i)
    <2>1. arg' = arg
      BY Zenon, <1>1, <1>6, Domains DEF PassBy, IsOn
    <2> QED BY Zenon, <1>1, <1>6, <2>1, Domains, SetsExcept DEF PassBy, PPassBy, PSlot
  <1>7. ASSUME NEW l \in Labels1, NEW a \in Nat, Local(s, l, i, a) PROVE PSlot(s, i)
    <2>1. PLocal(s, pc[s], l, i, a)
      BY Zenon, <1>1, <1>7, Domains, SetsExcept DEF Local, PLocal
    <2> QED BY Zenon, <2>1 DEF PSlot
  <1>8. CASE Free(s, i)
    <2>1. PFree(s, i)
      BY Zenon, <1>1, <1>8, Domains, SetsExcept DEF Free, PFree
    <2> QED BY Zenon, <2>1 DEF PSlot
  <1> QED BY Zenon, <1>2, <1>3, <1>4, <1>5, <1>6, <1>7, <1>8 DEF OfSlot

LEMMA PointOfClock ==
  ASSUME IInv
  PROVE  ClockWake => \E i \in Slots : PClockWake(i)
  <1>1. Types
    BY Zenon DEF IInv
  <1>3. ASSUME ClockWake PROVE \E i \in Slots : PClockWake(i)
    <2> DEFINE hit == clock # cpu[Cpu0] /\ state[clock] = "SLEEPING" /\ chan[clock] = TicksChan
    <2>1. clock \in Slots /\ (clock = NPROC \/ clock < NPROC) /\ (clock < NPROC => clock # NPROC)
      BY <1>3, Sizes DEF ClockWake, Slots
    <2>2. \A p \in Slots : p # clock => state'[p] = state[p]
      BY Zenon, <1>1, <1>3, <2>1, Domains DEF ClockWake, Wake, IsOn
    <2>3. state'[clock] = IF hit THEN "RUNNABLE" ELSE state[clock]
      BY Zenon, <1>1, <1>3, <2>1, Domains DEF ClockWake, Wake, IsOn
    <2>4. \/ hit /\ ~lock[clock] /\ state'[clock] = "RUNNABLE"
          \/ ~hit /\ state'[clock] = state[clock]
      BY Zenon, <1>3, <2>3 DEF ClockWake, Wake
    <2>5. \/ clock = NPROC /\ clock' = NoProc /\ tickslock' = NoProc
          \/ clock < NPROC /\ clock' = clock + 1 /\ UNCHANGED tickslock
      BY Zenon, <1>3, <2>1 DEF ClockWake
    <2>6. PClockWake(clock)
      BY Zenon, <1>3, <2>2, <2>4, <2>5 DEF ClockWake, PClockWake
    <2> QED BY Zenon, <2>1, <2>6
  <1> QED BY Zenon, <1>3

LEMMA Points ==
  ASSUME IInv, [Next]_vars
  PROVE  \E c \in Cpus, s \in Slots, i \in Slots, a \in Nat : \E k, ch, l :
           Point(c, s, i, k, ch, l, a)
  <1>1. Cpu0 \in Cpus /\ initproc \in Slots /\ 0 \in Nat
    BY Sizes, SlotsAre
  <1> SUFFICES ASSUME ~ UNCHANGED vars
               PROVE  \E c \in Cpus, s \in Slots, i \in Slots, a \in Nat : \E k, ch, l :
                        Point(c, s, i, k, ch, l, a)
    BY Zenon, <1>1 DEF Point
  <1>2. Case
    BY Zenon, Cases
  <1>3. AnyPoint
    BY Zenon, <1>2, PointOfCpu, PointOfProc, PointOfSlot, PointOfClock DEF Case, ClockStep, AnyPoint
  <1>4. ASSUME NEW c \in Cpus, NEW s \in Slots, PDispatch(c, s) \/ PSwitch(c, s)
        PROVE  Point(c, s, s, 0, 0, 0, 0)
    BY Zenon, <1>4 DEF Point
  <1>5. ASSUME NEW s \in Slots, NEW i \in Slots, NEW k, NEW ch, NEW l, NEW a,
               \/ PYield(s) \/ PNoKids(s) \/ PZombie(s) \/ PGiveUp(s) \/ PToSleep(s)
               \/ PSleepCheck(s) \/ PSleeps(s, k, ch, l)
               \/ PWaitLock(s, k, l, a) \/ PTicksLock(s, k, a) \/ PTake(s, i)
               \/ PNoMemory(s, i) \/ PForkParent(s, i) \/ PForkRun(s, i) \/ PGiveAway(s, i)
               \/ PPassBy(s, i) \/ PHit(s, i) \/ PRound(s, "wake init", initproc, "reparent", i)
               \/ PRound(s, "wake parent", parent[s], "zombie", i)
               \/ PLocal(s, k, l, i, a) \/ PFree(s, i)
        PROVE  Point(Cpu0, s, i, k, ch, l, a)
    BY Zenon, <1>5 DEF Point
  <1>6. ASSUME NEW i \in Slots, PClockWake(i) \/ ClockIntr \/ ClockTick
        PROVE  Point(Cpu0, i, i, 0, 0, 0, 0)
    BY Zenon, <1>6 DEF Point
  <1>7. ASSUME NEW s \in Slots, PProc(s)
        PROVE  \E k, ch, l : \E a \in Nat : Point(Cpu0, s, s, k, ch, l, a)
    BY Zenon, <1>1, <1>5, <1>7 DEF PProc
  <1>8. ASSUME NEW s \in Slots, NEW i \in Slots, PSlot(s, i)
        PROVE  \E k, ch, l : \E a \in Nat : Point(Cpu0, s, i, k, ch, l, a)
    BY Zenon, <1>1, <1>5, <1>8 DEF PSlot
  <1> QED
    BY Zenon, <1>1, <1>3, <1>4, <1>6, <1>7, <1>8 DEF AnyPoint
-----------------------------------------------------------------------------
(* Types. *)
LEMMA FieldTypesStep == ASSUME IInv, [Next]_vars PROVE FieldTypes'
  <1> USE SlotsAre DEF fields, locks, locals, NoProc
  <1>a. FieldTypes /\ ForkInv
    BY DEF IInv, Types
  <1>1. ASSUME NEW c \in Cpus, NEW s \in Slots, Dispatch(c, s) PROVE FieldTypes'
    BY Zenon, <1>a, <1>1 DEF Dispatch, Goto, FieldTypes, States, ForkInv, Forking, TicksChan
  <1>2. ASSUME NEW c \in Cpus, Switch(c) PROVE FieldTypes'
    BY <1>a, <1>2 DEF Switch, FieldTypes, States, ForkInv, Forking, TicksChan
  <1>3. ASSUME NEW s \in Slots, yield(s) PROVE FieldTypes'
    BY <1>a, <1>3 DEF yield, Running, HoldsLock, FieldTypes, States, ForkInv, Forking, TicksChan
  <1>4. ASSUME NEW s \in Slots, NEW l, NEW i \in Slots, NEW a \in Nat, Local(s, l, i, a)
        PROVE  FieldTypes'
    BY <1>a, <1>4 DEF Local, Locals, FieldTypes, States, ForkInv, Forking, TicksChan
  <1>5. ASSUME NEW s \in Slots, NEW i \in Slots, Take(s, i) PROVE FieldTypes'
    BY Zenon, <1>a, <1>5 DEF Take, Place, FieldTypes, States, ForkInv, Forking, TicksChan
  <1>6. ASSUME NEW s \in Slots, NEW i \in Slots, NoMemory(s, i) PROVE FieldTypes'
    BY <1>a, <1>6 DEF NoMemory, Place, Locals, FieldTypes, States, ForkInv, Forking, TicksChan
  <1>7. ASSUME NEW s \in Slots, ForkParent(s) PROVE FieldTypes'
    BY Zenon, <1>a, <1>7 DEF ForkParent, At, Running, Goto, FieldTypes, States, ForkInv, Forking, TicksChan
  <1>8. ASSUME NEW s \in Slots, ForkRun(s) PROVE FieldTypes'
    BY Zenon, <1>a, <1>8 DEF ForkRun, At, Running, Return, FieldTypes, States, ForkInv, Forking, TicksChan
  <1>9. ASSUME NEW s \in Slots, Exit(s) PROVE FieldTypes'
    BY <1>a, <1>9 DEF Exit, At, Running, Goto, FieldTypes, States, ForkInv, Forking, TicksChan
  <1>10. ASSUME NEW s \in Slots, NEW q \in Slots, GiveAway(s, q) PROVE FieldTypes'
    BY Zenon, <1>a, <1>10 DEF GiveAway, Place, Locals, FieldTypes, States, ForkInv, Forking, TicksChan
  <1>11. ASSUME NEW s \in Slots, NoKids(s) PROVE FieldTypes'
    BY Zenon, <1>a, <1>11 DEF NoKids, Place, Locals, FieldTypes, States, ForkInv, Forking, TicksChan
  <1>12. ASSUME NEW s \in Slots, Round(s, "wake init", initproc, "reparent") PROVE FieldTypes'
    BY Zenon, <1>a, <1>12 DEF Round, Place, FieldTypes, States, ForkInv, Forking, TicksChan
  <1>13. ASSUME NEW s \in Slots, Round(s, "wake parent", parent[s], "zombie") PROVE FieldTypes'
    BY Zenon, <1>a, <1>13 DEF Round, Place, FieldTypes, States, ForkInv, Forking, TicksChan
  <1>14. ASSUME NEW s \in Slots, Zombie(s) PROVE FieldTypes'
    BY <1>a, <1>14 DEF Zombie, At, Running, Goto, FieldTypes, States, ForkInv, Forking,
        TicksChan
  <1>16. ASSUME NEW s \in Slots, WaitLock(s) PROVE FieldTypes'
    BY <1>a, <1>16 DEF WaitLock, At, Running, Goto, FieldTypes, States, ForkInv, Forking, TicksChan
  <1>17. ASSUME NEW s \in Slots, NEW q \in Slots, Free(s, q)
        PROVE  FieldTypes'
    BY <1>a, <1>17 DEF Free, Place, Locals, FieldTypes, States, ForkInv, Forking, TicksChan
  <1>18. ASSUME NEW s \in Slots, GiveUp(s) PROVE FieldTypes'
    BY <1>a, <1>18 DEF GiveUp, Place, Locals, FieldTypes, States, ForkInv, Forking, TicksChan
  <1>19. ASSUME NEW s \in Slots, NEW q \in Slots, PassBy(s, q) PROVE FieldTypes'
    BY <1>a, <1>19 DEF PassBy, Place, Locals, FieldTypes, States, ForkInv, Forking, TicksChan
  <1>20. ASSUME NEW s \in Slots, ToSleep(s) PROVE FieldTypes'
    BY Zenon, <1>a, <1>20 DEF ToSleep, Place, Locals, FieldTypes, States, ForkInv, Forking, TicksChan
  <1>21. ASSUME NEW s \in Slots, WaitSleep(s) PROVE FieldTypes'
    BY Zenon, <1>a, <1>21 DEF WaitSleep, SleepOn, At, Running, Goto, FieldTypes, States, ForkInv, Forking,
        TicksChan
  <1>23. ASSUME NEW s \in Slots, NEW i \in Slots, Hit(s, i) PROVE FieldTypes'
    BY <1>a, <1>23 DEF Hit, Place, Locals, FieldTypes, States, ForkInv, Forking, TicksChan
  <1>24. ASSUME NEW s \in Slots, NEW n \in 0 .. MaxTicks, SysSleep(s, n) PROVE FieldTypes'
    BY Zenon, <1>a, <1>24 DEF SysSleep, Calling, At, Running, Goto, FieldTypes, States, ForkInv, Forking,
        TicksChan
  <1>25. ASSUME NEW s \in Slots, SleepLock(s) PROVE FieldTypes'
    BY Zenon, <1>a, <1>25 DEF SleepLock, At, Running, Goto, FieldTypes, States, ForkInv, Forking, TicksChan
  <1>26. ASSUME NEW s \in Slots, SleepCheck(s) PROVE FieldTypes'
    BY Zenon, <1>a, <1>26 DEF SleepCheck, At, Running, Goto, Return, FieldTypes, States, ForkInv, Forking,
        TicksChan
  <1>27. ASSUME NEW s \in Slots, SleepSleep(s) PROVE FieldTypes'
    BY Zenon, <1>a, <1>27 DEF SleepSleep, SleepOn, At, Running, Goto, FieldTypes, States, ForkInv, Forking,
        TicksChan
  <1>28. ASSUME ClockIntr PROVE FieldTypes'
    BY <1>a, <1>28 DEF ClockIntr, HoldsLock, FieldTypes, States, ForkInv, Forking, TicksChan
  <1>29. ASSUME ClockTick PROVE FieldTypes'
    BY <1>a, <1>29 DEF ClockTick, FieldTypes, States, ForkInv, Forking, TicksChan
  <1>31. ASSUME ClockWake PROVE FieldTypes'
    BY <1>a, <1>31 DEF ClockWake, Wake, FieldTypes, States, ForkInv, Forking, TicksChan
  <1>32. CASE UNCHANGED vars
    BY <1>a, <1>32 DEF vars, FieldTypes, States, ForkInv, Forking, TicksChan
  <1> QED
    BY Zenon, Cases, <1>1, <1>2, <1>3, <1>4, <1>5, <1>6, <1>7, <1>8, <1>9, <1>10, <1>11, <1>12, <1>13,
        <1>14, <1>16, <1>17, <1>18, <1>19, <1>20, <1>21, <1>23, <1>24, <1>25, <1>26,
        <1>27, <1>28, <1>29, <1>31, <1>32 DEF Case, Simple, OfSlot, ClockStep

LEMMA TimeTypesStep == ASSUME IInv, [Next]_vars PROVE TimeTypes'
  <1> USE Sizes DEF fields, locks, locals, NoProc
  <1>a. TimeTypes
    BY DEF IInv, Types
  <1>1. ASSUME NEW c \in Cpus, NEW s \in Slots, Dispatch(c, s) PROVE TimeTypes'
    BY Zenon, <1>a, <1>1 DEF Dispatch, Goto, TimeTypes, Clock
  <1>2. ASSUME NEW c \in Cpus, Switch(c) PROVE TimeTypes'
    BY <1>a, <1>2 DEF Switch, TimeTypes, Clock
  <1>3. ASSUME NEW s \in Slots, yield(s) PROVE TimeTypes'
    BY <1>a, <1>3 DEF yield, Running, HoldsLock, TimeTypes, Clock
  <1>4. ASSUME NEW s \in Slots, NEW l, NEW i \in Slots, NEW a \in Nat, Local(s, l, i, a)
        PROVE  TimeTypes'
    BY <1>a, <1>4 DEF Local, Locals, TimeTypes, Clock
  <1>5. ASSUME NEW s \in Slots, NEW i \in Slots, Take(s, i) PROVE TimeTypes'
    BY Zenon, <1>a, <1>5 DEF Take, Place, TimeTypes, Clock
  <1>6. ASSUME NEW s \in Slots, NEW i \in Slots, NoMemory(s, i) PROVE TimeTypes'
    BY <1>a, <1>6 DEF NoMemory, Place, Locals, TimeTypes, Clock
  <1>7. ASSUME NEW s \in Slots, ForkParent(s) PROVE TimeTypes'
    BY Zenon, <1>a, <1>7 DEF ForkParent, At, Running, Goto, TimeTypes, Clock
  <1>8. ASSUME NEW s \in Slots, ForkRun(s) PROVE TimeTypes'
    BY Zenon, <1>a, <1>8 DEF ForkRun, At, Running, Return, TimeTypes, Clock
  <1>9. ASSUME NEW s \in Slots, Exit(s) PROVE TimeTypes'
    BY <1>a, <1>9 DEF Exit, At, Running, Goto, TimeTypes, Clock
  <1>10. ASSUME NEW s \in Slots, NEW q \in Slots, GiveAway(s, q) PROVE TimeTypes'
    BY Zenon, <1>a, <1>10 DEF GiveAway, Place, Locals, TimeTypes, Clock
  <1>11. ASSUME NEW s \in Slots, NoKids(s) PROVE TimeTypes'
    BY Zenon, <1>a, <1>11 DEF NoKids, Place, Locals, TimeTypes, Clock
  <1>12. ASSUME NEW s \in Slots, Round(s, "wake init", initproc, "reparent") PROVE TimeTypes'
    BY Zenon, <1>a, <1>12 DEF Round, Place, TimeTypes, Clock
  <1>13. ASSUME NEW s \in Slots, Round(s, "wake parent", parent[s], "zombie") PROVE TimeTypes'
    BY Zenon, <1>a, <1>13 DEF Round, Place, TimeTypes, Clock
  <1>14. ASSUME NEW s \in Slots, Zombie(s) PROVE TimeTypes'
    BY <1>a, <1>14 DEF Zombie, At, Running, Goto, TimeTypes, Clock
  <1>16. ASSUME NEW s \in Slots, WaitLock(s) PROVE TimeTypes'
    BY <1>a, <1>16 DEF WaitLock, At, Running, Goto, TimeTypes, Clock
  <1>17. ASSUME NEW s \in Slots, NEW q \in Slots, Free(s, q)
        PROVE  TimeTypes'
    BY <1>a, <1>17 DEF Free, Place, Locals, TimeTypes, Clock
  <1>18. ASSUME NEW s \in Slots, GiveUp(s) PROVE TimeTypes'
    BY <1>a, <1>18 DEF GiveUp, Place, Locals, TimeTypes, Clock
  <1>19. ASSUME NEW s \in Slots, NEW q \in Slots, PassBy(s, q) PROVE TimeTypes'
    BY <1>a, <1>19 DEF PassBy, Place, Locals, TimeTypes, Clock
  <1>20. ASSUME NEW s \in Slots, ToSleep(s) PROVE TimeTypes'
    BY Zenon, <1>a, <1>20 DEF ToSleep, Place, Locals, TimeTypes, Clock
  <1>21. ASSUME NEW s \in Slots, WaitSleep(s) PROVE TimeTypes'
    BY Zenon, <1>a, <1>21 DEF WaitSleep, SleepOn, At, Running, Goto, TimeTypes, Clock
  <1>23. ASSUME NEW s \in Slots, NEW i \in Slots, Hit(s, i) PROVE TimeTypes'
    BY <1>a, <1>23 DEF Hit, Place, Locals, TimeTypes, Clock
  <1>24. ASSUME NEW s \in Slots, NEW n \in 0 .. MaxTicks, SysSleep(s, n) PROVE TimeTypes'
    BY Zenon, <1>a, <1>24 DEF SysSleep, Calling, At, Running, Goto, TimeTypes, Clock
  <1>25. ASSUME NEW s \in Slots, SleepLock(s) PROVE TimeTypes'
    BY Zenon, <1>a, <1>25 DEF SleepLock, At, Running, Goto, TimeTypes, Clock
  <1>26. ASSUME NEW s \in Slots, SleepCheck(s) PROVE TimeTypes'
    BY Zenon, <1>a, <1>26 DEF SleepCheck, At, Running, Goto, Return, TimeTypes, Clock
  <1>27. ASSUME NEW s \in Slots, SleepSleep(s) PROVE TimeTypes'
    BY Zenon, <1>a, <1>27 DEF SleepSleep, SleepOn, At, Running, Goto, TimeTypes, Clock
  <1>28. ASSUME ClockIntr PROVE TimeTypes'
    BY <1>a, <1>28 DEF ClockIntr, HoldsLock, TimeTypes, Clock
  <1>29. ASSUME ClockTick PROVE TimeTypes'
    BY <1>a, <1>29 DEF ClockTick, TimeTypes, Clock
  <1>31. ASSUME ClockWake PROVE TimeTypes'
    <2>1. UNCHANGED <<ticks>>
      BY Zenon, <1>31 DEF ClockWake
    <2>2. clock \in Slots /\ clock' = (IF clock = NPROC THEN NoProc ELSE clock + 1)
      BY <1>31 DEF ClockWake
    <2>3. clock' \in 0 .. NPROC + 1
      BY <2>2 DEF Slots
    <2> QED BY Zenon, <1>a, <2>1, <2>3 DEF TimeTypes
  <1>32. CASE UNCHANGED vars
    BY <1>a, <1>32 DEF vars, TimeTypes, Clock
  <1> QED
    BY Zenon, Cases, <1>1, <1>2, <1>3, <1>4, <1>5, <1>6, <1>7, <1>8, <1>9, <1>10, <1>11, <1>12, <1>13,
        <1>14, <1>16, <1>17, <1>18, <1>19, <1>20, <1>21, <1>23, <1>24, <1>25, <1>26,
        <1>27, <1>28, <1>29, <1>31, <1>32 DEF Case, Simple, OfSlot, ClockStep

LEMMA LockTypesStep == ASSUME IInv, [Next]_vars PROVE LockTypes'
  <1> USE SlotsAre DEF fields, locks, locals, NoProc
  <1>a. LockTypes
    BY DEF IInv, Types
  <1>1. ASSUME NEW c \in Cpus, NEW s \in Slots, Dispatch(c, s) PROVE LockTypes'
    BY Zenon, <1>a, <1>1 DEF Dispatch, Goto, LockTypes, Clock
  <1>2. ASSUME NEW c \in Cpus, Switch(c) PROVE LockTypes'
    BY <1>a, <1>2 DEF Switch, LockTypes, Clock
  <1>3. ASSUME NEW s \in Slots, yield(s) PROVE LockTypes'
    BY <1>a, <1>3 DEF yield, Running, HoldsLock, LockTypes, Clock
  <1>4. ASSUME NEW s \in Slots, NEW l, NEW i \in Slots, NEW a \in Nat, Local(s, l, i, a)
        PROVE  LockTypes'
    BY <1>a, <1>4 DEF Local, Locals, LockTypes, Clock
  <1>5. ASSUME NEW s \in Slots, NEW i \in Slots, Take(s, i) PROVE LockTypes'
    BY Zenon, <1>a, <1>5 DEF Take, Place, LockTypes, Clock
  <1>6. ASSUME NEW s \in Slots, NEW i \in Slots, NoMemory(s, i) PROVE LockTypes'
    BY <1>a, <1>6 DEF NoMemory, Place, Locals, LockTypes, Clock
  <1>7. ASSUME NEW s \in Slots, ForkParent(s) PROVE LockTypes'
    BY Zenon, <1>a, <1>7 DEF ForkParent, At, Running, Goto, LockTypes, Clock
  <1>8. ASSUME NEW s \in Slots, ForkRun(s) PROVE LockTypes'
    BY Zenon, <1>a, <1>8 DEF ForkRun, At, Running, Return, LockTypes, Clock
  <1>9. ASSUME NEW s \in Slots, Exit(s) PROVE LockTypes'
    BY <1>a, <1>9 DEF Exit, At, Running, Goto, LockTypes, Clock
  <1>10. ASSUME NEW s \in Slots, NEW q \in Slots, GiveAway(s, q) PROVE LockTypes'
    BY Zenon, <1>a, <1>10 DEF GiveAway, Place, Locals, LockTypes, Clock
  <1>11. ASSUME NEW s \in Slots, NoKids(s) PROVE LockTypes'
    BY Zenon, <1>a, <1>11 DEF NoKids, Place, Locals, LockTypes, Clock
  <1>12. ASSUME NEW s \in Slots, Round(s, "wake init", initproc, "reparent") PROVE LockTypes'
    BY Zenon, <1>a, <1>12 DEF Round, Place, LockTypes, Clock
  <1>13. ASSUME NEW s \in Slots, Round(s, "wake parent", parent[s], "zombie") PROVE LockTypes'
    BY Zenon, <1>a, <1>13 DEF Round, Place, LockTypes, Clock
  <1>14. ASSUME NEW s \in Slots, Zombie(s) PROVE LockTypes'
    BY <1>a, <1>14 DEF Zombie, At, Running, Goto, LockTypes, Clock
  <1>16. ASSUME NEW s \in Slots, WaitLock(s) PROVE LockTypes'
    BY <1>a, <1>16 DEF WaitLock, At, Running, Goto, LockTypes, Clock
  <1>17. ASSUME NEW s \in Slots, NEW q \in Slots, Free(s, q)
        PROVE  LockTypes'
    BY <1>a, <1>17 DEF Free, Place, Locals, LockTypes, Clock
  <1>18. ASSUME NEW s \in Slots, GiveUp(s) PROVE LockTypes'
    BY <1>a, <1>18 DEF GiveUp, Place, Locals, LockTypes, Clock
  <1>19. ASSUME NEW s \in Slots, NEW q \in Slots, PassBy(s, q) PROVE LockTypes'
    BY <1>a, <1>19 DEF PassBy, Place, Locals, LockTypes, Clock
  <1>20. ASSUME NEW s \in Slots, ToSleep(s) PROVE LockTypes'
    BY Zenon, <1>a, <1>20 DEF ToSleep, Place, Locals, LockTypes, Clock
  <1>21. ASSUME NEW s \in Slots, WaitSleep(s) PROVE LockTypes'
    BY Zenon, <1>a, <1>21 DEF WaitSleep, SleepOn, At, Running, Goto, LockTypes, Clock
  <1>23. ASSUME NEW s \in Slots, NEW i \in Slots, Hit(s, i) PROVE LockTypes'
    BY <1>a, <1>23 DEF Hit, Place, Locals, LockTypes, Clock
  <1>24. ASSUME NEW s \in Slots, NEW n \in 0 .. MaxTicks, SysSleep(s, n) PROVE LockTypes'
    BY Zenon, <1>a, <1>24 DEF SysSleep, Calling, At, Running, Goto, LockTypes, Clock
  <1>25. ASSUME NEW s \in Slots, SleepLock(s) PROVE LockTypes'
    BY Zenon, <1>a, <1>25 DEF SleepLock, At, Running, Goto, LockTypes, Clock
  <1>26. ASSUME NEW s \in Slots, SleepCheck(s) PROVE LockTypes'
    BY Zenon, <1>a, <1>26 DEF SleepCheck, At, Running, Goto, Return, LockTypes, Clock
  <1>27. ASSUME NEW s \in Slots, SleepSleep(s) PROVE LockTypes'
    BY Zenon, <1>a, <1>27 DEF SleepSleep, SleepOn, At, Running, Goto, LockTypes, Clock
  <1>28. ASSUME ClockIntr PROVE LockTypes'
    BY <1>a, <1>28 DEF ClockIntr, HoldsLock, LockTypes, Clock
  <1>29. ASSUME ClockTick PROVE LockTypes'
    BY <1>a, <1>29 DEF ClockTick, LockTypes, Clock
  <1>31. ASSUME ClockWake PROVE LockTypes'
    BY <1>a, <1>31 DEF ClockWake, Wake, LockTypes, Clock
  <1>32. CASE UNCHANGED vars
    BY <1>a, <1>32 DEF vars, LockTypes, Clock
  <1> QED
    BY Zenon, Cases, <1>1, <1>2, <1>3, <1>4, <1>5, <1>6, <1>7, <1>8, <1>9, <1>10, <1>11, <1>12, <1>13,
        <1>14, <1>16, <1>17, <1>18, <1>19, <1>20, <1>21, <1>23, <1>24, <1>25, <1>26,
        <1>27, <1>28, <1>29, <1>31, <1>32 DEF Case, Simple, OfSlot, ClockStep

LEMMA LocalTypesStep == ASSUME IInv, [Next]_vars PROVE LocalTypes'
  <1> USE SlotsAre, IndicesAre DEF fields, locks, locals, NoProc
  <1>a. LocalTypes /\ TimeTypes
    BY DEF IInv, Types
  <1>1. ASSUME NEW c \in Cpus, NEW s \in Slots, Dispatch(c, s) PROVE LocalTypes'
    BY Zenon, <1>a, <1>1 DEF Dispatch, Goto, LocalTypes, IsOn
  <1>2. ASSUME NEW c \in Cpus, Switch(c) PROVE LocalTypes'
    BY <1>a, <1>2 DEF Switch, LocalTypes, IsOn
  <1>3. ASSUME NEW s \in Slots, yield(s) PROVE LocalTypes'
    BY <1>a, <1>3 DEF yield, Running, HoldsLock, LocalTypes, IsOn
  <1>4. ASSUME NEW s \in Slots, NEW l, NEW i \in Slots, NEW a \in Nat, Local(s, l, i, a)
        PROVE  LocalTypes'
    BY <1>a, <1>4 DEF Local, Locals, LocalTypes, IsOn
  <1>5. ASSUME NEW s \in Slots, NEW i \in Slots, Take(s, i) PROVE LocalTypes'
    BY Zenon, <1>a, <1>5 DEF Take, Place, LocalTypes, IsOn
  <1>6. ASSUME NEW s \in Slots, NEW i \in Slots, NoMemory(s, i) PROVE LocalTypes'
    BY Zenon, <1>a, <1>6 DEF NoMemory, Place, Locals, LocalTypes, IsOn
  <1>7. ASSUME NEW s \in Slots, ForkParent(s) PROVE LocalTypes'
    BY Zenon, <1>a, <1>7 DEF ForkParent, At, Running, Goto, LocalTypes, IsOn
  <1>8. ASSUME NEW s \in Slots, ForkRun(s) PROVE LocalTypes'
    BY Zenon, <1>a, <1>8 DEF ForkRun, At, Running, Return, LocalTypes, IsOn
  <1>9. ASSUME NEW s \in Slots, Exit(s) PROVE LocalTypes'
    BY <1>a, <1>9 DEF Exit, At, Running, Goto, LocalTypes, IsOn
  <1>10. ASSUME NEW s \in Slots, NEW q \in Slots, GiveAway(s, q) PROVE LocalTypes'
    BY Zenon, <1>a, <1>10 DEF GiveAway, Place, Locals, LocalTypes, IsOn
  <1>11. ASSUME NEW s \in Slots, NoKids(s) PROVE LocalTypes'
    BY Zenon, <1>a, <1>11 DEF NoKids, Place, Locals, LocalTypes, IsOn
  <1>12. ASSUME NEW s \in Slots, Round(s, "wake init", initproc, "reparent") PROVE LocalTypes'
    <2>1. widx[s] \in Slots /\ (widx[s] < NPROC => widx[s] + 1 \in Slots)
      BY Zenon, <1>a, IndicesAre DEF LocalTypes
    <2>2. /\ [widx EXCEPT ![s] = 1] \in [Slots -> Slots]
          /\ widx[s] < NPROC => [widx EXCEPT ![s] = widx[s] + 1] \in [Slots -> Slots]
      BY Zenon, <1>a, <2>1, IndicesAre DEF LocalTypes
    <2>3. IsOn([pc EXCEPT ![s] = "reparent"], Slots)
      BY Zenon, <1>a DEF LocalTypes, IsOn
    <2> QED
      BY Zenon, <1>a, <1>12, <2>2, <2>3 DEF Round, LocalTypes
  <1>13. ASSUME NEW s \in Slots, Round(s, "wake parent", parent[s], "zombie") PROVE LocalTypes'
    <2>1. widx[s] \in Slots /\ (widx[s] < NPROC => widx[s] + 1 \in Slots)
      BY Zenon, <1>a, IndicesAre DEF LocalTypes
    <2>2. /\ [widx EXCEPT ![s] = 1] \in [Slots -> Slots]
          /\ widx[s] < NPROC => [widx EXCEPT ![s] = widx[s] + 1] \in [Slots -> Slots]
      BY Zenon, <1>a, <2>1, IndicesAre DEF LocalTypes
    <2>3. IsOn([pc EXCEPT ![s] = "zombie"], Slots)
      BY Zenon, <1>a DEF LocalTypes, IsOn
    <2> QED
      BY Zenon, <1>a, <1>13, <2>2, <2>3 DEF Round, LocalTypes
  <1>14. ASSUME NEW s \in Slots, Zombie(s) PROVE LocalTypes'
    BY <1>a, <1>14 DEF Zombie, At, Running, Goto, LocalTypes, IsOn
  <1>16. ASSUME NEW s \in Slots, WaitLock(s) PROVE LocalTypes'
    BY Zenon, <1>a, <1>16 DEF WaitLock, At, Running, Goto, LocalTypes, IsOn
  <1>17. ASSUME NEW s \in Slots, NEW q \in Slots, Free(s, q)
        PROVE  LocalTypes'
    BY Zenon, <1>a, <1>17 DEF Free, Place, Locals, LocalTypes, IsOn
  <1>18. ASSUME NEW s \in Slots, GiveUp(s) PROVE LocalTypes'
    BY <1>a, <1>18 DEF GiveUp, Place, Locals, LocalTypes, IsOn
  <1>19. ASSUME NEW s \in Slots, NEW q \in Slots, PassBy(s, q) PROVE LocalTypes'
    BY <1>a, <1>19 DEF PassBy, Place, Locals, LocalTypes, IsOn
  <1>20. ASSUME NEW s \in Slots, ToSleep(s) PROVE LocalTypes'
    BY Zenon, <1>a, <1>20 DEF ToSleep, Place, Locals, LocalTypes, IsOn
  <1>21. ASSUME NEW s \in Slots, WaitSleep(s) PROVE LocalTypes'
    BY Zenon, <1>a, <1>21 DEF WaitSleep, SleepOn, At, Running, Goto, LocalTypes, IsOn
  <1>23. ASSUME NEW s \in Slots, NEW i \in Slots, Hit(s, i) PROVE LocalTypes'
    BY Zenon, <1>a, <1>23 DEF Hit, Place, Locals, LocalTypes, IsOn
  <1>24. ASSUME NEW s \in Slots, NEW n \in 0 .. MaxTicks, SysSleep(s, n) PROVE LocalTypes'
    <2>1. ticks + n \in Nat
      BY <1>a DEF TimeTypes
    <2> QED BY Zenon, <1>a, <1>24, <2>1 DEF SysSleep, Goto, LocalTypes, IsOn
  <1>25. ASSUME NEW s \in Slots, SleepLock(s) PROVE LocalTypes'
    BY Zenon, <1>a, <1>25 DEF SleepLock, At, Running, Goto, LocalTypes, IsOn
  <1>26. ASSUME NEW s \in Slots, SleepCheck(s) PROVE LocalTypes'
    <2>1. 0 \in Nat
      OBVIOUS
    <2>2. \/ pc' = [pc EXCEPT ![s] = "sleep sleep"] /\ UNCHANGED <<idx, widx, arg>>
          \/ Return(s)
      BY Zenon, <1>26 DEF SleepCheck, Goto
    <2>3. ASSUME Return(s) PROVE LocalTypes'
      BY Zenon, <1>a, <2>1, <2>3, IndicesAre DEF Return, LocalTypes, IsOn
    <2>4. IsOn([pc EXCEPT ![s] = "sleep sleep"], Slots)
      BY Zenon, <1>a DEF LocalTypes, IsOn
    <2> QED BY Zenon, <1>a, <2>2, <2>3, <2>4 DEF LocalTypes
  <1>27. ASSUME NEW s \in Slots, SleepSleep(s) PROVE LocalTypes'
    BY Zenon, <1>a, <1>27 DEF SleepSleep, SleepOn, At, Running, Goto, LocalTypes, IsOn
  <1>28. ASSUME ClockIntr PROVE LocalTypes'
    BY <1>a, <1>28 DEF ClockIntr, HoldsLock, LocalTypes, IsOn
  <1>29. ASSUME ClockTick PROVE LocalTypes'
    BY <1>a, <1>29 DEF ClockTick, LocalTypes, IsOn
  <1>31. ASSUME ClockWake PROVE LocalTypes'
    BY <1>a, <1>31 DEF ClockWake, Wake, LocalTypes, IsOn
  <1>32. CASE UNCHANGED vars
    BY <1>a, <1>32 DEF vars, LocalTypes, IsOn
  <1> QED
    BY Zenon, Cases, <1>1, <1>2, <1>3, <1>4, <1>5, <1>6, <1>7, <1>8, <1>9, <1>10, <1>11, <1>12, <1>13,
        <1>14, <1>16, <1>17, <1>18, <1>19, <1>20, <1>21, <1>23, <1>24, <1>25, <1>26,
        <1>27, <1>28, <1>29, <1>31, <1>32 DEF Case, Simple, OfSlot, ClockStep

-----------------------------------------------------------------------------
(* Who is on a CPU. *)
LEMMA CpuUsedStep == ASSUME IInv, [Next]_vars, NEW e \in Cpus PROVE CpuUsed(e)'
  <1> USE SlotsAre DEF fields, locks, locals
  <1>a. /\ CpuUsed(e)
        /\ \A c \in Cpus : cpu[c] \in Slots \cup {NoProc}
    BY Zenon DEF IInv, Types, CpuInv, LockTypes
  <1>b. /\ \A c, d \in Cpus : OnOneCpu(c, d)
        /\ \A x \in Slots : HasChild(x)
    BY Zenon DEF IInv, CpuInv, ForkInv
  <1> SUFFICES ASSUME NEW c \in Cpus, NEW s \in Slots, NEW i \in Slots, NEW k, NEW ch, NEW l,
                  NEW a \in Nat, Point(c, s, i, k, ch, l, a)
           PROVE  CpuUsed(e)'
    BY Zenon, Points
  <1>1. CASE UNCHANGED <<cpu, state, lock>>
    BY <1>a, <1>1 DEF CpuUsed
  <1>2. CASE \/ PLocal(s, k, l, i, a) \/ PForkParent(s, i) \/ PWaitLock(s, k, l, a)
             \/ PGiveAway(s, i) \/ PNoKids(s) \/ PGiveUp(s) \/ PPassBy(s, i) \/ PToSleep(s)
             \/ PTicksLock(s, k, a) \/ PSleepCheck(s) \/ ClockIntr \/ ClockTick
             \/ UNCHANGED vars
    BY Zenon, <1>1, <1>2 DEF vars, PLocal, PForkParent, PWaitLock, PGiveAway, PNoKids, PGiveUp,
        PPassBy, PToSleep, PTicksLock, PSleepCheck, ClockIntr, ClockTick
  <1>3. CASE PDispatch(c, s)
    BY Zenon, <1>a, <1>3 DEF PDispatch, Sets, Asleep, CpuUsed
  <1>4. CASE PNoMemory(s, i)
    BY Zenon, <1>a, <1>4 DEF PNoMemory, Moves, Resets, Sets, CpuUsed
  <1>5. CASE PRound(s, "wake init", initproc, "reparent", i)
    BY Zenon, <1>a, <1>5 DEF PRound, Sets, CpuUsed
  <1>6. CASE PRound(s, "wake parent", parent[s], "zombie", i)
    BY Zenon, <1>a, <1>6 DEF PRound, Sets, CpuUsed
  <1>7. CASE PZombie(s)
    BY Zenon, <1>a, <1>7 DEF PZombie, Moves, OnCpu, Sets, CpuUsed
  <1>8. CASE PFree(s, i)
    BY Zenon, <1>a, <1>8 DEF PFree, Moves, Resets, Sets, CpuUsed
  <1>9. CASE PSleeps(s, k, ch, l)
    BY Zenon, <1>a, <1>9 DEF PSleeps, Moves, OnCpu, Sets, CpuUsed
  <1>10. CASE PYield(s) \/ PTake(s, i) \/ PHit(s, i) \/ PClockWake(i)
    BY Zenon, <1>a, <1>10 DEF PYield, OnCpu, Sets, PTake, Resets, PHit, Moves, PClockWake, CpuUsed
  <1>11. CASE PSwitch(c, s)
    <2>1. OnOneCpu(e, c)
      BY Zenon, <1>b
    <2> QED BY Zenon, <1>a, <1>11, <2>1 DEF PSwitch, Sets, CpuUsed, OnOneCpu
  <1>12. CASE PForkRun(s, i)
    BY Zenon, <1>a, <1>b, <1>12 DEF PForkRun, Moves, Resets, Sets, CpuUsed, OnOneCpu, HasChild, Forking
  <1> QED
    BY Zenon, <1>2, <1>3, <1>4, <1>5, <1>6, <1>7, <1>8, <1>9, <1>10, <1>11, <1>12 DEF Point

LEMMA OnOneCpuStep == ASSUME IInv, [Next]_vars, NEW e \in Cpus, NEW f \in Cpus PROVE OnOneCpu(e, f)'
  <1> USE SlotsAre DEF fields, locks, locals
  <1>a. /\ OnOneCpu(e, f)
        /\ CpuUsed(e)
        /\ CpuUsed(f)
        /\ \A c \in Cpus : cpu[c] \in Slots \cup {NoProc}
    BY Zenon DEF IInv, Types, CpuInv, LockTypes
  <1> SUFFICES ASSUME NEW c \in Cpus, NEW s \in Slots, NEW i \in Slots, NEW k, NEW ch, NEW l,
                  NEW a \in Nat, Point(c, s, i, k, ch, l, a)
           PROVE  OnOneCpu(e, f)'
    BY Zenon, Points
  <1>1. CASE UNCHANGED cpu
    BY <1>a, <1>1 DEF OnOneCpu
  <1>2. CASE \/ PYield(s) \/ PLocal(s, k, l, i, a) \/ PTake(s, i) \/ PNoMemory(s, i)
             \/ PForkParent(s, i) \/ PForkRun(s, i) \/ PWaitLock(s, k, l, a) \/ PGiveAway(s, i)
             \/ PNoKids(s) \/ PRound(s, "wake init", initproc, "reparent", i)
             \/ PRound(s, "wake parent", parent[s], "zombie", i) \/ PZombie(s) \/ PFree(s, i)
             \/ PGiveUp(s) \/ PPassBy(s, i) \/ PToSleep(s) \/ PSleeps(s, k, ch, l)
             \/ PHit(s, i) \/ PTicksLock(s, k, a) \/ PSleepCheck(s) \/ ClockIntr \/ ClockTick
             \/ PClockWake(i) \/ UNCHANGED vars
    BY Zenon, <1>1, <1>2 DEF vars, PYield, PLocal, PTake, PNoMemory, PForkParent, PForkRun,
        PWaitLock, PGiveAway, PNoKids, PRound, PZombie, PFree, PGiveUp, PPassBy, PToSleep, PSleeps,
        PHit, PTicksLock, PSleepCheck, ClockIntr, ClockTick, PClockWake
  <1>3. CASE PSwitch(c, s)
    BY <1>a, <1>3 DEF PSwitch, Sets, OnOneCpu, CpuUsed
  <1>4. CASE PDispatch(c, s)
    BY ZenonT(30), <1>a, <1>4 DEF PDispatch, Sets, Asleep, OnOneCpu, CpuUsed
  <1> QED
    BY Zenon, <1>2, <1>3, <1>4 DEF Point

LEMMA HasCpuStep == ASSUME IInv, [Next]_vars, NEW p \in Slots PROVE HasCpu(p)'
  <1> USE SlotsAre DEF fields, locks, locals
  <1>a. /\ HasCpu(p)
        /\ LeavesCpu(p)
        /\ \A x \in Slots : lock[x] \in BOOLEAN
    BY Zenon DEF IInv, Types, CpuInv, LockTypes
  <1> SUFFICES ASSUME NEW c \in Cpus, NEW s \in Slots, NEW i \in Slots, NEW k, NEW ch, NEW l,
                  NEW a \in Nat, Point(c, s, i, k, ch, l, a)
           PROVE  HasCpu(p)'
    BY Zenon, Points
  <1>1. CASE UNCHANGED <<state, lock, cpu>>
    BY <1>a, <1>1 DEF HasCpu
  <1>2. CASE \/ PLocal(s, k, l, i, a) \/ PForkParent(s, i) \/ PWaitLock(s, k, l, a)
             \/ PGiveAway(s, i) \/ PNoKids(s) \/ PGiveUp(s) \/ PPassBy(s, i) \/ PToSleep(s)
             \/ PTicksLock(s, k, a) \/ PSleepCheck(s) \/ ClockIntr \/ ClockTick
             \/ UNCHANGED vars
    BY Zenon, <1>1, <1>2 DEF vars, PLocal, PForkParent, PWaitLock, PGiveAway, PNoKids, PGiveUp,
        PPassBy, PToSleep, PTicksLock, PSleepCheck, ClockIntr, ClockTick
  <1>3. CASE PSwitch(c, s)
    BY <1>a, <1>3 DEF PSwitch, Sets, HasCpu, LeavesCpu
  <1>4. CASE PYield(s)
    BY <1>a, <1>4 DEF PYield, OnCpu, Sets, HasCpu, LeavesCpu
  <1>5. CASE PTake(s, i)
    BY Zenon, <1>a, <1>5 DEF PTake, Resets, Sets, HasCpu, LeavesCpu
  <1>6. CASE PNoMemory(s, i)
    BY <1>a, <1>6 DEF PNoMemory, Moves, Resets, Sets, HasCpu, LeavesCpu
  <1>7. CASE PForkRun(s, i)
    BY Zenon, <1>a, <1>7 DEF PForkRun, Moves, Resets, Sets, HasCpu, LeavesCpu
  <1>8. CASE \/ PRound(s, "wake init", initproc, "reparent", i)
             \/ PRound(s, "wake parent", parent[s], "zombie", i)
    BY Zenon, <1>a, <1>8 DEF PRound, Sets, HasCpu, LeavesCpu
  <1>9. CASE PZombie(s) \/ PFree(s, i)
    BY Zenon, <1>a, <1>9 DEF PZombie, Moves, OnCpu, Sets, PFree, Resets, HasCpu, LeavesCpu
  <1>10. CASE PSleeps(s, k, ch, l) \/ PHit(s, i)
    BY Zenon, <1>a, <1>10 DEF PSleeps, Moves, OnCpu, Sets, PHit, Resets, HasCpu, LeavesCpu
  <1>11. CASE PClockWake(i)
    BY <1>a, <1>11 DEF PClockWake, HasCpu, LeavesCpu
  <1>12. CASE PDispatch(c, s)
    <2>1. CASE p = s
      BY Zenon, <1>12, <2>1 DEF PDispatch, HasCpu
    <2>2. CASE p # s
      <3>1. state'[p] = state[p] /\ lock'[p] = lock[p]
        BY Zenon, <1>12, <2>2 DEF PDispatch, Sets, locks
      <3>2. ASSUME NEW d \in Cpus, cpu[d] = p PROVE cpu'[d] = p
        BY Zenon, <1>12, <3>2 DEF PDispatch
      <3> QED BY Zenon, <1>a, <3>1, <3>2 DEF HasCpu
    <2> QED BY Zenon, <2>1, <2>2
  <1> QED
    BY Zenon, <1>2, <1>3, <1>4, <1>5, <1>6, <1>7, <1>8, <1>9, <1>10, <1>11, <1>12 DEF Point

LEMMA LeavesCpuStep == ASSUME IInv, [Next]_vars, NEW p \in Slots PROVE LeavesCpu(p)'
  <1> USE SlotsAre DEF fields, locks, locals
  <1>a. /\ LeavesCpu(p)
        /\ \A x \in Slots : lock[x] \in BOOLEAN
    BY Zenon DEF IInv, Types, CpuInv, LockTypes
  <1> SUFFICES ASSUME NEW c \in Cpus, NEW s \in Slots, NEW i \in Slots, NEW k, NEW ch, NEW l,
                  NEW a \in Nat, Point(c, s, i, k, ch, l, a)
           PROVE  LeavesCpu(p)'
    BY Zenon, Points
  <1>1. CASE UNCHANGED <<lock, state>>
    BY <1>a, <1>1 DEF LeavesCpu
  <1>2. CASE \/ PLocal(s, k, l, i, a) \/ PForkParent(s, i) \/ PWaitLock(s, k, l, a)
             \/ PGiveAway(s, i) \/ PNoKids(s) \/ PGiveUp(s) \/ PPassBy(s, i) \/ PToSleep(s)
             \/ PTicksLock(s, k, a) \/ PSleepCheck(s) \/ ClockIntr \/ ClockTick
             \/ UNCHANGED vars
    BY Zenon, <1>1, <1>2 DEF vars, PLocal, PForkParent, PWaitLock, PGiveAway, PNoKids, PGiveUp,
        PPassBy, PToSleep, PTicksLock, PSleepCheck, ClockIntr, ClockTick
  <1>3. CASE PDispatch(c, s)
    BY Zenon, <1>a, <1>3 DEF PDispatch, Sets, Asleep, LeavesCpu
  <1>4. CASE PSwitch(c, s)
    BY <1>a, <1>4 DEF PSwitch, Sets, LeavesCpu
  <1>5. CASE PYield(s) \/ PTake(s, i) \/ PNoMemory(s, i) \/ PForkRun(s, i)
    BY Zenon, <1>a, <1>5 DEF PYield, OnCpu, Sets, PTake, Resets, PNoMemory, Moves, PForkRun, LeavesCpu
  <1>6. CASE \/ PRound(s, "wake init", initproc, "reparent", i)
             \/ PRound(s, "wake parent", parent[s], "zombie", i) \/ PZombie(s) \/ PFree(s, i)
    BY Zenon, <1>a, <1>6 DEF PRound, Sets, PZombie, Moves, OnCpu, PFree, Resets, LeavesCpu
  <1>7. CASE PSleeps(s, k, ch, l) \/ PHit(s, i) \/ PClockWake(i)
    BY Zenon, <1>a, <1>7 DEF PSleeps, Moves, OnCpu, Sets, PHit, Resets, PClockWake, LeavesCpu
  <1> QED
    BY Zenon, <1>2, <1>3, <1>4, <1>5, <1>6, <1>7 DEF Point

LEMMA InterruptedStep == ASSUME IInv, [Next]_vars PROVE Interrupted'
  <1> USE SlotsAre, Sizes DEF fields, locks, locals
  <1>a. /\ Interrupted
        /\ \A c \in Cpus : cpu[c] \in Slots \cup {NoProc}
    BY Zenon DEF IInv, Types, CpuInv, LockTypes
  <1>b. \A c, d \in Cpus : OnOneCpu(c, d)
    BY Zenon DEF IInv, CpuInv
  <1> SUFFICES ASSUME NEW c \in Cpus, NEW s \in Slots, NEW i \in Slots, NEW k, NEW ch, NEW l,
                  NEW a \in Nat, Point(c, s, i, k, ch, l, a)
           PROVE  Interrupted'
    BY Zenon, Points
  <1>1. CASE UNCHANGED <<clock, cpu, lock>>
    BY <1>a, <1>1 DEF Interrupted
  <1>2. CASE \/ PLocal(s, k, l, i, a) \/ PTake(s, i) \/ PNoMemory(s, i) \/ PForkParent(s, i)
             \/ PForkRun(s, i) \/ PWaitLock(s, k, l, a) \/ PGiveAway(s, i) \/ PNoKids(s)
             \/ PRound(s, "wake init", initproc, "reparent", i)
             \/ PRound(s, "wake parent", parent[s], "zombie", i) \/ PFree(s, i) \/ PGiveUp(s)
             \/ PPassBy(s, i) \/ PToSleep(s) \/ PHit(s, i) \/ PTicksLock(s, k, a)
             \/ PSleepCheck(s) \/ UNCHANGED vars
    BY Zenon, <1>1, <1>2 DEF vars, PLocal, PTake, PNoMemory, PForkParent, PForkRun, PWaitLock,
        PGiveAway, PNoKids, PRound, PFree, PGiveUp, PPassBy, PToSleep, PHit, PTicksLock,
        PSleepCheck
  <1>3. CASE PDispatch(c, s)
    BY Zenon, <1>a, <1>3 DEF PDispatch, Sets, Asleep, Interrupted
  <1>4. CASE PSwitch(c, s)
    BY Zenon, <1>a, <1>4 DEF PSwitch, Sets, Interrupted
  <1>5. CASE ClockIntr \/ ClockTick \/ PClockWake(i)
    BY <1>a, <1>5 DEF ClockIntr, HoldsLock, Clock, ClockTick, PClockWake, Interrupted
  <1>6. CASE PYield(s)
    <2>1. PICK d \in Cpus : cpu[d] = s /\ ~(d = Cpu0 /\ clock # NoProc)
      BY Zenon, <1>6 DEF PYield, OnCpu
    <2>2. OnOneCpu(Cpu0, d)
      BY Zenon, <1>b, Sizes
    <2> QED BY Zenon, <1>a, <1>6, <2>1, <2>2 DEF PYield, Moves, Sets, OnOneCpu, Interrupted
  <1>7. CASE PZombie(s)
    <2>1. PICK d \in Cpus : cpu[d] = s /\ ~(d = Cpu0 /\ clock # NoProc)
      BY Zenon, <1>7 DEF PZombie, OnCpu
    <2>2. OnOneCpu(Cpu0, d)
      BY Zenon, <1>b, Sizes
    <2> QED BY Zenon, <1>a, <1>7, <2>1, <2>2 DEF PZombie, Moves, Sets, OnOneCpu, Interrupted
  <1>8. CASE PSleeps(s, k, ch, l)
    <2>1. PICK d \in Cpus : cpu[d] = s /\ ~(d = Cpu0 /\ clock # NoProc)
      BY Zenon, <1>8 DEF PSleeps, OnCpu
    <2>2. OnOneCpu(Cpu0, d)
      BY Zenon, <1>b, Sizes
    <2> QED BY Zenon, <1>a, <1>8, <2>1, <2>2 DEF PSleeps, Moves, Sets, OnOneCpu, Interrupted
  <1> QED
    BY Zenon, <1>2, <1>3, <1>4, <1>5, <1>6, <1>7, <1>8 DEF Point

-----------------------------------------------------------------------------
(* Where a process is. *)
LEMMA InKernelStep == ASSUME IInv, [Next]_vars, NEW p \in Slots PROVE InKernel(p)'
  <1> USE SlotsAre DEF fields, locks, locals
  <1>a. InKernel(p)
    BY Zenon DEF IInv, PlaceInv
  <1> SUFFICES ASSUME NEW c \in Cpus, NEW s \in Slots, NEW i \in Slots, NEW k, NEW ch, NEW l,
                  NEW a \in Nat, Point(c, s, i, k, ch, l, a)
           PROVE  InKernel(p)'
    BY Zenon, Points
  <1>1. CASE UNCHANGED <<pc, state>>
    BY <1>a, <1>1 DEF InKernel
  <1>2. CASE PSwitch(c, s) \/ ClockIntr \/ ClockTick \/ UNCHANGED vars
    BY Zenon, <1>1, <1>2 DEF vars, PSwitch, ClockIntr, ClockTick
  <1>3. CASE PDispatch(c, s)
    BY Zenon, <1>a, <1>3 DEF PDispatch, Sets, Asleep, InKernel, Alive
  <1>4. CASE PYield(s) \/ PLocal(s, k, l, i, a) \/ PTake(s, i) \/ PNoMemory(s, i)
    BY Zenon, <1>a, <1>4 DEF PYield, OnCpu, Sets, PLocal, Moves, Resets, PTake, PNoMemory, InKernel, Alive
  <1>5. CASE PForkParent(s, i) \/ PForkRun(s, i) \/ PWaitLock(s, k, l, a) \/ PGiveAway(s, i)
    BY Zenon, <1>a, <1>5 DEF PForkParent, Moves, Sets, PForkRun, Resets, PWaitLock, PGiveAway, InKernel,
        Alive
  <1>6. CASE \/ PNoKids(s) \/ PRound(s, "wake init", initproc, "reparent", i)
             \/ PRound(s, "wake parent", parent[s], "zombie", i) \/ PZombie(s)
    BY Zenon, <1>a, <1>6 DEF PNoKids, Moves, Sets, PRound, PZombie, OnCpu, InKernel, Alive
  <1>7. CASE PFree(s, i) \/ PGiveUp(s) \/ PPassBy(s, i) \/ PToSleep(s)
    BY Zenon, <1>a, <1>7 DEF PFree, Moves, Resets, Sets, PGiveUp, PPassBy, PToSleep, InKernel, Alive
  <1>8. CASE PSleeps(s, k, ch, l) \/ PHit(s, i) \/ PTicksLock(s, k, a)
    BY Zenon, <1>a, <1>8 DEF PSleeps, Moves, OnCpu, Sets, Resets, PHit, PTicksLock, InKernel,
        Alive
  <1>9. CASE PSleepCheck(s) \/ PClockWake(i)
    BY Zenon, <1>a, <1>9 DEF PSleepCheck, Moves, Resets, Sets, PClockWake, InKernel, Alive
  <1> QED
    BY Zenon, <1>2, <1>3, <1>4, <1>5, <1>6, <1>7, <1>8, <1>9 DEF Point

LEMMA SleepsAtStep == ASSUME IInv, [Next]_vars, NEW p \in Slots PROVE SleepsAt(p)'
  <1> USE SlotsAre DEF fields, locks, locals
  <1>a. SleepsAt(p)
    BY Zenon DEF IInv, PlaceInv
  <1> SUFFICES ASSUME NEW c \in Cpus, NEW s \in Slots, NEW i \in Slots, NEW k, NEW ch, NEW l,
                  NEW a \in Nat, Point(c, s, i, k, ch, l, a)
           PROVE  SleepsAt(p)'
    BY Zenon, Points
  <1>1. CASE UNCHANGED <<state, pc, chan>>
    BY Zenon, <1>a, <1>1 DEF SleepsAt
  <1>2. CASE PSwitch(c, s) \/ ClockIntr \/ ClockTick \/ UNCHANGED vars
    BY Zenon, <1>1, <1>2 DEF vars, PSwitch, ClockIntr, ClockTick
  <1>3. CASE PDispatch(c, s)
    BY Zenon, <1>a, <1>3 DEF PDispatch, Sets, Asleep, SleepsAt
  <1>4. CASE PYield(s) \/ PLocal(s, k, l, i, a) \/ PTake(s, i) \/ PNoMemory(s, i)
    BY Zenon, <1>a, <1>4 DEF PYield, OnCpu, Sets, PLocal, Moves, Resets, PTake, PNoMemory, SleepsAt
  <1>5. CASE PForkParent(s, i) \/ PForkRun(s, i) \/ PWaitLock(s, k, l, a) \/ PGiveAway(s, i)
    BY Zenon, <1>a, <1>5 DEF PForkParent, Moves, Sets, PForkRun, Resets, PWaitLock, PGiveAway, SleepsAt
  <1>6. CASE \/ PNoKids(s) \/ PRound(s, "wake init", initproc, "reparent", i)
             \/ PRound(s, "wake parent", parent[s], "zombie", i) \/ PZombie(s)
    BY Zenon, <1>a, <1>6 DEF PNoKids, Moves, Sets, PRound, PZombie, OnCpu, SleepsAt
  <1>7. CASE PFree(s, i) \/ PGiveUp(s) \/ PPassBy(s, i) \/ PToSleep(s)
    BY Zenon, <1>a, <1>7 DEF PFree, Moves, Resets, Sets, PGiveUp, PPassBy, PToSleep, SleepsAt
  <1>8. CASE PSleeps(s, k, ch, l) \/ PHit(s, i) \/ PTicksLock(s, k, a)
    BY Zenon, <1>a, <1>8 DEF PSleeps, Moves, OnCpu, Sets, Resets, PHit, PTicksLock, SleepsAt
  <1>9. CASE PSleepCheck(s) \/ PClockWake(i)
    BY Zenon, <1>a, <1>9 DEF PSleepCheck, Moves, Resets, Sets, PClockWake, SleepsAt
  <1> QED
    BY Zenon, <1>2, <1>3, <1>4, <1>5, <1>6, <1>7, <1>8, <1>9 DEF Point

LEMMA NotAwakeStep == ASSUME IInv, [Next]_vars, NEW p \in Slots PROVE NotAwake(p)'
  <1> USE SlotsAre DEF fields, locks, locals
  <1>a. NotAwake(p)
    BY Zenon DEF IInv, PlaceInv
  <1>b. /\ \A x \in Slots : HasChild(x)
        /\ \A x \in Slots : InKernel(x)
    BY Zenon DEF IInv, ForkInv, PlaceInv
  <1> SUFFICES ASSUME NEW c \in Cpus, NEW s \in Slots, NEW i \in Slots, NEW k, NEW ch, NEW l,
                  NEW a \in Nat, Point(c, s, i, k, ch, l, a)
           PROVE  NotAwake(p)'
    BY Zenon, Points
  <1>1. CASE UNCHANGED <<pc, state>>
    BY <1>a, <1>1 DEF NotAwake
  <1>2. CASE PSwitch(c, s) \/ ClockIntr \/ ClockTick \/ UNCHANGED vars
    BY Zenon, <1>1, <1>2 DEF vars, PSwitch, ClockIntr, ClockTick
  <1>3. CASE PDispatch(c, s)
    BY Zenon, <1>a, <1>3 DEF PDispatch, Sets, Asleep, NotAwake
  <1>4. CASE PYield(s) \/ PLocal(s, k, l, i, a) \/ PNoMemory(s, i) \/ PForkParent(s, i)
    BY Zenon, <1>a, <1>4 DEF PYield, OnCpu, Sets, PLocal, Moves, Resets, PNoMemory, PForkParent, NotAwake,
        Asleep
  <1>5. CASE \/ PWaitLock(s, k, l, a) \/ PGiveAway(s, i) \/ PNoKids(s)
             \/ PRound(s, "wake init", initproc, "reparent", i)
    BY Zenon, <1>a, <1>5 DEF PWaitLock, Moves, Sets, PGiveAway, PNoKids, PRound, NotAwake, Asleep
  <1>6. CASE \/ PRound(s, "wake parent", parent[s], "zombie", i) \/ PZombie(s) \/ PGiveUp(s)
             \/ PPassBy(s, i)
    BY Zenon, <1>a, <1>6 DEF PRound, Sets, PZombie, Moves, OnCpu, PGiveUp, Resets, PPassBy, NotAwake,
        Asleep
  <1>7. CASE PToSleep(s) \/ PSleeps(s, k, ch, l) \/ PHit(s, i)
    BY Zenon, <1>a, <1>7 DEF PToSleep, Moves, Sets, PSleeps, OnCpu, Resets, PHit, NotAwake,
        Asleep
  <1>8. CASE PTicksLock(s, k, a) \/ PSleepCheck(s) \/ PClockWake(i)
    BY Zenon, <1>a, <1>8 DEF PTicksLock, Moves, Sets, PSleepCheck, Resets, PClockWake, NotAwake, Asleep
  <1>9. CASE PTake(s, i)
    BY Zenon, <1>a, <1>b, <1>9 DEF PTake, Resets, Sets, NotAwake, Asleep, HasChild, Forking, InKernel,
        Alive
  <1>10. CASE PForkRun(s, i)
    BY Zenon, <1>a, <1>b, <1>10 DEF PForkRun, Moves, Resets, Sets, NotAwake, Asleep, HasChild, Forking,
        InKernel, Alive
  <1>11. CASE PFree(s, i)
    BY Zenon, <1>a, <1>b, <1>11 DEF PFree, Moves, Resets, Sets, NotAwake, Asleep, HasChild, Forking,
        InKernel, Alive
  <1> QED
    BY Zenon, <1>2, <1>3, <1>4, <1>5, <1>6, <1>7, <1>8, <1>9, <1>10, <1>11 DEF Point

LEMMA IdxResetStep == ASSUME IInv, [Next]_vars, NEW p \in Slots PROVE IdxReset(p)'
  <1> USE SlotsAre DEF fields, locks, locals
  <1>a. /\ IdxReset(p)
        /\ InKernel(p)
    BY Zenon DEF IInv, PlaceInv
  <1> SUFFICES ASSUME NEW c \in Cpus, NEW s \in Slots, NEW i \in Slots, NEW k, NEW ch, NEW l,
                  NEW a \in Nat, Point(c, s, i, k, ch, l, a)
           PROVE  IdxReset(p)'
    BY Zenon, Points
  <1>1. CASE UNCHANGED <<idx, pc>>
    BY <1>a, <1>1 DEF IdxReset
  <1>2. CASE \/ PSwitch(c, s) \/ PYield(s) \/ ClockIntr \/ ClockTick \/ PClockWake(i)
             \/ UNCHANGED vars
    BY Zenon, <1>1, <1>2 DEF vars, PSwitch, PYield, ClockIntr, ClockTick, PClockWake
  <1>3. CASE PDispatch(c, s)
    BY Zenon, <1>a, <1>3 DEF PDispatch, Sets, Asleep, IdxReset, Loops, InKernel, Alive
  <1>4. CASE PLocal(s, k, l, i, a) \/ PTake(s, i) \/ PNoMemory(s, i) \/ PForkParent(s, i)
    BY Zenon, <1>a, <1>4 DEF PLocal, Moves, Resets, Sets, PTake, PNoMemory, PForkParent, IdxReset, Loops,
        InKernel, Alive
  <1>5. CASE PForkRun(s, i) \/ PWaitLock(s, k, l, a) \/ PGiveAway(s, i) \/ PNoKids(s)
    BY Zenon, <1>a, <1>5 DEF PForkRun, Moves, Resets, Sets, PWaitLock, PGiveAway, PNoKids, IdxReset, Loops,
        InKernel, Alive
  <1>6. CASE \/ PRound(s, "wake init", initproc, "reparent", i)
             \/ PRound(s, "wake parent", parent[s], "zombie", i) \/ PZombie(s) \/ PFree(s, i)
    BY Zenon, <1>a, <1>6 DEF PRound, Sets, PZombie, Moves, OnCpu, PFree, Resets, IdxReset, Loops, InKernel,
        Alive
  <1>7. CASE PGiveUp(s) \/ PPassBy(s, i) \/ PToSleep(s) \/ PSleeps(s, k, ch, l)
    BY Zenon, <1>a, <1>7 DEF PGiveUp, Moves, Resets, Sets, PPassBy, PToSleep, PSleeps, OnCpu, IdxReset,
        Loops, InKernel, Alive
  <1>8. CASE PHit(s, i) \/ PTicksLock(s, k, a) \/ PSleepCheck(s)
    BY Zenon, <1>a, <1>8 DEF Moves, Resets, Sets, PHit, PTicksLock, PSleepCheck, IdxReset, Loops,
        InKernel, Alive
  <1> QED
    BY Zenon, <1>2, <1>3, <1>4, <1>5, <1>6, <1>7, <1>8 DEF Point

LEMMA IdxInsideStep == ASSUME IInv, [Next]_vars, NEW p \in Slots PROVE IdxInside(p)'
  <1> USE SlotsAre DEF fields, locks, locals
  <1>a. IdxInside(p)
    BY Zenon DEF IInv, PlaceInv
  <1> SUFFICES ASSUME NEW c \in Cpus, NEW s \in Slots, NEW i \in Slots, NEW k, NEW ch, NEW l,
                  NEW a \in Nat, Point(c, s, i, k, ch, l, a)
           PROVE  IdxInside(p)'
    BY Zenon, Points
  <1>1. CASE UNCHANGED <<pc, idx>>
    BY <1>a, <1>1 DEF IdxInside
  <1>2. CASE \/ PSwitch(c, s) \/ PYield(s) \/ ClockIntr \/ ClockTick \/ PClockWake(i)
             \/ UNCHANGED vars
    BY Zenon, <1>1, <1>2 DEF vars, PSwitch, PYield, ClockIntr, ClockTick, PClockWake
  <1>3. CASE PLocal(s, k, l, i, a) \/ PTake(s, i) \/ PNoMemory(s, i) \/ PForkParent(s, i)
    BY Zenon, <1>a, <1>3 DEF PLocal, Moves, Resets, Sets, PTake, PNoMemory, PForkParent, IdxInside
  <1>4. CASE PForkRun(s, i) \/ PWaitLock(s, k, l, a) \/ PGiveAway(s, i) \/ PNoKids(s)
    BY Zenon, <1>a, <1>4 DEF PForkRun, Moves, Resets, Sets, PWaitLock, PGiveAway, PNoKids, IdxInside
  <1>5. CASE \/ PRound(s, "wake init", initproc, "reparent", i)
             \/ PRound(s, "wake parent", parent[s], "zombie", i) \/ PZombie(s) \/ PFree(s, i)
    BY Zenon, <1>a, <1>5 DEF PRound, Sets, PZombie, Moves, OnCpu, PFree, Resets, IdxInside
  <1>6. CASE PGiveUp(s) \/ PPassBy(s, i) \/ PToSleep(s) \/ PSleeps(s, k, ch, l)
    BY Zenon, <1>a, <1>6 DEF PGiveUp, Moves, Resets, Sets, PPassBy, PToSleep, PSleeps, OnCpu, IdxInside
  <1>7. CASE PHit(s, i) \/ PTicksLock(s, k, a) \/ PSleepCheck(s)
    BY Zenon, <1>a, <1>7 DEF Moves, Resets, Sets, PHit, PTicksLock, PSleepCheck, IdxInside
  <1>8. CASE PDispatch(c, s)
    BY ZenonT(30), <1>a, <1>8 DEF PDispatch, Sets, Asleep, IdxInside
  <1> QED
    BY Zenon, <1>2, <1>3, <1>4, <1>5, <1>6, <1>7, <1>8 DEF Point

LEMMA WidxResetStep == ASSUME IInv, [Next]_vars, NEW p \in Slots PROVE WidxReset(p)'
  <1> USE SlotsAre DEF fields, locks, locals
  <1>a. /\ WidxReset(p)
        /\ InKernel(p)
    BY Zenon DEF IInv, PlaceInv
  <1> SUFFICES ASSUME NEW c \in Cpus, NEW s \in Slots, NEW i \in Slots, NEW k, NEW ch, NEW l,
                  NEW a \in Nat, Point(c, s, i, k, ch, l, a)
           PROVE  WidxReset(p)'
    BY Zenon, Points
  <1>1. CASE UNCHANGED <<widx, pc>>
    BY Zenon, <1>a, <1>1 DEF WidxReset
  <1>2. CASE \/ PSwitch(c, s) \/ PYield(s) \/ ClockIntr \/ ClockTick \/ PClockWake(i)
             \/ UNCHANGED vars
    BY Zenon, <1>1, <1>2 DEF vars, PSwitch, PYield, ClockIntr, ClockTick, PClockWake
  <1>3. CASE PDispatch(c, s)
    BY Zenon, <1>a, <1>3 DEF PDispatch, Sets, Asleep, WidxReset, InKernel, Alive
  <1>4. CASE PLocal(s, k, l, i, a) \/ PTake(s, i) \/ PNoMemory(s, i) \/ PForkParent(s, i)
    BY Zenon, <1>a, <1>4 DEF PLocal, Moves, Resets, Sets, PTake, PNoMemory, PForkParent, WidxReset,
        InKernel, Alive
  <1>5. CASE PForkRun(s, i) \/ PWaitLock(s, k, l, a) \/ PGiveAway(s, i) \/ PNoKids(s)
    BY Zenon, <1>a, <1>5 DEF PForkRun, Moves, Resets, Sets, PWaitLock, PGiveAway, PNoKids, WidxReset,
        InKernel, Alive
  <1>6. CASE \/ PRound(s, "wake init", initproc, "reparent", i)
             \/ PRound(s, "wake parent", parent[s], "zombie", i) \/ PZombie(s) \/ PFree(s, i)
    BY Zenon, <1>a, <1>6 DEF PRound, Sets, PZombie, Moves, OnCpu, PFree, Resets, WidxReset, InKernel, Alive
  <1>7. CASE PGiveUp(s) \/ PPassBy(s, i) \/ PToSleep(s) \/ PSleeps(s, k, ch, l)
    BY Zenon, <1>a, <1>7 DEF PGiveUp, Moves, Resets, Sets, PPassBy, PToSleep, PSleeps, OnCpu, WidxReset,
        InKernel, Alive
  <1>8. CASE PHit(s, i) \/ PTicksLock(s, k, a) \/ PSleepCheck(s)
    BY Zenon, <1>a, <1>8 DEF Moves, Resets, Sets, PHit, PTicksLock, PSleepCheck, WidxReset,
        InKernel, Alive
  <1> QED
    BY Zenon, <1>2, <1>3, <1>4, <1>5, <1>6, <1>7, <1>8 DEF Point

-----------------------------------------------------------------------------
(* Who holds wait_lock and tickslock. *)
LEMMA WaitHolderStep == ASSUME IInv, [Next]_vars, NEW p \in Slots PROVE WaitHolder(p)'
  <1> USE SlotsAre DEF fields, locks, locals
  <1>a. /\ WaitHolder(p)
        /\ InKernel(p)
    BY Zenon DEF IInv, HolderInv, PlaceInv
  <1>b. \A x \in Slots : WaitHolder(x)
    BY Zenon DEF IInv, HolderInv
  <1> SUFFICES ASSUME NEW c \in Cpus, NEW s \in Slots, NEW i \in Slots, NEW k, NEW ch, NEW l,
                  NEW a \in Nat, Point(c, s, i, k, ch, l, a)
           PROVE  WaitHolder(p)'
    BY Zenon, Points
  <1>1. CASE UNCHANGED <<wait_lock, pc>>
    BY <1>a, <1>1 DEF WaitHolder
  <1>2. CASE \/ PSwitch(c, s) \/ PYield(s) \/ ClockIntr \/ ClockTick \/ PClockWake(i)
             \/ UNCHANGED vars
    BY Zenon, <1>1, <1>2 DEF vars, PSwitch, PYield, ClockIntr, ClockTick, PClockWake
  <1>3. CASE PDispatch(c, s)
    BY Zenon, <1>a, <1>3 DEF PDispatch, Sets, Asleep, WaitHolder, WaitLocked, InKernel, Alive
  <1>4. CASE PLocal(s, k, l, i, a) \/ PTake(s, i) \/ PNoMemory(s, i) \/ PForkParent(s, i)
    BY Zenon, <1>a, <1>4 DEF PLocal, Moves, Resets, Sets, PTake, PNoMemory, PForkParent, WaitHolder,
        WaitLocked, InKernel, Alive
  <1>5. CASE PForkRun(s, i) \/ PWaitLock(s, k, l, a) \/ PGiveAway(s, i) \/ PNoKids(s)
    BY Zenon, <1>a, <1>5 DEF PForkRun, Moves, Resets, Sets, PWaitLock, PGiveAway, PNoKids, WaitHolder,
        WaitLocked, InKernel, Alive
  <1>6. CASE \/ PRound(s, "wake init", initproc, "reparent", i)
             \/ PRound(s, "wake parent", parent[s], "zombie", i) \/ PPassBy(s, i) \/ PToSleep(s)
    BY Zenon, <1>a, <1>6 DEF PRound, Sets, PPassBy, Moves, PToSleep, WaitHolder, WaitLocked, InKernel,
        Alive
  <1>7. CASE PHit(s, i) \/ PTicksLock(s, k, a) \/ PSleepCheck(s)
    BY Zenon, <1>a, <1>7 DEF Moves, Resets, Sets, PHit, PTicksLock, PSleepCheck, WaitHolder,
        WaitLocked, InKernel, Alive
  <1>8. CASE PZombie(s)
    <2>1. WaitHolder(s)
      BY Zenon, <1>b
    <2> QED BY Zenon, <1>a, <1>8, <2>1 DEF PZombie, Moves, OnCpu, Sets, WaitHolder, WaitLocked, InKernel,
        Alive
  <1>9. CASE PFree(s, i)
    <2>1. WaitHolder(s)
      BY Zenon, <1>b
    <2> QED BY Zenon, <1>a, <1>9, <2>1 DEF PFree, Moves, Resets, Sets, WaitHolder, WaitLocked, InKernel,
        Alive
  <1>10. CASE PGiveUp(s)
    <2>1. WaitHolder(s)
      BY Zenon, <1>b
    <2> QED BY Zenon, <1>a, <1>10, <2>1 DEF PGiveUp, Moves, Resets, Sets, WaitHolder, WaitLocked, InKernel,
        Alive
  <1>11. CASE PSleeps(s, k, ch, l)
    <2>1. WaitHolder(s)
      BY Zenon, <1>b
    <2> QED BY Zenon, <1>a, <1>11, <2>1 DEF PSleeps, Moves, OnCpu, Sets, WaitHolder, WaitLocked, InKernel,
        Alive
  <1> QED
    BY Zenon, <1>2, <1>3, <1>4, <1>5, <1>6, <1>7, <1>8, <1>9, <1>10, <1>11 DEF Point

LEMMA TicksHolderStep == ASSUME IInv, [Next]_vars, NEW p \in Slots PROVE TicksHolder(p)'
  <1> USE SlotsAre DEF fields, locks, locals
  <1>a. /\ TicksHolder(p)
        /\ InKernel(p)
    BY Zenon DEF IInv, HolderInv, PlaceInv
  <1>b. /\ \A x \in Slots : TicksHolder(x)
        /\ ClockHolds
    BY Zenon DEF IInv, HolderInv
  <1> SUFFICES ASSUME NEW c \in Cpus, NEW s \in Slots, NEW i \in Slots, NEW k, NEW ch, NEW l,
                  NEW a \in Nat, Point(c, s, i, k, ch, l, a)
           PROVE  TicksHolder(p)'
    BY Zenon, Points
  <1>1. CASE UNCHANGED <<tickslock, pc>>
    BY <1>a, <1>1 DEF TicksHolder
  <1>2. CASE PSwitch(c, s) \/ PYield(s) \/ ClockIntr \/ UNCHANGED vars
    BY Zenon, <1>1, <1>2 DEF vars, PSwitch, PYield, ClockIntr
  <1>3. CASE PDispatch(c, s)
    BY Zenon, <1>a, <1>3 DEF PDispatch, Sets, Asleep, TicksHolder, TicksLocked, InKernel, Alive
  <1>4. CASE PLocal(s, k, l, i, a) \/ PTake(s, i) \/ PNoMemory(s, i) \/ PForkParent(s, i)
    BY Zenon, <1>a, <1>4 DEF PLocal, Moves, Resets, Sets, PTake, PNoMemory, PForkParent, TicksHolder,
        TicksLocked, InKernel, Alive
  <1>5. CASE PForkRun(s, i) \/ PWaitLock(s, k, l, a) \/ PGiveAway(s, i) \/ PNoKids(s)
    BY Zenon, <1>a, <1>5 DEF PForkRun, Moves, Resets, Sets, PWaitLock, PGiveAway, PNoKids, TicksHolder,
        TicksLocked, InKernel, Alive
  <1>6. CASE \/ PRound(s, "wake init", initproc, "reparent", i)
             \/ PRound(s, "wake parent", parent[s], "zombie", i) \/ PZombie(s) \/ PFree(s, i)
    BY Zenon, <1>a, <1>6 DEF PRound, Sets, PZombie, Moves, OnCpu, PFree, Resets, TicksHolder, TicksLocked,
        InKernel, Alive
  <1>7. CASE PGiveUp(s) \/ PPassBy(s, i) \/ PToSleep(s)
    BY Zenon, <1>a, <1>7 DEF PGiveUp, Moves, Resets, Sets, PPassBy, PToSleep, TicksHolder,
        TicksLocked, InKernel, Alive
  <1>8. CASE PHit(s, i) \/ PTicksLock(s, k, a) \/ ClockTick
    BY Zenon, <1>a, <1>8 DEF PHit, Moves, Resets, Sets, PTicksLock, ClockTick, Clock, TicksHolder,
        TicksLocked, InKernel, Alive
  <1>9. CASE PSleeps(s, k, ch, l)
    <2>1. TicksHolder(s)
      BY Zenon, <1>b
    <2> QED BY Zenon, <1>a, <1>9, <2>1 DEF PSleeps, Moves, OnCpu, Sets, TicksHolder, TicksLocked, InKernel,
        Alive
  <1>10. CASE PSleepCheck(s)
    <2>1. TicksHolder(s)
      BY Zenon, <1>b
    <2> QED BY Zenon, <1>a, <1>10, <2>1 DEF PSleepCheck, Moves, Resets, Sets, TicksHolder, TicksLocked,
        InKernel, Alive
  <1>11. CASE PClockWake(i)
    <2>1. ClockHolds
      BY Zenon, <1>b
    <2> QED BY Zenon, <1>a, <1>11, <2>1 DEF PClockWake, TicksHolder, TicksLocked, InKernel, Alive,
        ClockHolds
  <1> QED
    BY Zenon, <1>2, <1>3, <1>4, <1>5, <1>6, <1>7, <1>8, <1>9, <1>10, <1>11 DEF Point

LEMMA ClockHoldsStep == ASSUME IInv, [Next]_vars PROVE ClockHolds'
  <1> USE SlotsAre, IndicesAre, Sizes DEF fields, locks, locals
  <1>a. /\ ClockHolds
        /\ clock \in 0 .. NPROC + 1
    BY Zenon DEF IInv, Types, HolderInv, TimeTypes
  <1>b. \A x \in Slots : TicksHolder(x)
    BY Zenon DEF IInv, HolderInv
  <1> SUFFICES ASSUME NEW c \in Cpus, NEW s \in Slots, NEW i \in Slots, NEW k, NEW ch, NEW l,
                  NEW a \in Nat, Point(c, s, i, k, ch, l, a)
           PROVE  ClockHolds'
    BY Zenon, Points
  <1>1. CASE UNCHANGED <<tickslock, clock>>
    BY <1>a, <1>1 DEF ClockHolds
  <1>2. CASE \/ PDispatch(c, s) \/ PSwitch(c, s) \/ PYield(s) \/ PLocal(s, k, l, i, a)
             \/ PTake(s, i) \/ PNoMemory(s, i) \/ PForkParent(s, i) \/ PForkRun(s, i)
             \/ PWaitLock(s, k, l, a) \/ PGiveAway(s, i) \/ PNoKids(s)
             \/ PRound(s, "wake init", initproc, "reparent", i)
             \/ PRound(s, "wake parent", parent[s], "zombie", i) \/ PZombie(s) \/ PFree(s, i)
             \/ PGiveUp(s) \/ PPassBy(s, i) \/ PToSleep(s) \/ PHit(s, i)
             \/ UNCHANGED vars
    BY Zenon, <1>1, <1>2 DEF vars, PDispatch, PSwitch, PYield, PLocal, PTake, PNoMemory,
        PForkParent, PForkRun, PWaitLock, PGiveAway, PNoKids, PRound, PZombie, PFree, PGiveUp,
        PPassBy, PToSleep, PHit
  <1>3. CASE PTicksLock(s, k, a)
    BY Zenon, <1>a, <1>3 DEF PTicksLock, Moves, Sets, ClockHolds
  <1>4. CASE ClockTick
    BY <1>a, <1>4 DEF ClockTick, Clock, ClockHolds
  <1>5. CASE PSleeps(s, k, ch, l)
    BY Zenon, <1>a, <1>b, <1>5 DEF PSleeps, Moves, OnCpu, Sets, ClockHolds, TicksHolder, TicksLocked
  <1>6. CASE PSleepCheck(s)
    BY Zenon, <1>a, <1>b, <1>6 DEF PSleepCheck, Moves, Resets, Sets, ClockHolds, TicksHolder, TicksLocked
  <1>7. CASE ClockIntr
    BY <1>a, <1>7 DEF ClockIntr, HoldsLock, Clock, NoProc, ClockHolds
  <1>8. CASE PClockWake(i)
    BY <1>a, <1>8 DEF PClockWake, NoProc, ClockHolds
  <1> QED
    BY Zenon, <1>2, <1>3, <1>4, <1>5, <1>6, <1>7, <1>8 DEF Point

-----------------------------------------------------------------------------
(* fork and its child. *)
LEMMA HasChildStep == ASSUME IInv, [Next]_vars, NEW p \in Slots PROVE HasChild(p)'
  <1> USE SlotsAre DEF fields, locks, locals
  <1>a. /\ HasChild(p)
        /\ InKernel(p)
    BY Zenon DEF IInv, ForkInv, PlaceInv
  <1>b. \A x, y \in Slots : OwnChild(x, y)
    BY Zenon DEF IInv, ForkInv
  <1> SUFFICES ASSUME NEW c \in Cpus, NEW s \in Slots, NEW i \in Slots, NEW k, NEW ch, NEW l,
                  NEW a \in Nat, Point(c, s, i, k, ch, l, a)
           PROVE  HasChild(p)'
    BY Zenon, Points
  <1>1. CASE UNCHANGED <<pc, arg, state>>
    BY <1>a, <1>1 DEF HasChild
  <1>2. CASE PSwitch(c, s) \/ ClockIntr \/ ClockTick \/ UNCHANGED vars
    BY Zenon, <1>1, <1>2 DEF vars, PSwitch, ClockIntr, ClockTick
  <1>3. CASE PYield(s) \/ PLocal(s, k, l, i, a) \/ PNoMemory(s, i) \/ PForkParent(s, i)
    BY Zenon, <1>a, <1>3 DEF PYield, OnCpu, Sets, PLocal, Moves, Resets, PNoMemory, PForkParent, HasChild,
        Forking, InKernel, Alive
  <1>4. CASE PRound(s, "wake init", initproc, "reparent", i)
    BY Zenon, <1>a, <1>4 DEF PRound, Sets, HasChild, Forking, InKernel, Alive
  <1>5. CASE PRound(s, "wake parent", parent[s], "zombie", i)
    BY Zenon, <1>a, <1>5 DEF PRound, Sets, HasChild, Forking, InKernel, Alive
  <1>6. CASE PWaitLock(s, k, l, a) \/ PGiveAway(s, i) \/ PNoKids(s) \/ PZombie(s)
    BY Zenon, <1>a, <1>6 DEF PWaitLock, Moves, Sets, PGiveAway, PNoKids, PZombie, OnCpu, HasChild, Forking,
        InKernel, Alive
  <1>7. CASE PFree(s, i) \/ PGiveUp(s) \/ PPassBy(s, i) \/ PToSleep(s)
    BY Zenon, <1>a, <1>7 DEF PFree, Moves, Resets, Sets, PGiveUp, PPassBy, PToSleep, HasChild, Forking,
        InKernel, Alive
  <1>8. CASE PSleeps(s, k, ch, l) \/ PHit(s, i) \/ PTicksLock(s, k, a)
    BY Zenon, <1>a, <1>8 DEF PSleeps, Moves, OnCpu, Sets, Resets, PHit, PTicksLock, HasChild,
        Forking, InKernel, Alive
  <1>9. CASE PSleepCheck(s) \/ PClockWake(i)
    BY Zenon, <1>a, <1>9 DEF PSleepCheck, Moves, Resets, Sets, PClockWake, HasChild, Forking, InKernel,
        Alive
  <1>10. CASE PDispatch(c, s)
    <2>1. pc'[p] \in Forking => pc[p] \in Forking
      BY ZenonT(30), <1>10 DEF PDispatch, Sets, Asleep, Forking
    <2>2. arg' = arg /\ \A x \in Slots : state[x] = "USED" => state'[x] = "USED"
      BY Zenon, <1>10 DEF PDispatch, Sets
    <2> QED BY Zenon, <1>a, <2>1, <2>2 DEF HasChild
  <1>11. CASE PTake(s, i)
    <2>1. s # i /\ state'[i] = "USED" /\ \A x \in Slots : state[x] = "USED" => state'[x] = "USED"
      BY Zenon, <1>11 DEF PTake, Sets
    <2>2. arg'[s] = i /\ pc'[i] = "user" /\ (p # s => arg'[p] = arg[p]) /\ (p # s /\ p # i => pc'[p] = pc[p])
      BY Zenon, <1>11 DEF PTake, Resets, Sets
    <2> QED BY Zenon, <1>a, <2>1, <2>2 DEF HasChild, Forking
  <1>12. CASE PForkRun(s, i)
    <2>1. OwnChild(p, s)
      BY Zenon, <1>b
    <2> QED BY Zenon, <1>a, <1>12, <2>1 DEF PForkRun, Moves, Resets, Sets, HasChild, Forking, InKernel,
        Alive, OwnChild
  <1> QED
    BY Zenon, <1>2, <1>3, <1>4, <1>5, <1>6, <1>7, <1>8, <1>9, <1>10, <1>11, <1>12 DEF Point

LEMMA OwnChildStep == ASSUME IInv, [Next]_vars, NEW p \in Slots, NEW r \in Slots PROVE OwnChild(p, r)'
  <1> USE SlotsAre DEF fields, locks, locals
  <1>a. /\ OwnChild(p, r)
        /\ HasChild(p)
        /\ HasChild(r)
    BY Zenon DEF IInv, ForkInv
  <1> SUFFICES ASSUME NEW c \in Cpus, NEW s \in Slots, NEW i \in Slots, NEW k, NEW ch, NEW l,
                  NEW a \in Nat, Point(c, s, i, k, ch, l, a)
           PROVE  OwnChild(p, r)'
    BY Zenon, Points
  <1>1. CASE UNCHANGED <<pc, arg>>
    BY <1>a, <1>1 DEF OwnChild
  <1>2. CASE \/ PSwitch(c, s) \/ PYield(s) \/ ClockIntr \/ ClockTick \/ PClockWake(i)
             \/ UNCHANGED vars
    BY Zenon, <1>1, <1>2 DEF vars, PSwitch, PYield, ClockIntr, ClockTick, PClockWake
  <1>3. CASE PLocal(s, k, l, i, a) \/ PNoMemory(s, i) \/ PForkParent(s, i) \/ PForkRun(s, i)
    BY Zenon, <1>a, <1>3 DEF PLocal, Moves, Resets, Sets, PNoMemory, PForkParent, PForkRun, OwnChild,
        Forking, HasChild
  <1>4. CASE \/ PWaitLock(s, k, l, a) \/ PGiveAway(s, i) \/ PNoKids(s)
             \/ PRound(s, "wake init", initproc, "reparent", i)
    BY Zenon, <1>a, <1>4 DEF PWaitLock, Moves, Sets, PGiveAway, PNoKids, PRound, OwnChild, Forking,
        HasChild
  <1>5. CASE \/ PRound(s, "wake parent", parent[s], "zombie", i) \/ PZombie(s) \/ PFree(s, i)
             \/ PGiveUp(s)
    BY Zenon, <1>a, <1>5 DEF PRound, Sets, PZombie, Moves, OnCpu, PFree, Resets, PGiveUp, OwnChild,
        Forking, HasChild
  <1>6. CASE PPassBy(s, i) \/ PToSleep(s) \/ PSleeps(s, k, ch, l)
    BY Zenon, <1>a, <1>6 DEF PPassBy, Moves, Sets, PToSleep, PSleeps, OnCpu, Resets, OwnChild,
        Forking, HasChild
  <1>7. CASE PHit(s, i) \/ PTicksLock(s, k, a) \/ PSleepCheck(s)
    BY Zenon, <1>a, <1>7 DEF PHit, Moves, Resets, Sets, PTicksLock, PSleepCheck, OwnChild, Forking,
        HasChild
  <1>8. CASE PDispatch(c, s)
    <2>1. ASSUME NEW x \in Slots, pc'[x] \in Forking PROVE pc[x] \in Forking
      BY Zenon, <1>8, <2>1 DEF PDispatch, Sets, Asleep, Forking
    <2>2. arg' = arg
      BY Zenon, <1>8 DEF PDispatch
    <2> QED BY Zenon, <1>a, <2>1, <2>2 DEF OwnChild
  <1>9. CASE PTake(s, i)
    <2>1. s # i /\ arg'[s] = i /\ \A x \in Slots : x # s => arg'[x] = arg[x]
      BY Zenon, <1>9 DEF PTake, Resets, Sets
    <2>2. pc'[i] = "user" /\ \A x \in Slots : x # s /\ x # i => pc'[x] = pc[x]
      BY Zenon, <1>9 DEF PTake
    <2>3. \A x \in {p, r} : pc[x] \in Forking => arg[x] # i
      BY Zenon, <1>a, <1>9 DEF HasChild, PTake
    <2> QED BY Zenon, <1>a, <2>1, <2>2, <2>3 DEF OwnChild, Forking
  <1> QED
    BY Zenon, <1>2, <1>3, <1>4, <1>5, <1>6, <1>7, <1>8, <1>9 DEF Point

-----------------------------------------------------------------------------
(* Parents and children. *)
LEMMA InitThereStep == ASSUME IInv, [Next]_vars PROVE InitThere'
  <1> USE SlotsAre DEF fields, locks, locals
  <1>a. InitThere
    BY Zenon DEF IInv, FamilyInv
  <1> SUFFICES ASSUME NEW c \in Cpus, NEW s \in Slots, NEW i \in Slots, NEW k, NEW ch, NEW l,
                  NEW a \in Nat, Point(c, s, i, k, ch, l, a)
           PROVE  InitThere'
    BY Zenon, Points
  <1>1. CASE UNCHANGED <<state, pc>>
    BY <1>a, <1>1 DEF InitThere
  <1>2. CASE PSwitch(c, s) \/ ClockIntr \/ ClockTick \/ UNCHANGED vars
    BY Zenon, <1>1, <1>2 DEF vars, PSwitch, ClockIntr, ClockTick
  <1>3. CASE PDispatch(c, s)
    BY Zenon, <1>a, <1>3 DEF PDispatch, Sets, Asleep, InitThere, Alive, ExitLabels
  <1>4. CASE PYield(s) \/ PLocal(s, k, l, i, a) \/ PTake(s, i) \/ PNoMemory(s, i)
    BY Zenon, <1>a, <1>4 DEF PYield, OnCpu, Sets, PLocal, Moves, Resets, PTake, PNoMemory, InitThere,
        Alive, ExitLabels
  <1>5. CASE PForkParent(s, i) \/ PForkRun(s, i) \/ PWaitLock(s, k, l, a) \/ PGiveAway(s, i)
    BY Zenon, <1>a, <1>5 DEF PForkParent, Moves, Sets, PForkRun, Resets, PWaitLock, PGiveAway, InitThere,
        Alive, ExitLabels
  <1>6. CASE \/ PNoKids(s) \/ PRound(s, "wake init", initproc, "reparent", i)
             \/ PRound(s, "wake parent", parent[s], "zombie", i) \/ PZombie(s)
    BY Zenon, <1>a, <1>6 DEF PNoKids, Moves, Sets, PRound, PZombie, OnCpu, InitThere, Alive, ExitLabels
  <1>7. CASE PFree(s, i) \/ PGiveUp(s) \/ PPassBy(s, i) \/ PToSleep(s)
    BY Zenon, <1>a, <1>7 DEF PFree, Moves, Resets, Sets, PGiveUp, PPassBy, PToSleep, InitThere, Alive,
        ExitLabels
  <1>8. CASE PSleeps(s, k, ch, l) \/ PHit(s, i) \/ PTicksLock(s, k, a)
    BY Zenon, <1>a, <1>8 DEF PSleeps, Moves, OnCpu, Sets, Resets, PHit, PTicksLock, InitThere,
        Alive, ExitLabels
  <1>9. CASE PSleepCheck(s) \/ PClockWake(i)
    BY Zenon, <1>a, <1>9 DEF PSleepCheck, Moves, Resets, Sets, PClockWake, InitThere, Alive, ExitLabels
  <1> QED
    BY Zenon, <1>2, <1>3, <1>4, <1>5, <1>6, <1>7, <1>8, <1>9 DEF Point

LEMMA ParentThereStep == ASSUME IInv, [Next]_vars, NEW p \in Slots PROVE ParentThere(p)'
  <1> USE SlotsAre DEF fields, locks, locals
  <1>a. /\ ParentThere(p)
        /\ \A x \in Slots : parent[x] \in Slots \cup {NoProc}
    BY Zenon DEF IInv, Types, FamilyInv, FieldTypes
  <1>b. /\ \A x \in Slots : HasChild(x)
        /\ InitThere
        /\ \A x, y \in Slots : Childless(x, y)
    BY Zenon DEF IInv, ForkInv, FamilyInv
  <1> SUFFICES ASSUME NEW c \in Cpus, NEW s \in Slots, NEW i \in Slots, NEW k, NEW ch, NEW l,
                  NEW a \in Nat, Point(c, s, i, k, ch, l, a)
           PROVE  ParentThere(p)'
    BY Zenon, Points
  <1>1. CASE UNCHANGED <<parent, state>>
    BY <1>a, <1>1 DEF ParentThere
  <1>2. CASE \/ PSwitch(c, s) \/ PLocal(s, k, l, i, a) \/ PWaitLock(s, k, l, a) \/ PNoKids(s)
             \/ PGiveUp(s) \/ PPassBy(s, i) \/ PToSleep(s) \/ PTicksLock(s, k, a)
             \/ PSleepCheck(s) \/ ClockIntr \/ ClockTick \/ UNCHANGED vars
    BY Zenon, <1>1, <1>2 DEF vars, PSwitch, PLocal, PWaitLock, PNoKids, PGiveUp, PPassBy, PToSleep,
        PTicksLock, PSleepCheck, ClockIntr, ClockTick
  <1>3. CASE PDispatch(c, s)
    BY Zenon, <1>a, <1>3 DEF PDispatch, Sets, Asleep, ParentThere, Alive
  <1>4. CASE \/ PYield(s) \/ PTake(s, i) \/ PForkRun(s, i)
             \/ PRound(s, "wake init", initproc, "reparent", i)
    BY Zenon, <1>a, <1>4 DEF PYield, OnCpu, Sets, PTake, Resets, PForkRun, Moves, PRound, ParentThere,
        Alive
  <1>5. CASE \/ PRound(s, "wake parent", parent[s], "zombie", i) \/ PSleeps(s, k, ch, l)
             \/ PHit(s, i) \/ PClockWake(i)
    BY Zenon, <1>a, <1>5 DEF PRound, Sets, PSleeps, Moves, OnCpu, PHit, Resets, PClockWake, ParentThere,
        Alive
  <1>6. CASE PNoMemory(s, i)
    <2>1. \A x \in Slots : state[x] \in Alive => state'[x] = state[x]
      BY Zenon, <1>6 DEF PNoMemory, Sets, Alive
    <2>2. parent'[p] = NoProc \/ (p # i /\ parent'[p] = parent[p] /\ state'[p] = state[p])
      BY Zenon, <1>6 DEF PNoMemory, Sets
    <2> QED BY Zenon, <1>a, <2>1, <2>2 DEF ParentThere
  <1>7. CASE PForkParent(s, i)
    <2>1. HasChild(s)
      BY Zenon, <1>b
    <2> QED BY Zenon, <1>a, <1>7, <2>1 DEF PForkParent, Moves, Sets, ParentThere, Alive, HasChild, Forking
  <1>8. CASE PGiveAway(s, i)
    <2>1. InitThere
      BY Zenon, <1>b
    <2> QED BY Zenon, <1>a, <1>8, <2>1 DEF PGiveAway, Moves, Sets, ParentThere, Alive, InitThere,
        ExitLabels
  <1>9. CASE PZombie(s)
    <2>1. Childless(s, p)
      BY Zenon, <1>b
    <2> QED BY Zenon, <1>a, <1>9, <2>1 DEF PZombie, Moves, OnCpu, Sets, ParentThere, Alive, Childless
  <1>10. CASE PFree(s, i)
    <2>1. \A x \in Slots : state[x] \in Alive => state'[x] = state[x]
      BY <1>10 DEF PFree, Sets, Alive
    <2>2. parent'[p] = NoProc \/ (p # i /\ parent'[p] = parent[p] /\ state'[p] = state[p])
      BY Zenon, <1>10 DEF PFree, Sets
    <2> QED BY Zenon, <1>a, <2>1, <2>2 DEF ParentThere
  <1> QED
    BY Zenon, <1>2, <1>3, <1>4, <1>5, <1>6, <1>7, <1>8, <1>9, <1>10 DEF Point

LEMMA GivenAwayStep == ASSUME IInv, [Next]_vars, NEW p \in Slots, NEW r \in Slots PROVE GivenAway(p, r)'
  <1> USE SlotsAre DEF fields, locks, locals
  <1>a. /\ GivenAway(p, r)
        /\ \A x \in Slots : idx[x] \in Nat /\ widx[x] \in Slots
        /\ WaitHolder(p)
        /\ WaitHolder(r)
        /\ IdxReset(p)
        /\ IdxReset(r)
    BY Zenon, IndicesAre DEF IInv, Types, FamilyInv, LocalTypes, HolderInv, PlaceInv
  <1>b. /\ \A x \in Slots : WaitHolder(x)
        /\ InitThere
    BY Zenon DEF IInv, HolderInv, FamilyInv
  <1> SUFFICES ASSUME NEW c \in Cpus, NEW s \in Slots, NEW i \in Slots, NEW k, NEW ch, NEW l,
                  NEW a \in Nat, Point(c, s, i, k, ch, l, a)
           PROVE  GivenAway(p, r)'
    BY Zenon, Points
  <1>1. CASE UNCHANGED <<pc, idx, parent>>
    BY Zenon, <1>a, <1>1 DEF GivenAway
  <1>2. CASE \/ PSwitch(c, s) \/ PYield(s) \/ ClockIntr \/ ClockTick \/ PClockWake(i)
             \/ UNCHANGED vars
    BY Zenon, <1>1, <1>2 DEF vars, PSwitch, PYield, ClockIntr, ClockTick, PClockWake
  <1>3. CASE PDispatch(c, s)
    BY Zenon, <1>a, <1>3 DEF PDispatch, Sets, Asleep, GivenAway, WaitHolder, WaitLocked, IdxReset, Loops
  <1>4. CASE PNoMemory(s, i)
    BY Zenon, <1>a, <1>4 DEF PNoMemory, Moves, Resets, Sets, GivenAway, WaitHolder, WaitLocked, IdxReset,
        Loops
  <1>5. CASE PLocal(s, k, l, i, a) \/ PTake(s, i) \/ PForkParent(s, i) \/ PForkRun(s, i)
    BY Zenon, <1>a, <1>5 DEF PLocal, Moves, Resets, Sets, PTake, PForkParent, PForkRun, GivenAway,
        WaitHolder, WaitLocked, IdxReset, Loops
  <1>6. CASE \/ PNoKids(s) \/ PRound(s, "wake init", initproc, "reparent", i)
             \/ PRound(s, "wake parent", parent[s], "zombie", i) \/ PZombie(s)
    BY Zenon, <1>a, <1>6 DEF PNoKids, Moves, Sets, PRound, PZombie, OnCpu, GivenAway, WaitHolder,
        WaitLocked, IdxReset, Loops
  <1>7. CASE PGiveUp(s) \/ PPassBy(s, i) \/ PToSleep(s) \/ PSleeps(s, k, ch, l)
    BY Zenon, <1>a, <1>7 DEF PGiveUp, Moves, Resets, Sets, PPassBy, PToSleep, PSleeps, OnCpu, GivenAway,
        WaitHolder, WaitLocked, IdxReset, Loops
  <1>8. CASE PHit(s, i) \/ PTicksLock(s, k, a) \/ PSleepCheck(s)
    BY Zenon, <1>a, <1>8 DEF Moves, Resets, Sets, PHit, PTicksLock, PSleepCheck, GivenAway,
        WaitHolder, WaitLocked, IdxReset, Loops
  <1>9. CASE PWaitLock(s, k, l, a)
    <2>1. p = s => idx[p] = 1
      BY Zenon, <1>a, <1>9 DEF PWaitLock, Moves, IdxReset, Loops
    <2>2. ~(r < 1)
      BY SlotsAre
    <2>3. p # s => pc'[p] = pc[p]
      BY Zenon, <1>9 DEF PWaitLock, Moves, Sets
    <2>4. UNCHANGED <<idx, parent>>
      BY Zenon, <1>9 DEF PWaitLock
    <2> QED BY Zenon, <1>a, <2>1, <2>2, <2>3, <2>4 DEF GivenAway
  <1>10. CASE PGiveAway(s, i)
    <2>1. CASE p = s
      <3>1. idx[s] \in Nat /\ r \in Nat /\ i \in Nat
        BY Zenon, <1>a, SlotsAre
      <3>2. r < i => r # i /\ (r < idx[s] \/ (idx[s] <= r /\ r < i))
        BY <3>1
      <3>3. r < i => parent[r] # s
        BY Zenon, <1>a, <2>1, <3>2, <1>10 DEF PGiveAway, Moves, GivenAway
      <3> QED BY Zenon, <2>1, <3>2, <3>3, <1>10 DEF PGiveAway, Sets, GivenAway
    <2>2. CASE p # s
      <3>1. wait_lock = s
        BY Zenon, <1>b, <1>10 DEF PGiveAway, Moves, WaitHolder, WaitLocked
      <3>2. pc'[p] \notin {"reparent", "wake init"}
        BY Zenon, <1>a, <2>2, <3>1, <1>10 DEF PGiveAway, Moves, Sets, WaitHolder, WaitLocked
      <3> QED BY Zenon, <3>2 DEF GivenAway
    <2> QED BY Zenon, <2>1, <2>2
  <1>11. CASE PFree(s, i)
    <2>1. WaitHolder(s)
      BY Zenon, <1>b
    <2> QED BY Zenon, <1>a, <1>11, <2>1 DEF PFree, Moves, Resets, Sets, GivenAway, WaitHolder, WaitLocked,
        IdxReset, Loops
  <1> QED
    BY Zenon, <1>2, <1>3, <1>4, <1>5, <1>6, <1>7, <1>8, <1>9, <1>10, <1>11 DEF Point

LEMMA ChildlessStep == ASSUME IInv, [Next]_vars, NEW p \in Slots, NEW r \in Slots PROVE Childless(p, r)'
  <1> USE SlotsAre DEF fields, locks, locals
  <1>a. /\ Childless(p, r)
        /\ WaitHolder(p)
        /\ WaitHolder(r)
    BY Zenon DEF IInv, FamilyInv, HolderInv
  <1>b. /\ \A x \in Slots : idx[x] \in Nat /\ widx[x] \in Slots
        /\ \A x \in Slots : WaitHolder(x)
        /\ \A x, y \in Slots : GivenAway(x, y)
        /\ InitThere
    BY Zenon, IndicesAre DEF IInv, Types, LocalTypes, HolderInv, FamilyInv
  <1> SUFFICES ASSUME NEW c \in Cpus, NEW s \in Slots, NEW i \in Slots, NEW k, NEW ch, NEW l,
                  NEW a \in Nat, Point(c, s, i, k, ch, l, a)
           PROVE  Childless(p, r)'
    BY Zenon, Points
  <1>1. CASE UNCHANGED <<pc, parent>>
    BY Zenon, <1>a, <1>1 DEF Childless
  <1>2. CASE \/ PSwitch(c, s) \/ PYield(s) \/ ClockIntr \/ ClockTick \/ PClockWake(i)
             \/ UNCHANGED vars
    BY Zenon, <1>1, <1>2 DEF vars, PSwitch, PYield, ClockIntr, ClockTick, PClockWake
  <1>3. CASE PDispatch(c, s)
    BY Zenon, <1>a, <1>3 DEF PDispatch, Sets, Asleep, Childless, WaitHolder, WaitLocked
  <1>4. CASE PNoMemory(s, i)
    BY Zenon, <1>a, <1>4 DEF PNoMemory, Moves, Resets, Sets, Childless, WaitHolder, WaitLocked
  <1>5. CASE PLocal(s, k, l, i, a) \/ PTake(s, i) \/ PForkParent(s, i) \/ PForkRun(s, i)
    BY Zenon, <1>a, <1>5 DEF PLocal, Moves, Resets, Sets, PTake, PForkParent, PForkRun, Childless,
        WaitHolder, WaitLocked
  <1>6. CASE PZombie(s)
    BY Zenon, <1>a, <1>6 DEF PZombie, Moves, OnCpu, Sets, Childless, WaitHolder, WaitLocked
  <1>7. CASE PFree(s, i)
    BY Zenon, <1>a, <1>7 DEF PFree, Moves, Resets, Sets, Childless, WaitHolder, WaitLocked
  <1>8. CASE \/ PWaitLock(s, k, l, a) \/ PRound(s, "wake init", initproc, "reparent", i)
             \/ PRound(s, "wake parent", parent[s], "zombie", i) \/ PGiveUp(s)
    BY Zenon, <1>a, <1>8 DEF PWaitLock, Moves, Sets, PRound, PGiveUp, Resets, Childless, WaitHolder,
        WaitLocked
  <1>9. CASE PPassBy(s, i) \/ PToSleep(s) \/ PSleeps(s, k, ch, l)
    BY Zenon, <1>a, <1>9 DEF PPassBy, Moves, Sets, PToSleep, PSleeps, OnCpu, Resets, Childless,
        WaitHolder, WaitLocked
  <1>10. CASE PHit(s, i) \/ PTicksLock(s, k, a) \/ PSleepCheck(s)
    BY Zenon, <1>a, <1>10 DEF PHit, Moves, Resets, Sets, PTicksLock, PSleepCheck, Childless, WaitHolder,
        WaitLocked
  <1>11. CASE PGiveAway(s, i)
    BY Zenon, <1>a, <1>b, <1>11 DEF PGiveAway, Moves, Sets, Childless, WaitHolder, WaitLocked, GivenAway,
        InitThere, Alive, ExitLabels
  <1>12. CASE PNoKids(s)
    <2>1. idx[s] \in Nat /\ GivenAway(s, r)
      BY Zenon, <1>b
    <2>2. r \in Nat
      BY Zenon, SlotsAre
    <2>3. r < idx[s] \/ idx[s] <= r
      BY <2>1, <2>2
    <2> QED BY Zenon, <1>a, <1>12, <2>1, <2>3 DEF PNoKids, Moves, Sets, Childless, GivenAway
  <1> QED
    BY Zenon, <1>2, <1>3, <1>4, <1>5, <1>6, <1>7, <1>8, <1>9, <1>10, <1>11, <1>12 DEF Point

-----------------------------------------------------------------------------
(* Zombies and the wakeups for them. *)
LEMMA SearchedStep == ASSUME IInv, [Next]_vars, NEW p \in Slots, NEW r \in Slots PROVE Searched(p, r)'
  <1> USE SlotsAre DEF fields, locks, locals
  <1>a. /\ Searched(p, r)
        /\ \A x \in Slots : idx[x] \in Nat /\ widx[x] \in Slots
        /\ WaitHolder(p)
        /\ WaitHolder(r)
        /\ IdxReset(p)
        /\ IdxReset(r)
    BY Zenon, IndicesAre DEF IInv, Types, WakeInv, LocalTypes, HolderInv, PlaceInv
  <1>b. \A x \in Slots : WaitHolder(x)
    BY Zenon DEF IInv, HolderInv
  <1> SUFFICES ASSUME NEW c \in Cpus, NEW s \in Slots, NEW i \in Slots, NEW k, NEW ch, NEW l,
                  NEW a \in Nat, Point(c, s, i, k, ch, l, a)
           PROVE  Searched(p, r)'
    BY Zenon, Points
  <1>1. CASE UNCHANGED <<pc, idx, parent, state>>
    BY <1>a, <1>1 DEF Searched
  <1>2. CASE PSwitch(c, s) \/ ClockIntr \/ ClockTick \/ UNCHANGED vars
    BY Zenon, <1>1, <1>2 DEF vars, PSwitch, ClockIntr, ClockTick
  <1>3. CASE PYield(s) \/ PLocal(s, k, l, i, a) \/ PTake(s, i) \/ PNoMemory(s, i)
    BY Zenon, <1>a, <1>3 DEF PYield, OnCpu, Sets, PLocal, Moves, Resets, PTake, PNoMemory, Searched,
        WaitHolder, WaitLocked, IdxReset, Loops
  <1>4. CASE \/ PForkParent(s, i) \/ PForkRun(s, i) \/ PNoKids(s)
             \/ PRound(s, "wake init", initproc, "reparent", i)
    BY Zenon, <1>a, <1>4 DEF PForkParent, Moves, Sets, PForkRun, Resets, PNoKids, PRound, Searched,
        WaitHolder, WaitLocked, IdxReset, Loops
  <1>5. CASE \/ PRound(s, "wake parent", parent[s], "zombie", i) \/ PFree(s, i) \/ PGiveUp(s)
             \/ PToSleep(s)
    BY Zenon, <1>a, <1>5 DEF PRound, Sets, PFree, Moves, Resets, PGiveUp, PToSleep, Searched, WaitHolder,
        WaitLocked, IdxReset, Loops
  <1>6. CASE PSleeps(s, k, ch, l) \/ PHit(s, i) \/ PTicksLock(s, k, a)
    BY Zenon, <1>a, <1>6 DEF PSleeps, Moves, OnCpu, Sets, Resets, PHit, PTicksLock, Searched,
        WaitHolder, WaitLocked, IdxReset, Loops
  <1>7. CASE PSleepCheck(s) \/ PClockWake(i)
    BY Zenon, <1>a, <1>7 DEF PSleepCheck, Moves, Resets, Sets, PClockWake, Searched, WaitHolder,
        WaitLocked, IdxReset, Loops
  <1>8. CASE PDispatch(c, s)
    BY ZenonT(30), <1>a, <1>8 DEF PDispatch, Sets, Asleep, Searched, WaitHolder, WaitLocked,
        IdxReset, Loops
  <1>9. CASE PWaitLock(s, k, l, a)
    <2>1. p = s => idx[p] = 1
      BY Zenon, <1>a, <1>9 DEF PWaitLock, Moves, IdxReset, Loops
    <2>2. ~(r < 1)
      BY SlotsAre
    <2>3. p # s => pc'[p] = pc[p]
      BY Zenon, <1>9 DEF PWaitLock, Moves, Sets
    <2>4. UNCHANGED <<idx, parent, state>>
      BY Zenon, <1>9 DEF PWaitLock
    <2> QED BY Zenon, <1>a, <2>1, <2>2, <2>3, <2>4 DEF Searched
  <1>10. CASE PGiveAway(s, i)
    <2>1. WaitHolder(s)
      BY Zenon, <1>b
    <2> QED BY Zenon, <1>a, <1>10, <2>1 DEF PGiveAway, Moves, Sets, Searched, WaitHolder, WaitLocked,
        IdxReset, Loops
  <1>11. CASE PZombie(s)
    <2>1. WaitHolder(s)
      BY Zenon, <1>b
    <2> QED BY Zenon, <1>a, <1>11, <2>1 DEF PZombie, Moves, OnCpu, Sets, Searched, WaitHolder, WaitLocked,
        IdxReset, Loops
  <1>12. CASE PPassBy(s, i)
    <2>1. UNCHANGED <<parent, state>> /\ pc'[p] = pc[p] /\ (p # s => idx'[p] = idx[p])
      BY Zenon, <1>12 DEF PPassBy, Moves, Sets
    <2>2. CASE p = s
      <3>1. idx[s] \in Nat /\ r \in Nat /\ i \in Nat
        BY Zenon, <1>a, SlotsAre
      <3>2. r < i + 1 => r = i \/ r < idx[s] \/ (idx[s] <= r /\ r < i)
        BY <3>1
      <3>3. r < i + 1 /\ parent[r] = s => state[r] # "ZOMBIE"
        BY Zenon, <1>a, <2>2, <3>2, <1>12 DEF PPassBy, Moves, Searched
      <3> QED BY Zenon, <2>1, <2>2, <3>3, <1>12 DEF PPassBy, Sets, Searched
    <2> QED BY Zenon, <1>a, <2>1, <2>2 DEF Searched
  <1> QED
    BY Zenon, <1>2, <1>3, <1>4, <1>5, <1>6, <1>7, <1>8, <1>9, <1>10, <1>11, <1>12 DEF Point

LEMMA NoneFoundStep == ASSUME IInv, [Next]_vars, NEW p \in Slots, NEW r \in Slots PROVE NoneFound(p, r)'
  <1> USE SlotsAre DEF fields, locks, locals
  <1>a. /\ NoneFound(p, r)
        /\ WaitHolder(p)
        /\ WaitHolder(r)
    BY Zenon DEF IInv, WakeInv, HolderInv
  <1>b. /\ \A x \in Slots : WaitHolder(x)
        /\ \A x \in Slots : idx[x] \in Nat /\ widx[x] \in Slots
        /\ \A x, y \in Slots : Searched(x, y)
    BY Zenon, IndicesAre DEF IInv, Types, HolderInv, LocalTypes, WakeInv
  <1> SUFFICES ASSUME NEW c \in Cpus, NEW s \in Slots, NEW i \in Slots, NEW k, NEW ch, NEW l,
                  NEW a \in Nat, Point(c, s, i, k, ch, l, a)
           PROVE  NoneFound(p, r)'
    BY Zenon, Points
  <1>1. CASE UNCHANGED <<pc, parent, state>>
    BY Zenon, <1>a, <1>1 DEF NoneFound
  <1>2. CASE PSwitch(c, s) \/ ClockIntr \/ ClockTick \/ UNCHANGED vars
    BY Zenon, <1>1, <1>2 DEF vars, PSwitch, ClockIntr, ClockTick
  <1>3. CASE PDispatch(c, s)
    BY Zenon, <1>a, <1>3 DEF PDispatch, Sets, Asleep, NoneFound, WaitHolder, WaitLocked
  <1>4. CASE PYield(s) \/ PLocal(s, k, l, i, a) \/ PTake(s, i) \/ PNoMemory(s, i)
    BY Zenon, <1>a, <1>4 DEF PYield, OnCpu, Sets, PLocal, Moves, Resets, PTake, PNoMemory, NoneFound,
        WaitHolder, WaitLocked
  <1>5. CASE PForkParent(s, i) \/ PForkRun(s, i) \/ PWaitLock(s, k, l, a) \/ PNoKids(s)
    BY Zenon, <1>a, <1>5 DEF PForkParent, Moves, Sets, PForkRun, Resets, PWaitLock, PNoKids, NoneFound,
        WaitHolder, WaitLocked
  <1>6. CASE \/ PRound(s, "wake init", initproc, "reparent", i)
             \/ PRound(s, "wake parent", parent[s], "zombie", i) \/ PFree(s, i) \/ PGiveUp(s)
    BY Zenon, <1>a, <1>6 DEF PRound, Sets, PFree, Moves, Resets, PGiveUp, NoneFound, WaitHolder, WaitLocked
  <1>7. CASE PPassBy(s, i) \/ PSleeps(s, k, ch, l) \/ PHit(s, i)
    BY Zenon, <1>a, <1>7 DEF PPassBy, Moves, Sets, PSleeps, OnCpu, Resets, PHit, NoneFound,
        WaitHolder, WaitLocked
  <1>8. CASE PTicksLock(s, k, a) \/ PSleepCheck(s) \/ PClockWake(i)
    BY Zenon, <1>a, <1>8 DEF PTicksLock, Moves, Sets, PSleepCheck, Resets, PClockWake, NoneFound,
        WaitHolder, WaitLocked
  <1>9. CASE PGiveAway(s, i)
    <2>1. WaitHolder(s)
      BY Zenon, <1>b
    <2> QED BY Zenon, <1>a, <1>9, <2>1 DEF PGiveAway, Moves, Sets, NoneFound, WaitHolder, WaitLocked
  <1>10. CASE PZombie(s)
    <2>1. WaitHolder(s)
      BY Zenon, <1>b
    <2> QED BY Zenon, <1>a, <1>10, <2>1 DEF PZombie, Moves, OnCpu, Sets, NoneFound, WaitHolder, WaitLocked
  <1>11. CASE PToSleep(s)
    <2>1. idx[s] \in Nat /\ Searched(s, r)
      BY Zenon, <1>b
    <2>2. r \in Nat
      BY Zenon, SlotsAre
    <2>3. r < idx[s] \/ idx[s] <= r
      BY <2>1, <2>2
    <2> QED BY Zenon, <1>a, <1>11, <2>1, <2>3 DEF PToSleep, Moves, Sets, NoneFound, Searched
  <1> QED
    BY Zenon, <1>2, <1>3, <1>4, <1>5, <1>6, <1>7, <1>8, <1>9, <1>10, <1>11 DEF Point

LEMMA WillWakeStep == ASSUME IInv, [Next]_vars, NEW p \in Slots, NEW r \in Slots PROVE WillWake(p, r)'
  <1> USE SlotsAre DEF fields, locks, locals
  <1>a. /\ WillWake(p, r)
        /\ wait_lock \in Slots \cup {NoProc}
        /\ \A x \in Slots : idx[x] \in Nat /\ widx[x] \in Slots
        /\ WaitHolder(p)
        /\ WaitHolder(r)
        /\ NoneFound(p, r)
        /\ WidxReset(p)
        /\ WidxReset(r)
        /\ SleepsAt(p)
        /\ SleepsAt(r)
    BY Zenon, IndicesAre DEF IInv, Types, WakeInv, LockTypes, LocalTypes, HolderInv, PlaceInv
  <1>b. /\ \A x \in Slots : WaitHolder(x)
        /\ \A x \in Slots : InKernel(x)
        /\ \A x \in Slots : WidxReset(x)
        /\ \A x \in Slots : HasChild(x)
    BY Zenon DEF IInv, HolderInv, PlaceInv, ForkInv
  <1> SUFFICES ASSUME NEW c \in Cpus, NEW s \in Slots, NEW i \in Slots, NEW k, NEW ch, NEW l,
                  NEW a \in Nat, Point(c, s, i, k, ch, l, a)
           PROVE  WillWake(p, r)'
    BY Zenon, Points
  <1>1. CASE UNCHANGED <<state, chan, parent, pc, widx, wait_lock>>
    BY Zenon, <1>a, <1>1 DEF WillWake, InitWoken
  <1>2. CASE PSwitch(c, s) \/ ClockIntr \/ ClockTick \/ UNCHANGED vars
    BY Zenon, <1>1, <1>2 DEF vars, PSwitch, ClockIntr, ClockTick
  <1>3. CASE PYield(s)
    BY Zenon, <1>a, <1>3 DEF PYield, OnCpu, Sets, WillWake, InitWoken, WaitHolder, WaitLocked, NoneFound,
        WidxReset, SleepsAt
  <1>4. CASE PNoMemory(s, i)
    BY Zenon, <1>a, <1>4 DEF PNoMemory, Moves, Resets, Sets, WillWake, InitWoken, WaitHolder, WaitLocked,
        NoneFound, WidxReset, SleepsAt
  <1>5. CASE PLocal(s, k, l, i, a) \/ PForkRun(s, i) \/ PWaitLock(s, k, l, a) \/ PNoKids(s)
    BY Zenon, <1>a, <1>5 DEF PLocal, Moves, Resets, Sets, PForkRun, PWaitLock, PNoKids, WillWake,
        InitWoken, WaitHolder, WaitLocked, NoneFound, WidxReset, SleepsAt
  <1>7. CASE PPassBy(s, i) \/ PToSleep(s) \/ PTicksLock(s, k, a) \/ PSleepCheck(s)
    BY Zenon, <1>a, <1>7 DEF PPassBy, Moves, Sets, PToSleep, PTicksLock, PSleepCheck, Resets, WillWake,
        InitWoken, WaitHolder, WaitLocked, NoneFound, WidxReset, SleepsAt
  <1>8. CASE PClockWake(i)
    BY Zenon, <1>a, <1>8 DEF PClockWake, WillWake, InitWoken, WaitHolder, WaitLocked, NoneFound, WidxReset,
        SleepsAt
  <1>9. CASE PDispatch(c, s)
    <2>1. state'[p] = "SLEEPING" => state[p] = "SLEEPING" /\ chan'[p] = chan[p]
      BY Zenon, <1>9 DEF PDispatch, Sets
    <2>2. ASSUME NEW x \in Slots, "wake init" = pc[x] PROVE pc'[x] = pc[x]
      BY Zenon, <1>9, <2>2 DEF PDispatch, Sets, Asleep
    <2>3. state'[r] = "ZOMBIE" => state[r] = "ZOMBIE"
      BY Zenon, <1>9 DEF PDispatch, Sets
    <2>4. UNCHANGED <<parent, wait_lock, widx>>
      BY Zenon, <1>9 DEF PDispatch, locks
    <2>5. wait_lock \in Slots \cup {NoProc} /\ WillWake(p, r)
      BY Zenon, <1>a
    <2>6. InitWoken => InitWoken'
      BY Zenon, <2>2, <2>4, <2>5 DEF InitWoken
    <2>7. pc'[r] \in {"wake parent", "zombie"} => pc'[r] = pc[r]
      BY Zenon, <1>9 DEF PDispatch, Sets, Asleep
    <2> QED BY Zenon, <2>1, <2>3, <2>4, <2>5, <2>6, <2>7 DEF WillWake
  <1>10. CASE PTake(s, i)
    <2>1. s # i /\ (state'[p] = "SLEEPING" => state[p] = "SLEEPING") /\ UNCHANGED <<chan, parent, wait_lock, widx>>
      BY Zenon, <1>10 DEF PTake, Sets
    <2>2. \A x \in Slots : pc'[x] = pc[x] \/ (x = s /\ pc'[x] = "fork parent") \/ (x = i /\ pc'[x] = "user")
      BY Zenon, <1>10 DEF PTake
    <2>3. pc[s] = "alloc" /\ pc[i] = "user" /\ state'[i] = "USED"
      BY Zenon, <1>b, <1>10 DEF PTake, InKernel, Alive, Sets
    <2>4. state'[r] = "ZOMBIE" => state[r] = "ZOMBIE"
      BY Zenon, <1>10 DEF PTake, Sets
    <2>5. InitWoken => InitWoken'
      BY Zenon, <1>a, <2>1, <2>2, <2>3 DEF InitWoken
    <2> QED BY Zenon, <1>a, <2>1, <2>2, <2>4, <2>5 DEF WillWake
  <1>11. CASE PForkParent(s, i)
    <2>1. UNCHANGED <<state, chan, widx>> /\ state[s] # "SLEEPING" /\ ~InitWoken
      BY Zenon, <1>11 DEF PForkParent, Moves, InitWoken
    <2>2. pc'[r] \in {"wake parent", "zombie"} => pc'[r] = pc[r]
      BY Zenon, <1>11 DEF PForkParent, Moves, Sets
    <2>3. parent'[r] = parent[r] \/ (r = i /\ parent'[r] = s)
      BY Zenon, <1>11 DEF PForkParent, Sets
    <2>4. r = i => state[r] = "USED" /\ pc[r] = "user"
      BY Zenon, <1>b, <1>11 DEF HasChild, Forking, InKernel, Alive, PForkParent, Moves
    <2> QED BY Zenon, <1>a, <2>1, <2>2, <2>3, <2>4 DEF WillWake
  <1>12. CASE PGiveAway(s, i)
    <2>1. wait_lock = s /\ widx[s] = 1 /\ state[s] = "RUNNING" /\ pc[s] = "reparent" /\ pc'[s] = "wake init"
      BY Zenon, <1>b, <1>12 DEF PGiveAway, Moves, Sets, WaitHolder, WaitLocked, WidxReset
    <2>2. InitWoken' /\ ~InitWoken
      BY Zenon, <2>1, <1>12 DEF PGiveAway, InitWoken, initproc
    <2>3. pc'[r] \notin {"wake parent", "zombie"}
      BY Zenon, <1>a, <2>1, <1>12 DEF PGiveAway, Moves, Sets, WaitHolder, WaitLocked
    <2>4. UNCHANGED <<state, chan>> /\ (r # i => parent'[r] = parent[r]) /\ parent'[i] = initproc
      BY Zenon, <1>12 DEF PGiveAway, Sets
    <2> QED BY Zenon, <1>a, <2>2, <2>3, <2>4 DEF WillWake
  <1>13. CASE PRound(s, "wake init", initproc, "reparent", i)
    <2>1. wait_lock = s /\ state[s] = "RUNNING" /\ pc[s] = "wake init" /\ i = widx[s]
      BY Zenon, <1>b, <1>13 DEF PRound, WaitHolder, WaitLocked
    <2>2. pc'[r] \notin {"wake parent", "zombie"}
      BY Zenon, <1>a, <2>1, <1>13 DEF PRound, Sets, WaitHolder, WaitLocked
    <2>3. /\ state'[p] = "SLEEPING" => state[p] = "SLEEPING"
          /\ state'[r] = "ZOMBIE" => state[r] = "ZOMBIE"
      BY Zenon, <1>13 DEF PRound
    <2>4. InitWoken => i = initproc
      <3>1. i \in Nat /\ 1 <= i
        BY Zenon, SlotsAre
      <3>2. InitWoken => i <= 1
        BY Zenon, <2>1 DEF InitWoken, initproc
      <3> QED BY <3>1, <3>2 DEF initproc
    <2>5. UNCHANGED <<parent, chan>>
      BY Zenon, <1>13 DEF PRound
    <2>6. i = initproc /\ p = initproc /\ state[p] = "SLEEPING" /\ chan[p] = p => state'[p] # "SLEEPING"
      BY Zenon, <2>1, <1>13 DEF PRound
    <2> QED BY Zenon, <1>a, <2>2, <2>3, <2>4, <2>5, <2>6 DEF WillWake
  <1>14. CASE PRound(s, "wake parent", parent[s], "zombie", i)
    <2>1. wait_lock = s /\ state[s] = "RUNNING" /\ pc[s] = "wake parent" /\ i = widx[s]
      BY Zenon, <1>b, <1>14 DEF PRound, WaitHolder, WaitLocked
    <2>2. /\ state'[p] = "SLEEPING" => state[p] = "SLEEPING"
          /\ state'[r] = "ZOMBIE" => state[r] = "ZOMBIE"
      BY Zenon, <1>14 DEF PRound
    <2>3. UNCHANGED <<parent, chan>> /\ ~InitWoken
      BY Zenon, <2>1, <1>14 DEF PRound, InitWoken
    <2>4. CASE r # s
      <3>1. pc'[r] \notin {"wake parent", "zombie"}
        BY Zenon, <1>a, <2>1, <2>4, <1>14 DEF PRound, Sets, WaitHolder, WaitLocked
      <3> QED BY Zenon, <1>a, <2>2, <2>3, <3>1 DEF WillWake
    <2>5. CASE r = s
      <3>1. SUFFICES ASSUME state'[p] = "SLEEPING", chan[p] = p, parent[r] = p PROVE WillWake(p, r)'
        BY Zenon, <2>3 DEF WillWake
      <3>2. i <= p
        BY Zenon, <1>a, <2>1, <2>2, <2>5, <3>1 DEF WillWake
      <3>3. i # p
        BY Zenon, <2>1, <2>2, <2>5, <3>1, <1>14 DEF PRound
      <3>4. i < NPROC /\ i + 1 <= p
        <4>1. i \in Nat /\ p \in Nat /\ NPROC \in Nat /\ p <= NPROC
          BY Zenon, SlotsAre, Sizes
        <4> QED BY <3>2, <3>3, <4>1
      <3>5. widx'[r] = i + 1 /\ pc'[r] = "wake parent"
        <4>1. i # NPROC
          BY <3>4, Sizes
        <4> QED BY Zenon, <2>1, <2>5, <4>1, <1>14 DEF PRound, Sets
      <3>6. state'[r] # "ZOMBIE"
        BY Zenon, <2>1, <2>2, <2>5
      <3> QED BY Zenon, <3>4, <3>5, <3>6 DEF WillWake
    <2> QED BY Zenon, <2>4, <2>5
  <1>15. CASE PZombie(s)
    <2>1. WaitHolder(s)
      BY Zenon, <1>b
    <2> QED BY Zenon, <1>a, <1>15, <2>1 DEF PZombie, Moves, OnCpu, Sets, WillWake, InitWoken, WaitHolder,
        WaitLocked, NoneFound, WidxReset, SleepsAt
  <1>16. CASE PFree(s, i)
    <2>1. WaitHolder(s)
      BY Zenon, <1>b
    <2> QED BY Zenon, <1>a, <1>16, <2>1 DEF PFree, Moves, Resets, Sets, WillWake, InitWoken, WaitHolder,
        WaitLocked, NoneFound, WidxReset, SleepsAt
  <1>17. CASE PGiveUp(s)
    <2>1. WaitHolder(s)
      BY Zenon, <1>b
    <2> QED BY Zenon, <1>a, <1>17, <2>1 DEF PGiveUp, Moves, Resets, Sets, WillWake, InitWoken, WaitHolder,
        WaitLocked, NoneFound, WidxReset, SleepsAt
  <1>18. CASE PSleeps(s, k, ch, l)
    <2>1. WaitHolder(s) /\ pc'[s] = l /\ l \in {"wait asleep", "sleep asleep"} /\ state'[s] = "SLEEPING"
      BY Zenon, <1>b, <1>18 DEF PSleeps, Moves, Sets
    <2>2. \A x \in Slots : x # s => state'[x] = state[x] /\ chan'[x] = chan[x] /\ pc'[x] = pc[x]
      BY Zenon, <1>18 DEF PSleeps, Moves, Sets
    <2>3. UNCHANGED <<parent, widx>>
      BY Zenon, <1>18 DEF PSleeps
    <2>4. CASE p = s
      <3>1. SUFFICES ASSUME chan'[p] = p, parent[r] = p PROVE WillWake(p, r)'
        BY Zenon, <2>3 DEF WillWake
      <3>2. pc[s] = "wait sleep"
        BY Zenon, <2>4, <3>1, <1>18 DEF PSleeps, Moves, Sets
      <3>3. wait_lock = s /\ state[r] # "ZOMBIE"
        BY Zenon, <1>a, <2>1, <2>4, <3>1, <3>2 DEF WaitHolder, WaitLocked, NoneFound
      <3>4. pc'[r] \notin {"wake parent", "zombie"} /\ state'[r] # "ZOMBIE"
        BY Zenon, <1>a, <2>1, <2>2, <3>3 DEF WaitHolder, WaitLocked
      <3> QED BY Zenon, <3>4 DEF WillWake
    <2>5. CASE p # s
      <3>1. pc'[r] \in {"wake parent", "zombie"} => pc'[r] = pc[r]
        BY Zenon, <2>1, <2>2
      <3>2. state'[r] = "ZOMBIE" => state[r] = "ZOMBIE"
        BY Zenon, <2>1, <2>2
      <3>3. InitWoken => InitWoken'
        <4>1. InitWoken => wait_lock # s /\ wait_lock \in Slots
          BY Zenon, <1>a, <1>18 DEF PSleeps, Moves, InitWoken
        <4>2. InitWoken => UNCHANGED wait_lock
          BY Zenon, <2>1, <4>1, <1>18 DEF PSleeps, Moves, WaitHolder, WaitLocked
        <4> QED BY Zenon, <2>2, <2>3, <4>1, <4>2 DEF InitWoken
      <3> QED BY Zenon, <1>a, <2>2, <2>3, <2>5, <3>1, <3>2, <3>3 DEF WillWake
    <2> QED BY Zenon, <2>4, <2>5
  <1>19. CASE PHit(s, i)
    <2>1. /\ state'[p] = "SLEEPING" => state[p] = "SLEEPING"
          /\ state'[r] = "ZOMBIE" => state[r] = "ZOMBIE"
      BY <1>19 DEF PHit
    <2>2. UNCHANGED <<parent, chan, wait_lock, widx>>
      BY Zenon, <1>19 DEF PHit, locks
    <2>3. ASSUME NEW x \in Slots, "wake init" = pc[x] PROVE pc'[x] = pc[x]
      BY Zenon, <1>19, <2>3 DEF PHit, Moves, Sets
    <2>4. pc'[r] \in {"wake parent", "zombie"} => pc'[r] = pc[r]
      BY Zenon, <1>19 DEF PHit, Moves, Sets
    <2>5. InitWoken => InitWoken'
      BY Zenon, <1>a, <2>2, <2>3 DEF InitWoken
    <2> QED BY Zenon, <1>a, <2>1, <2>2, <2>4, <2>5 DEF WillWake
  <1> QED
    BY Zenon, <1>2, <1>3, <1>4, <1>5, <1>7, <1>8, <1>9, <1>10, <1>11, <1>12, <1>13, <1>14,
        <1>15, <1>16, <1>17, <1>18, <1>19 DEF Point

-----------------------------------------------------------------------------
(* sys_sleep and clockintr. *)
LEMMA TicksToGoStep == ASSUME IInv, [Next]_vars, NEW p \in Slots PROVE TicksToGo(p)'
  <1> USE SlotsAre DEF fields, locks, locals
  <1>a. /\ TicksToGo(p)
        /\ TicksHolder(p)
        /\ \A x \in Slots : arg[x] \in Nat
        /\ ticks \in Nat
    BY Zenon DEF IInv, Types, TickInv, HolderInv, LocalTypes, TimeTypes
  <1> SUFFICES ASSUME NEW c \in Cpus, NEW s \in Slots, NEW i \in Slots, NEW k, NEW ch, NEW l,
                  NEW a \in Nat, Point(c, s, i, k, ch, l, a)
           PROVE  TicksToGo(p)'
    BY Zenon, Points
  <1>1. CASE UNCHANGED <<pc, ticks, arg>>
    BY Zenon, <1>a, <1>1 DEF TicksToGo
  <1>2. CASE \/ PSwitch(c, s) \/ PYield(s) \/ ClockIntr \/ PClockWake(i)
             \/ UNCHANGED vars
    BY Zenon, <1>1, <1>2 DEF vars, PSwitch, PYield, ClockIntr, PClockWake
  <1>3. CASE PDispatch(c, s)
    BY Zenon, <1>a, <1>3 DEF PDispatch, Sets, Asleep, TicksToGo, TicksHolder, TicksLocked
  <1>4. CASE PLocal(s, k, l, i, a) \/ PTake(s, i) \/ PNoMemory(s, i) \/ PForkParent(s, i)
    BY Zenon, <1>a, <1>4 DEF PLocal, Moves, Resets, Sets, PTake, PNoMemory, PForkParent, TicksToGo,
        TicksHolder, TicksLocked
  <1>5. CASE PForkRun(s, i) \/ PWaitLock(s, k, l, a) \/ PGiveAway(s, i) \/ PNoKids(s)
    BY Zenon, <1>a, <1>5 DEF PForkRun, Moves, Resets, Sets, PWaitLock, PGiveAway, PNoKids, TicksToGo,
        TicksHolder, TicksLocked
  <1>6. CASE \/ PRound(s, "wake init", initproc, "reparent", i)
             \/ PRound(s, "wake parent", parent[s], "zombie", i) \/ PZombie(s) \/ PFree(s, i)
    BY Zenon, <1>a, <1>6 DEF PRound, Sets, PZombie, Moves, OnCpu, PFree, Resets, TicksToGo, TicksHolder,
        TicksLocked
  <1>7. CASE PGiveUp(s) \/ PPassBy(s, i) \/ PToSleep(s) \/ PSleeps(s, k, ch, l)
    BY Zenon, <1>a, <1>7 DEF PGiveUp, Moves, Resets, Sets, PPassBy, PToSleep, PSleeps, OnCpu, TicksToGo,
        TicksHolder, TicksLocked
  <1>8. CASE PHit(s, i) \/ PTicksLock(s, k, a) \/ PSleepCheck(s)
    BY Zenon, <1>a, <1>8 DEF Moves, Resets, Sets, PHit, PTicksLock, PSleepCheck, TicksToGo,
        TicksHolder, TicksLocked
  <1>9. CASE ClockTick
    BY Zenon, <1>a, <1>9 DEF ClockTick, Clock, TicksToGo, TicksHolder, TicksLocked
  <1> QED
    BY Zenon, <1>2, <1>3, <1>4, <1>5, <1>6, <1>7, <1>8, <1>9 DEF Point

LEMMA TickComesStep == ASSUME IInv, [Next]_vars, NEW p \in Slots PROVE TickComes(p)'
  <1> USE SlotsAre, Sizes DEF fields, locks, locals
  <1>a. /\ TickComes(p)
        /\ TicksToGo(p)
        /\ clock \in 0 .. NPROC + 1
        /\ \A x \in Slots : arg[x] \in Nat
        /\ ticks \in Nat
    BY Zenon DEF IInv, Types, TickInv, TimeTypes, LocalTypes
  <1>b. /\ \A c \in Cpus : CpuUsed(c)
        /\ Interrupted
    BY Zenon DEF IInv, CpuInv
  <1> SUFFICES ASSUME NEW c \in Cpus, NEW s \in Slots, NEW i \in Slots, NEW k, NEW ch, NEW l,
                  NEW a \in Nat, Point(c, s, i, k, ch, l, a)
           PROVE  TickComes(p)'
    BY Zenon, Points
  <1>1. CASE UNCHANGED <<state, chan, ticks, arg, clock>>
    BY <1>a, <1>1 DEF TickComes
  <1>2. CASE \/ PSwitch(c, s) \/ PForkParent(s, i) \/ PGiveAway(s, i) \/ PNoKids(s)
             \/ PPassBy(s, i) \/ PToSleep(s) \/ UNCHANGED vars
    BY Zenon, <1>1, <1>2 DEF vars, PSwitch, PForkParent, PGiveAway, PNoKids, PPassBy, PToSleep
  <1>3. CASE PDispatch(c, s)
    BY Zenon, <1>a, <1>3 DEF PDispatch, Sets, Asleep, TickComes, TicksToGo
  <1>4. CASE PYield(s) \/ PLocal(s, k, l, i, a) \/ PTake(s, i) \/ PForkRun(s, i)
    BY Zenon, <1>a, <1>4 DEF PYield, OnCpu, Sets, PLocal, Moves, Resets, PTake, PForkRun, TickComes,
        TicksToGo
  <1>5. CASE \/ PWaitLock(s, k, l, a) \/ PRound(s, "wake init", initproc, "reparent", i)
             \/ PRound(s, "wake parent", parent[s], "zombie", i) \/ PZombie(s)
    BY Zenon, <1>a, <1>5 DEF PWaitLock, Moves, Sets, PRound, PZombie, OnCpu, TickComes, TicksToGo
  <1>6. CASE PFree(s, i) \/ PGiveUp(s) \/ PSleeps(s, k, ch, l)
    BY Zenon, <1>a, <1>6 DEF PFree, Moves, Resets, Sets, PGiveUp, PSleeps, OnCpu, TickComes,
        TicksToGo
  <1>7. CASE PHit(s, i) \/ PTicksLock(s, k, a) \/ PSleepCheck(s) \/ ClockIntr
    BY Zenon, <1>a, <1>7 DEF PHit, Moves, Resets, Sets, PTicksLock, PSleepCheck, ClockIntr, HoldsLock,
        Clock, TickComes, TicksToGo
  <1>8. CASE PNoMemory(s, i)
    <2>1. UNCHANGED <<ticks, clock>> /\ (p # s => arg'[p] = arg[p])
      BY Zenon, <1>8 DEF PNoMemory, Resets, Sets
    <2>2. state'[p] = "SLEEPING" => p # s /\ p # i /\ state[p] = "SLEEPING"
      BY Zenon, <1>8 DEF PNoMemory, Moves, Sets
    <2>3. p # i => chan'[p] = chan[p]
      BY Zenon, <1>8 DEF PNoMemory, Sets
    <2> QED BY Zenon, <1>a, <2>1, <2>2, <2>3 DEF TickComes
  <1>9. CASE ClockTick
    <2>1. clock' = 1 /\ NPROC >= 1 /\ p \in Nat
      BY Zenon, <1>9, Sizes, SlotsAre DEF ClockTick
    <2>2. clock' # 0 /\ clock' <= p
      BY <2>1, Sizes
    <2> QED BY Zenon, <2>2 DEF TickComes, NoProc
  <1>11. CASE PClockWake(i)
    <2>1. UNCHANGED <<ticks, arg, chan>> /\ (state'[p] = "SLEEPING" => state[p] = "SLEEPING")
      BY <1>11 DEF PClockWake
    <2>2. CASE p # i
      <3>1. i <= p => i < NPROC /\ i + 1 # 0 /\ i + 1 <= p
        BY <2>2
      <3>2. i <= p => clock' = i + 1
        BY <3>1, <1>11 DEF PClockWake
      <3>3. i = clock
        BY Zenon, <1>11 DEF PClockWake
      <3> QED BY Zenon, <1>a, <2>1, <3>1, <3>2, <3>3 DEF TickComes, NoProc
    <2>3. CASE p = i
      <3>1. clock # NoProc /\ Cpu0 \in Cpus
        BY Zenon, <1>11, SlotsAre, Sizes DEF PClockWake
      <3>2. state[p] = "SLEEPING" => cpu[Cpu0] # p
        BY <1>b, <2>3, <3>1 DEF CpuUsed, Interrupted
      <3>3. state[p] = "SLEEPING" /\ chan[p] = TicksChan => state'[p] # "SLEEPING"
        BY Zenon, <2>3, <3>2, <1>11 DEF PClockWake
      <3> QED BY Zenon, <2>1, <3>3 DEF TickComes
    <2> QED BY Zenon, <2>2, <2>3
  <1> QED
    BY Zenon, <1>2, <1>3, <1>4, <1>5, <1>6, <1>7, <1>8, <1>9, <1>11 DEF Point

-----------------------------------------------------------------------------
-----------------------------------------------------------------------------
LEMMA InitInv == Init => IInv
  <1> SUFFICES ASSUME Init PROVE IInv
    OBVIOUS
  <1> USE Sizes, SlotsAre, IndicesAre
  <1>1. Types
    <2>1. FieldTypes
      BY DEF Init, FieldTypes, States, TicksChan, NoProc
    <2>2. TimeTypes
      BY DEF Init, TimeTypes, NoProc
    <2>3. LockTypes
      BY Zenon DEF Init, LockTypes
    <2>4. LocalTypes
      <3>1. 0 \in Nat
        OBVIOUS
      <3> QED BY Zenon, <3>1 DEF Init, LocalTypes, IsOn
    <2> QED BY Zenon, <2>1, <2>2, <2>3, <2>4 DEF Types
  <1>2. CpuInv
    <2>1. ASSUME NEW c \in Cpus, NEW d \in Cpus PROVE CpuUsed(c) /\ OnOneCpu(c, d)
      BY DEF Init, CpuUsed, OnOneCpu
    <2>2. ASSUME NEW s \in Slots PROVE HasCpu(s) /\ LeavesCpu(s)
      BY DEF Init, HasCpu, LeavesCpu
    <2>3. Interrupted
      BY DEF Init, Interrupted
    <2> QED BY Zenon, <2>1, <2>2, <2>3 DEF CpuInv
  <1>3. ASSUME NEW s \in Slots
        PROVE  InKernel(s) /\ SleepsAt(s) /\ NotAwake(s) /\ IdxReset(s) /\ IdxInside(s) /\ WidxReset(s)
    BY DEF Init, InKernel, SleepsAt, NotAwake, IdxReset, IdxInside, WidxReset, Asleep
  <1>4. HolderInv
    <2>1. ASSUME NEW s \in Slots PROVE WaitHolder(s) /\ TicksHolder(s)
      BY DEF Init, WaitHolder, TicksHolder, WaitLocked, TicksLocked
    <2>2. ClockHolds
      BY DEF Init, ClockHolds, NoProc
    <2> QED BY Zenon, <2>1, <2>2 DEF HolderInv
  <1>5. ASSUME NEW s \in Slots, NEW t \in Slots PROVE HasChild(s) /\ OwnChild(s, t)
    BY DEF Init, HasChild, OwnChild, Forking
  <1>6. FamilyInv
    <2>1. InitThere
      BY DEF Init, InitThere, Alive, ExitLabels
    <2>2. ASSUME NEW s \in Slots, NEW q \in Slots
          PROVE  ParentThere(s) /\ GivenAway(s, q) /\ Childless(s, q)
      BY DEF Init, ParentThere, GivenAway, Childless
    <2> QED BY Zenon, <2>1, <2>2 DEF FamilyInv
  <1>7. ASSUME NEW s \in Slots, NEW q \in Slots
        PROVE  Searched(s, q) /\ NoneFound(s, q) /\ WillWake(s, q)
    BY DEF Init, Searched, NoneFound, WillWake
  <1>8. ASSUME NEW s \in Slots PROVE TicksToGo(s) /\ TickComes(s)
    BY DEF Init, TicksToGo, TickComes, NoProc
  <1> QED
    BY Zenon, <1>1, <1>2, <1>3, <1>4, <1>5, <1>6, <1>7, <1>8
       DEF IInv, PlaceInv, ForkInv, WakeInv, TickInv

LEMMA StepInv == IInv /\ [Next]_vars => IInv'
  <1> SUFFICES ASSUME IInv, [Next]_vars PROVE IInv'
    OBVIOUS
  <1>1. Types'
    BY Zenon, FieldTypesStep, TimeTypesStep, LockTypesStep, LocalTypesStep DEF Types
  <1>2. CpuInv'
    BY Zenon, CpuUsedStep, OnOneCpuStep, HasCpuStep, LeavesCpuStep, InterruptedStep DEF CpuInv
  <1>3. PlaceInv'
    BY Zenon, InKernelStep, SleepsAtStep, NotAwakeStep, IdxResetStep, IdxInsideStep, WidxResetStep
       DEF PlaceInv
  <1>4. HolderInv' /\ ForkInv'
    BY Zenon, WaitHolderStep, TicksHolderStep, ClockHoldsStep, HasChildStep, OwnChildStep
       DEF HolderInv, ForkInv
  <1>5. FamilyInv'
    BY Zenon, InitThereStep, ParentThereStep, GivenAwayStep, ChildlessStep DEF FamilyInv
  <1>6. WakeInv'
    BY Zenon, SearchedStep, NoneFoundStep, WillWakeStep DEF WakeInv
  <1>7. TickInv'
    BY Zenon, TicksToGoStep, TickComesStep DEF TickInv
  <1> QED BY Zenon, <1>1, <1>2, <1>3, <1>4, <1>5, <1>6, <1>7 DEF IInv

(* The inductive invariant of the process table holds in every state. *)
THEOREM ProcInvariant == Spec => []IInv
  BY InitInv, StepInv, PTL DEF Spec
-----------------------------------------------------------------------------
(* With any number of slots and CPUs, two CPUs never use the kernel stack  *)
(* of one process (sched, scheduler), and a slot is neither free nor being *)
(* set up by allocproc while a CPU is on its stack.                        *)
THEOREM ProcStackInUse == Spec => []StackInUse
  <1>1. ASSUME IInv PROVE StackInUse
    <2>1. SUFFICES ASSUME NEW c \in Cpus, cpu[c] # NoProc
                   PROVE  /\ state[cpu[c]] \notin {"UNUSED", "USED"}
                          /\ \A d \in Cpus : cpu[d] = cpu[c] => d = c
      BY Zenon DEF StackInUse
    <2>2. cpu[c] \in Slots
      BY Zenon, <1>1, <2>1 DEF IInv, Types, LockTypes
    <2>3. CpuUsed(c) /\ LeavesCpu(cpu[c]) /\ \A d \in Cpus : OnOneCpu(c, d)
      BY Zenon, <1>1, <2>2 DEF IInv, CpuInv
    <2>4. state[cpu[c]] \notin {"UNUSED", "USED"}
      BY <2>1, <2>3 DEF CpuUsed, LeavesCpu
    <2> QED BY Zenon, <2>1, <2>3, <2>4 DEF OnOneCpu
  <1> QED BY <1>1, ProcInvariant, PTL

(* Whatever fork, exit, wait and kill do at the same time, the parent of a *)
(* process has neither exited nor been freed: reparent leaves nobody with  *)
(* a dead parent, although it looks at every slot once.                    *)
THEOREM ProcParentAlive == Spec => []ParentAlive
  <1>1. IInv => ParentAlive
    BY Zenon DEF IInv, FamilyInv, ParentThere, ParentAlive, Alive
  <1> QED BY <1>1, ProcInvariant, PTL

(* No wakeup is lost between the last look at the children and the sleep   *)
(* in wait and waitx, or between the look at ticks and the sleep in        *)
(* sys_sleep.                                                              *)
THEOREM ProcNoLostWakeup == Spec => []NoLostWakeup
  <1>1. IInv => NoLostWakeup
    BY Zenon DEF IInv, WakeInv, WillWake, InitWoken, TickInv, TickComes, NoLostWakeup
  <1> QED BY <1>1, ProcInvariant, PTL

=============================================================================
