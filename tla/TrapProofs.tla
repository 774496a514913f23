----------------------------- MODULE TrapProofs -----------------------------
(***************************************************************************)
(* Traps return to where they came from and interrupts are off while a     *)
(* lock is held, for any number of CPUs and processes.                     *)
(***************************************************************************)
EXTENDS Trap, TLAPS

Modes == {"user", "kernel"}

(* Where interrupts are off, where p->lock is held, and where an interrupt *)
(* may find a kernel thread.                                               *)
Dark == {"usertrap", "sret", "yield", "kerneltrap", "kernelret", "sched", "resume", "forkret", "back", "myproc"}
Switching == {"sched", "resume", "forkret"}
Open == {"syscall", "relock", "ret", "exit", "loop"}
Labels == Dark \cup Open \cup {"user", "unused", "away"}

Frames == [at : Open, sepc : Threads \X Nat, spp : {"kernel"}, spie : {TRUE}, tp : Cpus \cup {Nobody}]

IsOn(f, D) == f = [x \in D |-> f[x]]

TTypes ==
  /\ cur \in [Cpus -> Threads] /\ mode \in [Cpus -> Modes] /\ sie \in [Cpus -> BOOLEAN]
  /\ spp \in [Cpus -> Modes] /\ spie \in [Cpus -> BOOLEAN]
  /\ IsOn(sepc, Cpus) /\ IsOn(scause, Cpus)
  /\ stvec \in [Cpus -> {"uservec", "kernelvec"}] /\ tp \in [Cpus -> Cpus \cup {Nobody}]
  /\ noff \in [Cpus -> Nat] /\ intena \in [Cpus -> BOOLEAN]
  /\ at \in [Threads -> Labels] /\ locks \in [Threads -> Nat] /\ stk \in [Threads -> Seq(Frames)]
  /\ IsOn(then, Threads) /\ saved \in [Threads -> BOOLEAN]
  /\ IsOn(epc, Procs) /\ hartid \in [Procs -> Cpus \cup {Nobody}] /\ IsOn(upc, Procs)
  /\ plock \in [Procs -> Cpus \cup {Nobody}]

(* The registers of a CPU fit the place of the thread it executes. *)
CpuInv(c) ==
  LET t == cur[c]
      l == at[cur[c]] IN
  /\ t = c => l \in {"loop", "back", "kerneltrap", "kernelret"}
  /\ t # c => t \in Procs /\ l \notin {"loop", "back", "unused", "away"}
              /\ at[c] = "away" /\ stk[c] = <<>>
  /\ mode[c] = IF l = "user" THEN "user" ELSE "kernel"
  /\ tp[c] = IF l = "user" THEN Nobody ELSE c
  /\ stvec[c] = IF l \in {"user", "usertrap", "sret"} THEN "uservec" ELSE "kernelvec"
  /\ l = "user" => hartid[t] = c
  /\ l = "usertrap" => spp[c] = "user" /\ SavedEpc(c) = <<t, upc[t]>>
  /\ l = "kerneltrap" => spp[c] = "kernel"
  /\ l \in Dark => ~sie[c]
  /\ l = "relock" => sie[c]
  /\ l \in {"syscall", "myproc"} => (sie[c] <=> noff[c] = 0) /\ (noff[c] # 0 => intena[c])
  /\ noff[c] = IF l \in Switching \cup {"back"} THEN 1 ELSE locks[t]
  /\ l \in Switching => plock[t] = c
  /\ l = "back" => \E p \in Procs : plock[p] = c
  /\ l = "sched" => (then[t] = "relock" => intena[c]) /\ (then[t] = "kernelret" => ~intena[c])

(* What a thread has on its stack and in its trap frame. *)
ThreadInv(t) ==
  /\ locks[t] # 0 => at[t] \in {"syscall", "myproc"}
  /\ stk[t] = <<>> \/ (Len(stk[t]) = 1 /\ (stk[t][1].at = "loop" <=> t \in Cpus))
  /\ at[t] \in {"kerneltrap", "kernelret"} => stk[t] # <<>>
  /\ at[t] \in Open \cup {"user", "usertrap", "sret", "forkret", "back", "unused", "myproc"} => stk[t] = <<>>
  /\ t \in Procs =>
       /\ at[t] \in {"sched", "resume", "away"} =>
            /\ then[t] \in {"relock", "ret", "kernelret", "unused"}
            /\ stk[t] # <<>> <=> then[t] = "kernelret"
       /\ at[t] = "resume" => then[t] # "unused"
       /\ at[t] \in {"resume", "away"} => (then[t] = "relock" => saved[t]) /\ (then[t] = "kernelret" => ~saved[t])
       /\ at[t] \notin {"user", "usertrap", "unused"} => epc[t] = <<t, upc[t]>>

(* Who holds p->lock. *)
LockInv(p) ==
  plock[p] # Nobody =>
    \/ cur[plock[p]] = p /\ at[p] \in Switching
    \/ cur[plock[p]] = plock[p] /\ at[plock[p]] = "back" /\ at[p] = "away"

TInv ==
  /\ TTypes /\ panic = "none" /\ ~astray
  /\ \A c \in Cpus : CpuInv(c)
  /\ \A t \in Threads : ThreadInv(t)
  /\ \A p \in Procs : LockInv(p)
  /\ \A c, d \in Cpus : c # d => cur[c] # cur[d]
  /\ \A p \in Procs : (\A c \in Cpus : cur[c] # p) => at[p] \in {"unused", "forkret", "away"}
  /\ \A p, q \in Procs : plock[p] = plock[q] /\ plock[p] # Nobody => p = q

(* c->proc is the process that CPU c executes, and a thread in myproc has  *)
(* found the CPU it is on.                                                 *)
SelfTypes == proc \in [Cpus -> Procs \cup {Nobody}] /\ mine \in [Threads -> Cpus \cup {Nobody}]
SelfCpu(c) ==
  /\ cur[c] \in Procs => proc[c] = cur[c]
  /\ cur[c] = c /\ at[c] # "back" => proc[c] = Nobody
  /\ at[cur[c]] = "myproc" => mine[cur[c]] = c
SelfInv == SelfTypes /\ \A c \in Cpus : SelfCpu(c)

-----------------------------------------------------------------------------
(* A step of CPU c in thread t leaves the others alone. *)
OnlyCpu(c) ==
  \A d \in Cpus : d # c =>
    /\ mode'[d] = mode[d] /\ sie'[d] = sie[d] /\ spp'[d] = spp[d] /\ sepc'[d] = sepc[d]
    /\ scause'[d] = scause[d] /\ stvec'[d] = stvec[d] /\ tp'[d] = tp[d]
    /\ noff'[d] = noff[d] /\ intena'[d] = intena[d]
SameThread(u) ==
  at'[u] = at[u] /\ locks'[u] = locks[u] /\ stk'[u] = stk[u] /\ then'[u] = then[u] /\ saved'[u] = saved[u]
SameFrame(q) == epc'[q] = epc[q] /\ hartid'[q] = hartid[q] /\ upc'[q] = upc[q] /\ plock'[q] = plock[q]
OnlyThread(t) ==
  /\ \A u \in Threads : u # t => SameThread(u)
  /\ \A q \in Procs : q # t => SameFrame(q)

LEMMA CpuKept ==
  ASSUME NEW c, NEW d \in Cpus, d # c, OnlyCpu(c), CpuInv(d), cur'[d] = cur[d],
         SameThread(d), SameThread(cur[d]), cur[d] \in Procs => SameFrame(cur[d]),
         at[d] = "back" => \A p \in Procs : plock[p] = d => plock'[p] = d
  PROVE  CpuInv(d)'
<1>1. /\ mode'[d] = mode[d] /\ sie'[d] = sie[d] /\ spp'[d] = spp[d] /\ sepc'[d] = sepc[d]
      /\ scause'[d] = scause[d] /\ stvec'[d] = stvec[d] /\ tp'[d] = tp[d]
      /\ noff'[d] = noff[d] /\ intena'[d] = intena[d]
  BY Zenon DEF OnlyCpu
<1> DEFINE t == cur[d]
<1>2. cur'[d] = t /\ at'[t] = at[t] /\ locks'[t] = locks[t] /\ then'[t] = then[t]
  BY Zenon DEF SameThread
<1>3. at'[d] = at[d] /\ stk'[d] = stk[d]
  BY Zenon DEF SameThread
<1>4. SavedEpc(d)' = SavedEpc(d)
  BY Zenon, <1>1 DEF SavedEpc
<1>5. t # d => t \in Procs /\ hartid'[t] = hartid[t] /\ upc'[t] = upc[t] /\ plock'[t] = plock[t]
  BY Zenon DEF SameFrame, CpuInv
<1>6. t = d => at[t] \notin {"user", "usertrap"} \cup Switching
  <2>1. t = d => at[t] \in {"loop", "back", "kerneltrap", "kernelret"}
    BY Zenon DEF CpuInv
  <2> QED BY <2>1 DEF Switching
<1>7. at[t] = "back" => \E p \in Procs : plock'[p] = d
  <2>1. at[t] = "back" => t = d
    BY Zenon DEF CpuInv
  <2>2. at[t] = "back" => \E p \in Procs : plock[p] = d
    BY Zenon DEF CpuInv
  <2> QED BY Zenon, <2>1, <2>2
<1>8. CpuInv(d)
  OBVIOUS
<1> HIDE DEF t
<1>9. /\ t = d => at[t] \in {"loop", "back", "kerneltrap", "kernelret"}
      /\ t # d => t \in Procs /\ at[t] \notin {"loop", "back", "unused", "away"}
                  /\ at[d] = "away" /\ stk[d] = <<>>
      /\ mode[d] = IF at[t] = "user" THEN "user" ELSE "kernel"
      /\ tp[d] = IF at[t] = "user" THEN Nobody ELSE d
      /\ stvec[d] = IF at[t] \in {"user", "usertrap", "sret"} THEN "uservec" ELSE "kernelvec"
      /\ at[t] = "user" => hartid[t] = d
      /\ at[t] = "usertrap" => spp[d] = "user" /\ SavedEpc(d) = <<t, upc[t]>>
      /\ at[t] = "kerneltrap" => spp[d] = "kernel"
      /\ at[t] \in Dark => ~sie[d]
      /\ at[t] = "relock" => sie[d]
      /\ at[t] \in {"syscall", "myproc"} => (sie[d] <=> noff[d] = 0) /\ (noff[d] # 0 => intena[d])
      /\ noff[d] = IF at[t] \in Switching \cup {"back"} THEN 1 ELSE locks[t]
      /\ at[t] \in Switching => plock[t] = d
      /\ at[t] = "sched" => (then[t] = "relock" => intena[d]) /\ (then[t] = "kernelret" => ~intena[d])
  BY Zenon, <1>8 DEF CpuInv, t
<1>10. /\ t = d => at'[t] \in {"loop", "back", "kerneltrap", "kernelret"}
       /\ t # d => t \in Procs /\ at'[t] \notin {"loop", "back", "unused", "away"}
                   /\ at'[d] = "away" /\ stk'[d] = <<>>
       /\ mode'[d] = IF at'[t] = "user" THEN "user" ELSE "kernel"
       /\ tp'[d] = IF at'[t] = "user" THEN Nobody ELSE d
       /\ stvec'[d] = IF at'[t] \in {"user", "usertrap", "sret"} THEN "uservec" ELSE "kernelvec"
  BY Zenon, <1>1, <1>2, <1>3, <1>9
<1>11. /\ at'[t] = "user" => hartid'[t] = d
       /\ at'[t] = "usertrap" => spp'[d] = "user" /\ SavedEpc(d)' = <<t, upc'[t]>>
       /\ at'[t] \in Switching => plock'[t] = d
  BY Zenon, <1>1, <1>2, <1>4, <1>5, <1>6, <1>9
<1>12. noff'[d] = IF at'[t] \in Switching \cup {"back"} THEN 1 ELSE locks'[t]
  BY Zenon, <1>1, <1>2, <1>9
<1> QED BY <1>1, <1>2, <1>7, <1>9, <1>10, <1>11, <1>12 DEF CpuInv

LEMMA ThreadKept ==
  ASSUME NEW t \in Threads, ThreadInv(t), SameThread(t), t \in Procs => SameFrame(t)
  PROVE  ThreadInv(t)'
BY Zenon DEF ThreadInv, SameThread, SameFrame

LEMMA Distinct ==
  /\ \A c \in Cpus : c \notin Procs /\ c # Nobody /\ c \in Threads
  /\ \A p \in Procs : p \notin Cpus /\ p # Nobody /\ p \in Threads
BY Zenon, TrapAssumption DEF Threads

LEMMA RunsOwn ==
  ASSUME TInv, NEW c \in Cpus
  PROVE  CpuInv(c) /\ (cur[c] = c \/ cur[c] \in Procs) /\ cur[c] \in Threads
<1>1. CpuInv(c) /\ cur[c] \in Threads
  BY Zenon DEF TInv, TTypes
<1> QED BY Zenon, <1>1 DEF CpuInv

(* What a CPU holds in a thread that is not at "back". *)
LEMMA HoldsHere ==
  ASSUME TInv, NEW c \in Cpus, at[cur[c]] # "back", NEW q \in Procs, plock[q] = c
  PROVE  q = cur[c] /\ at[q] \in Switching
BY Zenon, Distinct DEF TInv, LockInv

LEMMA HoldsRunning ==
  ASSUME TInv, NEW c \in Cpus, cur[c] \in Procs, plock[cur[c]] # Nobody
  PROVE  plock[cur[c]] = c /\ at[cur[c]] \in Switching
<1>1. plock[cur[c]] \in Cpus
  BY Zenon DEF TInv, TTypes
<1>2. at[cur[c]] # "away"
  BY Zenon, Distinct DEF TInv, CpuInv
<1> QED BY Zenon, <1>1, <1>2 DEF TInv, LockInv

(* A step of CPU c in its thread that keeps cur is right when it is right  *)
(* for that CPU and that thread.                                           *)
LEMMA LocalStep ==
  ASSUME TInv, NEW c \in Cpus, NEW t \in Threads, t = cur[c], at[t] # "back",
         OnlyCpu(c), OnlyThread(t), UNCHANGED cur, TTypes', panic' = "none", ~astray',
         CpuInv(c)', ThreadInv(t)',
         t \in Procs => plock'[t] \in {Nobody, c} /\ LockInv(t)'
  PROVE  TInv'
<1>1. \A d \in Cpus : CpuInv(d)'
  <2> TAKE d \in Cpus
  <2>1. CASE d = c
    BY Zenon, <2>1
  <2>2. CASE d # c
    <3>1. CpuInv(d) /\ cur[d] # t /\ cur'[d] = cur[d] /\ cur[d] \in Threads
      BY Zenon, <2>2 DEF TInv, TTypes
    <3>2. d # t
      BY Zenon, <2>2, Distinct, RunsOwn
    <3>3. SameThread(d) /\ SameThread(cur[d]) /\ (cur[d] \in Procs => SameFrame(cur[d]))
      BY Zenon, <3>1, <3>2, Distinct DEF OnlyThread
    <3>4. \A p \in Procs : plock[p] = d => plock'[p] = d
      <4> SUFFICES ASSUME NEW p \in Procs, plock[p] = d
                   PROVE  plock'[p] = d
        BY Zenon
      <4>1. p # t
        BY Zenon, <2>2, HoldsRunning, Distinct
      <4> QED BY Zenon, <4>1 DEF OnlyThread, SameFrame
    <3> QED BY Zenon, <2>2, <3>1, <3>3, <3>4, CpuKept
  <2> QED BY Zenon, <2>1, <2>2
<1>2. \A u \in Threads : ThreadInv(u)'
  <2> TAKE u \in Threads
  <2>1. CASE u = t
    BY Zenon, <2>1
  <2>2. CASE u # t
    BY Zenon, <2>2, ThreadKept DEF TInv, OnlyThread
  <2> QED BY Zenon, <2>1, <2>2
<1>3. \A p \in Procs : LockInv(p)'
  <2> TAKE p \in Procs
  <2>1. CASE p = t
    BY Zenon, <2>1
  <2>2. CASE p # t
    <3>1. plock'[p] = plock[p] /\ at'[p] = at[p]
      BY Zenon, <2>2, Distinct DEF OnlyThread, SameFrame, SameThread
    <3>2. CASE plock[p] # Nobody
      <4>1. plock[p] \in Cpus /\ LockInv(p)
        BY Zenon, <3>2 DEF TInv, TTypes
      <4>2. plock[p] # c
        BY Zenon, <2>2, HoldsHere
      <4>3. plock[p] # t /\ plock[p] \in Threads
        BY Zenon, <4>1, <4>2, Distinct DEF TInv, CpuInv
      <4>4. at'[plock[p]] = at[plock[p]]
        BY Zenon, <4>3 DEF OnlyThread, SameThread
      <4> QED BY Zenon, <3>1, <4>1, <4>4 DEF LockInv
    <3>3. CASE plock[p] = Nobody
      BY Zenon, <3>1, <3>3 DEF LockInv
    <3> QED BY Zenon, <3>2, <3>3
  <2> QED BY Zenon, <2>1, <2>2
<1>4. \A p \in Procs : (\A d \in Cpus : cur'[d] # p) => at'[p] \in {"unused", "forkret", "away"}
  BY Zenon, Distinct DEF TInv, OnlyThread, SameThread
<1>5. \A p, q \in Procs : plock'[p] = plock'[q] /\ plock'[p] # Nobody => p = q
  <2>1. ASSUME NEW p \in Procs, p # t
        PROVE  plock'[p] = plock[p] /\ plock'[p] # c
    <3>1. plock'[p] = plock[p]
      BY Zenon, <2>1 DEF OnlyThread, SameFrame
    <3>2. plock[p] # c
      BY Zenon, <2>1, HoldsHere
    <3> QED BY Zenon, <3>1, <3>2
  <2>2. \A p, q \in Procs : plock[p] = plock[q] /\ plock[p] # Nobody => p = q
    BY Zenon DEF TInv
  <2>3. t \in Procs => plock'[t] = Nobody \/ plock'[t] = c
    BY Zenon
  <2> TAKE p, q \in Procs
  <2>4. CASE p # t /\ q # t
    BY Zenon, <2>1, <2>2, <2>4
  <2>5. CASE p = t
    BY Zenon, <2>1, <2>3, <2>5
  <2>6. CASE q = t
    BY Zenon, <2>1, <2>3, <2>6
  <2> QED BY Zenon, <2>4, <2>5, <2>6
<1>6. \A d, e \in Cpus : d # e => cur'[d] # cur'[e]
  BY Zenon DEF TInv
<1> QED BY Zenon, <1>1, <1>2, <1>3, <1>4, <1>5, <1>6 DEF TInv

-----------------------------------------------------------------------------
LEMMA InFacts ==
  ASSUME TInv, NEW c \in Cpus, NEW l, In(c, l)
  PROVE  /\ at[cur[c]] = l /\ l # "user" /\ mode[c] = "kernel" /\ Me(c) = c /\ tp[c] = c
         /\ TTypes /\ CpuInv(c) /\ ThreadInv(cur[c])
         /\ cur[c] \in Threads /\ (cur[c] = c \/ cur[c] \in Procs)
         /\ (cur[c] = c <=> l \in {"loop", "back"} \/ (l \in {"kerneltrap", "kernelret"} /\ cur[c] \notin Procs))
<1>1. CpuInv(c) /\ (cur[c] = c \/ cur[c] \in Procs) /\ cur[c] \in Threads /\ TTypes
  BY Zenon, RunsOwn DEF TInv
<1>2. ThreadInv(cur[c])
  BY Zenon, <1>1 DEF TInv
<1>3. at[cur[c]] = l /\ mode[c] = "kernel"
  BY Zenon DEF In
<1>4. l # "user"
  BY <1>1, <1>3 DEF CpuInv
<1>5. tp[c] = c
  BY Zenon, <1>1, <1>3, <1>4 DEF CpuInv
<1>6. cur[c] = c <=> l \in {"loop", "back"} \/ (l \in {"kerneltrap", "kernelret"} /\ cur[c] \notin Procs)
  BY <1>1, <1>3, Distinct DEF CpuInv
<1> QED BY Zenon, <1>1, <1>2, <1>3, <1>4, <1>5, <1>6 DEF Me

LEMMA UserTrapOk ==
  ASSUME TInv, NEW c \in Cpus, NEW why, UserTrap(c, why)
  PROVE  TInv'
<1>1. CpuInv(c) /\ TTypes /\ cur[c] \in Threads
  BY Zenon, RunsOwn DEF TInv
<1>2. PICK t \in Threads : t = cur[c]
  BY Zenon, <1>1
<1>3. ThreadInv(t) /\ panic = "none" /\ ~astray
  BY Zenon DEF TInv
<1>4. at[t] = "user" /\ t # c
  <2>1. mode[c] = "user"
    BY Zenon DEF UserTrap
  <2>2. at[t] = "user"
    BY <1>1, <1>2, <2>1 DEF CpuInv
  <2> QED BY <1>1, <1>2, <2>2 DEF CpuInv
<1>5. /\ t \in Procs /\ stvec[c] = "uservec" /\ hartid[t] = c /\ at[c] = "away" /\ stk[c] = <<>>
      /\ noff[c] = locks[t]
  BY <1>1, <1>2, <1>4 DEF CpuInv, Switching
<1>6. /\ mode' = Set(mode, c, "kernel") /\ sie' = Set(sie, c, FALSE)
      /\ spp' = Set(spp, c, "user") /\ spie' = Set(spie, c, TRUE)
      /\ sepc' = Set(sepc, c, <<t, upc[t]>>) /\ scause' = Set(scause, c, why)
      /\ upc' = IF why = "syscall" THEN Set(upc, t, (upc[t] + 1) % Pcs) ELSE upc
      /\ tp' = Set(tp, c, c) /\ at' = [at EXCEPT ![t] = "usertrap"]
      /\ UNCHANGED <<cur, stvec, noff, intena, locks, stk, then, saved, epc, hartid, plock, astray, panic>>
  BY Zenon, <1>2, <1>5 DEF UserTrap, Goto, cpu, frame
<1>7. /\ mode'[c] = "kernel" /\ sie'[c] = FALSE /\ spp'[c] = "user"
      /\ sepc'[c] = <<t, upc[t]>> /\ scause'[c] = why /\ tp'[c] = c /\ at'[t] = "usertrap"
      /\ upc'[t] = IF why = "syscall" THEN (upc[t] + 1) % Pcs ELSE upc[t]
  BY <1>1, <1>5, <1>6 DEF TTypes, Set, IsOn
<1>8. OnlyCpu(c)
  BY Zenon, <1>1, <1>6 DEF TTypes, Set, IsOn, OnlyCpu
<1>9. OnlyThread(t)
  BY <1>1, <1>6 DEF TTypes, Set, IsOn, OnlyThread, SameThread, SameFrame
<1>10. TTypes'
  BY Zenon, <1>1, <1>6 DEF TTypes, Set, IsOn, Modes, Labels, Dark
<1>11. CpuInv(c)'
  <2>1. SavedEpc(c)' = <<t, upc'[t]>>
    BY <1>7 DEF SavedEpc
  <2>2. at'[c] = "away" /\ stk'[c] = <<>>
    BY <1>4, <1>5, <1>6, <1>9, Distinct DEF OnlyThread, SameThread
  <2> QED BY Zenon, <1>2, <1>4, <1>5, <1>6, <1>7, <2>1, <2>2 DEF CpuInv, Dark, Switching
<1>12. ThreadInv(t)'
  BY <1>3, <1>4, <1>6, <1>7 DEF ThreadInv, Open
<1>13. plock'[t] = Nobody /\ LockInv(t)'
  <2>1. plock[t] = Nobody
    BY <1>2, <1>4, <1>5, HoldsRunning DEF Switching
  <2> QED BY Zenon, <1>6, <2>1 DEF LockInv
<1> QED BY <1>2, <1>3, <1>4, <1>6, <1>8, <1>9, <1>10, <1>11, <1>12, <1>13, LocalStep

(* What holds of CPU c and its process t in the kernel. *)
InProc(c, t) ==
  /\ Me(c) = c /\ tp[c] = c /\ mode[c] = "kernel"
  /\ t \in Procs /\ t # c /\ at[c] = "away" /\ stk[c] = <<>>
  /\ TTypes /\ CpuInv(c) /\ ThreadInv(t) /\ panic = "none" /\ ~astray
  /\ at[t] \notin Switching => plock[t] = Nobody /\ noff[c] = locks[t]
  /\ at[t] \notin {"syscall", "myproc"} => locks[t] = 0
  /\ at[t] \notin {"usertrap", "sret"} => stvec[c] = "kernelvec"
  /\ at[t] \in Dark => ~sie[c]
  /\ at[t] \notin {"yield", "sched", "resume", "away"} => stk[t] = <<>>
  /\ at[t] \notin {"user", "usertrap", "unused"} => epc[t] = <<t, upc[t]>>

LEMMA AtFacts ==
  ASSUME TInv, NEW c \in Cpus, NEW l, In(c, l), l \notin {"loop", "back", "kerneltrap", "kernelret"}
  PROVE  InProc(c, cur[c])
<1>0. PICK t \in Threads : t = cur[c]
  BY Zenon, RunsOwn
<1> t = cur[c]
  BY Zenon, <1>0
<1> at[t] = l /\ In(c, at[t]) /\ at[t] \notin {"loop", "back", "kerneltrap", "kernelret"}
  BY Zenon DEF In
<1>1. /\ Me(c) = c /\ tp[c] = c /\ mode[c] = "kernel" /\ TTypes /\ CpuInv(c) /\ ThreadInv(t)
      /\ panic = "none" /\ ~astray /\ at[t] # "user"
  <2>1. ThreadInv(t) /\ panic = "none" /\ ~astray
    BY Zenon DEF TInv
  <2>2. Me(c) = c /\ tp[c] = c /\ mode[c] = "kernel" /\ TTypes /\ CpuInv(c) /\ at[t] # "user"
    BY ZenonT(30), InFacts
  <2> QED BY Zenon, <2>1, <2>2
<1>2. t \in Procs /\ t # c /\ at[c] = "away" /\ stk[c] = <<>>
  BY <1>1, Distinct DEF CpuInv
<1>3. at[t] \notin Switching => plock[t] = Nobody
  BY Zenon, <1>1, <1>2, HoldsRunning
<1>4. at[t] \notin Switching => noff[c] = locks[t]
  BY <1>1 DEF CpuInv
<1>5. /\ at[t] \notin {"syscall", "myproc"} => locks[t] = 0
      /\ at[t] \notin {"usertrap", "sret"} => stvec[c] = "kernelvec"
      /\ at[t] \in Dark => ~sie[c]
  BY Zenon, <1>1 DEF CpuInv, ThreadInv
<1>6. /\ at[t] \notin {"yield", "sched", "resume", "away"} => stk[t] = <<>>
      /\ at[t] \notin {"user", "usertrap", "unused"} => epc[t] = <<t, upc[t]>>
  <2>1. at[t] \in Labels
    BY Zenon, <1>1 DEF TTypes
  <2> QED BY <1>1, <1>2, <2>1 DEF ThreadInv, Labels, Dark, Open
<1> QED BY Zenon, <1>1, <1>2, <1>3, <1>4, <1>5, <1>6 DEF InProc

(* The same, where t neither holds nor has an interrupt on its stack, and  *)
(* where it holds p->lock.                                                 *)
Plain(c, t) ==
  /\ Me(c) = c /\ tp[c] = c /\ mode[c] = "kernel"
  /\ t \in Procs /\ t # c /\ at[c] = "away" /\ stk[c] = <<>>
  /\ TTypes /\ CpuInv(c) /\ ThreadInv(t) /\ panic = "none" /\ ~astray
  /\ plock[t] = Nobody /\ noff[c] = locks[t] /\ stk[t] = <<>> /\ epc[t] = <<t, upc[t]>>
  /\ at[t] \notin {"syscall", "myproc"} => locks[t] = 0
  /\ at[t] # "sret" => stvec[c] = "kernelvec"
Locked(c, t) ==
  /\ Me(c) = c /\ tp[c] = c /\ mode[c] = "kernel" /\ stvec[c] = "kernelvec"
  /\ t \in Procs /\ t # c /\ at[c] = "away" /\ stk[c] = <<>>
  /\ TTypes /\ CpuInv(c) /\ ThreadInv(t) /\ panic = "none" /\ ~astray
  /\ plock[t] = c /\ noff[c] = 1 /\ locks[t] = 0 /\ ~sie[c] /\ epc[t] = <<t, upc[t]>>

LEMMA AtPlain ==
  ASSUME TInv, NEW c \in Cpus, NEW l \in {"syscall", "relock", "ret", "exit", "sret", "myproc"}, In(c, l)
  PROVE  Plain(c, cur[c])
<1>0. PICK t \in Threads : t = cur[c]
  BY Zenon, RunsOwn
<1> t = cur[c]
  BY Zenon, <1>0
<1>l. at[t] = l
  BY Zenon DEF In
<1>1. /\ at[t] \notin {"loop", "back", "kerneltrap", "kernelret"} /\ at[t] \notin Switching
      /\ at[t] \notin {"yield", "sched", "resume", "away"} /\ at[t] \notin {"user", "usertrap", "unused"}
      /\ at[t] \in {"usertrap", "sret"} <=> at[t] = "sret"
  BY <1>l DEF Switching
<1>i. InProc(c, t)
  <2>1. l \notin {"loop", "back", "kerneltrap", "kernelret"}
    BY DEF Switching
  <2> QED BY Zenon, <2>1, AtFacts
<1>2. /\ Me(c) = c /\ tp[c] = c /\ mode[c] = "kernel"
      /\ t \in Procs /\ t # c /\ at[c] = "away" /\ stk[c] = <<>>
      /\ TTypes /\ CpuInv(c) /\ ThreadInv(t) /\ panic = "none" /\ ~astray
  BY <1>1, <1>i DEF InProc
<1>3. plock[t] = Nobody /\ noff[c] = locks[t] /\ stk[t] = <<>> /\ epc[t] = <<t, upc[t]>>
  BY <1>1, <1>i DEF InProc
<1>4. (at[t] \notin {"syscall", "myproc"} => locks[t] = 0) /\ (at[t] # "sret" => stvec[c] = "kernelvec")
  BY <1>1, <1>i DEF InProc
<1> QED BY Zenon, <1>2, <1>3, <1>4 DEF Plain

LEMMA AtSwitching ==
  ASSUME TInv, NEW c \in Cpus, NEW l \in Switching, In(c, l)
  PROVE  Locked(c, cur[c])
<1>0. PICK t \in Threads : t = cur[c]
  BY Zenon, RunsOwn
<1> t = cur[c]
  BY Zenon, <1>0
<1>l. at[t] = l
  BY Zenon DEF In
<1>1. /\ at[t] \notin {"loop", "back", "kerneltrap", "kernelret"}
      /\ at[t] \notin {"user", "usertrap", "unused", "sret", "syscall", "myproc"} /\ at[t] \in Dark
  BY <1>l DEF Switching, Dark
<1>i. InProc(c, t)
  <2>1. l \notin {"loop", "back", "kerneltrap", "kernelret"}
    BY DEF Switching
  <2> QED BY Zenon, <2>1, AtFacts
<1>2. /\ Me(c) = c /\ tp[c] = c /\ mode[c] = "kernel" /\ stvec[c] = "kernelvec"
      /\ t \in Procs /\ t # c /\ at[c] = "away" /\ stk[c] = <<>>
      /\ TTypes /\ CpuInv(c) /\ ThreadInv(t) /\ panic = "none" /\ ~astray
      /\ locks[t] = 0 /\ ~sie[c] /\ epc[t] = <<t, upc[t]>>
  BY <1>1, <1>i DEF InProc
<1>3. plock[t] = c /\ noff[c] = 1
  BY Zenon, <1>l, <1>2 DEF CpuInv
<1> QED BY Zenon, <1>2, <1>3 DEF Locked

LEMMA UsertrapOk ==
  ASSUME TInv, NEW c \in Cpus, usertrap(c)
  PROVE  TInv'
<1>1. PICK t \in Threads : t = cur[c]
  BY Zenon, RunsOwn
<1>2. /\ at[t] = "usertrap" /\ t \in Procs /\ t # c /\ at[c] = "away" /\ stk[c] = <<>> /\ stk[t] = <<>>
      /\ TTypes /\ CpuInv(c) /\ ThreadInv(t) /\ panic = "none" /\ ~astray
      /\ plock[t] = Nobody /\ noff[c] = 0 /\ locks[t] = 0 /\ tp[c] = c /\ mode[c] = "kernel"
  <2>1. In(c, "usertrap")
    BY Zenon DEF usertrap
  <2>2. at[t] = "usertrap"
    BY Zenon, <1>1, <2>1 DEF In
  <2>3. InProc(c, t)
    BY <1>1, <2>1, AtFacts
  <2> QED BY <2>2, <2>3 DEF InProc, Switching
<1>3. spp[c] = "user" /\ SavedEpc(c) = <<t, upc[t]>>
  BY Zenon, <1>1, <1>2 DEF CpuInv
<1>4. PICK l \in After(scause[c]) :
      /\ stvec' = Set(stvec, c, "kernelvec") /\ epc' = Set(epc, t, <<t, upc[t]>>)
      /\ sie' = Set(sie, c, l = "syscall")
      /\ scause' = Set(scause, c, "none") /\ sepc' = Set(sepc, c, Past)
      /\ at' = [at EXCEPT ![t] = l]
      /\ UNCHANGED <<cur, mode, spp, spie, tp, noff, intena, locks, stk, then, saved, hartid, upc, plock,
                     astray, panic>>
  BY Zenon, <1>1, <1>3 DEF usertrap, Goto, cpu
<1>5. l \in {"exit", "syscall", "yield", "ret"}
  BY DEF After
<1>6. /\ stvec'[c] = "kernelvec" /\ epc'[t] = <<t, upc[t]>> /\ (sie'[c] <=> l = "syscall") /\ at'[t] = l
  BY Zenon, <1>2, <1>4 DEF TTypes, Set, IsOn
<1>7. OnlyCpu(c)
  BY Zenon, <1>2, <1>4 DEF TTypes, Set, IsOn, OnlyCpu
<1>8. OnlyThread(t)
  BY <1>2, <1>4 DEF TTypes, Set, IsOn, OnlyThread, SameThread, SameFrame
<1>9. TTypes'
  BY Zenon, <1>2, <1>4, <1>5 DEF TTypes, Set, IsOn, Modes, Labels, Dark, Open
<1>10. CpuInv(c)'
  <2>1. at'[c] = "away" /\ stk'[c] = <<>>
    BY <1>2, <1>8, Distinct DEF OnlyThread, SameThread
  <2> QED BY <1>1, <1>2, <1>4, <1>5, <1>6, <2>1 DEF CpuInv, Dark, Switching
<1>11. ThreadInv(t)'
  BY <1>2, <1>4, <1>5, <1>6 DEF ThreadInv
<1>12. plock'[t] = Nobody /\ LockInv(t)'
  BY Zenon, <1>2, <1>4 DEF LockInv
<1> QED BY <1>1, <1>2, <1>4, <1>7, <1>8, <1>9, <1>10, <1>11, <1>12, LocalStep

LEMMA UsertrapretOk ==
  ASSUME TInv, NEW c \in Cpus, usertrapret(c)
  PROVE  TInv'
<1>1. PICK t \in Threads : t = cur[c]
  BY Zenon, RunsOwn
<1>2. /\ at[t] = "ret" /\ t \in Procs /\ t # c /\ at[c] = "away" /\ stk[c] = <<>> /\ stk[t] = <<>>
      /\ TTypes /\ CpuInv(c) /\ ThreadInv(t) /\ panic = "none" /\ ~astray
      /\ plock[t] = Nobody /\ noff[c] = 0 /\ locks[t] = 0 /\ epc[t] = <<t, upc[t]>>
      /\ tp[c] = c /\ mode[c] = "kernel"
  <2>1. In(c, "ret")
    BY Zenon DEF usertrapret
  <2>2. at[t] = "ret"
    BY Zenon, <1>1, <2>1 DEF In
  <2>3. InProc(c, t)
    BY <1>1, <2>1, AtFacts
  <2> QED BY <2>2, <2>3 DEF InProc, Switching
<1>3. /\ sie' = Set(sie, c, FALSE) /\ stvec' = Set(stvec, c, "uservec") /\ at' = [at EXCEPT ![t] = "sret"]
      /\ UNCHANGED <<cur, mode, spp, spie, sepc, scause, tp, noff, intena, locks, stk, then, saved, epc,
                     hartid, upc, plock, astray, panic>>
  BY Zenon, <1>1 DEF usertrapret, Goto, cpu, frame, intr_off
<1>4. sie'[c] = FALSE /\ stvec'[c] = "uservec" /\ at'[t] = "sret"
  BY <1>2, <1>3 DEF TTypes, Set
<1>5. OnlyCpu(c)
  BY <1>2, <1>3 DEF TTypes, Set, OnlyCpu
<1>6. OnlyThread(t)
  BY <1>2, <1>3 DEF TTypes, Set, OnlyThread, SameThread, SameFrame
<1>7. TTypes'
  BY <1>2, <1>3 DEF TTypes, Set, Labels, Dark
<1>8. CpuInv(c)'
  <2>1. at'[c] = "away" /\ stk'[c] = <<>>
    BY <1>2, <1>6, Distinct DEF OnlyThread, SameThread
  <2> QED BY Zenon, <1>1, <1>2, <1>3, <1>4, <2>1 DEF CpuInv, Switching
<1>9. ThreadInv(t)'
  BY <1>2, <1>3, <1>4 DEF ThreadInv
<1>10. plock'[t] = Nobody /\ LockInv(t)'
  BY Zenon, <1>2, <1>3 DEF LockInv
<1> QED BY Zenon, <1>1, <1>2, <1>3, <1>5, <1>6, <1>7, <1>8, <1>9, <1>10, LocalStep

LEMMA UserretOk ==
  ASSUME TInv, NEW c \in Cpus, userret(c)
  PROVE  TInv'
<1>1. PICK t \in Threads : t = cur[c]
  BY Zenon, RunsOwn
<1>2. /\ at[t] = "sret" /\ t \in Procs /\ t # c /\ at[c] = "away" /\ stk[c] = <<>>
      /\ TTypes /\ CpuInv(c) /\ ThreadInv(t) /\ panic = "none" /\ ~astray
      /\ Me(c) = c /\ tp[c] = c /\ mode[c] = "kernel" /\ stvec[c] = "uservec"
      /\ plock[t] = Nobody /\ noff[c] = 0 /\ locks[t] = 0 /\ stk[t] = <<>> /\ epc[t] = <<t, upc[t]>>
  <2>1. In(c, "sret")
    BY Zenon DEF userret
  <2>2. Plain(c, t)
    BY Zenon, <1>1, <2>1, AtPlain
  <2>3. at[t] = "sret"
    BY Zenon, <1>1, <2>1 DEF In
  <2>4. stvec[c] = "uservec"
    BY <1>1, <2>2, <2>3 DEF Plain, CpuInv
  <2> QED BY <2>2, <2>3, <2>4 DEF Plain
<1>4. /\ hartid' = Set(hartid, t, c) /\ spp' = Set(spp, c, "user") /\ spie' = Set(spie, c, TRUE)
      /\ sepc' = Set(sepc, c, Past) /\ mode' = Set(mode, c, "user") /\ sie' = Set(sie, c, TRUE)
      /\ tp' = Set(tp, c, Nobody) /\ ~astray' /\ at' = [at EXCEPT ![t] = "user"]
      /\ UNCHANGED <<cur, scause, stvec, noff, intena, locks, stk, then, saved, epc, upc, plock, panic>>
  BY Zenon, <1>1, <1>2 DEF userret, Goto, cpu
<1>5. hartid'[t] = c /\ mode'[c] = "user" /\ tp'[c] = Nobody /\ at'[t] = "user"
  BY <1>2, <1>4 DEF TTypes, Set, IsOn
<1>6. OnlyCpu(c)
  BY <1>2, <1>4 DEF TTypes, Set, IsOn, OnlyCpu
<1>7. OnlyThread(t)
  BY <1>2, <1>4 DEF TTypes, Set, IsOn, OnlyThread, SameThread, SameFrame
<1>8. TTypes'
  BY Zenon, <1>2, <1>4 DEF TTypes, Set, IsOn, Modes, Labels, Dark, Open
<1>9. CpuInv(c)'
  <2>1. at'[c] = "away" /\ stk'[c] = <<>>
    BY <1>2, <1>7, Distinct DEF OnlyThread, SameThread
  <2> QED BY Zenon, <1>1, <1>2, <1>4, <1>5, <2>1 DEF CpuInv, Dark, Switching
<1>10. ThreadInv(t)'
  BY Zenon, <1>2, <1>4, <1>5 DEF ThreadInv
<1>11. plock'[t] = Nobody /\ LockInv(t)'
  BY Zenon, <1>2, <1>4, <1>5 DEF LockInv
<1> QED BY Zenon, <1>1, <1>2, <1>4, <1>6, <1>7, <1>8, <1>9, <1>10, <1>11, LocalStep

LEMMA AcquireOk ==
  ASSUME TInv, NEW c \in Cpus, acquire(c)
  PROVE  TInv'
<1>1. PICK t \in Threads : t = cur[c]
  BY Zenon, RunsOwn
<1>2. /\ at[t] = "syscall" /\ t \in Procs /\ t # c /\ at[c] = "away" /\ stk[c] = <<>>
      /\ TTypes /\ CpuInv(c) /\ ThreadInv(t) /\ panic = "none" /\ ~astray
      /\ Me(c) = c /\ tp[c] = c /\ mode[c] = "kernel" /\ stvec[c] = "kernelvec"
      /\ plock[t] = Nobody /\ noff[c] = locks[t] /\ stk[t] = <<>> /\ epc[t] = <<t, upc[t]>>
  <2>1. In(c, "syscall")
    BY Zenon DEF acquire
  <2>2. Plain(c, t)
    BY Zenon, <1>1, <2>1, AtPlain
  <2>3. at[t] = "syscall"
    BY Zenon, <1>1, <2>1 DEF In
  <2> QED BY <2>2, <2>3 DEF Plain
<1>4. /\ sie' = Set(sie, c, FALSE) /\ noff' = [noff EXCEPT ![c] = noff[c] + 1]
      /\ intena' = IF noff[c] = 0 THEN Set(intena, c, sie[c]) ELSE intena
      /\ locks' = [locks EXCEPT ![t] = locks[t] + 1]
      /\ UNCHANGED <<cur, mode, spp, spie, sepc, scause, stvec, tp, at, stk, then, saved, epc, hartid, upc, plock, astray, panic>>
  BY Zenon, <1>1, <1>2 DEF acquire, push_off, csrs, frame
<1>5. /\ sie'[c] = FALSE /\ noff'[c] = noff[c] + 1 /\ locks'[t] = locks[t] + 1
      /\ intena'[c] = IF noff[c] = 0 THEN sie[c] ELSE intena[c]
      /\ noff[c] \in Nat
  BY <1>2, <1>4 DEF TTypes, Set, IsOn
<1>6. OnlyCpu(c)
  BY <1>2, <1>4 DEF TTypes, Set, IsOn, OnlyCpu
<1>7. OnlyThread(t)
  BY <1>2, <1>4 DEF TTypes, Set, IsOn, OnlyThread, SameThread, SameFrame
<1>8. TTypes'
  <2>1. intena' \in [Cpus -> BOOLEAN]
    BY <1>2, <1>4 DEF TTypes, Set
  <2>2. sie' \in [Cpus -> BOOLEAN]
    BY <1>2, <1>4 DEF TTypes, Set
  <2>3. noff' \in [Cpus -> Nat] /\ locks' \in [Threads -> Nat] /\ at' \in [Threads -> Labels]
    BY <1>2, <1>4 DEF TTypes, Set, Labels, Open
  <2> QED BY Zenon, <1>2, <1>4, <2>1, <2>2, <2>3 DEF TTypes, IsOn
<1>9. CpuInv(c)'
  <2>1. at'[c] = "away" /\ stk'[c] = <<>>
    BY <1>2, <1>7, Distinct DEF OnlyThread, SameThread
  <2>2. /\ cur'[c] = t /\ at'[t] = "syscall" /\ t # c /\ t \in Procs /\ mode'[c] = "kernel" /\ tp'[c] = c
        /\ stvec'[c] = "kernelvec" /\ ~sie'[c]
    BY Zenon, <1>1, <1>2, <1>4, <1>5
  <2>4. noff'[c] = locks'[t] /\ noff'[c] # 0
    <3>1. noff[c] = locks[t] /\ noff[c] \in Nat
      BY Zenon, <1>2 DEF TTypes
    <3>2. noff'[c] = noff[c] + 1 /\ locks'[t] = locks[t] + 1
      BY Zenon, <1>5
    <3> QED BY <3>1, <3>2
  <2>3. intena'[c]
    <3>1. (sie[c] <=> noff[c] = 0) /\ (noff[c] # 0 => intena[c])
      BY Zenon, <1>1, <1>2 DEF CpuInv
    <3> QED BY Zenon, <1>5, <3>1
  <2> QED BY <2>1, <2>2, <2>3, <2>4 DEF CpuInv, Dark, Switching
<1>10. ThreadInv(t)'
  BY <1>2, <1>4, <1>5 DEF ThreadInv
<1>11. plock'[t] = Nobody /\ LockInv(t)'
  BY Zenon, <1>2, <1>4, <1>5 DEF LockInv
<1> QED BY Zenon, <1>1, <1>2, <1>4, <1>6, <1>7, <1>8, <1>9, <1>10, <1>11, LocalStep

LEMMA ReleaseOk ==
  ASSUME TInv, NEW c \in Cpus, release(c)
  PROVE  TInv'
<1>1. PICK t \in Threads : t = cur[c]
  BY Zenon, RunsOwn
<1>2. /\ at[t] = "syscall" /\ t \in Procs /\ t # c /\ at[c] = "away" /\ stk[c] = <<>>
      /\ TTypes /\ CpuInv(c) /\ ThreadInv(t) /\ panic = "none" /\ ~astray
      /\ Me(c) = c /\ tp[c] = c /\ mode[c] = "kernel" /\ stvec[c] = "kernelvec"
      /\ plock[t] = Nobody /\ noff[c] = locks[t] /\ stk[t] = <<>> /\ epc[t] = <<t, upc[t]>>
  <2>1. In(c, "syscall")
    BY Zenon DEF release
  <2>2. Plain(c, t)
    BY Zenon, <1>1, <2>1, AtPlain
  <2>3. at[t] = "syscall"
    BY Zenon, <1>1, <2>1 DEF In
  <2> QED BY <2>2, <2>3 DEF Plain
<1>3. noff[c] \in Nat /\ noff[c] > 0 /\ locks[t] > 0 /\ ~sie[c] /\ intena[c] /\ ~PopPanics(c)
  <2>1. noff[c] \in Nat /\ locks[t] > 0
    BY <1>1, <1>2 DEF TTypes, release
  <2>2. noff[c] = locks[t] /\ noff[c] > 0 /\ noff[c] # 0
    <3>1. noff[c] = locks[t]
      BY Zenon, <1>2
    <3> QED BY <2>1, <3>1
  <2>3. (sie[c] <=> noff[c] = 0) /\ (noff[c] # 0 => intena[c])
    BY Zenon, <1>1, <1>2 DEF CpuInv
  <2>4. ~sie[c] /\ intena[c]
    BY Zenon, <2>2, <2>3
  <2>5. ~PopPanics(c)
    BY <1>2, <2>1, <2>2, <2>4 DEF PopPanics
  <2> QED BY Zenon, <2>1, <2>2, <2>4, <2>5
<1>4. /\ noff' = [noff EXCEPT ![c] = noff[c] - 1]
      /\ sie' = Set(sie, c, sie[c] \/ (noff[c] = 1 /\ intena[c]))
      /\ locks' = [locks EXCEPT ![t] = locks[t] - 1]
      /\ UNCHANGED <<cur, mode, spp, spie, sepc, scause, stvec, tp, intena, at, stk, then, saved, epc, hartid, upc, plock, astray, panic>>
  <2>1. /\ pop_off(c) /\ locks' = [locks EXCEPT ![cur[c]] = @ - 1]
        /\ UNCHANGED <<cur, csrs, at, stk, then, saved, frame, upc, plock, astray, panic>>
    BY Zenon, <1>3 DEF release
  <2> QED BY Zenon, <1>1, <1>2, <2>1 DEF pop_off, csrs, frame
<1>5. /\ noff'[c] = noff[c] - 1 /\ locks'[t] = locks[t] - 1
      /\ sie'[c] <=> noff[c] = 1
  <2>1. noff'[c] = noff[c] - 1 /\ locks'[t] = locks[t] - 1
    BY <1>2, <1>4 DEF TTypes
  <2>2. sie'[c] = (sie[c] \/ (noff[c] = 1 /\ intena[c]))
    BY Zenon, <1>2, <1>4 DEF TTypes, Set
  <2> QED BY Zenon, <1>3, <2>1, <2>2
<1>6. OnlyCpu(c)
  BY <1>2, <1>4 DEF TTypes, Set, IsOn, OnlyCpu
<1>7. OnlyThread(t)
  BY <1>2, <1>4 DEF TTypes, Set, IsOn, OnlyThread, SameThread, SameFrame
<1>8. TTypes'
  BY <1>2, <1>4, <1>3 DEF TTypes, Set, IsOn, Modes, Labels, Dark, Open
<1>9. CpuInv(c)'
  <2>1. at'[c] = "away" /\ stk'[c] = <<>>
    BY <1>2, <1>7, Distinct DEF OnlyThread, SameThread
  <2>2. /\ cur'[c] = t /\ at'[t] = "syscall" /\ t # c /\ t \in Procs /\ mode'[c] = "kernel" /\ tp'[c] = c
        /\ stvec'[c] = "kernelvec" /\ intena'[c]
    BY Zenon, <1>1, <1>2, <1>3, <1>4, <1>5
  <2>3. noff'[c] = locks'[t] /\ (noff[c] = 1 <=> noff'[c] = 0)
    <3>1. noff[c] = locks[t] /\ noff[c] \in Nat
      BY Zenon, <1>2, <1>3
    <3>2. noff'[c] = noff[c] - 1 /\ locks'[t] = locks[t] - 1
      BY Zenon, <1>5
    <3> QED BY <3>1, <3>2
  <2>4. sie'[c] <=> noff'[c] = 0
    BY Zenon, <1>5, <2>3
  <2> QED BY Zenon, <2>1, <2>2, <2>3, <2>4 DEF CpuInv, Dark, Switching
<1>10. ThreadInv(t)'
  BY <1>2, <1>4, <1>5, <1>3 DEF ThreadInv
<1>11. plock'[t] = Nobody /\ LockInv(t)'
  BY Zenon, <1>2, <1>4, <1>5 DEF LockInv
<1> QED BY <1>1, <1>2, <1>4, <1>6, <1>7, <1>8, <1>9, <1>10, <1>11, LocalStep

LEMMA MyprocOk ==
  ASSUME TInv, NEW c \in Cpus, myproc(c)
  PROVE  TInv'
<1>1. PICK t \in Threads : t = cur[c]
  BY Zenon, RunsOwn
<1>2. /\ at[t] = "syscall" /\ t \in Procs /\ t # c /\ at[c] = "away" /\ stk[c] = <<>>
      /\ TTypes /\ CpuInv(c) /\ ThreadInv(t) /\ panic = "none" /\ ~astray
      /\ Me(c) = c /\ tp[c] = c /\ mode[c] = "kernel" /\ stvec[c] = "kernelvec"
      /\ plock[t] = Nobody /\ noff[c] = locks[t] /\ stk[t] = <<>> /\ epc[t] = <<t, upc[t]>>
  <2>1. In(c, "syscall")
    BY Zenon DEF myproc
  <2>2. Plain(c, t)
    BY Zenon, <1>1, <2>1, AtPlain
  <2>3. at[t] = "syscall"
    BY Zenon, <1>1, <2>1 DEF In
  <2> QED BY <2>2, <2>3 DEF Plain
<1>4. /\ sie' = Set(sie, c, FALSE) /\ noff' = [noff EXCEPT ![c] = noff[c] + 1]
      /\ intena' = IF noff[c] = 0 THEN Set(intena, c, sie[c]) ELSE intena
      /\ locks' = [locks EXCEPT ![t] = locks[t] + 1] /\ at' = [at EXCEPT ![t] = "myproc"]
      /\ UNCHANGED <<cur, mode, spp, spie, sepc, scause, stvec, tp, stk, then, saved, epc, hartid, upc, plock, astray, panic>>
  BY Zenon, <1>1, <1>2 DEF myproc, push_off, Goto, csrs, frame
<1>5. /\ sie'[c] = FALSE /\ noff'[c] = noff[c] + 1 /\ locks'[t] = locks[t] + 1 /\ at'[t] = "myproc"
      /\ intena'[c] = IF noff[c] = 0 THEN sie[c] ELSE intena[c]
      /\ noff[c] \in Nat
  BY <1>2, <1>4 DEF TTypes, Set, IsOn
<1>6. OnlyCpu(c)
  BY <1>2, <1>4 DEF TTypes, Set, IsOn, OnlyCpu
<1>7. OnlyThread(t)
  BY <1>2, <1>4 DEF TTypes, Set, IsOn, OnlyThread, SameThread, SameFrame
<1>8. TTypes'
  <2>1. intena' \in [Cpus -> BOOLEAN]
    BY <1>2, <1>4 DEF TTypes, Set
  <2>2. sie' \in [Cpus -> BOOLEAN]
    BY <1>2, <1>4 DEF TTypes, Set
  <2>3. noff' \in [Cpus -> Nat] /\ locks' \in [Threads -> Nat] /\ at' \in [Threads -> Labels]
    BY <1>2, <1>4 DEF TTypes, Set, Labels, Dark
  <2> QED BY Zenon, <1>2, <1>4, <2>1, <2>2, <2>3 DEF TTypes, IsOn
<1>9. CpuInv(c)'
  <2>1. at'[c] = "away" /\ stk'[c] = <<>>
    BY <1>2, <1>7, Distinct DEF OnlyThread, SameThread
  <2>2. /\ cur'[c] = t /\ at'[t] = "myproc" /\ t # c /\ t \in Procs /\ mode'[c] = "kernel" /\ tp'[c] = c
        /\ stvec'[c] = "kernelvec" /\ ~sie'[c]
    BY Zenon, <1>1, <1>2, <1>4, <1>5
  <2>4. noff'[c] = locks'[t] /\ noff'[c] # 0
    <3>1. noff[c] = locks[t] /\ noff[c] \in Nat
      BY Zenon, <1>2 DEF TTypes
    <3>2. noff'[c] = noff[c] + 1 /\ locks'[t] = locks[t] + 1
      BY Zenon, <1>5
    <3> QED BY <3>1, <3>2
  <2>3. intena'[c]
    <3>1. (sie[c] <=> noff[c] = 0) /\ (noff[c] # 0 => intena[c])
      BY Zenon, <1>1, <1>2 DEF CpuInv
    <3> QED BY Zenon, <1>5, <3>1
  <2> QED BY <2>1, <2>2, <2>3, <2>4 DEF CpuInv, Dark, Switching
<1>10. ThreadInv(t)'
  BY <1>2, <1>4, <1>5 DEF ThreadInv
<1>11. plock'[t] = Nobody /\ LockInv(t)'
  BY Zenon, <1>2, <1>4, <1>5 DEF LockInv
<1> QED BY Zenon, <1>1, <1>2, <1>4, <1>6, <1>7, <1>8, <1>9, <1>10, <1>11, LocalStep

LEMMA MyprocReadOk ==
  ASSUME TInv, NEW c \in Cpus, MyprocRead(c)
  PROVE  TInv'
<1>1. PICK t \in Threads : t = cur[c]
  BY Zenon, RunsOwn
<1>2. /\ at[t] = "myproc" /\ t \in Procs /\ t # c /\ at[c] = "away" /\ stk[c] = <<>>
      /\ TTypes /\ CpuInv(c) /\ ThreadInv(t) /\ panic = "none" /\ ~astray
      /\ Me(c) = c /\ tp[c] = c /\ mode[c] = "kernel" /\ stvec[c] = "kernelvec"
      /\ plock[t] = Nobody /\ noff[c] = locks[t] /\ stk[t] = <<>> /\ epc[t] = <<t, upc[t]>>
  <2>1. In(c, "myproc")
    BY Zenon DEF MyprocRead
  <2>2. Plain(c, t)
    BY Zenon, <1>1, <2>1, AtPlain
  <2>3. at[t] = "myproc"
    BY Zenon, <1>1, <2>1 DEF In
  <2> QED BY <2>2, <2>3 DEF Plain
<1>3. noff[c] \in Nat /\ noff[c] > 0 /\ locks[t] > 0 /\ ~sie[c] /\ intena[c] /\ ~PopPanics(c)
  <2>1. noff[c] \in Nat /\ noff[c] = locks[t]
    BY <1>2 DEF TTypes
  <2>2. ~sie[c]
    BY <1>1, <1>2 DEF CpuInv, Dark
  <2>3. (sie[c] <=> noff[c] = 0) /\ (noff[c] # 0 => intena[c])
    BY Zenon, <1>1, <1>2 DEF CpuInv
  <2>4. noff[c] # 0 /\ intena[c]
    BY Zenon, <2>2, <2>3
  <2>5. ~PopPanics(c)
    BY <1>2, <2>1, <2>2, <2>4 DEF PopPanics
  <2>6. noff[c] > 0 /\ locks[t] > 0
    BY <2>1, <2>4
  <2> QED BY Zenon, <2>1, <2>2, <2>4, <2>5, <2>6
<1>4. /\ noff' = [noff EXCEPT ![c] = noff[c] - 1]
      /\ sie' = Set(sie, c, sie[c] \/ (noff[c] = 1 /\ intena[c]))
      /\ locks' = [locks EXCEPT ![t] = locks[t] - 1] /\ at' = [at EXCEPT ![t] = "syscall"]
      /\ UNCHANGED <<cur, mode, spp, spie, sepc, scause, stvec, tp, intena, stk, then, saved, epc, hartid, upc, plock, astray, panic>>
  <2>1. /\ pop_off(c) /\ locks' = [locks EXCEPT ![cur[c]] = @ - 1] /\ Goto(c, "syscall")
        /\ UNCHANGED <<cur, csrs, stk, then, saved, frame, upc, plock, astray, panic>>
    BY Zenon, <1>3 DEF MyprocRead
  <2> QED BY Zenon, <1>1, <1>2, <2>1 DEF pop_off, Goto, csrs, frame
<1>5. /\ noff'[c] = noff[c] - 1 /\ locks'[t] = locks[t] - 1 /\ at'[t] = "syscall"
      /\ sie'[c] <=> noff[c] = 1
  <2>1. noff'[c] = noff[c] - 1 /\ locks'[t] = locks[t] - 1 /\ at'[t] = "syscall"
    BY <1>2, <1>4 DEF TTypes
  <2>2. sie'[c] = (sie[c] \/ (noff[c] = 1 /\ intena[c]))
    BY Zenon, <1>2, <1>4 DEF TTypes, Set
  <2> QED BY Zenon, <1>3, <2>1, <2>2
<1>6. OnlyCpu(c)
  BY <1>2, <1>4 DEF TTypes, Set, IsOn, OnlyCpu
<1>7. OnlyThread(t)
  BY <1>2, <1>4 DEF TTypes, Set, IsOn, OnlyThread, SameThread, SameFrame
<1>8. TTypes'
  BY <1>2, <1>4, <1>3 DEF TTypes, Set, IsOn, Modes, Labels, Dark, Open
<1>9. CpuInv(c)'
  <2>1. at'[c] = "away" /\ stk'[c] = <<>>
    BY <1>2, <1>7, Distinct DEF OnlyThread, SameThread
  <2>2. /\ cur'[c] = t /\ at'[t] = "syscall" /\ t # c /\ t \in Procs /\ mode'[c] = "kernel" /\ tp'[c] = c
        /\ stvec'[c] = "kernelvec" /\ intena'[c]
    BY Zenon, <1>1, <1>2, <1>3, <1>4, <1>5
  <2>3. noff'[c] = locks'[t] /\ (noff[c] = 1 <=> noff'[c] = 0)
    <3>1. noff[c] = locks[t] /\ noff[c] \in Nat
      BY Zenon, <1>2, <1>3
    <3>2. noff'[c] = noff[c] - 1 /\ locks'[t] = locks[t] - 1
      BY Zenon, <1>5
    <3> QED BY <3>1, <3>2
  <2>4. sie'[c] <=> noff'[c] = 0
    BY Zenon, <1>5, <2>3
  <2> QED BY Zenon, <2>1, <2>2, <2>3, <2>4 DEF CpuInv, Dark, Switching
<1>10. ThreadInv(t)'
  BY <1>2, <1>4, <1>5, <1>3 DEF ThreadInv
<1>11. plock'[t] = Nobody /\ LockInv(t)'
  BY Zenon, <1>2, <1>4, <1>5 DEF LockInv
<1> QED BY <1>1, <1>2, <1>4, <1>6, <1>7, <1>8, <1>9, <1>10, <1>11, LocalStep

LEMMA SleepOk ==
  ASSUME TInv, NEW c \in Cpus, sleep(c)
  PROVE  TInv'
<1>1. PICK t \in Threads : t = cur[c]
  BY Zenon, RunsOwn
<1>2. /\ at[t] = "syscall" /\ t \in Procs /\ t # c /\ at[c] = "away" /\ stk[c] = <<>>
      /\ TTypes /\ CpuInv(c) /\ ThreadInv(t) /\ panic = "none" /\ ~astray
      /\ Me(c) = c /\ tp[c] = c /\ mode[c] = "kernel" /\ stvec[c] = "kernelvec"
      /\ plock[t] = Nobody /\ noff[c] = locks[t] /\ stk[t] = <<>> /\ epc[t] = <<t, upc[t]>>
  <2>1. In(c, "syscall")
    BY Zenon DEF sleep
  <2>2. Plain(c, t)
    BY Zenon, <1>1, <2>1, AtPlain
  <2>3. at[t] = "syscall"
    BY Zenon, <1>1, <2>1 DEF In
  <2> QED BY <2>2, <2>3 DEF Plain
<1>3. locks[t] = 1 /\ ~sie[c] /\ intena[c]
  <2>1. locks[t] = 1
    BY Zenon, <1>1 DEF sleep
  <2>2. noff[c] # 0
    BY <1>2, <2>1
  <2>3. (sie[c] <=> noff[c] = 0) /\ (noff[c] # 0 => intena[c])
    BY Zenon, <1>1, <1>2 DEF CpuInv
  <2> QED BY Zenon, <2>1, <2>2, <2>3
<1>4. /\ plock' = Set(plock, t, c) /\ locks' = Set(locks, t, 0) /\ then' = Set(then, t, "relock")
      /\ at' = [at EXCEPT ![t] = "sched"]
      /\ UNCHANGED <<cur, mode, spp, spie, sepc, scause, stvec, tp, sie, noff, intena, stk, saved, epc, hartid, upc, astray, panic>>
  BY Zenon, <1>1, <1>2 DEF sleep, Goto, csrs, cpu, frame
<1>5. plock'[t] = c /\ locks'[t] = 0 /\ then'[t] = "relock" /\ at'[t] = "sched"
  BY <1>2, <1>4 DEF TTypes, Set, IsOn
<1>6. OnlyCpu(c)
  BY <1>2, <1>4 DEF TTypes, Set, IsOn, OnlyCpu
<1>7. OnlyThread(t)
  BY <1>2, <1>4 DEF TTypes, Set, IsOn, OnlyThread, SameThread, SameFrame
<1>8. TTypes'
  BY Zenon, <1>2, <1>4 DEF TTypes, Set, IsOn, Modes, Labels, Dark, Open
<1>9. CpuInv(c)'
  <2>1. at'[c] = "away" /\ stk'[c] = <<>>
    BY <1>2, <1>7, Distinct DEF OnlyThread, SameThread
  <2> QED BY Zenon, <1>1, <1>2, <1>4, <1>5, <2>1, <1>3 DEF CpuInv, Dark, Switching
<1>10. ThreadInv(t)'
  BY <1>2, <1>4, <1>5 DEF ThreadInv
<1>11. plock'[t] = c /\ LockInv(t)'
  BY <1>1, <1>4, <1>5 DEF LockInv, Switching
<1> QED BY <1>1, <1>2, <1>4, <1>6, <1>7, <1>8, <1>9, <1>10, <1>11, LocalStep

LEMMA RelockOk ==
  ASSUME TInv, NEW c \in Cpus, relock(c)
  PROVE  TInv'
<1>1. PICK t \in Threads : t = cur[c]
  BY Zenon, RunsOwn
<1>2. /\ at[t] = "relock" /\ t \in Procs /\ t # c /\ at[c] = "away" /\ stk[c] = <<>>
      /\ TTypes /\ CpuInv(c) /\ ThreadInv(t) /\ panic = "none" /\ ~astray
      /\ Me(c) = c /\ tp[c] = c /\ mode[c] = "kernel" /\ stvec[c] = "kernelvec"
      /\ plock[t] = Nobody /\ noff[c] = 0 /\ locks[t] = 0 /\ stk[t] = <<>> /\ epc[t] = <<t, upc[t]>>
  <2>1. In(c, "relock")
    BY Zenon DEF relock
  <2>2. Plain(c, t)
    BY Zenon, <1>1, <2>1, AtPlain
  <2>3. at[t] = "relock"
    BY Zenon, <1>1, <2>1 DEF In
  <2> QED BY <2>2, <2>3 DEF Plain
<1>3. sie[c] = TRUE
  <2>1. sie[c]
    BY Zenon, <1>1, <1>2 DEF CpuInv
  <2> QED BY <1>2, <2>1 DEF TTypes
<1>4. /\ sie' = Set(sie, c, FALSE) /\ noff' = [noff EXCEPT ![c] = noff[c] + 1]
      /\ intena' = IF noff[c] = 0 THEN Set(intena, c, sie[c]) ELSE intena
      /\ locks' = Set(locks, t, 1) /\ at' = [at EXCEPT ![t] = "syscall"]
      /\ UNCHANGED <<cur, mode, spp, spie, sepc, scause, stvec, tp, stk, then, saved, epc, hartid, upc, plock, astray, panic>>
  BY Zenon, <1>1, <1>2 DEF relock, push_off, Goto, csrs, frame
<1>5. sie'[c] = FALSE /\ noff'[c] = 1 /\ locks'[t] = 1 /\ intena'[c] = TRUE /\ at'[t] = "syscall"
  BY <1>2, <1>4, <1>3 DEF TTypes, Set, IsOn
<1>6. OnlyCpu(c)
  BY <1>2, <1>4 DEF TTypes, Set, IsOn, OnlyCpu
<1>7. OnlyThread(t)
  BY <1>2, <1>4 DEF TTypes, Set, IsOn, OnlyThread, SameThread, SameFrame
<1>8. TTypes'
  <2>1. intena' \in [Cpus -> BOOLEAN]
    BY <1>2, <1>4 DEF TTypes, Set
  <2>2. sie' \in [Cpus -> BOOLEAN]
    BY <1>2, <1>4 DEF TTypes, Set
  <2>3. noff' \in [Cpus -> Nat] /\ locks' \in [Threads -> Nat] /\ at' \in [Threads -> Labels]
    BY <1>2, <1>4 DEF TTypes, Set, Labels, Open
  <2> QED BY Zenon, <1>2, <1>4, <2>1, <2>2, <2>3 DEF TTypes, IsOn
<1>9. CpuInv(c)'
  <2>1. at'[c] = "away" /\ stk'[c] = <<>>
    BY <1>2, <1>7, Distinct DEF OnlyThread, SameThread
  <2>2. /\ cur'[c] = t /\ at'[t] = "syscall" /\ t # c /\ t \in Procs /\ mode'[c] = "kernel" /\ tp'[c] = c
        /\ stvec'[c] = "kernelvec" /\ ~sie'[c]
    BY Zenon, <1>1, <1>2, <1>4, <1>5
  <2>4. noff'[c] = locks'[t] /\ noff'[c] # 0
    <3>1. noff'[c] = 1 /\ locks'[t] = 1
      BY Zenon, <1>5
    <3> QED BY <3>1
  <2>3. intena'[c]
    BY Zenon, <1>5
  <2> QED BY <2>1, <2>2, <2>3, <2>4 DEF CpuInv, Dark, Switching
<1>10. ThreadInv(t)'
  BY Zenon, <1>2, <1>4, <1>5 DEF ThreadInv
<1>11. plock'[t] = Nobody /\ LockInv(t)'
  BY Zenon, <1>2, <1>4, <1>5 DEF LockInv
<1> QED BY Zenon, <1>1, <1>2, <1>4, <1>6, <1>7, <1>8, <1>9, <1>10, <1>11, LocalStep

LEMMA SyscallDoneOk ==
  ASSUME TInv, NEW c \in Cpus, SyscallDone(c)
  PROVE  TInv'
<1>1. PICK t \in Threads : t = cur[c]
  BY Zenon, RunsOwn
<1>2. /\ at[t] = "syscall" /\ t \in Procs /\ t # c /\ at[c] = "away" /\ stk[c] = <<>>
      /\ TTypes /\ CpuInv(c) /\ ThreadInv(t) /\ panic = "none" /\ ~astray
      /\ Me(c) = c /\ tp[c] = c /\ mode[c] = "kernel" /\ stvec[c] = "kernelvec"
      /\ plock[t] = Nobody /\ noff[c] = locks[t] /\ stk[t] = <<>> /\ epc[t] = <<t, upc[t]>>
  <2>1. In(c, "syscall")
    BY Zenon DEF SyscallDone
  <2>2. Plain(c, t)
    BY Zenon, <1>1, <2>1, AtPlain
  <2>3. at[t] = "syscall"
    BY Zenon, <1>1, <2>1 DEF In
  <2> QED BY <2>2, <2>3 DEF Plain
<1>4. /\ locks[t] = 0 /\ (at' = [at EXCEPT ![t] = "ret"] \/ at' = [at EXCEPT ![t] = "exit"])
      /\ UNCHANGED <<cur, mode, spp, spie, sepc, scause, stvec, tp, sie, noff, intena, locks, stk, then, saved, epc, hartid, upc, plock, astray, panic>>
  BY Zenon, <1>1, <1>2 DEF SyscallDone, Goto, csrs, cpu, frame
<1>5. at'[t] \in {"ret", "exit"}
  BY <1>2, <1>4 DEF TTypes, Set, IsOn
<1>6. OnlyCpu(c)
  BY <1>2, <1>4 DEF TTypes, Set, IsOn, OnlyCpu
<1>7. OnlyThread(t)
  BY <1>2, <1>4 DEF TTypes, Set, IsOn, OnlyThread, SameThread, SameFrame
<1>8. TTypes'
  BY Zenon, <1>2, <1>4 DEF TTypes, Set, IsOn, Modes, Labels, Dark, Open
<1>9. CpuInv(c)'
  <2>1. at'[c] = "away" /\ stk'[c] = <<>>
    BY <1>2, <1>7, Distinct DEF OnlyThread, SameThread
  <2> QED BY Zenon, <1>1, <1>2, <1>4, <1>5, <2>1 DEF CpuInv, Dark, Switching
<1>10. ThreadInv(t)'
  BY <1>2, <1>4, <1>5 DEF ThreadInv
<1>11. plock'[t] = Nobody /\ LockInv(t)'
  BY Zenon, <1>2, <1>4, <1>5 DEF LockInv
<1> QED BY Zenon, <1>1, <1>2, <1>4, <1>6, <1>7, <1>8, <1>9, <1>10, <1>11, LocalStep

LEMMA ForkretOk ==
  ASSUME TInv, NEW c \in Cpus, forkret(c)
  PROVE  TInv'
<1>1. PICK t \in Threads : t = cur[c]
  BY Zenon, RunsOwn
<1>2. /\ at[t] = "forkret" /\ t \in Procs /\ t # c /\ at[c] = "away" /\ stk[c] = <<>>
      /\ TTypes /\ CpuInv(c) /\ ThreadInv(t) /\ panic = "none" /\ ~astray
      /\ Me(c) = c /\ tp[c] = c /\ mode[c] = "kernel" /\ stvec[c] = "kernelvec"
      /\ plock[t] = c /\ noff[c] = 1 /\ ~sie[c] /\ locks[t] = 0 /\ epc[t] = <<t, upc[t]>>
  <2>1. In(c, "forkret")
    BY Zenon DEF forkret
  <2>2. Locked(c, t)
    BY Zenon, <1>1, <2>1, AtSwitching DEF Switching
  <2> QED BY Zenon, <1>1, <2>1, <2>2 DEF Locked, In
<1>3. plock[t] = c /\ noff[c] = 1 /\ ~PopPanics(c) /\ stk[t] = <<>>
  <2>1. ~PopPanics(c)
    BY <1>2 DEF PopPanics
  <2>2. stk[t] = <<>>
    BY <1>2 DEF ThreadInv
  <2> QED BY Zenon, <1>2, <2>1, <2>2
<1>4. /\ plock' = Set(plock, t, Nobody) /\ noff' = [noff EXCEPT ![c] = noff[c] - 1]
      /\ sie' = Set(sie, c, sie[c] \/ (noff[c] = 1 /\ intena[c])) /\ at' = [at EXCEPT ![t] = "ret"]
      /\ UNCHANGED <<cur, mode, spp, spie, sepc, scause, stvec, tp, intena, locks, stk, then, saved, epc, hartid, upc, astray, panic>>
  BY Zenon, <1>1, <1>2, <1>3 DEF forkret, pop_off, Goto, csrs, frame
<1>5. plock'[t] = Nobody /\ noff'[c] = 0 /\ at'[t] = "ret"
  BY <1>2, <1>4, <1>3 DEF TTypes, Set, IsOn
<1>6. OnlyCpu(c)
  BY <1>2, <1>4 DEF TTypes, Set, IsOn, OnlyCpu
<1>7. OnlyThread(t)
  BY <1>2, <1>4 DEF TTypes, Set, IsOn, OnlyThread, SameThread, SameFrame
<1>8. TTypes'
  BY <1>2, <1>4, <1>3 DEF TTypes, Set, IsOn, Modes, Labels, Dark, Open
<1>9. CpuInv(c)'
  <2>1. at'[c] = "away" /\ stk'[c] = <<>>
    BY Zenon, <1>2, <1>7, Distinct DEF OnlyThread, SameThread
  <2> QED BY Zenon, <1>1, <1>2, <1>4, <1>5, <2>1, <1>3 DEF CpuInv, Dark, Switching
<1>10. ThreadInv(t)'
  BY Zenon, <1>2, <1>4, <1>5, <1>3 DEF ThreadInv
<1>11. plock'[t] = Nobody /\ LockInv(t)'
  BY Zenon, <1>2, <1>4, <1>5 DEF LockInv
<1> QED BY <1>1, <1>2, <1>4, <1>6, <1>7, <1>8, <1>9, <1>10, <1>11, LocalStep

LEMMA ResumeOk ==
  ASSUME TInv, NEW c \in Cpus, resume(c)
  PROVE  TInv'
<1>1. PICK t \in Threads : t = cur[c]
  BY Zenon, RunsOwn
<1>2. /\ at[t] = "resume" /\ t \in Procs /\ t # c /\ at[c] = "away" /\ stk[c] = <<>>
      /\ TTypes /\ CpuInv(c) /\ ThreadInv(t) /\ panic = "none" /\ ~astray
      /\ Me(c) = c /\ tp[c] = c /\ mode[c] = "kernel" /\ stvec[c] = "kernelvec"
      /\ plock[t] = c /\ noff[c] = 1 /\ ~sie[c] /\ locks[t] = 0 /\ epc[t] = <<t, upc[t]>>
  <2>1. In(c, "resume")
    BY Zenon DEF resume
  <2>2. Locked(c, t)
    BY Zenon, <1>1, <2>1, AtSwitching DEF Switching
  <2> QED BY Zenon, <1>1, <2>1, <2>2 DEF Locked, In
<1>3. /\ plock[t] = c /\ noff[c] = 1 /\ ~PopPanics(c) /\ then[t] \in {"relock", "ret", "kernelret"}
      /\ (stk[t] # <<>> <=> then[t] = "kernelret") /\ (then[t] = "relock" => saved[t])
      /\ (then[t] = "kernelret" => ~saved[t])
  <2>1. ~PopPanics(c)
    BY <1>2 DEF PopPanics
  <2>2. /\ then[t] \in {"relock", "ret", "kernelret", "unused"} /\ then[t] # "unused"
        /\ (stk[t] # <<>> <=> then[t] = "kernelret") /\ (then[t] = "relock" => saved[t])
        /\ (then[t] = "kernelret" => ~saved[t])
    BY Zenon, <1>2 DEF ThreadInv
  <2>3. then[t] \in {"relock", "ret", "kernelret"}
    BY <2>2
  <2> QED BY Zenon, <1>2, <2>1, <2>2, <2>3
<1>4. /\ plock' = Set(plock, t, Nobody) /\ noff' = [noff EXCEPT ![c] = noff[c] - 1]
      /\ intena' = Set(intena, c, saved[t]) /\ sie' = Set(sie, c, noff[c] = 1 /\ saved[t])
      /\ at' = [at EXCEPT ![t] = then[t]] /\ then' = Set(then, t, "none") /\ saved' = Set(saved, t, FALSE)
      /\ UNCHANGED <<cur, mode, spp, spie, sepc, scause, stvec, tp, locks, stk, epc, hartid, upc, astray, panic>>
  <2>1. plock[cur[c]] = Me(c) /\ ~PopPanics(c)
    BY Zenon, <1>1, <1>2, <1>3
  <2>2. /\ plock' = Set(plock, cur[c], Nobody) /\ intena' = Set(intena, Me(c), Intena(cur[c], c))
        /\ noff' = [noff EXCEPT ![Me(c)] = @ - 1]
        /\ sie' = Set(sie, c, noff[Me(c)] = 1 /\ Intena(cur[c], c))
        /\ Goto(c, then[cur[c]]) /\ then' = Set(then, cur[c], "none") /\ saved' = Set(saved, cur[c], FALSE)
        /\ UNCHANGED <<cur, csrs, locks, stk, frame, upc, astray, panic>>
    BY Zenon, <2>1 DEF resume
  <2> QED BY Zenon, <1>1, <1>2, <2>2 DEF Intena, Goto, csrs, frame
<1>5. plock'[t] = Nobody /\ noff'[c] = 0 /\ at'[t] = then[t] /\ (sie'[c] <=> saved[t])
  <2>1. plock'[t] = Nobody /\ noff'[c] = 0 /\ at'[t] = then[t]
    <3>1. noff'[c] = noff[c] - 1
      BY Zenon, <1>2, <1>4 DEF TTypes
    <3>2. plock'[t] = Nobody /\ at'[t] = then[t]
      BY Zenon, <1>2, <1>4 DEF TTypes, Set
    <3> QED BY <1>2, <3>1, <3>2
  <2>2. sie'[c] = (noff[c] = 1 /\ saved[t])
    BY Zenon, <1>2, <1>4 DEF TTypes, Set
  <2> QED BY Zenon, <1>3, <2>1, <2>2
<1>6. OnlyCpu(c)
  BY <1>2, <1>4 DEF TTypes, Set, IsOn, OnlyCpu
<1>7. OnlyThread(t)
  BY <1>2, <1>4 DEF TTypes, Set, IsOn, OnlyThread, SameThread, SameFrame
<1>8. TTypes'
  <2>1. saved[t] \in BOOLEAN /\ then[t] \in Labels
    BY <1>2, <1>3 DEF TTypes, Labels, Dark, Open
  <2>2. intena' \in [Cpus -> BOOLEAN] /\ saved' \in [Threads -> BOOLEAN]
    BY <1>2, <1>4, <2>1 DEF TTypes, Set
  <2>3. sie' \in [Cpus -> BOOLEAN]
    BY <1>2, <1>4, <2>1 DEF TTypes, Set
  <2>4. noff' \in [Cpus -> Nat] /\ at' \in [Threads -> Labels] /\ plock' \in [Procs -> Cpus \cup {Nobody}]
    BY <1>2, <1>3, <1>4, <2>1 DEF TTypes, Set
  <2>5. IsOn(then, Threads)'
    BY Zenon, <1>2, <1>4 DEF TTypes, Set, IsOn
  <2> QED BY Zenon, <1>2, <1>4, <2>2, <2>3, <2>4, <2>5 DEF TTypes, IsOn
<1>9. CpuInv(c)'
  <2>1. at'[c] = "away" /\ stk'[c] = <<>>
    BY Zenon, <1>2, <1>7, Distinct DEF OnlyThread, SameThread
  <2> QED BY Zenon, <1>1, <1>2, <1>4, <1>5, <2>1, <1>3 DEF CpuInv, Dark, Switching
<1>10. ThreadInv(t)'
  <2>1. /\ locks'[t] = 0 /\ stk'[t] = stk[t] /\ at'[t] = then[t] /\ epc'[t] = <<t, upc'[t]>>
    BY Zenon, <1>2, <1>4, <1>5
  <2>2. stk[t] = <<>> \/ (Len(stk[t]) = 1 /\ (stk[t][1].at = "loop" <=> t \in Cpus))
    BY Zenon, <1>2 DEF ThreadInv
  <2> QED BY Zenon, <1>3, <2>1, <2>2 DEF ThreadInv, Open
<1>11. plock'[t] = Nobody /\ LockInv(t)'
  BY Zenon, <1>2, <1>4, <1>5 DEF LockInv
<1> QED BY Zenon, <1>1, <1>2, <1>4, <1>6, <1>7, <1>8, <1>9, <1>10, <1>11, LocalStep

LEMMA YieldOk ==
  ASSUME TInv, NEW c \in Cpus, yield(c)
  PROVE  TInv'
<1>1. PICK t \in Threads : t = cur[c]
  BY Zenon, RunsOwn
<1>2. /\ at[t] \in {"yield", "exit"} /\ t \in Procs /\ t # c /\ at[c] = "away" /\ stk[c] = <<>>
      /\ TTypes /\ CpuInv(c) /\ ThreadInv(t) /\ panic = "none" /\ ~astray
      /\ Me(c) = c /\ tp[c] = c /\ mode[c] = "kernel" /\ stvec[c] = "kernelvec"
      /\ plock[t] = Nobody /\ noff[c] = 0 /\ locks[t] = 0 /\ epc[t] = <<t, upc[t]>>
      /\ (at[t] = "yield" => ~sie[c]) /\ (at[t] = "exit" => stk[t] = <<>>)
  <2>1. PICK l \in {"yield", "exit"} : In(c, l)
    BY Zenon DEF yield
  <2>2. at[t] = l
    BY Zenon, <1>1, <2>1 DEF In
  <2>3. l \notin {"loop", "back", "kerneltrap", "kernelret"}
    BY <2>1
  <2>4. InProc(c, t)
    BY Zenon, <1>1, <2>1, <2>3, AtFacts
  <2> QED BY <2>2, <2>4 DEF InProc, Switching, Dark
<1> DEFINE next == IF at[t] = "exit" THEN "unused" ELSE IF stk[t] = <<>> THEN "ret" ELSE "kernelret"
<1>4. /\ sie' = Set(sie, c, FALSE) /\ noff' = [noff EXCEPT ![c] = noff[c] + 1]
      /\ intena' = Set(intena, c, sie[c])
      /\ plock' = Set(plock, t, c) /\ then' = Set(then, t, next)
      /\ at' = [at EXCEPT ![t] = "sched"]
      /\ UNCHANGED <<cur, mode, spp, spie, sepc, scause, stvec, tp, locks, stk, saved, epc, hartid, upc, astray, panic>>
  <2>1. /\ plock' = Set(plock, cur[c], Me(c)) /\ push_off(c) /\ Goto(c, "sched")
        /\ then' = Set(then, cur[c], IF at[cur[c]] = "exit" THEN "unused"
                                     ELSE IF stk[cur[c]] = <<>> THEN "ret" ELSE "kernelret")
        /\ UNCHANGED <<cur, csrs, locks, stk, saved, frame, upc, astray, panic>>
    BY Zenon DEF yield
  <2> QED BY Zenon, <1>1, <1>2, <2>1 DEF push_off, Goto, csrs, frame
<1>n. /\ next \in {"unused", "ret", "kernelret"} /\ (next = "kernelret" => at[t] = "yield")
      /\ (stk[t] # <<>> <=> next = "kernelret")
  BY <1>2
<1> HIDE DEF next
<1>5. /\ sie'[c] = FALSE /\ noff'[c] = 1 /\ intena'[c] = sie[c] /\ plock'[t] = c
      /\ then'[t] = next /\ at'[t] = "sched"
  BY <1>2, <1>4 DEF TTypes, Set, IsOn
<1>6. OnlyCpu(c)
  BY <1>2, <1>4 DEF TTypes, Set, IsOn, OnlyCpu
<1>7. OnlyThread(t)
  BY <1>2, <1>4 DEF TTypes, Set, IsOn, OnlyThread, SameThread, SameFrame
<1>8. TTypes'
  <2>1. sie' \in [Cpus -> BOOLEAN] /\ intena' \in [Cpus -> BOOLEAN]
    BY <1>2, <1>4 DEF TTypes, Set
  <2>2. noff' \in [Cpus -> Nat] /\ at' \in [Threads -> Labels] /\ plock' \in [Procs -> Cpus \cup {Nobody}]
    BY <1>2, <1>4 DEF TTypes, Set, Labels, Dark
  <2>3. IsOn(then, Threads)'
    BY Zenon, <1>2, <1>4 DEF TTypes, Set, IsOn
  <2> QED BY Zenon, <1>2, <1>4, <2>1, <2>2, <2>3 DEF TTypes, IsOn
<1>9. CpuInv(c)'
  <2>1. at'[c] = "away" /\ stk'[c] = <<>>
    BY <1>2, <1>7, Distinct DEF OnlyThread, SameThread
  <2>2. next = "kernelret" => ~intena'[c]
    BY Zenon, <1>2, <1>5, <1>n
  <2>3. next # "relock"
    BY <1>n
  <2>4. /\ cur'[c] = t /\ at'[t] = "sched" /\ t # c /\ t \in Procs /\ mode'[c] = "kernel" /\ tp'[c] = c
        /\ stvec'[c] = "kernelvec" /\ ~sie'[c] /\ noff'[c] = 1 /\ plock'[t] = c /\ then'[t] = next
    BY Zenon, <1>1, <1>2, <1>4, <1>5
  <2> QED BY Zenon, <2>1, <2>2, <2>3, <2>4 DEF CpuInv, Dark, Switching
<1>10. ThreadInv(t)'
  <2>1. locks'[t] = 0 /\ stk'[t] = stk[t] /\ at'[t] = "sched" /\ then'[t] = next /\ epc'[t] = <<t, upc'[t]>>
    BY Zenon, <1>2, <1>4, <1>5
  <2>2. stk[t] = <<>> \/ (Len(stk[t]) = 1 /\ (stk[t][1].at = "loop" <=> t \in Cpus))
    BY Zenon, <1>2 DEF ThreadInv
  <2> QED BY <1>n, <2>1, <2>2 DEF ThreadInv, Open
<1>11. plock'[t] = c /\ LockInv(t)'
  BY <1>1, <1>4, <1>5 DEF LockInv, Switching
<1> QED BY <1>1, <1>2, <1>4, <1>6, <1>7, <1>8, <1>9, <1>10, <1>11, LocalStep

(* A frame pushed on an empty stack is all there is on it, and the top of  *)
(* a stack of one is a frame.                                              *)
LEMMA PushOne == ASSUME NEW e PROVE Append(<<>>, e) = <<e>>
  OBVIOUS

LEMMA TopFrame == ASSUME NEW s \in Seq(Frames), Len(s) = 1 PROVE s[Len(s)] \in Frames
  OBVIOUS

LEMMA KernelTrapOk ==
  ASSUME TInv, NEW c \in Cpus, NEW why, KernelTrap(c, why)
  PROVE  TInv'
<1>1. PICK t \in Threads : t = cur[c]
  BY Zenon, RunsOwn
<1>2. /\ TTypes /\ CpuInv(c) /\ ThreadInv(t) /\ panic = "none" /\ ~astray
      /\ t = c \/ (t \in Procs /\ t # c)
  BY Zenon, <1>1, RunsOwn, Distinct DEF TInv
<1>3. /\ at[t] \in Open /\ stvec[c] = "kernelvec" /\ tp[c] = c /\ mode[c] = "kernel"
      /\ (t # c => at[c] = "away" /\ stk[c] = <<>>) /\ (at[t] = "loop" <=> t \in Cpus)
  <2>1. mode[c] = "kernel" /\ sie[c] /\ at[t] \in Labels
    BY Zenon, <1>2 DEF KernelTrap, TTypes
  <2>2. at[t] # "user" /\ at[t] \notin Dark
    BY <1>1, <1>2, <2>1 DEF CpuInv
  <2>3. t = c => at[t] = "loop"
    BY <1>1, <1>2, <2>2 DEF CpuInv, Dark
  <2>4. t # c => t \in Procs /\ at[t] \notin {"loop", "back", "unused", "away"} /\ at[c] = "away" /\ stk[c] = <<>>
    BY Zenon, <1>1, <1>2 DEF CpuInv
  <2>5. at[t] \in Open /\ at[t] \notin {"user", "usertrap", "sret"}
    BY <2>1, <2>2, <2>3, <2>4 DEF Labels, Dark, Open
  <2>6. stvec[c] = "kernelvec" /\ tp[c] = c
    BY <1>1, <1>2, <2>5 DEF CpuInv
  <2> QED BY <2>1, <2>3, <2>4, <2>5, <2>6, Distinct
<1>4. noff[c] = 0 /\ locks[t] = 0 /\ stk[t] = <<>>
  <2>1. sie[c]
    BY Zenon DEF KernelTrap
  <2>2. noff[c] = locks[t]
    BY <1>1, <1>2, <1>3 DEF CpuInv, Switching, Open
  <2>3. at[t] = "syscall" => noff[c] = 0
    BY Zenon, <1>1, <1>2, <2>1 DEF CpuInv
  <2>4. at[t] # "syscall" => locks[t] = 0
    BY <1>2, <1>3 DEF ThreadInv, Open
  <2>5. stk[t] = <<>>
    BY Zenon, <1>2, <1>3 DEF ThreadInv
  <2> QED BY Zenon, <2>2, <2>3, <2>4, <2>5
<1> DEFINE r == [at |-> at[t], sepc |-> <<t, Pcs>>, spp |-> "kernel", spie |-> TRUE, tp |-> c]
<1>5. /\ sepc' = Set(sepc, c, <<t, Pcs>>) /\ scause' = Set(scause, c, why)
      /\ spp' = Set(spp, c, "kernel") /\ spie' = Set(spie, c, TRUE) /\ sie' = Set(sie, c, FALSE)
      /\ stk' = [stk EXCEPT ![t] = <<r>>] /\ at' = [at EXCEPT ![t] = "kerneltrap"]
      /\ UNCHANGED <<cur, mode, stvec, tp, noff, intena, locks, then, saved, epc, hartid, upc, plock, astray, panic>>
  <2>1. /\ sepc' = Set(sepc, c, <<t, Pcs + Len(stk[t])>>) /\ scause' = Set(scause, c, why)
        /\ spp' = Set(spp, c, "kernel") /\ spie' = Set(spie, c, TRUE) /\ sie' = Set(sie, c, FALSE)
        /\ stk' = [stk EXCEPT ![t] =
             Append(stk[t], [at |-> at[t], sepc |-> sepc'[c], spp |-> spp'[c], spie |-> spie'[c], tp |-> tp[c]])]
        /\ at' = [at EXCEPT ![t] = "kerneltrap"]
        /\ UNCHANGED <<cur, mode, stvec, tp, noff, intena, locks, then, saved, epc, hartid, upc, plock, astray, panic>>
    BY Zenon, <1>1, <1>3 DEF KernelTrap, Goto, cpu, frame
  <2>2. Pcs + Len(stk[t]) = Pcs
    BY <1>4, TrapAssumption
  <2>3. sepc' = Set(sepc, c, <<t, Pcs>>)
    BY Zenon, <2>1, <2>2
  <2>4. sepc'[c] = <<t, Pcs>> /\ spp'[c] = "kernel" /\ spie'[c] = TRUE
    BY <1>2, <2>1, <2>3 DEF TTypes, Set, IsOn
  <2>5. [at |-> at[t], sepc |-> sepc'[c], spp |-> spp'[c], spie |-> spie'[c], tp |-> tp[c]] = r
    BY Zenon, <1>3, <2>4
  <2> HIDE DEF r
  <2>6. Append(stk[t], r) = <<r>>
    BY Zenon, <1>4, PushOne
  <2> QED BY Zenon, <2>1, <2>3, <2>5, <2>6
<1>6. r \in Frames /\ r.at = at[t]
  BY <1>3, Distinct, TrapAssumption DEF Frames
<1> HIDE DEF r
<1>7. /\ sie'[c] = FALSE /\ spp'[c] = "kernel" /\ at'[t] = "kerneltrap" /\ stk'[t] = <<r>>
  BY <1>2, <1>5 DEF TTypes, Set
<1>8. OnlyCpu(c)
  BY Zenon, <1>2, <1>5 DEF TTypes, Set, IsOn, OnlyCpu
<1>9. OnlyThread(t)
  BY <1>2, <1>5 DEF TTypes, Set, IsOn, OnlyThread, SameThread, SameFrame
<1>10. TTypes'
  <2>1. stk' \in [Threads -> Seq(Frames)] /\ at' \in [Threads -> Labels]
    BY <1>2, <1>5, <1>6 DEF TTypes, Labels, Dark
  <2>2. /\ spp' \in [Cpus -> Modes] /\ spie' \in [Cpus -> BOOLEAN] /\ sie' \in [Cpus -> BOOLEAN]
        /\ IsOn(sepc, Cpus)' /\ IsOn(scause, Cpus)'
    BY Zenon, <1>2, <1>5 DEF TTypes, Set, IsOn, Modes
  <2> QED BY Zenon, <1>2, <1>5, <2>1, <2>2 DEF TTypes, IsOn
<1>11. CpuInv(c)'
  <2>1. t # c => at'[c] = "away" /\ stk'[c] = <<>>
    BY <1>3, <1>9, Distinct DEF OnlyThread, SameThread
  <2>2. cur'[c] = t /\ mode'[c] = "kernel" /\ tp'[c] = c /\ stvec'[c] = "kernelvec" /\ noff'[c] = locks'[t]
    BY Zenon, <1>1, <1>3, <1>4, <1>5
  <2> QED BY <1>2, <1>7, <2>1, <2>2 DEF CpuInv, Dark, Switching
<1>12. ThreadInv(t)'
  <2>1. locks'[t] = 0 /\ Len(stk'[t]) = 1 /\ stk'[t][1] = r /\ stk'[t] # <<>>
    BY <1>4, <1>5, <1>7
  <2>2. t \in Procs => epc'[t] = <<t, upc'[t]>>
    <3>1. at[t] \notin {"user", "usertrap", "unused"}
      BY <1>3 DEF Open
    <3> QED BY Zenon, <1>2, <1>5, <3>1 DEF ThreadInv
  <2>3. r.at = "loop" <=> t \in Cpus
    BY Zenon, <1>3, <1>6
  <2> QED BY <1>7, <2>1, <2>2, <2>3 DEF ThreadInv, Open
<1>13. t \in Procs => plock'[t] = Nobody /\ LockInv(t)'
  <2>1. t \in Procs => plock[t] = Nobody
    <3>1. at[t] \notin Switching
      BY <1>3 DEF Open, Switching
    <3> QED BY Zenon, <1>1, <3>1, HoldsRunning
  <2> QED BY Zenon, <1>5, <2>1 DEF LockInv
<1>14. at[t] # "back"
  BY <1>3 DEF Open
<1> QED BY Zenon, <1>1, <1>2, <1>5, <1>8, <1>9, <1>10, <1>11, <1>12, <1>13, <1>14, LocalStep

(* CPU c in an interrupt of the kernel thread t. *)
Interrupted(c, t) ==
  /\ TTypes /\ CpuInv(c) /\ ThreadInv(t) /\ panic = "none" /\ ~astray
  /\ t = c \/ (t \in Procs /\ t # c)
  /\ Me(c) = c /\ tp[c] = c /\ mode[c] = "kernel" /\ stvec[c] = "kernelvec" /\ ~sie[c]
  /\ t # c => at[c] = "away" /\ stk[c] = <<>>
  /\ noff[c] = 0 /\ locks[t] = 0
  /\ stk[t] # <<>> /\ Len(stk[t]) = 1 /\ stk[t] \in Seq(Frames) /\ (stk[t][1].at = "loop" <=> t \in Cpus)
  /\ t \in Procs => plock[t] = Nobody /\ epc[t] = <<t, upc[t]>>

LEMMA AtInterrupted ==
  ASSUME TInv, NEW c \in Cpus, NEW l \in {"kerneltrap", "kernelret"}, In(c, l)
  PROVE  Interrupted(c, cur[c])
<1>1. PICK t \in Threads : t = cur[c]
  BY Zenon, RunsOwn
<1>2. /\ TTypes /\ CpuInv(c) /\ ThreadInv(t) /\ panic = "none" /\ ~astray
      /\ t = c \/ (t \in Procs /\ t # c)
  BY Zenon, <1>1, RunsOwn, Distinct DEF TInv
<1>3. at[t] \in {"kerneltrap", "kernelret"}
  BY Zenon, <1>1 DEF In
<1>4. Me(c) = c /\ tp[c] = c /\ mode[c] = "kernel"
  BY Zenon, InFacts
<1>5. /\ stvec[c] = "kernelvec" /\ noff[c] = locks[t]
      /\ t # c => at[c] = "away" /\ stk[c] = <<>>
  BY <1>1, <1>2, <1>3 DEF CpuInv, Switching
<1>6. ~sie[c]
  BY <1>1, <1>2, <1>3 DEF CpuInv, Dark
<1>7. locks[t] = 0 /\ stk[t] # <<>> /\ Len(stk[t]) = 1 /\ (stk[t][1].at = "loop" <=> t \in Cpus)
  BY <1>2, <1>3 DEF ThreadInv
<1>8. stk[t] \in Seq(Frames)
  BY Zenon, <1>2 DEF TTypes
<1>9. t \in Procs => plock[t] = Nobody /\ epc[t] = <<t, upc[t]>>
  <2>1. at[t] \notin Switching /\ at[t] \notin {"user", "usertrap", "unused"}
    BY <1>3 DEF Switching
  <2>2. t \in Procs => plock[t] = Nobody
    BY Zenon, <1>1, <2>1, HoldsRunning
  <2>3. t \in Procs => epc[t] = <<t, upc[t]>>
    BY Zenon, <1>2, <2>1 DEF ThreadInv
  <2> QED BY Zenon, <2>2, <2>3
<1> QED BY Zenon, <1>1, <1>2, <1>4, <1>5, <1>6, <1>7, <1>8, <1>9 DEF Interrupted

LEMMA KerneltrapOk ==
  ASSUME TInv, SelfInv, NEW c \in Cpus, kerneltrap(c)
  PROVE  TInv'
<1>1. PICK t \in Threads : t = cur[c]
  BY Zenon, RunsOwn
<1>2. Interrupted(c, t) /\ at[t] = "kerneltrap"
  <2>1. In(c, "kerneltrap")
    BY Zenon DEF kerneltrap
  <2>2. Interrupted(c, t)
    BY Zenon, <1>1, <2>1, AtInterrupted
  <2> QED BY Zenon, <1>1, <2>1, <2>2 DEF In
<1>3. /\ TTypes /\ CpuInv(c) /\ ThreadInv(t) /\ panic = "none" /\ ~astray
      /\ t = c \/ (t \in Procs /\ t # c)
  BY Zenon, <1>2 DEF Interrupted
<1>4. spp[c] = "kernel" /\ ~sie[c]
  BY Zenon, <1>1, <1>2, <1>3 DEF CpuInv, Interrupted
<1>5. PICK l \in {"kernelret", "yield"} :
      /\ intena' = intena \/ intena' = Set(intena, c, FALSE)
      /\ l = "yield" => t \in Procs
      /\ at' = [at EXCEPT ![t] = l] /\ scause' = Set(scause, c, "none")
      /\ UNCHANGED <<cur, mode, sie, spp, spie, sepc, stvec, tp, noff, locks, stk, then, saved, epc, hartid,
                     upc, plock, astray, panic>>
  <2>0. proc[c] # Nobody => t \in Procs
    <3>1. SelfCpu(c)
      BY Zenon DEF SelfInv
    <3>2. t = c => at[c] # "back"
      BY <1>2
    <3> QED BY Zenon, <1>1, <1>3, <3>1, <3>2 DEF SelfCpu
  <2>1. /\ UNCHANGED intena \/ intena' = IF noff[c] = 0 THEN Set(intena, c, FALSE) ELSE intena
        /\ at' = [at EXCEPT ![t] = "kernelret"] \/ (t \in Procs /\ at' = [at EXCEPT ![t] = "yield"])
        /\ scause' = Set(scause, c, "none")
        /\ UNCHANGED <<cur, mode, sie, spp, spie, sepc, stvec, tp, noff, locks, stk, then, saved, epc, hartid,
                       upc, plock, astray, panic>>
    BY Zenon, <1>1, <1>2, <1>4, <2>0 DEF kerneltrap, Goto, frame, Interrupted
  <2>2. "kernelret" # "yield"
    OBVIOUS
  <2> QED BY Zenon, <2>1, <2>2
<1>6. at'[t] = l
  BY <1>3, <1>5 DEF TTypes
<1>7. OnlyCpu(c)
  BY <1>3, <1>5 DEF TTypes, Set, IsOn, OnlyCpu
<1>8. OnlyThread(t)
  BY <1>3, <1>5 DEF TTypes, Set, IsOn, OnlyThread, SameThread, SameFrame
<1>9. TTypes'
  <2>1. at' \in [Threads -> Labels] /\ IsOn(scause, Cpus)'
    BY Zenon, <1>3, <1>5 DEF TTypes, Set, IsOn, Labels, Dark
  <2>2. intena' \in [Cpus -> BOOLEAN]
    BY Zenon, <1>3, <1>5 DEF TTypes, Set
  <2> QED BY Zenon, <1>3, <1>5, <2>1, <2>2 DEF TTypes, IsOn
<1>10. CpuInv(c)'
  <2>1. t # c => at'[c] = "away" /\ stk'[c] = <<>>
    BY Zenon, <1>2, <1>8, Distinct DEF OnlyThread, SameThread, Interrupted
  <2>2. /\ cur'[c] = t /\ mode'[c] = "kernel" /\ tp'[c] = c /\ stvec'[c] = "kernelvec" /\ noff'[c] = locks'[t]
        /\ ~sie'[c] /\ (t = c \/ (t \in Procs /\ t # c)) /\ (l = "yield" => t \in Procs)
    BY Zenon, <1>1, <1>2, <1>5 DEF Interrupted
  <2>3. t \in Procs => t # c
    BY Zenon, Distinct
  <2> QED BY <1>6, <2>1, <2>2, <2>3 DEF CpuInv, Switching
<1>11. ThreadInv(t)'
  <2>1. /\ locks'[t] = 0 /\ stk'[t] # <<>> /\ Len(stk'[t]) = 1 /\ (stk'[t][1].at = "loop" <=> t \in Cpus)
        /\ t \in Procs => epc'[t] = <<t, upc'[t]>>
    BY Zenon, <1>2, <1>5 DEF Interrupted
  <2> QED BY <1>6, <2>1 DEF ThreadInv, Open
<1>12. t \in Procs => plock'[t] = Nobody /\ LockInv(t)'
  BY Zenon, <1>2, <1>5 DEF LockInv, Interrupted
<1>13. at[t] # "back"
  BY <1>2
<1> QED BY Zenon, <1>1, <1>3, <1>5, <1>7, <1>8, <1>9, <1>10, <1>11, <1>12, <1>13, LocalStep

LEMMA KernelretOk ==
  ASSUME TInv, NEW c \in Cpus, kernelret(c)
  PROVE  TInv'
<1>1. PICK t \in Threads : t = cur[c]
  BY Zenon, RunsOwn
<1>2. Interrupted(c, t) /\ at[t] = "kernelret"
  <2>1. In(c, "kernelret")
    BY Zenon DEF kernelret
  <2>2. Interrupted(c, t)
    BY Zenon, <1>1, <2>1, AtInterrupted
  <2> QED BY Zenon, <1>1, <2>1, <2>2 DEF In
<1>3. /\ TTypes /\ CpuInv(c) /\ ThreadInv(t) /\ panic = "none" /\ ~astray
      /\ t = c \/ (t \in Procs /\ t # c)
  BY Zenon, <1>2 DEF Interrupted
<1>4. PICK f \in Frames : f = stk[t][1]
  BY <1>2 DEF Interrupted
<1>5. f.at \in Open /\ f.spp = "kernel" /\ f.spie = TRUE /\ (f.at = "loop" <=> t \in Cpus)
  BY Zenon, <1>2, <1>4 DEF Frames, Interrupted
<1>6. /\ stk' = [stk EXCEPT ![t] = <<>>] /\ sepc' = Set(sepc, c, Past) /\ tp' = Set(tp, c, c)
      /\ mode' = Set(mode, c, "kernel") /\ sie' = Set(sie, c, TRUE)
      /\ spp' = Set(spp, c, "user") /\ spie' = Set(spie, c, TRUE)
      /\ ~astray' /\ at' = [at EXCEPT ![t] = f.at]
      /\ UNCHANGED <<cur, scause, stvec, noff, intena, locks, then, saved, epc, hartid, upc, plock, panic>>
  <2> DEFINE n == Len(stk[t])
  <2>1. n = 1 /\ SubSeq(stk[t], 1, n - 1) = <<>>
    BY <1>2 DEF Interrupted
  <2> DEFINE r == Restored(f, c)
  <2>2. r.sepc = f.sepc /\ r.spp = "kernel" /\ r.spie = TRUE /\ r.tp = c
    BY <1>2, <1>5 DEF Restored, Interrupted
  <2>3. f = stk[t][n]
    BY Zenon, <1>4, <2>1
  <2> HIDE DEF r, n
  <2>4. /\ stk' = [stk EXCEPT ![t] = SubSeq(stk[t], 1, n - 1)]
        /\ sepc' = Set(sepc, c, Past) /\ tp' = Set(tp, c, r.tp)
        /\ mode' = Set(mode, c, r.spp) /\ sie' = Set(sie, c, r.spie)
        /\ spp' = Set(spp, c, "user") /\ spie' = Set(spie, c, TRUE)
        /\ astray' = (astray \/ r.sepc # f.sepc) /\ at' = [at EXCEPT ![t] = f.at]
        /\ UNCHANGED <<cur, scause, stvec, noff, intena, locks, then, saved, epc, hartid, upc, plock, panic>>
    BY Zenon, <1>1, <2>3 DEF kernelret, Goto, cpu, frame, n, r
  <2> QED BY Zenon, <1>3, <2>1, <2>2, <2>4
<1>7. /\ stk'[t] = <<>> /\ tp'[c] = c /\ mode'[c] = "kernel" /\ sie'[c] = TRUE /\ at'[t] = f.at
  BY <1>3, <1>6 DEF TTypes, Set
<1>8. OnlyCpu(c)
  BY <1>3, <1>6 DEF TTypes, Set, IsOn, OnlyCpu
<1>9. OnlyThread(t)
  BY <1>3, <1>6 DEF TTypes, Set, IsOn, OnlyThread, SameThread, SameFrame
<1>10. TTypes'
  <2>1. stk' \in [Threads -> Seq(Frames)]
    BY <1>3, <1>6 DEF TTypes
  <2>2. at' \in [Threads -> Labels]
    BY <1>3, <1>5, <1>6 DEF TTypes, Labels
  <2>3. /\ spp' \in [Cpus -> Modes] /\ mode' \in [Cpus -> Modes] /\ spie' \in [Cpus -> BOOLEAN]
        /\ sie' \in [Cpus -> BOOLEAN] /\ IsOn(sepc, Cpus)' /\ tp' \in [Cpus -> Cpus \cup {Nobody}]
    BY Zenon, <1>3, <1>6 DEF TTypes, Set, IsOn, Modes
  <2> QED BY Zenon, <1>3, <1>6, <2>1, <2>2, <2>3 DEF TTypes, IsOn
<1>11. CpuInv(c)'
  <2>1. t # c => at'[c] = "away" /\ stk'[c] = <<>>
    BY Zenon, <1>2, <1>9, Distinct DEF OnlyThread, SameThread, Interrupted
  <2>2. /\ cur'[c] = t /\ stvec'[c] = "kernelvec" /\ noff'[c] = 0 /\ locks'[t] = 0
    BY Zenon, <1>1, <1>2, <1>6 DEF Interrupted
  <2> QED BY Zenon, <1>3, <1>5, <1>7, <2>1, <2>2, Distinct DEF CpuInv, Switching, Open, Dark
<1>12. ThreadInv(t)'
  <2>1. locks'[t] = 0 /\ (t \in Procs => epc'[t] = <<t, upc'[t]>>)
    BY Zenon, <1>2, <1>6 DEF Interrupted
  <2> QED BY Zenon, <1>5, <1>7, <2>1 DEF ThreadInv, Open
<1>13. t \in Procs => plock'[t] = Nobody /\ LockInv(t)'
  BY Zenon, <1>2, <1>6 DEF LockInv, Interrupted
<1>14. at[t] # "back"
  BY <1>2
<1> QED BY Zenon, <1>1, <1>3, <1>6, <1>8, <1>9, <1>10, <1>11, <1>12, <1>13, <1>14, LocalStep

LEMMA IntrOnOk ==
  ASSUME TInv, NEW c \in Cpus, intr_on(c)
  PROVE  TInv'
<1>1. cur[c] = c /\ at[c] = "loop" /\ c \in Threads
  <2>1. cur[c] \in Cpus /\ at[cur[c]] = "loop"
    BY Zenon DEF intr_on, In
  <2> QED BY Zenon, <2>1, RunsOwn, Distinct
<1>2. TTypes /\ CpuInv(c) /\ ThreadInv(c) /\ panic = "none" /\ ~astray
  BY Zenon, <1>1 DEF TInv
<1>3. /\ sie' = Set(sie, c, TRUE)
      /\ UNCHANGED <<cur, mode, spp, spie, sepc, scause, stvec, tp, noff, intena, at, locks, stk, then, saved,
                     epc, hartid, upc, plock, astray, panic>>
  BY Zenon DEF intr_on, csrs, cpu, thread, frame
<1>4. OnlyCpu(c)
  BY <1>2, <1>3 DEF TTypes, Set, OnlyCpu
<1>5. OnlyThread(c)
  BY Zenon, <1>3 DEF OnlyThread, SameThread, SameFrame
<1>6. TTypes'
  <2>1. sie' \in [Cpus -> BOOLEAN]
    BY <1>2, <1>3 DEF TTypes, Set
  <2> QED BY Zenon, <1>2, <1>3, <2>1 DEF TTypes, IsOn
<1>7. CpuInv(c)'
  <2>1. /\ mode[c] = "kernel" /\ tp[c] = c /\ stvec[c] = "kernelvec" /\ noff[c] = locks[c]
    BY <1>1, <1>2 DEF CpuInv, Switching
  <2>2. /\ cur'[c] = c /\ at'[c] = "loop" /\ mode'[c] = "kernel" /\ tp'[c] = c /\ stvec'[c] = "kernelvec"
        /\ noff'[c] = locks'[c]
    BY Zenon, <1>1, <1>3, <2>1
  <2> QED BY Zenon, <2>2 DEF CpuInv, Switching, Dark
<1>8. ThreadInv(c)'
  BY Zenon, <1>2, <1>3 DEF ThreadInv
<1>9. at[c] # "back"
  BY <1>1
<1> QED BY Zenon, <1>1, <1>2, <1>3, <1>4, <1>5, <1>6, <1>7, <1>8, <1>9, Distinct, LocalStep
-----------------------------------------------------------------------------
(* A switch between the scheduler of CPU c and process p. *)
LEMMA SwitchStep ==
  ASSUME TInv, NEW c \in Cpus, NEW p \in Procs, OnlyCpu(c),
         cur[c] \in {c, p}, cur'[c] \in {c, p},
         \A d \in Cpus : d # c => cur'[d] = cur[d] /\ cur[d] # p,
         \A u \in Threads : u # p /\ u # c => SameThread(u),
         \A q \in Procs : q # p => SameFrame(q),
         \A q \in Procs : plock[q] = c => q = p,
         plock[p] \in {c, Nobody}, plock'[p] \in {c, Nobody},
         TTypes', panic' = "none", ~astray',
         CpuInv(c)', ThreadInv(c)', ThreadInv(p)', LockInv(p)',
         cur'[c] # p => at'[p] \in {"unused", "forkret", "away"}
  PROVE  TInv'
<1>1. ASSUME NEW d \in Cpus, d # c
      PROVE  CpuInv(d)' /\ cur[d] # c
  <2>1. CpuInv(d) /\ cur'[d] = cur[d] /\ cur[d] # p /\ d # p /\ cur[d] \in Threads /\ (cur[d] = d \/ cur[d] \in Procs)
    BY Zenon, <1>1, Distinct, RunsOwn
  <2>2. cur[d] # c
    BY Zenon, <1>1, <2>1, Distinct
  <2>3. SameThread(d) /\ SameThread(cur[d])
    BY Zenon, <1>1, <2>1, <2>2, Distinct
  <2>4. cur[d] \in Procs => SameFrame(cur[d])
    BY Zenon, <2>1
  <2>5. \A q \in Procs : plock[q] = d => plock'[q] = d
    <3>1. plock[p] # d
      BY Zenon, <1>1, Distinct
    <3> QED BY Zenon, <3>1 DEF SameFrame
  <2> QED BY Zenon, <1>1, <2>1, <2>2, <2>3, <2>4, <2>5, CpuKept
<1>2. \A d \in Cpus : CpuInv(d)'
  BY Zenon, <1>1
<1>3. \A u \in Threads : ThreadInv(u)'
  <2> TAKE u \in Threads
  <2>1. CASE u # p /\ u # c
    BY Zenon, <2>1, ThreadKept DEF TInv
  <2> QED BY Zenon, <2>1
<1>4. \A q \in Procs : LockInv(q)'
  <2> TAKE q \in Procs
  <2>1. CASE q = p
    BY Zenon, <2>1
  <2>2. CASE q # p /\ plock[q] # Nobody
    <3>1. plock[q] \in Cpus /\ LockInv(q) /\ plock'[q] = plock[q]
      <4>1. plock[q] \in Cpus \cup {Nobody}
        BY Zenon DEF TInv, TTypes
      <4>2. LockInv(q)
        BY Zenon DEF TInv
      <4> QED BY Zenon, <2>2, <4>1, <4>2 DEF SameFrame
    <3>2. plock[q] # c /\ plock[q] # p /\ q # c /\ plock[q] \in Threads /\ q \in Threads
      BY Zenon, <2>2, <3>1, Distinct
    <3>3. at'[plock[q]] = at[plock[q]] /\ at'[q] = at[q] /\ cur'[plock[q]] = cur[plock[q]]
      BY Zenon, <2>2, <3>1, <3>2 DEF SameThread
    <3> QED BY Zenon, <3>1, <3>3 DEF LockInv
  <2>3. CASE q # p /\ plock[q] = Nobody
    BY Zenon, <2>3 DEF SameFrame, LockInv
  <2> QED BY Zenon, <2>1, <2>2, <2>3
<1>5. \A d, e \in Cpus : d # e => cur'[d] # cur'[e]
  <2>1. \A d \in Cpus : d # c => cur'[d] # cur'[c]
    BY Zenon, <1>1
  <2>2. \A d, e \in Cpus : d # e /\ d # c /\ e # c => cur'[d] # cur'[e]
    BY Zenon DEF TInv
  <2> QED BY Zenon, <2>1, <2>2
<1>6. \A q \in Procs : (\A d \in Cpus : cur'[d] # q) => at'[q] \in {"unused", "forkret", "away"}
  <2> TAKE q \in Procs
  <2>1. CASE q = p
    BY Zenon, <2>1
  <2>2. CASE q # p
    <3>1. at'[q] = at[q] /\ cur[c] # q
      BY Zenon, <2>2, Distinct DEF SameThread
    <3>2. (\A d \in Cpus : cur'[d] # q) => \A d \in Cpus : cur[d] # q
      BY Zenon, <3>1
    <3> QED BY Zenon, <3>1, <3>2 DEF TInv
  <2> QED BY Zenon, <2>1, <2>2
<1>7. \A q, r \in Procs : plock'[q] = plock'[r] /\ plock'[q] # Nobody => q = r
  <2>1. \A q \in Procs : q # p => plock'[q] = plock[q] /\ plock'[q] # c
    BY Zenon DEF SameFrame
  <2>2. \A q, r \in Procs : plock[q] = plock[r] /\ plock[q] # Nobody => q = r
    BY Zenon DEF TInv
  <2>3. plock'[p] = c \/ plock'[p] = Nobody
    BY Zenon
  <2> QED BY Zenon, <2>1, <2>2, <2>3
<1> QED BY Zenon, <1>2, <1>3, <1>4, <1>5, <1>6, <1>7 DEF TInv

LEMMA SchedOk ==
  ASSUME TInv, NEW c \in Cpus, sched(c)
  PROVE  TInv'
<1>1. PICK t \in Threads : t = cur[c]
  BY Zenon, RunsOwn
<1>2. Locked(c, t) /\ at[t] = "sched"
  <2>1. In(c, "sched")
    BY Zenon DEF sched
  <2>2. Locked(c, t)
    BY Zenon, <1>1, <2>1, AtSwitching DEF Switching
  <2> QED BY Zenon, <1>1, <2>1, <2>2 DEF In
<1>3. /\ TTypes /\ CpuInv(c) /\ ThreadInv(t) /\ ThreadInv(c) /\ panic = "none" /\ ~astray
      /\ t \in Procs /\ t # c /\ c \in Threads /\ Me(c) = c
  BY Zenon, <1>2, Distinct DEF Locked, TInv
<1>4. /\ saved' = Set(saved, t, intena[c]) /\ at' = [at EXCEPT ![t] = "away", ![c] = "back"]
      /\ cur' = Set(cur, c, c)
      /\ UNCHANGED <<sie, mode, spp, spie, sepc, scause, stvec, tp, noff, intena, locks, stk, then, epc, hartid, upc,
                     plock, astray, panic>>
  <2>1. plock[t] = Me(c) /\ noff[Me(c)] = 1 /\ ~sie[c]
    BY Zenon, <1>2 DEF Locked
  <2> QED BY Zenon, <1>1, <1>3, <2>1 DEF sched, csrs, cpu, frame
<1>5. /\ saved'[t] = intena[c] /\ at'[t] = "away" /\ at'[c] = "back" /\ cur'[c] = c
      /\ \A d \in Cpus : d # c => cur'[d] = cur[d]
      /\ \A u \in Threads : u # t /\ u # c => at'[u] = at[u] /\ saved'[u] = saved[u]
      /\ saved'[c] = saved[c]
  BY <1>3, <1>4 DEF TTypes, Set
<1>6. OnlyCpu(c) /\ \A q \in Procs : q # t => SameFrame(q)
  BY Zenon, <1>4 DEF OnlyCpu, SameFrame
<1>7. \A u \in Threads : u # t /\ u # c => SameThread(u)
  BY Zenon, <1>4, <1>5 DEF SameThread
<1>8. TTypes'
  <2>1. saved' \in [Threads -> BOOLEAN]
    <3>1. intena[c] \in BOOLEAN
      BY <1>3 DEF TTypes
    <3> QED BY <1>3, <1>4, <3>1 DEF TTypes, Set
  <2>2. at' \in [Threads -> Labels] /\ cur' \in [Cpus -> Threads]
    BY Zenon, <1>3, <1>4 DEF TTypes, Set, Labels, Dark
  <2> QED BY Zenon, <1>3, <1>4, <2>1, <2>2 DEF TTypes, IsOn
<1>9. CpuInv(c)'
  <2>1. /\ mode'[c] = "kernel" /\ tp'[c] = c /\ stvec'[c] = "kernelvec" /\ ~sie'[c] /\ noff'[c] = 1
        /\ plock'[t] = c
    BY Zenon, <1>2, <1>4 DEF Locked
  <2> QED BY Zenon, <1>3, <1>5, <2>1 DEF CpuInv, Switching
<1>10. ThreadInv(c)'
  <2>1. at[c] = "away" /\ stk[c] = <<>> /\ c \notin Procs
    BY Zenon, <1>2, Distinct DEF Locked
  <2>2. locks[c] = 0
    BY Zenon, <1>3, <2>1 DEF ThreadInv
  <2> QED BY Zenon, <1>4, <1>5, <2>1, <2>2 DEF ThreadInv
<1>11. ThreadInv(t)'
  <2>1. /\ locks[t] = 0 /\ then[t] \in {"relock", "ret", "kernelret", "unused"}
        /\ stk[t] # <<>> <=> then[t] = "kernelret"
        /\ stk[t] = <<>> \/ (Len(stk[t]) = 1 /\ (stk[t][1].at = "loop" <=> t \in Cpus))
    BY Zenon, <1>2, <1>3 DEF ThreadInv, Locked
  <2>2. (then[t] = "relock" => intena[c]) /\ (then[t] = "kernelret" => ~intena[c])
    BY Zenon, <1>1, <1>2, <1>3 DEF CpuInv
  <2>3. /\ at'[t] = "away" /\ (then[t] = "relock" => saved'[t]) /\ (then[t] = "kernelret" => ~saved'[t])
        /\ locks'[t] = locks[t] /\ stk'[t] = stk[t] /\ then'[t] = then[t] /\ epc'[t] = <<t, upc'[t]>>
    BY Zenon, <1>2, <1>4, <1>5, <2>2 DEF Locked
  <2> QED BY Zenon, <2>1, <2>3 DEF ThreadInv, Open
<1>12. plock[t] = c /\ plock'[t] = c /\ LockInv(t)'
  BY Zenon, <1>2, <1>4, <1>5 DEF Locked, LockInv
<1>13. \A d \in Cpus : d # c => cur'[d] = cur[d] /\ cur[d] # t
  BY Zenon, <1>1, <1>5 DEF TInv
<1>14. \A q \in Procs : plock[q] = c => q = t
  <2>1. at[t] # "back"
    BY <1>2
  <2> QED BY Zenon, <1>1, <2>1, HoldsHere
<1>15. panic' = "none" /\ ~astray'
  BY Zenon, <1>3, <1>4
<1> QED BY Zenon, <1>1, <1>3, <1>5, <1>6, <1>7, <1>8, <1>9, <1>10, <1>11, <1>12, <1>13, <1>14, <1>15, SwitchStep

(* CPU c in its scheduler, at label l. *)
InLoop(c, l) ==
  /\ TTypes /\ CpuInv(c) /\ ThreadInv(c) /\ panic = "none" /\ ~astray
  /\ c \in Threads /\ c \notin Procs /\ cur[c] = c /\ at[c] = l
  /\ Me(c) = c /\ tp[c] = c /\ mode[c] = "kernel" /\ stvec[c] = "kernelvec"
  /\ noff[c] = (IF l = "back" THEN 1 ELSE 0) /\ locks[c] = 0 /\ stk[c] = <<>> /\ (l = "back" => ~sie[c])

LEMMA AtLoop ==
  ASSUME TInv, NEW c \in Cpus, NEW l \in {"loop", "back"}, In(c, l)
  PROVE  InLoop(c, l)
<1>1. cur[c] = c /\ at[c] = l /\ Me(c) = c /\ tp[c] = c /\ mode[c] = "kernel"
  <2>1. at[cur[c]] = l /\ Me(c) = c /\ tp[c] = c /\ mode[c] = "kernel" /\ CpuInv(c)
    BY Zenon, InFacts
  <2>2. cur[c] = c
    BY Zenon, <2>1 DEF CpuInv
  <2> QED BY Zenon, <2>1, <2>2
<1>2. TTypes /\ CpuInv(c) /\ ThreadInv(c) /\ panic = "none" /\ ~astray /\ c \in Threads /\ c \notin Procs
  BY Zenon, Distinct DEF TInv
<1>3. locks[c] = 0 /\ stk[c] = <<>>
  BY Zenon, <1>1, <1>2 DEF ThreadInv, Open
<1>4. stvec[c] = "kernelvec" /\ noff[c] = (IF l = "back" THEN 1 ELSE 0)
  BY <1>1, <1>2, <1>3 DEF CpuInv, Switching
<1>5. l = "back" => ~sie[c]
  BY Zenon, <1>1, <1>2 DEF CpuInv, Dark
<1> QED BY Zenon, <1>1, <1>2, <1>3, <1>4, <1>5 DEF InLoop

LEMMA SwitchOk ==
  ASSUME TInv, NEW c \in Cpus, NEW p \in Procs, Switch(c, p)
  PROVE  TInv'
<1>1. InLoop(c, "loop")
  BY Zenon, AtLoop DEF Switch
<1>2. /\ TTypes /\ CpuInv(c) /\ ThreadInv(c) /\ ThreadInv(p) /\ panic = "none" /\ ~astray
      /\ c \in Threads /\ p \in Threads /\ p # c /\ cur[c] = c /\ Me(c) = c /\ at[c] = "loop" /\ noff[c] = 0
  BY <1>1, Distinct DEF InLoop, TInv
<1>3. plock[p] = Nobody /\ at[p] \in {"away", "forkret"} /\ then[p] # "unused" /\ \A d \in Cpus : cur[d] # p
  BY Zenon DEF Switch
<1> DEFINE l == IF at[p] = "away" THEN "resume" ELSE "forkret"
<1>4. /\ sie' = Set(sie, c, FALSE) /\ noff' = [noff EXCEPT ![c] = noff[c] + 1] /\ intena' = Set(intena, c, sie[c])
      /\ plock' = Set(plock, p, c)
      /\ at' = [at EXCEPT ![c] = "away", ![p] = IF @ = "away" THEN "resume" ELSE @]
      /\ cur' = Set(cur, c, p)
      /\ UNCHANGED <<mode, spp, spie, sepc, scause, stvec, tp, locks, stk, then, saved, epc, hartid, upc, astray, panic>>
  BY Zenon, <1>2 DEF Switch, push_off, csrs, frame
<1>5. /\ sie'[c] = FALSE /\ noff'[c] = 1 /\ plock'[p] = c /\ at'[c] = "away" /\ at'[p] = l /\ cur'[c] = p
      /\ \A d \in Cpus : d # c => cur'[d] = cur[d]
      /\ \A u \in Threads : u # p /\ u # c => at'[u] = at[u]
  BY <1>2, <1>3, <1>4 DEF TTypes, Set
<1>6. OnlyCpu(c) /\ \A q \in Procs : q # p => SameFrame(q)
  <2>1. OnlyCpu(c)
    BY <1>2, <1>4 DEF OnlyCpu, TTypes, Set
  <2>2. \A q \in Procs : q # p => SameFrame(q)
    BY <1>2, <1>4 DEF SameFrame, TTypes, Set
  <2> QED BY Zenon, <2>1, <2>2
<1>7. \A u \in Threads : u # p /\ u # c => SameThread(u)
  BY Zenon, <1>4, <1>5 DEF SameThread
<1>8. TTypes'
  <2>1. sie' \in [Cpus -> BOOLEAN] /\ intena' \in [Cpus -> BOOLEAN]
    BY <1>2, <1>4 DEF TTypes, Set
  <2>2. noff' \in [Cpus -> Nat] /\ plock' \in [Procs -> Cpus \cup {Nobody}] /\ cur' \in [Cpus -> Threads]
    BY <1>2, <1>4 DEF TTypes, Set
  <2>3. at' \in [Threads -> Labels]
    BY Zenon, <1>2, <1>3, <1>4 DEF TTypes, Labels, Dark
  <2> QED BY Zenon, <1>2, <1>4, <2>1, <2>2, <2>3 DEF TTypes, IsOn
<1>9. l \in {"resume", "forkret"} /\ (l = "resume" => at[p] = "away") /\ (l = "forkret" => at[p] = "forkret")
  BY <1>3
<1> HIDE DEF l
<1>10. CpuInv(c)'
  <2>1. mode'[c] = "kernel" /\ tp'[c] = c /\ stvec'[c] = "kernelvec" /\ stk'[c] = <<>>
    BY Zenon, <1>1, <1>4 DEF InLoop
  <2> QED BY ZenonT(40), <1>2, <1>5, <1>9, <2>1 DEF CpuInv, Switching
<1>11. ThreadInv(c)'
  <2>1. locks'[c] = 0 /\ stk'[c] = <<>> /\ c \notin Procs
    BY Zenon, <1>1, <1>4 DEF InLoop
  <2> QED BY Zenon, <1>5, <2>1 DEF ThreadInv
<1>12. ThreadInv(p)'
  <2>2. /\ locks'[p] = locks[p] /\ stk'[p] = stk[p] /\ then'[p] = then[p] /\ saved'[p] = saved[p]
        /\ epc'[p] = epc[p] /\ upc'[p] = upc[p]
    BY Zenon, <1>4
  <2>3. epc[p] = <<p, upc[p]>>
    BY Zenon, <1>2, <1>3 DEF ThreadInv
  <2>4. CASE l = "forkret"
    <3>1. stk[p] = <<>> /\ at'[p] = "forkret" /\ locks[p] = 0
      BY <1>2, <1>3, <1>5, <1>9, <2>4 DEF ThreadInv
    <3> QED BY Zenon, <2>2, <2>3, <3>1 DEF ThreadInv
  <2>5. CASE l = "resume"
    <3>1. /\ then[p] \in {"relock", "ret", "kernelret", "unused"} /\ (stk[p] # <<>> <=> then[p] = "kernelret")
          /\ (then[p] = "relock" => saved[p]) /\ (then[p] = "kernelret" => ~saved[p])
          /\ locks[p] = 0
      BY <1>2, <1>3, <1>9, <2>5 DEF ThreadInv
    <3>2. at'[p] = "resume"
      BY Zenon, <1>5, <2>5
    <3>3. stk[p] = <<>> \/ (Len(stk[p]) = 1 /\ (stk[p][1].at = "loop" <=> p \in Cpus))
      BY Zenon, <1>2 DEF ThreadInv
    <3> QED BY <1>3, <2>2, <2>3, <3>1, <3>2, <3>3 DEF ThreadInv, Open
  <2> QED BY Zenon, <1>9, <2>4, <2>5
<1>13. plock[p] = Nobody /\ plock'[p] = c /\ LockInv(p)'
  <2>1. at'[p] \in Switching
    BY <1>5, <1>9 DEF Switching
  <2> QED BY Zenon, <1>3, <1>5, <2>1 DEF LockInv
<1>14. \A d \in Cpus : d # c => cur'[d] = cur[d] /\ cur[d] # p
  BY Zenon, <1>3, <1>5
<1>15. \A q \in Procs : plock[q] = c => q = p
  <2>1. at[cur[c]] # "back"
    BY <1>2
  <2> QED BY Zenon, <1>2, <2>1, HoldsHere, Distinct
<1>16. panic' = "none" /\ ~astray'
  BY Zenon, <1>2, <1>4
<1> QED BY Zenon, <1>2, <1>5, <1>6, <1>7, <1>8, <1>10, <1>11, <1>12, <1>13, <1>14, <1>15, <1>16, SwitchStep

LEMMA BackOk ==
  ASSUME TInv, NEW c \in Cpus, Back(c)
  PROVE  TInv'
<1>1. InLoop(c, "back")
  BY Zenon, AtLoop DEF Back
<1>2. /\ TTypes /\ CpuInv(c) /\ ThreadInv(c) /\ panic = "none" /\ ~astray
      /\ c \in Threads /\ cur[c] = c /\ Me(c) = c /\ at[c] = "back" /\ noff[c] = 1 /\ ~sie[c]
  BY <1>1 DEF InLoop
<1>3. ~PopPanics(c)
  BY <1>2 DEF PopPanics
<1>4. PICK p \in Procs :
      /\ plock[p] = c
      /\ plock' = Set(plock, p, Nobody) /\ noff' = [noff EXCEPT ![c] = noff[c] - 1]
      /\ sie' = Set(sie, c, sie[c] \/ (noff[c] = 1 /\ intena[c]))
      /\ at' = [at EXCEPT ![c] = "loop", ![p] = IF then[p] = "unused" THEN "unused" ELSE @]
      /\ then' = Set(then, p, IF then[p] = "unused" THEN "none" ELSE then[p])
      /\ UNCHANGED <<cur, mode, spp, spie, sepc, scause, stvec, tp, intena, locks, stk, saved, epc, hartid, upc,
                     astray, panic>>
  <2>1. PICK p \in Procs :
          /\ plock[p] = Me(c) /\ plock' = Set(plock, p, Nobody) /\ pop_off(c)
          /\ at' = [at EXCEPT ![cur[c]] = "loop", ![p] = IF then[p] = "unused" THEN "unused" ELSE @]
          /\ then' = Set(then, p, IF then[p] = "unused" THEN "none" ELSE then[p])
          /\ UNCHANGED <<cur, csrs, locks, stk, saved, frame, upc, astray, panic>>
    BY Zenon, <1>3 DEF Back
  <2> QED BY Zenon, <1>2, <2>1 DEF pop_off, csrs, frame
<1>5. p \in Threads /\ p # c /\ ThreadInv(p) /\ at[p] = "away"
  <2>1. LockInv(p) /\ plock[p] # Nobody /\ p # c /\ p \in Threads /\ ThreadInv(p)
    BY Zenon, <1>4, Distinct DEF TInv
  <2> QED BY Zenon, <1>2, <1>4, <2>1 DEF LockInv
<1> DEFINE l == IF then[p] = "unused" THEN "unused" ELSE "away"
<1>6. /\ noff'[c] = 0 /\ plock'[p] = Nobody /\ at'[c] = "loop" /\ at'[p] = l /\ cur'[c] = c
      /\ then'[p] = (IF then[p] = "unused" THEN "none" ELSE then[p])
      /\ \A u \in Threads : u # p /\ u # c => at'[u] = at[u] /\ then'[u] = then[u]
  BY <1>2, <1>4, <1>5 DEF TTypes, Set, IsOn
<1>7. OnlyCpu(c) /\ \A q \in Procs : q # p => SameFrame(q)
  <2>1. OnlyCpu(c)
    BY <1>2, <1>4 DEF OnlyCpu, TTypes, Set
  <2>2. \A q \in Procs : q # p => SameFrame(q)
    BY <1>2, <1>4 DEF SameFrame, TTypes, Set
  <2> QED BY Zenon, <2>1, <2>2
<1>8. \A u \in Threads : u # p /\ u # c => SameThread(u)
  BY Zenon, <1>4, <1>6 DEF SameThread
<1>9. TTypes'
  <2>1. sie' \in [Cpus -> BOOLEAN]
    BY <1>2, <1>4 DEF TTypes, Set
  <2>2. noff' \in [Cpus -> Nat] /\ plock' \in [Procs -> Cpus \cup {Nobody}]
    BY <1>2, <1>4 DEF TTypes, Set
  <2>3. at' \in [Threads -> Labels]
    BY Zenon, <1>2, <1>4, <1>5 DEF TTypes, Labels, Open
  <2>4. IsOn(then, Threads)'
    BY Zenon, <1>2, <1>4 DEF TTypes, IsOn, Set
  <2> QED BY Zenon, <1>2, <1>4, <2>1, <2>2, <2>3, <2>4 DEF TTypes, IsOn
<1>10. CpuInv(c)'
  <2>1. mode'[c] = "kernel" /\ tp'[c] = c /\ stvec'[c] = "kernelvec" /\ locks'[c] = 0
    BY Zenon, <1>1, <1>4 DEF InLoop
  <2> QED BY Zenon, <1>2, <1>6, <2>1 DEF CpuInv, Switching, Dark
<1>11. ThreadInv(c)'
  <2>1. locks'[c] = 0 /\ stk'[c] = <<>> /\ c \notin Procs
    BY Zenon, <1>1, <1>4 DEF InLoop
  <2> QED BY Zenon, <1>6, <2>1 DEF ThreadInv
<1>12. ThreadInv(p)'
  <2>1. /\ locks[p] = 0 /\ then[p] \in {"relock", "ret", "kernelret", "unused"}
        /\ (stk[p] # <<>> <=> then[p] = "kernelret")
        /\ (then[p] = "relock" => saved[p]) /\ (then[p] = "kernelret" => ~saved[p])
        /\ epc[p] = <<p, upc[p]>>
    BY Zenon, <1>5 DEF ThreadInv
  <2>2. /\ locks'[p] = locks[p] /\ stk'[p] = stk[p] /\ saved'[p] = saved[p]
        /\ epc'[p] = epc[p] /\ upc'[p] = upc[p]
    BY Zenon, <1>4
  <2>3. CASE then[p] = "unused"
    <3>1. at'[p] = "unused" /\ stk'[p] = <<>> /\ locks'[p] = 0
      BY <1>6, <2>1, <2>2, <2>3
    <3> QED BY <3>1 DEF ThreadInv
  <2>4. CASE then[p] # "unused"
    <3>1. at'[p] = "away" /\ then'[p] = then[p]
      BY <1>6, <2>4
    <3>2. stk[p] = <<>> \/ (Len(stk[p]) = 1 /\ (stk[p][1].at = "loop" <=> p \in Cpus))
      BY Zenon, <1>5 DEF ThreadInv
    <3> QED BY <2>1, <2>2, <3>1, <3>2 DEF ThreadInv, Open
  <2> QED BY Zenon, <2>3, <2>4
<1>13. plock'[p] = Nobody /\ LockInv(p)'
  BY Zenon, <1>6 DEF LockInv
<1>14. \A d \in Cpus : d # c => cur'[d] = cur[d] /\ cur[d] # p
  <2>1. ASSUME NEW d \in Cpus, cur[d] = p
        PROVE  FALSE
    <3>1. CpuInv(d) /\ p # d
      BY Zenon, Distinct DEF TInv
    <3> QED BY Zenon, <1>5, <2>1, <3>1 DEF CpuInv
  <2> QED BY Zenon, <1>4, <2>1
<1>15. \A q \in Procs : plock[q] = c => q = p
  BY Zenon, <1>4, Distinct DEF TInv
<1>16. panic' = "none" /\ ~astray' /\ at'[p] \in {"unused", "forkret", "away"}
  BY <1>2, <1>4, <1>6
<1> HIDE DEF l
<1> QED BY Zenon, <1>2, <1>4, <1>6, <1>7, <1>8, <1>9, <1>10, <1>11, <1>12, <1>13, <1>14, <1>15, <1>16, SwitchStep

LEMMA ForkOk ==
  ASSUME TInv, NEW p \in Procs, fork(p)
  PROVE  TInv'
<1>1. TTypes /\ ThreadInv(p) /\ LockInv(p) /\ panic = "none" /\ ~astray /\ p \in Threads /\ p \notin Cpus
  BY Zenon, Distinct DEF TInv
<1>2. /\ at[p] = "unused" /\ at' = Set(at, p, "forkret")
      /\ epc' = Set(epc, p, <<p, 0>>) /\ upc' = Set(upc, p, 0)
      /\ UNCHANGED <<cur, sie, mode, spp, spie, sepc, scause, stvec, tp, noff, intena, locks, stk, then, saved,
                     hartid, plock, astray, panic>>
  BY Zenon DEF fork, csrs, cpu
<1>3. /\ at'[p] = "forkret" /\ epc'[p] = <<p, upc'[p]>>
      /\ \A u \in Threads : u # p => at'[u] = at[u]
      /\ \A q \in Procs : q # p => epc'[q] = epc[q] /\ upc'[q] = upc[q]
  BY <1>1, <1>2 DEF TTypes, Set, IsOn
<1>4. TTypes'
  <2>1. at' \in [Threads -> Labels] /\ IsOn(epc, Procs)' /\ IsOn(upc, Procs)'
    BY Zenon, <1>1, <1>2 DEF TTypes, Set, IsOn, Labels, Dark
  <2> QED BY Zenon, <1>1, <1>2, <2>1 DEF TTypes, IsOn
<1>5. /\ \A u \in Threads : u # p => SameThread(u)
      /\ \A q \in Procs : q # p => SameFrame(q)
      /\ OnlyCpu(p)
  BY Zenon, <1>2, <1>3 DEF SameThread, SameFrame, OnlyCpu
<1>6. \A d \in Cpus : CpuInv(d)' /\ cur[d] # p
  <2> TAKE d \in Cpus
  <2>1. CpuInv(d) /\ d # p /\ cur[d] \in Threads /\ d \in Threads
    BY Zenon, RunsOwn, Distinct
  <2>2. cur[d] # p
    BY Zenon, <1>2, <2>1 DEF CpuInv
  <2>3. SameThread(d) /\ SameThread(cur[d]) /\ (cur[d] \in Procs => SameFrame(cur[d])) /\ cur'[d] = cur[d]
    BY Zenon, <1>2, <1>5, <2>1, <2>2
  <2>4. \A q \in Procs : plock[q] = d => plock'[q] = d
    BY Zenon, <1>2
  <2> QED BY Zenon, <1>5, <2>1, <2>2, <2>3, <2>4, CpuKept
<1>7. \A u \in Threads : ThreadInv(u)'
  <2> TAKE u \in Threads
  <2>1. CASE u # p
    BY Zenon, <1>5, <2>1, ThreadKept DEF TInv
  <2>2. CASE u = p
    <3>1. locks[p] = 0 /\ stk[p] = <<>>
      BY Zenon, <1>1, <1>2 DEF ThreadInv
    <3>2. locks'[p] = 0 /\ stk'[p] = <<>>
      BY Zenon, <1>2, <3>1
    <3> QED BY Zenon, <1>3, <2>2, <3>2 DEF ThreadInv
  <2> QED BY Zenon, <2>1, <2>2
<1>8. \A q \in Procs : LockInv(q)'
  <2> TAKE q \in Procs
  <2>1. CASE plock[q] = Nobody
    BY Zenon, <1>2, <2>1 DEF LockInv
  <2>2. CASE plock[q] # Nobody
    <3>1. LockInv(q) /\ plock[q] \in Cpus
      <4>1. LockInv(q) /\ plock[q] \in Cpus \cup {Nobody}
        BY Zenon DEF TInv, TTypes
      <4> QED BY Zenon, <2>2, <4>1
    <3>2. q # p
      BY Zenon, <1>2, <2>2, <3>1 DEF LockInv, Switching
    <3>3. at'[q] = at[q] /\ at'[plock[q]] = at[plock[q]]
      BY Zenon, <1>1, <1>3, <3>1, <3>2, Distinct
    <3> QED BY Zenon, <1>2, <3>1, <3>3 DEF LockInv
  <2> QED BY Zenon, <2>1, <2>2
<1>9. \A q \in Procs : (\A d \in Cpus : cur'[d] # q) => at'[q] \in {"unused", "forkret", "away"}
  BY Zenon, <1>2, <1>3, Distinct DEF TInv
<1>10. /\ \A c, d \in Cpus : c # d => cur'[c] # cur'[d]
       /\ \A q, r \in Procs : plock'[q] = plock'[r] /\ plock'[q] # Nobody => q = r
  BY Zenon, <1>2 DEF TInv
<1> QED BY Zenon, <1>1, <1>2, <1>4, <1>6, <1>7, <1>8, <1>9, <1>10 DEF TInv
-----------------------------------------------------------------------------
(* What concerns myproc. *)
SelfSame(d) ==
  /\ cur'[d] = cur[d] /\ proc'[d] = proc[d] /\ mine'[cur[d]] = mine[cur[d]]
  /\ at'[d] = at[d] /\ at'[cur[d]] = at[cur[d]]

LEMMA SelfLocal ==
  ASSUME SelfInv, NEW c \in Cpus, SelfTypes', SelfCpu(c)', \A d \in Cpus : d # c => SelfSame(d)
  PROVE  SelfInv'
<1>1. ASSUME NEW d \in Cpus, d # c
      PROVE  SelfCpu(d)'
  <2>1. SelfCpu(d) /\ SelfSame(d)
    BY Zenon, <1>1 DEF SelfInv
  <2> QED BY Zenon, <2>1 DEF SelfCpu, SelfSame
<1> QED BY Zenon, <1>1 DEF SelfInv

(* Other CPUs execute other threads. *)
LEMMA OtherThread ==
  ASSUME TInv, NEW c \in Cpus, NEW d \in Cpus, d # c
  PROVE  d # cur[c] /\ c # cur[d] /\ cur[d] # cur[c] /\ cur[d] \in Threads /\ d \in Threads
<1>1. cur[d] # cur[c]
  BY Zenon DEF TInv
<1> QED BY Zenon, <1>1, RunsOwn, Distinct

Stays == UNCHANGED <<at, cur, proc, mine>>
Moves(c, l) == Goto(c, l) /\ UNCHANGED <<cur, proc, mine>>

LEMMA StaysOk ==
  ASSUME SelfInv, Stays
  PROVE  SelfInv'
BY Zenon DEF SelfInv, SelfTypes, SelfCpu, Stays

LEMMA PanicStays ==
  ASSUME NEW m, Panic(m)
  PROVE  Stays
BY Zenon DEF Panic, Stays, thread, self

LEMMA MovesOk ==
  ASSUME TInv, SelfInv, NEW c \in Cpus, NEW l, l # "myproc", at[cur[c]] # "back", Moves(c, l)
  PROVE  SelfInv'
<1>1. /\ at' = [at EXCEPT ![cur[c]] = l] /\ cur' = cur /\ proc' = proc /\ mine' = mine
      /\ at \in [Threads -> Labels] /\ cur[c] \in Threads
  BY Zenon, RunsOwn DEF Moves, Goto, TInv, TTypes
<1>2. at'[cur[c]] = l
  BY Zenon, <1>1
<1>3. SelfCpu(c)'
  BY Zenon, <1>1, <1>2 DEF SelfInv, SelfCpu
<1>4. ASSUME NEW d \in Cpus, d # c PROVE SelfSame(d)
  BY Zenon, <1>1, <1>4, OtherThread DEF SelfSame
<1>5. SelfTypes'
  BY Zenon, <1>1 DEF SelfInv, SelfTypes
<1> QED BY Zenon, <1>3, <1>4, <1>5, SelfLocal

(* The steps that do no more than go to another place. *)
LEMMA SelfMoves ==
  ASSUME TInv, SelfInv, NEW c \in Cpus,
         \/ \E why \in Causes : UserTrap(c, why) \/ KernelTrap(c, why)
         \/ usertrap(c) \/ acquire(c) \/ release(c) \/ sleep(c) \/ relock(c) \/ SyscallDone(c) \/ yield(c)
         \/ resume(c) \/ forkret(c) \/ usertrapret(c) \/ userret(c) \/ kerneltrap(c) \/ kernelret(c) \/ intr_on(c)
  PROVE  SelfInv'
<1> USE DEF self
<1>1. ASSUME NEW l, In(c, l), l # "back" PROVE at[cur[c]] # "back"
  BY Zenon, <1>1 DEF In
<1>2. CpuInv(c) /\ cur[c] \in Threads /\ ThreadInv(cur[c])
  BY Zenon, RunsOwn DEF TInv
<1>3. ASSUME NEW why, UserTrap(c, why) PROVE SelfInv'
  <2>1. mode[c] = "user"
    BY Zenon, <1>3 DEF UserTrap
  <2>2. at[cur[c]] # "back"
    BY <1>2, <2>1 DEF CpuInv
  <2>3. Stays \/ Moves(c, "usertrap")
    BY Zenon, <1>3, PanicStays DEF UserTrap, Moves
  <2> QED BY Zenon, <2>2, <2>3, StaysOk, MovesOk
<1>4. ASSUME NEW why, KernelTrap(c, why) PROVE SelfInv'
  <2>1. sie[c]
    BY Zenon, <1>4 DEF KernelTrap
  <2>2. at[cur[c]] # "back"
    BY <1>2, <2>1 DEF CpuInv, Dark
  <2>3. Stays \/ Moves(c, "kerneltrap")
    BY Zenon, <1>4, PanicStays DEF KernelTrap, Moves
  <2> QED BY Zenon, <2>2, <2>3, StaysOk, MovesOk
<1>5. CASE usertrap(c)
  <2>1. In(c, "usertrap") /\ (Stays \/ \E l \in After(scause[c]) : Moves(c, l))
    BY Zenon, <1>5, PanicStays DEF usertrap, Moves
  <2>2. \A l \in After(scause[c]) : l # "myproc"
    BY DEF After
  <2> QED BY Zenon, <1>1, <2>1, <2>2, StaysOk, MovesOk
<1>6. CASE acquire(c) \/ release(c) \/ intr_on(c)
  <2>1. Stays
    BY Zenon, <1>6, PanicStays DEF acquire, release, intr_on, Stays, thread
  <2> QED BY Zenon, <2>1, StaysOk
<1>7. CASE sleep(c) \/ relock(c) \/ SyscallDone(c) \/ yield(c) \/ usertrapret(c) \/ userret(c)
  <2>1. /\ \E l \in {"syscall", "relock", "yield", "exit", "ret", "sret"} : In(c, l)
        /\ \E l \in {"sched", "syscall", "ret", "exit", "sret", "user"} : Moves(c, l)
    BY Zenon, <1>7 DEF sleep, relock, SyscallDone, yield, usertrapret, userret, Moves
  <2> QED BY Zenon, <1>1, <2>1, MovesOk
<1>8. CASE forkret(c) \/ kerneltrap(c)
  <2>1. /\ \E l \in {"forkret", "kerneltrap"} : In(c, l)
        /\ Stays \/ \E l \in {"ret", "kernelret", "yield"} : Moves(c, l)
    BY Zenon, <1>8, PanicStays DEF forkret, kerneltrap, Moves
  <2> QED BY Zenon, <1>1, <2>1, StaysOk, MovesOk
<1>9. CASE resume(c)
  <2>1. In(c, "resume") /\ (Stays \/ Moves(c, then[cur[c]]))
    BY Zenon, <1>9, PanicStays DEF resume, Moves
  <2>2. at[cur[c]] = "resume" /\ cur[c] \in Procs
    <3>1. at[cur[c]] = "resume"
      BY Zenon, <2>1 DEF In
    <3> QED BY <1>2, <3>1 DEF CpuInv
  <2>3. then[cur[c]] # "myproc"
    BY <1>2, <2>2 DEF ThreadInv
  <2> QED BY Zenon, <1>1, <2>1, <2>3, StaysOk, MovesOk
<1>10. CASE kernelret(c)
  <2>1. In(c, "kernelret") /\ Moves(c, stk[cur[c]][Len(stk[cur[c]])].at)
    BY Zenon, <1>10 DEF kernelret, Moves
  <2>2. Len(stk[cur[c]]) = 1 /\ stk[cur[c]] \in Seq(Frames)
    <3>1. Interrupted(c, cur[c])
      BY Zenon, <2>1, AtInterrupted
    <3> QED BY Zenon, <3>1 DEF Interrupted
  <2>3. stk[cur[c]][Len(stk[cur[c]])] \in Frames
    BY Zenon, <2>2, TopFrame
  <2>4. stk[cur[c]][Len(stk[cur[c]])].at # "myproc"
    BY <2>3 DEF Frames, Open
  <2> QED BY Zenon, <1>1, <2>1, <2>4, MovesOk
<1> QED BY Zenon, <1>3, <1>4, <1>5, <1>6, <1>7, <1>8, <1>9, <1>10
LEMMA SelfMyproc ==
  ASSUME TInv, SelfInv, NEW c \in Cpus, myproc(c) \/ MyprocRead(c)
  PROVE  SelfInv'
<1>1. PICK t \in Threads : t = cur[c]
  BY Zenon, RunsOwn
<1>2. PICK l \in {"syscall", "myproc"} : In(c, l)
  BY Zenon DEF myproc, MyprocRead
<1>3. /\ at[t] # "back" /\ Me(c) = c /\ Plain(c, t)
      /\ at \in [Threads -> Labels] /\ mine \in [Threads -> Cpus \cup {Nobody}]
  <2>1. Plain(c, t)
    BY Zenon, <1>1, <1>2, AtPlain
  <2>2. at[t] # "back"
    BY <1>1, <1>2 DEF In
  <2>3. Me(c) = c /\ TTypes
    BY Zenon, <2>1 DEF Plain
  <2> QED BY Zenon, <2>1, <2>2, <2>3 DEF TTypes, SelfInv, SelfTypes
<1>4. ASSUME NEW m \in Labels, NEW n \in {c, Nobody}, m = "myproc" => n = c, m # "back",
             at' = [at EXCEPT ![t] = m], mine' = [mine EXCEPT ![t] = n], UNCHANGED <<cur, proc>>
      PROVE  SelfInv'
  <2>1. at'[t] = m /\ mine'[t] = n /\ cur'[c] = t
    BY Zenon, <1>1, <1>3, <1>4
  <2>2. SelfCpu(c)'
    <3>1. t \in Procs /\ t # c
      BY Zenon, <1>3 DEF Plain
    <3> QED BY Zenon, <1>1, <1>4, <2>1, <3>1 DEF SelfInv, SelfCpu
  <2>3. ASSUME NEW d \in Cpus, d # c PROVE SelfSame(d)
    BY Zenon, <1>1, <1>3, <1>4, <2>3, OtherThread DEF SelfSame
  <2>4. SelfTypes'
    BY Zenon, <1>3, <1>4 DEF SelfInv, SelfTypes
  <2> QED BY Zenon, <2>2, <2>3, <2>4, SelfLocal
<1>5. CASE myproc(c)
  <2>1. /\ at' = [at EXCEPT ![t] = "myproc"] /\ mine' = [mine EXCEPT ![t] = c]
        /\ UNCHANGED <<cur, proc>>
    BY Zenon, <1>1, <1>3, <1>5 DEF myproc, Goto, Set
  <2>2. "myproc" \in Labels
    BY DEF Labels, Dark
  <2> QED BY Zenon, <1>4, <2>1, <2>2
<1>6. CASE MyprocRead(c)
  <2>1. \/ Stays
        \/ /\ at' = [at EXCEPT ![t] = "syscall"] /\ mine' = [mine EXCEPT ![t] = Nobody]
           /\ UNCHANGED <<cur, proc>>
    BY Zenon, <1>1, <1>6, PanicStays DEF MyprocRead, Goto, Set
  <2>2. "syscall" \in Labels
    BY DEF Labels, Open
  <2> QED BY Zenon, <1>4, <2>1, <2>2, StaysOk
<1> QED BY Zenon, <1>5, <1>6

(* A switch changes c->proc along with the thread. *)
LEMMA SelfSwitch ==
  ASSUME TInv, SelfInv, NEW c \in Cpus, NEW p \in Procs, Switch(c, p)
  PROVE  SelfInv'
<1>1. In(c, "loop")
  BY Zenon DEF Switch
<1>2. cur[c] = c /\ Me(c) = c
  <2>1. Me(c) = c /\ (cur[c] = c <=> "loop" \in {"loop", "back"} \/ ("loop" \in {"kerneltrap", "kernelret"} /\ cur[c] \notin Procs))
    BY ZenonT(30), <1>1, InFacts
  <2> QED BY Zenon, <2>1
<1>3. /\ at' = [at EXCEPT ![c] = "away", ![p] = IF @ = "away" THEN "resume" ELSE @]
      /\ cur' = [cur EXCEPT ![c] = p] /\ proc' = [proc EXCEPT ![c] = p] /\ UNCHANGED mine
      /\ at[p] \in {"away", "forkret"} /\ \A d \in Cpus : cur[d] # p
  BY Zenon, <1>2 DEF Switch, Set
<1>4. /\ at \in [Threads -> Labels] /\ cur \in [Cpus -> Threads] /\ SelfTypes
      /\ c \in Threads /\ p \in Threads /\ c # p /\ p # Nobody
  BY Zenon, Distinct DEF TInv, TTypes, SelfInv
<1>5. cur'[c] = p /\ proc'[c] = p
  BY Zenon, <1>3, <1>4 DEF SelfTypes
<1>6. at'[p] # "myproc"
  BY <1>3, <1>4
<1>7. SelfCpu(c)'
  BY Zenon, <1>4, <1>5, <1>6 DEF SelfCpu
<1>8. ASSUME NEW d \in Cpus, d # c PROVE SelfSame(d)
  <2>1. d # p /\ cur[d] # p /\ cur[d] # c /\ cur[d] \in Threads /\ d \in Threads
    BY Zenon, <1>3, <1>8, OtherThread, Distinct
  <2>2. cur'[d] = cur[d] /\ proc'[d] = proc[d]
    BY Zenon, <1>3, <1>4, <1>8 DEF SelfTypes
  <2>3. at'[d] = at[d] /\ at'[cur[d]] = at[cur[d]]
    BY <1>3, <1>4, <1>8, <2>1
  <2> QED BY Zenon, <1>3, <2>2, <2>3 DEF SelfSame
<1>9. SelfTypes'
  BY Zenon, <1>3, <1>4 DEF SelfTypes
<1> QED BY Zenon, <1>7, <1>8, <1>9, SelfLocal

LEMMA SelfSched ==
  ASSUME TInv, SelfInv, NEW c \in Cpus, sched(c)
  PROVE  SelfInv'
<1>1. In(c, "sched")
  BY Zenon DEF sched
<1>2. PICK t \in Threads : t = cur[c]
  BY Zenon, RunsOwn
<1>3. t \in Procs /\ Me(c) = c
  <2>1. Locked(c, t)
    BY Zenon, <1>1, <1>2, AtSwitching DEF Switching
  <2> QED BY Zenon, <2>1 DEF Locked
<1>4. /\ at \in [Threads -> Labels] /\ cur \in [Cpus -> Threads] /\ SelfTypes
      /\ c \in Threads /\ c # t /\ c \notin Procs
  BY Zenon, <1>3, Distinct DEF TInv, TTypes, SelfInv
<1>5. \/ Stays
      \/ /\ at' = [at EXCEPT ![t] = "away", ![c] = "back"]
         /\ cur' = [cur EXCEPT ![c] = c] /\ UNCHANGED <<proc, mine>>
  BY Zenon, <1>2, <1>3, PanicStays DEF sched, Set, self
<1>6. CASE /\ at' = [at EXCEPT ![t] = "away", ![c] = "back"]
           /\ cur' = [cur EXCEPT ![c] = c] /\ UNCHANGED <<proc, mine>>
  <2>1. cur'[c] = c /\ at'[c] = "back"
    BY <1>4, <1>6
  <2>2. SelfCpu(c)'
    BY Zenon, <1>4, <2>1 DEF SelfCpu
  <2>3. ASSUME NEW d \in Cpus, d # c PROVE SelfSame(d)
    <3>1. d # t /\ cur[d] # t /\ cur[d] # c /\ cur[d] \in Threads /\ d \in Threads
      BY Zenon, <1>2, <2>3, OtherThread
    <3>2. cur'[d] = cur[d]
      BY Zenon, <1>4, <1>6, <2>3
    <3>3. at'[d] = at[d] /\ at'[cur[d]] = at[cur[d]]
      BY <1>4, <1>6, <2>3, <3>1
    <3> QED BY Zenon, <1>6, <3>2, <3>3 DEF SelfSame
  <2>4. SelfTypes'
    BY Zenon, <1>4, <1>6 DEF SelfTypes
  <2> QED BY Zenon, <2>2, <2>3, <2>4, SelfLocal
<1> QED BY Zenon, <1>5, <1>6, StaysOk

LEMMA SelfBack ==
  ASSUME TInv, SelfInv, NEW c \in Cpus, Back(c)
  PROVE  SelfInv'
<1>1. In(c, "back")
  BY Zenon DEF Back
<1>2. cur[c] = c /\ Me(c) = c
  <2>1. Me(c) = c /\ (cur[c] = c <=> "back" \in {"loop", "back"} \/ ("back" \in {"kerneltrap", "kernelret"} /\ cur[c] \notin Procs))
    BY ZenonT(30), <1>1, InFacts
  <2> QED BY Zenon, <2>1
<1>3. PICK p \in Procs :
      /\ plock[p] = c
      /\ \/ Stays
         \/ /\ at' = [at EXCEPT ![c] = "loop", ![p] = IF then[p] = "unused" THEN "unused" ELSE @]
            /\ proc' = [proc EXCEPT ![c] = Nobody] /\ UNCHANGED <<cur, mine>>
  BY Zenon, <1>2, PanicStays DEF Back, Set
<1>4. /\ at \in [Threads -> Labels] /\ cur \in [Cpus -> Threads] /\ SelfTypes
      /\ c \in Threads /\ p \in Threads /\ c # p /\ c \notin Procs /\ c # Nobody
  BY Zenon, Distinct DEF TInv, TTypes, SelfInv
<1>5. at[p] = "away"
  <2>1. LockInv(p)
    BY Zenon DEF TInv
  <2> QED BY Zenon, <1>2, <1>3, <1>4, <2>1 DEF LockInv
<1>6. CASE /\ at' = [at EXCEPT ![c] = "loop", ![p] = IF then[p] = "unused" THEN "unused" ELSE @]
           /\ proc' = [proc EXCEPT ![c] = Nobody] /\ UNCHANGED <<cur, mine>>
  <2>1. cur'[c] = c /\ at'[c] = "loop" /\ proc'[c] = Nobody
    BY <1>2, <1>4, <1>6 DEF SelfTypes
  <2>2. SelfCpu(c)'
    BY Zenon, <1>4, <2>1 DEF SelfCpu
  <2>3. ASSUME NEW d \in Cpus, d # c PROVE SelfSame(d)
    <3>1. cur[d] # c /\ cur[d] \in Threads /\ d \in Threads /\ d # p /\ CpuInv(d)
      BY Zenon, <2>3, OtherThread, Distinct, RunsOwn
    <3>2. cur[d] # p
      BY Zenon, <1>5, <3>1 DEF CpuInv
    <3>3. proc'[d] = proc[d]
      BY Zenon, <1>4, <1>6, <2>3 DEF SelfTypes
    <3>4. at'[d] = at[d] /\ at'[cur[d]] = at[cur[d]]
      BY <1>4, <1>6, <2>3, <3>1, <3>2
    <3> QED BY Zenon, <1>6, <3>3, <3>4 DEF SelfSame
  <2>4. SelfTypes'
    BY Zenon, <1>4, <1>6 DEF SelfTypes
  <2> QED BY Zenon, <2>2, <2>3, <2>4, SelfLocal
<1> QED BY Zenon, <1>3, <1>6, StaysOk

LEMMA SelfFork ==
  ASSUME TInv, SelfInv, NEW p \in Procs, fork(p)
  PROVE  SelfInv'
<1>1. /\ at[p] = "unused" /\ at' = [at EXCEPT ![p] = "forkret"]
      /\ cur' = cur /\ proc' = proc /\ mine' = mine
  BY Zenon DEF fork, Set, self
<1>2. ASSUME NEW d \in Cpus PROVE SelfCpu(d)'
  <2>1. cur[d] \in Threads /\ d \in Threads /\ d # p /\ CpuInv(d) /\ SelfCpu(d)
    BY Zenon, Distinct, RunsOwn DEF SelfInv
  <2>2. cur[d] # p
    BY Zenon, <1>1, <2>1 DEF CpuInv
  <2>3. at'[d] = at[d] /\ at'[cur[d]] = at[cur[d]]
    <3>1. at \in [Threads -> Labels]
      BY Zenon DEF TInv, TTypes
    <3> QED BY Zenon, <1>1, <2>1, <2>2, <3>1
  <2> QED BY Zenon, <1>1, <2>1, <2>3 DEF SelfCpu
<1> QED BY Zenon, <1>1, <1>2 DEF SelfInv, SelfTypes
-----------------------------------------------------------------------------
LEMMA TrapInit == Init => TInv /\ SelfInv
<1> SUFFICES ASSUME Init PROVE TInv /\ SelfInv
  OBVIOUS
<1>1. PICK p \in Procs : at = [t \in Threads |-> IF t \in Cpus THEN "loop"
                                                 ELSE IF t = p THEN "forkret" ELSE "unused"]
  BY Zenon DEF Init
<1>2. /\ \A c \in Cpus : at[c] = "loop"
      /\ \A q \in Procs : at[q] \in {"forkret", "unused"}
  BY <1>1, Distinct
<1>3. TTypes
  <2>1. at \in [Threads -> Labels]
    BY <1>1 DEF Labels, Dark, Open
  <2>2. cur \in [Cpus -> Threads] /\ tp \in [Cpus -> Cpus \cup {Nobody}]
    BY Distinct DEF Init
  <2>3. stk \in [Threads -> Seq(Frames)] /\ locks \in [Threads -> Nat] /\ noff \in [Cpus -> Nat]
    BY DEF Init
  <2>4. /\ mode \in [Cpus -> Modes] /\ sie \in [Cpus -> BOOLEAN] /\ spp \in [Cpus -> Modes]
        /\ spie \in [Cpus -> BOOLEAN] /\ stvec \in [Cpus -> {"uservec", "kernelvec"}]
        /\ intena \in [Cpus -> BOOLEAN] /\ saved \in [Threads -> BOOLEAN]
    BY DEF Init, Modes
  <2>5. /\ hartid \in [Procs -> Cpus \cup {Nobody}] /\ plock \in [Procs -> Cpus \cup {Nobody}]
        /\ IsOn(sepc, Cpus) /\ IsOn(scause, Cpus) /\ IsOn(then, Threads) /\ IsOn(epc, Procs) /\ IsOn(upc, Procs)
    BY DEF Init, IsOn
  <2> QED BY Zenon, <2>1, <2>2, <2>3, <2>4, <2>5 DEF TTypes
<1>4. ASSUME NEW c \in Cpus
      PROVE  CpuInv(c)
  <2>1. /\ cur[c] = c /\ at[c] = "loop" /\ mode[c] = "kernel" /\ sie[c] = FALSE /\ tp[c] = c
        /\ stvec[c] = "kernelvec" /\ noff[c] = 0 /\ locks[c] = 0
    BY <1>2, Distinct DEF Init
  <2> QED BY <2>1 DEF CpuInv, Switching, Dark
<1>5. ASSUME NEW t \in Threads
      PROVE  ThreadInv(t)
  <2>1. locks[t] = 0 /\ stk[t] = <<>> /\ at[t] \in {"loop", "forkret", "unused"}
    BY <1>2 DEF Init, Threads
  <2>2. t \in Procs => epc[t] = <<t, upc[t]>>
    BY DEF Init
  <2> QED BY Zenon, <2>1, <2>2 DEF ThreadInv
<1>6. \A q \in Procs : plock[q] = Nobody /\ LockInv(q)
  BY DEF Init, LockInv
<1>7. /\ \A c, d \in Cpus : c # d => cur[c] # cur[d]
      /\ \A q \in Procs : (\A c \in Cpus : cur[c] # q) => at[q] \in {"unused", "forkret", "away"}
  BY <1>2 DEF Init
<1>8. panic = "none" /\ ~astray
  BY Zenon DEF Init
<1>9. SelfInv
  BY <1>2, Distinct DEF Init, SelfInv, SelfTypes, SelfCpu
<1> QED BY Zenon, <1>3, <1>4, <1>5, <1>6, <1>7, <1>8, <1>9 DEF TInv

LEMMA SelfNext ==
  ASSUME TInv, SelfInv, [Next]_vars
  PROVE  SelfInv'
<1>1. CASE UNCHANGED vars
  <2>1. Stays
    BY Zenon, <1>1 DEF vars, thread, self, Stays
  <2> QED BY Zenon, <2>1, StaysOk
<1>2. CASE Next
  BY Zenon, <1>2, SelfMoves, SelfMyproc, SelfSwitch, SelfSched, SelfBack, SelfFork DEF Next
<1> QED BY Zenon, <1>1, <1>2

LEMMA TrapNext == TInv /\ SelfInv /\ [Next]_vars => TInv' /\ SelfInv'
<1> SUFFICES ASSUME TInv, SelfInv, [Next]_vars PROVE TInv'
  BY Zenon, SelfNext
<1>1. CASE UNCHANGED vars
  <2>1. /\ cur' = cur /\ mode' = mode /\ sie' = sie /\ spp' = spp /\ spie' = spie /\ sepc' = sepc
        /\ scause' = scause /\ stvec' = stvec /\ tp' = tp /\ noff' = noff /\ intena' = intena
        /\ at' = at /\ locks' = locks /\ stk' = stk /\ then' = then /\ saved' = saved
        /\ epc' = epc /\ hartid' = hartid /\ upc' = upc /\ plock' = plock /\ astray' = astray /\ panic' = panic
    BY Zenon, <1>1 DEF vars, csrs, cpu, thread, frame
  <2>2. TTypes'
    BY Zenon, <2>1 DEF TInv, TTypes, IsOn
  <2>3. ASSUME NEW c \in Cpus PROVE CpuInv(c)'
    <3>1. CpuInv(c)
      BY Zenon DEF TInv
    <3> QED BY Zenon, <2>1, <3>1 DEF CpuInv, SavedEpc
  <2>4. ASSUME NEW t \in Threads PROVE ThreadInv(t)'
    <3>1. ThreadInv(t)
      BY Zenon DEF TInv
    <3> QED BY Zenon, <2>1, <3>1 DEF ThreadInv
  <2>5. ASSUME NEW p \in Procs PROVE LockInv(p)'
    <3>1. LockInv(p)
      BY Zenon DEF TInv
    <3> QED BY Zenon, <2>1, <3>1 DEF LockInv
  <2> QED BY Zenon, <2>1, <2>2, <2>3, <2>4, <2>5 DEF TInv
<1>2. ASSUME NEW c \in Cpus, \/ \E why \in Causes : UserTrap(c, why)
                             \/ \E why \in Causes \cap {"timer", "device"} : KernelTrap(c, why)
                             \/ kerneltrap(c) \/ kernelret(c) \/ usertrap(c) \/ usertrapret(c) \/ userret(c)
      PROVE  TInv'
  BY Zenon, <1>2, UserTrapOk, KernelTrapOk, KerneltrapOk, KernelretOk, UsertrapOk, UsertrapretOk, UserretOk
<1>3. ASSUME NEW c \in Cpus, \/ acquire(c) \/ release(c) \/ sleep(c) \/ relock(c) \/ SyscallDone(c)
                             \/ myproc(c) \/ MyprocRead(c) \/ yield(c)
      PROVE  TInv'
  BY Zenon, <1>3, AcquireOk, ReleaseOk, SleepOk, RelockOk, SyscallDoneOk, MyprocOk, MyprocReadOk, YieldOk
<1>4. ASSUME NEW c \in Cpus, \/ sched(c) \/ resume(c) \/ forkret(c) \/ intr_on(c) \/ Back(c)
                             \/ \E p \in Procs : Switch(c, p)
      PROVE  TInv'
  BY Zenon, <1>4, SchedOk, ResumeOk, ForkretOk, IntrOnOk, BackOk, SwitchOk
<1>5. ASSUME NEW p \in Procs, fork(p)
      PROVE  TInv'
  BY Zenon, <1>5, ForkOk
<1> QED BY Zenon, <1>1, <1>2, <1>3, <1>4, <1>5 DEF Next

(* The registers of every CPU, the stack of every thread and the holder of *)
(* every p->lock fit where the threads are, and so do c->proc and the c of *)
(* myproc.                                                                 *)
THEOREM TrapInvariant == Spec => [](TInv /\ SelfInv)
BY TrapInit, TrapNext, PTL DEF Spec

(* usertrap, kerneltrap, sched, release and pop_off never panic, and no    *)
(* trap goes through the vector of the other mode.                         *)
THEOREM TrapNoPanic == Spec => []NoPanic
<1>1. TInv => NoPanic
  BY Zenon DEF TInv, NoPanic
<1> QED BY <1>1, TrapInvariant, PTL

(* Every return from a trap goes to where that trap came from.             *)
THEOREM TrapResumesRight == Spec => []ResumesRight
<1>1. TInv => ResumesRight
  BY Zenon DEF TInv, ResumesRight
<1> QED BY <1>1, TrapInvariant, PTL

(* myproc returns the process that called it, whatever interrupts and      *)
(* switches happen around it.                                              *)
THEOREM TrapMyprocRight == Spec => []MyprocRight
<1>1. ASSUME TInv, SelfInv PROVE MyprocRight
  <2>1. ASSUME NEW c \in Cpus, at[cur[c]] = "myproc"
        PROVE  proc[mine[cur[c]]] = cur[c]
    <3>1. CpuInv(c) /\ SelfCpu(c)
      BY Zenon, <1>1 DEF TInv, SelfInv
    <3>2. cur[c] \in Procs
      BY <2>1, <3>1 DEF CpuInv
    <3> QED BY Zenon, <2>1, <3>1, <3>2 DEF SelfCpu
  <2> QED BY Zenon, <2>1 DEF MyprocRight
<1> QED BY <1>1, TrapInvariant, PTL

(* push_off and pop_off keep interrupts off exactly while locks are held,  *)
(* and a kernel stack holds one interrupt at a time.                       *)
THEOREM TrapInterruptsOff == Spec => []InterruptsOff
<1>1. ASSUME TInv PROVE InterruptsOff
  <2>1. ASSUME NEW c \in Cpus, mode[c] = "kernel"
        PROVE  /\ tp[c] = c /\ noff[c] = Held(c) /\ (noff[c] > 0 => ~sie[c])
               /\ at[cur[c]] \in {"syscall", "relock"} /\ noff[c] = 0 => sie[c]
    <3>1. PICK t \in Threads : t = cur[c]
      BY Zenon, <1>1, RunsOwn
    <3>2. /\ TTypes /\ CpuInv(c) /\ ThreadInv(t) /\ noff[c] \in Nat /\ locks[t] \in Nat
          /\ t = c \/ (t \in Procs /\ t # c /\ t \notin Cpus)
      BY Zenon, <1>1, <3>1, RunsOwn, Distinct DEF TInv, TTypes
    <3>3. at[t] # "user" /\ tp[c] = c
      BY <2>1, <3>1, <3>2 DEF CpuInv
    <3>4. CASE at[t] = "back"
      <4>1. t = c /\ noff[c] = 1 /\ ~sie[c] /\ \E p \in Procs : plock[p] = c
        BY <3>1, <3>2, <3>4 DEF CpuInv, Dark
      <4>2. Held(c) = 1
        BY Zenon, <3>1, <4>1 DEF Held
      <4> QED BY <3>1, <3>3, <3>4, <4>1, <4>2
    <3>5. CASE at[t] \in Switching
      <4>1. t # c /\ plock[t] = c /\ noff[c] = 1 /\ ~sie[c] /\ locks[t] = 0
            /\ at[t] \notin {"syscall", "relock"}
        BY <3>1, <3>2, <3>5 DEF CpuInv, ThreadInv, Switching, Dark
      <4>2. Held(c) = locks[t] + 1
        BY Zenon, <3>1, <3>2, <4>1 DEF Held
      <4>3. locks[t] + 1 = 1
        BY <4>1
      <4> QED BY Zenon, <3>1, <3>3, <4>1, <4>2, <4>3
    <3>6. CASE at[t] # "back" /\ at[t] \notin Switching
      <4>1. noff[c] = locks[t]
        BY <3>1, <3>2, <3>6 DEF CpuInv
      <4>2. \A p \in Procs : plock[p] # c
        BY Zenon, <1>1, <3>1, <3>6, HoldsHere
      <4>3. Held(c) = locks[t]
        <5>1. CASE t = c
          <6>1. locks[t] = 0
            BY <3>1, <3>2, <5>1 DEF CpuInv, ThreadInv
          <6> QED BY Zenon, <3>1, <4>2, <5>1, <6>1 DEF Held
        <5>2. CASE t # c
          <6>1. Held(c) = locks[t] + 0
            BY Zenon, <3>1, <3>2, <4>2, <5>2 DEF Held
          <6> QED BY <3>2, <6>1
        <5> QED BY Zenon, <5>1, <5>2
      <4>4. noff[c] > 0 => ~sie[c]
        <5>1. noff[c] > 0 => at[t] \in {"syscall", "myproc"} /\ noff[c] # 0
          <6>1. locks[t] # 0 => at[t] \in {"syscall", "myproc"}
            BY Zenon, <3>2 DEF ThreadInv
          <6>2. noff[c] \in Nat
            BY Zenon, <3>2
          <6>3. noff[c] > 0 => noff[c] # 0
            BY <6>2
          <6> QED BY Zenon, <4>1, <6>1, <6>3
        <5>2. at[t] \in {"syscall", "myproc"} => (sie[c] <=> noff[c] = 0)
          BY Zenon, <3>1, <3>2 DEF CpuInv
        <5> QED BY Zenon, <5>1, <5>2
      <4>5. at[t] \in {"syscall", "relock"} /\ noff[c] = 0 => sie[c]
        BY Zenon, <3>1, <3>2 DEF CpuInv
      <4> QED BY Zenon, <3>1, <3>3, <4>1, <4>3, <4>4, <4>5
    <3> QED BY Zenon, <3>4, <3>5, <3>6
  <2>2. \A t \in Threads : Len(stk[t]) <= 1
    <3> TAKE t \in Threads
    <3>1. ThreadInv(t)
      BY Zenon, <1>1 DEF TInv
    <3>2. stk[t] = <<>> \/ Len(stk[t]) = 1
      BY Zenon, <3>1 DEF ThreadInv
    <3>3. Len(<<>>) = 0
      OBVIOUS
    <3>4. PICK n \in {0, 1} : n = Len(stk[t])
      BY Zenon, <3>2, <3>3
    <3>5. n <= 1
      OBVIOUS
    <3> QED BY Zenon, <3>4, <3>5
  <2> QED BY Zenon, <2>1, <2>2 DEF InterruptsOff
<1> QED BY <1>1, TrapInvariant, PTL
=============================================================================
