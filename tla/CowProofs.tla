----------------------------- MODULE CowProofs ------------------------------
(***************************************************************************)
(* The pages and the address spaces of module Cow, for any number of       *)
(* processes and pages, any size of the address spaces and any image.      *)
(* IInv is the inductive invariant.  Its types come first, then Control,   *)
(* which follows the program counters and the owners of the pages, then    *)
(* the pages: the counts of refcnt are exact, the pages of the free list   *)
(* are counted by nobody, and a page just allocated is referred to once.   *)
(* SpaceInv, inductive given IInv, is the shape of the address spaces:     *)
(* every table maps exactly the pages that its call has got to, and none   *)
(* of the panics of vm.c and kalloc.c is reached.  The theorems follow.    *)
(* A lemma named Kept has a step for each fact that only its actions need. *)
(***************************************************************************)
EXTENDS Cow, SetFacts, TLAPS

USE Zenon

(* The locals ka and pa hold a page exactly between the step that takes    *)
(* the count and the step that hands it on, and the loop variable is then  *)
(* a page of the address space.                                            *)
LocalsInv ==
  \A p \in Procs :
    /\ held[Ka(p)] # NoPage <=> pc[p] \in {"loadmap", "cowcopy"}
    /\ held[Pa(p)] # NoPage <=> pc[p] \in {"copymap", "cowdecr"}
    /\ pc[p] \in {"loadmap", "copymap", "cow", "cowcopy", "cowdecr"} => idx[p] \in VPages
    /\ pc[p] \in {"cow", "cowcopy"} => Mapped(WorkPte(p))

(* A page just allocated for a PTE is referred to by nothing else. *)
KaPrivate ==
  \A p \in Procs : held[Ka(p)] # NoPage =>
    /\ \A e \in PTE : map[e] # held[Ka(p)]
    /\ \A h \in Held : held[h] = held[Ka(p)] => h = Ka(p)

ForkLabels == {"alloc", "copy", "copymap", "unmap", "freetf", "tables"}
LoadLabels == {"load", "loadmap", "unmap", "tables"}
WorkLabels == LoadLabels \cup {"alloc", "copy", "copymap", "freetf"}

(* A call works on p's current table, except exec, which works on the      *)
(* other one; outside exec the other table has no pages.                   *)
TablesInv ==
  \A p \in Procs :
    /\ pc[p] \in WorkLabels /\ ret[p] = "exec" => tb[p] = 1 - cur[p]
    /\ pc[p] \in WorkLabels /\ ret[p] # "exec" => tb[p] = cur[p]
    /\ held[High(p, 1 - cur[p])] # NoPage => ret[p] = "exec" /\ pc[p] \in LoadLabels
    /\ pc[p] = "unused" => held[High(p, cur[p])] = NoPage
    /\ pc[p] = "alloc" => held[High(p, tb[p])] = NoPage
    /\ pc[p] = "freetf" => ret[p] # "exec"

Forking(c) == ret[c] = "fork" /\ pc[c] \in ForkLabels

(* A slot under construction belongs to one process, which waits in fork. *)
ForkInv ==
  /\ \A c \in Procs :
       /\ pc[c] \in {"copy", "copymap"} => ret[c] = "fork"
       /\ pc[c] \in {"load", "loadmap"} => ret[c] # "fork"
       /\ Forking(c) => pc[par[c]] = "forking"
  /\ \A c, d \in Procs : Forking(c) /\ Forking(d) /\ par[c] = par[d] => c = d

(* The part of FreePagesUnused that does not follow from RefCount. *)
FreeInv ==
  /\ \A i, j \in 1 .. Len(freelist) : freelist[i] = freelist[j] => i = j
  /\ \A i \in 1 .. Len(freelist) : refcnt[freelist[i]] = 0
  /\ \A i \in 1 .. Len(freelist), p \in Procs : freeing[p] # freelist[i]
  /\ \A p \in Procs : freeing[p] # NoPage => refcnt[freeing[p]] = 0
  /\ \A p, q \in Procs : freeing[p] # NoPage /\ freeing[p] = freeing[q] => p = q

(* The inductive invariant. *)
IInv == /\ TypeOK /\ RefCount /\ FreeInv /\ SingleOwner
        /\ LocalsInv /\ KaPrivate /\ TablesInv /\ ForkInv
-----------------------------------------------------------------------------
(* The kernel slots are slots, and different ones. *)
LEMMA SlotTypes ==
  ASSUME NEW p \in Procs
  PROVE  /\ Tf(p) \in Held /\ Ka(p) \in Held /\ Pa(p) \in Held
         /\ \A b \in Tables : Root(p, b) \in Held /\ High(p, b) \in Held
         /\ \A b \in Tables, v \in VPages : Leaf(p, b, v) \in Held
<1>1. Tf(p) \in Held /\ Ka(p) \in Held /\ Pa(p) \in Held
  BY SMT DEF Tf, Ka, Pa, Held, KSlots
<1>2. \A b \in Tables : Root(p, b) \in Held /\ High(p, b) \in Held
  BY SMT DEF Root, High, Held, KSlots
<1>3. ASSUME NEW b \in Tables, NEW v \in VPages PROVE Leaf(p, b, v) \in Held
  <2>1. v \div PTSpan \in Leaves
    BY SMT, CowAssumption DEF VPages, Leaves
  <2> QED BY SMT, <2>1 DEF Leaf, Held, KSlots
<1> QED BY <1>1, <1>2, <1>3

LEMMA SlotsDiffer ==
  ASSUME NEW p \in Procs, NEW q \in Procs
  PROVE  /\ Ka(p) # Pa(q) /\ Ka(p) # Tf(q) /\ Pa(p) # Tf(q)
         /\ (Ka(p) = Ka(q) \/ Pa(p) = Pa(q) \/ Tf(p) = Tf(q)) => p = q
         /\ \A b \in Tables :
              /\ Root(p, b) \notin {Ka(q), Pa(q), Tf(q)}
              /\ High(p, b) \notin {Ka(q), Pa(q), Tf(q)}
              /\ \A a \in Tables :
                   Root(p, a) # High(q, b) /\ (High(p, a) = High(q, b) => p = q /\ a = b)
              /\ \A v \in VPages, a \in Tables :
                   Leaf(p, b, v) \notin {Ka(q), Pa(q), Tf(q), High(q, a), Root(q, a)}
BY DEF Tf, Ka, Pa, Root, High, Leaf, Slot

(* A sequence without its last element. *)
IsButLast(S, s, t) ==
  /\ t \in Seq(S)
  /\ Len(t) = Len(s) - 1
  /\ \A i \in 1 .. Len(t) : t[i] = s[i] /\ i \in 1 .. Len(s)

LEMMA ButLast ==
  ASSUME NEW S, NEW s \in Seq(S), s # <<>>, NEW t, t = SubSeq(s, 1, Len(s) - 1)
  PROVE  IsButLast(S, s, t)
<1>1. Len(s) \in Nat /\ Len(s) >= 1 /\ \A i \in 1 .. Len(s) - 1 : s[i] \in S
  BY SMT
<1> DEFINE n == Len(s) - 1
<1>2. n \in Nat /\ 1 \in Int /\ n \in Int
  BY SMT, <1>1
<1>3. /\ t \in Seq(S)
      /\ Len(t) = IF 1 <= n THEN n - 1 + 1 ELSE 0
      /\ \A i \in 1 .. n - 1 + 1 : t[i] = s[1 + i - 1]
  BY SMT, <1>1, <1>2
<1>4. Len(t) = n
  <2> HIDE DEF n
  <2> QED BY SMT, <1>2, <1>3
<1>5. \A i \in 1 .. Len(t) : t[i] = s[i] /\ i \in 1 .. Len(s)
  BY SMT, <1>1, <1>3, <1>4
<1> QED BY <1>3, <1>4, <1>5 DEF IsButLast
(* The PTE and the slots an action works on. *)
LEMMA WorkTypes ==
  ASSUME TypeOK, LocalsInv, NEW p \in Procs
  PROVE  /\ pc[p] \in {"loadmap", "copymap", "cow", "cowcopy", "cowdecr"} =>
              WorkPte(p) \in PTE /\ Leaf(p, tb[p], idx[p]) \in Held
         /\ idx[p] < lim[p] => WorkPte(p) \in PTE /\ CopyFrom(p) \in PTE
         /\ \A v \in VPages : Pte(p, v) \in PTE
         /\ NextKernPage(p) \in Held
         /\ TablePages(p, tb[p]) \subseteq Held
<1>1. tb[p] \in Tables /\ idx[p] \in 0 .. NV /\ lim[p] \in 0 .. NV /\ cur[p] \in Tables
      /\ par[p] \in Procs /\ cur[par[p]] \in Tables
  BY DEF TypeOK
<1>2. idx[p] < lim[p] => idx[p] \in VPages
  BY SMT, <1>1, CowAssumption DEF VPages
<1>3. pc[p] \in {"loadmap", "copymap", "cow", "cowcopy", "cowdecr"} => idx[p] \in VPages
  BY DEF LocalsInv
<1>4. idx[p] \in VPages => WorkPte(p) \in PTE /\ Leaf(p, tb[p], idx[p]) \in Held
  BY <1>1, SlotTypes DEF WorkPte, PTE
<1>5. idx[p] \in VPages => CopyFrom(p) \in PTE
  BY <1>1 DEF CopyFrom, Pte, PTE
<1>6. \A v \in VPages : Pte(p, v) \in PTE
  BY <1>1 DEF Pte, PTE
<1>7. NextKernPage(p) \in Held
  BY <1>1, SlotTypes DEF NextKernPage
<1>8. TablePages(p, tb[p]) \subseteq Held
  BY SMT, <1>1, SlotTypes DEF TablePages, Held, KSlots
<1> QED BY <1>2, <1>3, <1>4, <1>5, <1>6, <1>7, <1>8

-----------------------------------------------------------------------------
PcTypeOK ==
  /\ pc \in [Procs -> Labels] /\ ret \in [Procs -> Calls]
  /\ tb \in [Procs -> Tables]
  /\ idx \in [Procs -> 0 .. NV] /\ lim \in [Procs -> 0 .. NV]
  /\ val \in [Procs -> Val]
  /\ par \in [Procs -> Procs]

LEMMA KallocType ==
  ASSUME TypeOK, NEW x \in Val \cup {Junk}, kalloc(x)
  PROVE  KallocTypeOK' /\ Top \in Pages
<1>1. freelist # <<>> /\ freelist \in Seq(Pages)
  BY DEF kalloc, KallocFails, TypeOK, KallocTypeOK
<1>2. Len(freelist) \in 1 .. Len(freelist)
  BY SMT, <1>1
<1>3. Top \in Pages
  BY SMT, <1>1, <1>2 DEF Top
<1>4. IsButLast(Pages, freelist, freelist')
  BY <1>1, ButLast DEF kalloc
<1>5. freelist' \in Seq(Pages)
  BY <1>4 DEF IsButLast
<1> HIDE DEF Top
<1> QED BY SMT, <1>3, <1>5 DEF kalloc, TypeOK, KallocTypeOK

(* Every action keeps the types. *)
LEMMA TypeKept ==
  TypeOK /\ LocalsInv => \A p \in Procs : Build(p) \/ TearDown(p) \/ CowFault(p) \/ UserStep(p) => TypeOK'
  <1>KfreeType.
      ASSUME TypeOK, NEW p \in Procs, NEW pa \in Pages, kfree(p, pa)
      PROVE  KallocTypeOK'
    <2> USE <1>KfreeType
    <2>1. refcnt' \in [Pages -> Int]
      BY SMT DEF kfree, TypeOK, KallocTypeOK
    <2>2. mem' \in [Pages -> Val \cup {Junk}]
      BY DEF kfree, TypeOK, KallocTypeOK
    <2>3. freeing' \in [Procs -> Pages \cup {NoPage}]
      BY DEF kfree, TypeOK, KallocTypeOK
    <2> QED BY <2>1, <2>2, <2>3 DEF kfree, TypeOK, KallocTypeOK
  <1>SetPteType.
      ASSUME TypeOK, NEW e \in PTE, NEW pa \in Pages \cup {NoPage}, NEW w, NEW u, NEW c,
             SetPte(e, pa, w, u, c)
      PROVE  /\ map' \in [PTE -> Pages \cup {NoPage}]
             /\ W' \subseteq PTE /\ C' \subseteq PTE /\ U' \subseteq PTE
    BY <1>SetPteType DEF TypeOK, SetPte
  <1>LoopType.
      ASSUME TypeOK, NEW p \in Procs, NEW l \in Labels, NEW r \in Calls, NEW b \in Tables,
             NEW lo \in 0 .. NV, NEW hi \in 0 .. NV, Loop(p, l, r, b, lo, hi)
      PROVE  PcTypeOK'
    BY <1>LoopType DEF TypeOK, PcTypeOK, Loop, Goto
  <1>AdvanceType.
      ASSUME TypeOK, NEW p \in Procs, NEW l \in Labels, idx[p] \in VPages, Advance(p, l)
      PROVE  PcTypeOK'
    <2> USE <1>AdvanceType
    <2>1. idx[p] + 1 \in 0 .. NV
      BY SMT, CowAssumption DEF VPages
    <2> QED BY <2>1 DEF TypeOK, PcTypeOK, Advance, Goto
  <1>PanicType.
      ASSUME TypeOK, NEW m \in Messages, Panic(m)
      PROVE  TypeOK'
    BY <1>PanicType DEF TypeOK, KallocTypeOK, Panic, kallocVars, ptVars, pcVars, histVars
  <1>TypeBuild.
      ASSUME TypeOK, LocalsInv, NEW p \in Procs, Build(p)
      PROVE  TypeOK'
    <2> USE <1>TypeBuild
    <2> USE KallocAssumption, CowAssumption DEF At, kallocVars, ptVars, pcVars, histVars
    <2>1. /\ tb[p] \in Tables /\ idx[p] \in 0 .. NV /\ lim[p] \in 0 .. NV /\ par[p] \in Procs
          /\ sz[p] \in 0 .. NV /\ sz[par[p]] \in 0 .. NV /\ cur[p] \in Tables /\ ret[p] \in Calls
          /\ ImageSize \in 0 .. NV /\ 0 \in 0 .. NV
      BY SMT DEF TypeOK
    <2>2. CASE AllocKernPage(p)
      <3>1. KallocTypeOK' /\ Top \in Pages
        BY <2>2, KallocType DEF AllocKernPage
      <3>2. held' \in [Held -> Pages \cup {NoPage}]
        BY <2>2, <3>1, WorkTypes DEF AllocKernPage, TypeOK
      <3>3. PcTypeOK'
        <4>1. CASE UNCHANGED pcVars
          BY <4>1 DEF TypeOK, PcTypeOK
        <4>2. CASE Loop(p, "copy", "fork", tb[p], 0, sz[par[p]])
          BY <2>1, <4>2, <1>LoopType DEF Labels, Calls
        <4>3. CASE Loop(p, "load", ret[p], tb[p], 0, ImageSize)
          BY <2>1, <4>3, <1>LoopType DEF Labels
        <4> QED BY <2>2, <4>1, <4>2, <4>3 DEF AllocKernPage
      <3> QED BY <2>2, <3>1, <3>2, <3>3 DEF AllocKernPage, TypeOK, PcTypeOK
    <2>3. CASE AllocKernPageFails(p)
      <3>1. CASE Panic("kerneltrap")
        BY <3>1, <1>PanicType DEF Messages
      <3>2. CASE ~Panic("kerneltrap")
        BY ZenonT(30), <2>3, <3>2 DEF AllocKernPageFails, Goto, TypeOK, KallocTypeOK, Labels
      <3> QED BY <3>1, <3>2
    <2>4. CASE WalkAlloc(p)
      <3>1. KallocTypeOK' /\ Top \in Pages
        BY <2>4, KallocType DEF WalkAlloc
      <3>2. held' \in [Held -> Pages \cup {NoPage}]
        BY <2>4, <3>1, WorkTypes DEF WalkAlloc, TypeOK
      <3> QED BY <2>4, <3>1, <3>2 DEF WalkAlloc, TypeOK
    <2>5. CASE LoadKalloc(p)
      <3>1. KallocTypeOK' /\ Top \in Pages
        BY <2>5, KallocType DEF LoadKalloc
      <3>2. held' \in [Held -> Pages \cup {NoPage}]
        BY <2>5, <3>1, SlotTypes DEF LoadKalloc, TypeOK
      <3> QED BY <2>5, <3>1, <3>2 DEF LoadKalloc, Goto, Labels, TypeOK
    <2>6. ASSUME LoadUnwind(p)
          PROVE  PcTypeOK'
      BY <2>1, <2>6, <1>LoopType DEF LoadUnwind, Labels
    <2>7. CASE LoadKallocFails(p)
      <3>1. CASE Panic("kerneltrap")
        BY <3>1, <1>PanicType DEF Messages
      <3>2. CASE LoadUnwind(p) /\ UNCHANGED <<kallocVars, ptVars, panic, histVars>>
        BY <2>6, <3>2 DEF TypeOK, PcTypeOK, KallocTypeOK
      <3> QED BY <2>7, <3>1, <3>2 DEF LoadKallocFails
    <2>8. CASE LoadMap(p)
      <3>1. CASE Panic("mappages: remap")
        BY <3>1, <1>PanicType DEF Messages
      <3>2. CASE ~Panic("mappages: remap")
        <4>1. WorkPte(p) \in PTE /\ idx[p] \in VPages /\ held[Ka(p)] \in Pages \cup {NoPage}
          BY <2>8, WorkTypes, SlotTypes DEF LoadMap, LocalsInv, TypeOK
        <4>2. /\ map' \in [PTE -> Pages \cup {NoPage}]
              /\ W' \subseteq PTE /\ C' \subseteq PTE /\ U' \subseteq PTE
          BY <2>8, <3>2, <4>1, <1>SetPteType DEF LoadMap
        <4>3. held' \in [Held -> Pages \cup {NoPage}]
          BY <2>8, <3>2 DEF LoadMap, TypeOK
        <4>4. PcTypeOK'
          BY <2>8, <3>2, <4>1, <1>AdvanceType DEF LoadMap, Labels
        <4> QED BY <2>8, <3>2, <4>2, <4>3, <4>4 DEF LoadMap, TypeOK, PcTypeOK, KallocTypeOK
      <3> QED BY <3>1, <3>2
    <2>9. CASE LoadMapFails(p)
      <3>1. CASE Panic("kerneltrap") \/ Panic("kfree_decr")
        BY <3>1, <1>PanicType DEF Messages
      <3>2. CASE ~(Panic("kerneltrap") \/ Panic("kfree_decr"))
        <4>1. held[Ka(p)] \in Pages
          BY <2>9, SlotTypes DEF LoadMapFails, LocalsInv, TypeOK
        <4>2. KallocTypeOK'
          BY <2>9, <3>2, <4>1, <1>KfreeType DEF LoadMapFails
        <4>3. held' \in [Held -> Pages \cup {NoPage}]
          BY <2>9, <3>2 DEF LoadMapFails, TypeOK
        <4> QED BY <2>6, <2>9, <3>2, <4>2, <4>3 DEF LoadMapFails, TypeOK, PcTypeOK
      <3> QED BY <3>1, <3>2
    <2>10. CASE LoadDone(p)
      <3>1. CASE ret[p] = "exec"
        <4>1. Loop(p, "unmap", "exec", cur[p], 0, sz[p])
          BY <2>10, <3>1 DEF LoadDone
        <4>2. PcTypeOK'
          BY <2>1, <4>1, <1>LoopType DEF Labels, Calls
        <4> QED BY <2>1, <2>10, <3>1, <4>2 DEF LoadDone, TypeOK, PcTypeOK, KallocTypeOK
      <3>2. CASE ret[p] # "exec"
        BY <2>1, <2>10, <3>2 DEF LoadDone, Goto, Labels, TypeOK, KallocTypeOK
      <3> QED BY <3>1, <3>2
    <2>11. CASE CopyIncr(p)
      <3>1. CASE Panic("uvmcopy: page not present")
        BY <3>1, <1>PanicType DEF Messages
      <3>2. CASE ~Panic("uvmcopy: page not present")
        <4>1. CopyFrom(p) \in PTE /\ Pa(p) \in Held /\ map[CopyFrom(p)] \in Pages
          BY <2>11, <3>2, WorkTypes, SlotTypes DEF CopyIncr, Mapped, TypeOK
        <4>2. KallocTypeOK'
          <5>1. krefincr(map[CopyFrom(p)])
            BY <2>11, <3>2 DEF CopyIncr
          <5> QED BY SMT, <4>1, <5>1 DEF krefincr, TypeOK, KallocTypeOK
        <4>3. held' \in [Held -> Pages \cup {NoPage}]
          BY <2>11, <3>2, <4>1 DEF CopyIncr, TypeOK
        <4> QED BY <2>11, <3>2, <4>2, <4>3 DEF CopyIncr, Goto, Labels, TypeOK
      <3> QED BY <3>1, <3>2
    <2>12. CASE CopyMap(p)
      <3>1. CASE Panic("mappages: remap")
        BY <3>1, <1>PanicType DEF Messages
      <3>2. CASE ~Panic("mappages: remap")
        <4>1. WorkPte(p) \in PTE /\ idx[p] \in VPages /\ held[Pa(p)] \in Pages \cup {NoPage}
          BY <2>12, WorkTypes, SlotTypes DEF CopyMap, LocalsInv, TypeOK
        <4>2. /\ map' \in [PTE -> Pages \cup {NoPage}]
              /\ W' \subseteq PTE /\ C' \subseteq PTE /\ U' \subseteq PTE
          BY <2>12, <3>2, <4>1, <1>SetPteType DEF CopyMap
        <4>3. held' \in [Held -> Pages \cup {NoPage}]
          BY <2>12, <3>2 DEF CopyMap, TypeOK
        <4>4. PcTypeOK'
          BY <2>12, <3>2, <4>1, <1>AdvanceType DEF CopyMap, Labels
        <4> QED BY <2>12, <3>2, <4>2, <4>3, <4>4 DEF CopyMap, TypeOK, PcTypeOK, KallocTypeOK
      <3> QED BY <3>1, <3>2
    <2>13. CASE CopyMapFails(p)
      <3>1. PcTypeOK'
        BY <2>1, <2>13, <1>LoopType DEF CopyMapFails, Labels, Calls
      <3>2. held' \in [Held -> Pages \cup {NoPage}]
        BY <2>13 DEF CopyMapFails, TypeOK
      <3>3. lost' \in [Pages -> Nat]
        <4>1. held[Pa(p)] \in Pages
          BY <2>13, SlotTypes DEF CopyMapFails, LocalsInv, TypeOK
        <4> QED BY SMT, <2>13, <4>1 DEF CopyMapFails, TypeOK
      <3> QED BY <2>13, <3>1, <3>2, <3>3 DEF CopyMapFails, TypeOK, PcTypeOK, KallocTypeOK
    <2>14. CASE ForkDone(p)
      BY <2>1, <2>14 DEF ForkDone, Labels, TypeOK, KallocTypeOK
    <2> QED BY <2>2, <2>3, <2>4, <2>5, <2>7, <2>8, <2>9, <2>10, <2>11, <2>12, <2>13, <2>14 DEF Build
  <1>TypeTearDown.
      ASSUME TypeOK, LocalsInv, NEW p \in Procs, TearDown(p)
      PROVE  TypeOK'
    <2> USE <1>TypeTearDown
    <2> USE KallocAssumption, CowAssumption DEF At, kallocVars, ptVars, pcVars, histVars
    <2>1. CASE Unmap(p)
      <3>1. CASE Panic("uvmunmap: not mapped") \/ Panic("kfree_decr")
        BY <3>1, <1>PanicType DEF Messages
      <3>2. CASE ~(Panic("uvmunmap: not mapped") \/ Panic("kfree_decr"))
        <4>1. WorkPte(p) \in PTE /\ map[WorkPte(p)] \in Pages /\ idx[p] \in VPages
          <5>1. idx[p] \in VPages
            <6>1. idx[p] \in 0 .. NV /\ lim[p] \in 0 .. NV /\ idx[p] < lim[p]
              BY <2>1 DEF Unmap, TypeOK
            <6> QED BY SMT, <6>1 DEF VPages
          <5> QED BY <2>1, <3>2, <5>1, WorkTypes DEF Unmap, Mapped, TypeOK
        <4>2. KallocTypeOK'
          BY <2>1, <3>2, <4>1, <1>KfreeType DEF Unmap
        <4>3. /\ map' \in [PTE -> Pages \cup {NoPage}]
              /\ W' \subseteq PTE /\ C' \subseteq PTE /\ U' \subseteq PTE
          BY <2>1, <3>2, <4>1, <1>SetPteType DEF Unmap
        <4>4. PcTypeOK'
          BY <2>1, <3>2, <4>1, <1>AdvanceType DEF Unmap, Labels
        <4> QED BY <2>1, <3>2, <4>2, <4>3, <4>4 DEF Unmap, TypeOK, PcTypeOK
      <3> QED BY <3>1, <3>2
    <2>2. CASE UnmapDone(p)
      BY <2>2 DEF UnmapDone, Goto, Labels, TypeOK, KallocTypeOK
    <2>3. CASE Freewalk(p)
      <3>1. CASE Panic("freewalk: leaf") \/ Panic("kfree_decr")
        BY <3>1, <1>PanicType DEF Messages
      <3>2. CASE ~(Panic("freewalk: leaf") \/ Panic("kfree_decr"))
        <4>1. PICK h \in TablePages(p, tb[p]) :
                /\ kfree(p, held[h])
                /\ held' = [held EXCEPT ![h] = NoPage]
                /\ UNCHANGED <<map, W, C, U, cur, sz, pcVars, panic, histVars>>
          BY <2>3, <3>2 DEF Freewalk
        <4>2. h \in Held /\ held[h] \in Pages
          BY <4>1, WorkTypes DEF TablePages, TypeOK
        <4>3. KallocTypeOK'
          BY <4>1, <4>2, <1>KfreeType
        <4> QED BY <4>1, <4>3 DEF TypeOK
      <3> QED BY <3>1, <3>2
    <2>4. CASE FreeTf(p)
      <3>1. CASE Panic("kfree_decr")
        BY <3>1, <1>PanicType DEF Messages
      <3>2. CASE ~Panic("kfree_decr")
        <4>1. held[Tf(p)] \in Pages
          BY <2>4, SlotTypes DEF FreeTf, TypeOK
        <4>2. KallocTypeOK'
          BY <2>4, <3>2, <4>1, <1>KfreeType DEF FreeTf
        <4>3. pc' \in [Procs -> Labels]
          BY <2>4, <3>2 DEF FreeTf, Goto, Labels, TypeOK
        <4> QED BY <2>4, <3>2, <4>2, <4>3 DEF FreeTf, TypeOK
      <3> QED BY <3>1, <3>2
    <2>5. CASE FreeDone(p)
      <3>1. pc' \in [Procs -> Labels] /\ sz' \in [Procs -> 0 .. NV]
        <4>1. pc \in [Procs -> Labels] /\ sz \in [Procs -> 0 .. NV] /\ 0 \in 0 .. NV
              /\ "run" \in Labels /\ "unused" \in Labels
          BY SMT DEF TypeOK, Labels
        <4>2. CASE ret[p] = "exec"
          BY <2>5, <4>1, <4>2 DEF FreeDone, Goto
        <4>3. CASE ret[p] # "exec"
          <5>1. /\ pc' = [q \in Procs |-> IF q = p THEN "unused"
                                       ELSE IF ret[p] = "fork" /\ q = par[p] THEN "run" ELSE pc[q]]
                /\ sz' = [sz EXCEPT ![p] = 0]
            BY <2>5, <4>3 DEF FreeDone
          <5>2. \A q \in Procs : (IF q = p THEN "unused"
                                  ELSE IF ret[p] = "fork" /\ q = par[p] THEN "run" ELSE pc[q]) \in Labels
            BY <4>1
          <5> QED BY <4>1, <5>1, <5>2
        <4> QED BY <4>2, <4>3
      <3> QED BY <2>5, <3>1 DEF FreeDone, TypeOK, KallocTypeOK
    <2>6. CASE Push(p)
      <3>1. KallocTypeOK'
        <4>1. freelist \in Seq(Pages) /\ freeing[p] \in Pages
          BY <2>6 DEF Push, KfreePush, TypeOK, KallocTypeOK
        <4>2. freelist' \in Seq(Pages)
          BY SMT, <2>6, <4>1 DEF Push, KfreePush
        <4> QED BY <2>6, <4>2 DEF Push, KfreePush, TypeOK, KallocTypeOK
      <3> QED BY <2>6, <3>1 DEF Push, TypeOK
    <2> QED BY <2>1, <2>2, <2>3, <2>4, <2>5, <2>6 DEF TearDown
  <1>TypeCowFault.
      ASSUME TypeOK, LocalsInv, NEW p \in Procs, CowFault(p)
      PROVE  TypeOK'
    <2> USE <1>TypeCowFault
    <2> USE KallocAssumption, CowAssumption DEF At, kallocVars, ptVars, pcVars, histVars
    <2>1. CASE CowKalloc(p)
      <3>1. KallocTypeOK' /\ Top \in Pages
        BY <2>1, KallocType DEF CowKalloc
      <3>2. held' \in [Held -> Pages \cup {NoPage}]
        BY <2>1, <3>1, SlotTypes DEF CowKalloc, TypeOK
      <3> QED BY <2>1, <3>1, <3>2 DEF CowKalloc, Goto, Labels, TypeOK
    <2>2. CASE CowKallocFails(p)
      BY <2>2 DEF CowKallocFails, Goto, Labels, TypeOK, KallocTypeOK
    <2>3. CASE CowCopy(p)
      <3>1. /\ WorkPte(p) \in PTE /\ map[WorkPte(p)] \in Pages
            /\ Ka(p) \in Held /\ Pa(p) \in Held /\ held[Ka(p)] \in Pages
        BY <2>3, WorkTypes, SlotTypes DEF CowCopy, LocalsInv, Mapped, TypeOK
      <3>2. KallocTypeOK'
        BY <2>3, <3>1 DEF CowCopy, TypeOK, KallocTypeOK
      <3>3. /\ map' \in [PTE -> Pages \cup {NoPage}]
            /\ W' \subseteq PTE /\ C' \subseteq PTE /\ U' \subseteq PTE
        BY <2>3, <3>1, <1>SetPteType DEF CowCopy
      <3>4. held' \in [Held -> Pages \cup {NoPage}]
        BY <2>3, <3>1 DEF CowCopy, TypeOK
      <3> QED BY <2>3, <3>2, <3>3, <3>4 DEF CowCopy, Goto, Labels, TypeOK
    <2>4. CASE CowDecr(p)
      <3>1. held[Pa(p)] \in Pages
        BY <2>4, SlotTypes DEF CowDecr, krefdecr, LocalsInv, TypeOK
      <3>2. KallocTypeOK'
        <4>1. refcnt' \in [Pages -> Int]
          <5>1. refcnt \in [Pages -> Int]
            BY DEF TypeOK, KallocTypeOK
          <5>2. refcnt' = [refcnt EXCEPT ![held[Pa(p)]] = @ - 1]
            BY <2>4 DEF CowDecr, krefdecr
          <5> QED BY SMT, <3>1, <5>1, <5>2
        <4>2. mem' \in [Pages -> Val \cup {Junk}]
          <5>1. mem \in [Pages -> Val \cup {Junk}] /\ val[p] \in Val
            BY DEF TypeOK, KallocTypeOK
          <5>2. mem' = mem \/ mem' = [mem EXCEPT ![map[WorkPte(p)]] = val[p]]
            BY <2>4 DEF CowDecr, krefdecr
          <5> QED BY <5>1, <5>2
        <4> QED BY <2>4, <4>1, <4>2 DEF CowDecr, krefdecr, TypeOK, KallocTypeOK
      <3>3. held' \in [Held -> Pages \cup {NoPage}]
        BY <2>4, <3>1 DEF CowDecr, krefdecr, TypeOK
      <3> QED BY <2>4, <3>2, <3>3 DEF CowDecr, krefdecr, Goto, Labels, TypeOK
    <2> QED BY <2>1, <2>2, <2>3, <2>4 DEF CowFault
  <1>TypeUserStep.
      ASSUME TypeOK, LocalsInv, NEW p \in Procs, UserStep(p)
      PROVE  TypeOK'
    <2> USE <1>TypeUserStep
    <2> USE KallocAssumption, CowAssumption DEF At, kallocVars, ptVars, pcVars, histVars
    <2>1. /\ sz[p] \in 0 .. NV /\ cur[p] \in Tables /\ 1 - cur[p] \in Tables /\ 0 \in 0 .. NV
          /\ \A v \in VPages : v \in 0 .. NV
      BY SMT DEF TypeOK, Tables, VPages
    <2>0. StartCall(p) => ops' \in 0 .. MaxOps
      <3>1. ops \in 0 .. MaxOps
        BY DEF TypeOK
      <3> QED BY SMT, <3>1 DEF StartCall
    <2>2. ASSUME NEW c \in Procs, Fork(p, c) PROVE TypeOK'
      <3>1. cur[c] \in Tables
        BY DEF TypeOK
      <3>2. PcTypeOK'
        BY <2>2, <3>1 DEF Fork, Labels, Calls, TypeOK, PcTypeOK
      <3> QED BY <2>0, <2>2, <3>2 DEF Fork, TypeOK, PcTypeOK, KallocTypeOK
    <2>3. CASE Exec(p)
      <3>1. PcTypeOK'
        BY <2>1, <2>3, <1>LoopType DEF Exec, Labels, Calls
      <3> QED BY <2>0, <2>3, <3>1 DEF Exec, TypeOK, PcTypeOK, KallocTypeOK
    <2>4. ASSUME NEW n \in 0 .. NV, Sbrk(p, n) PROVE TypeOK'
      <3>1. PcTypeOK'
        BY <2>1, <2>4, <1>LoopType DEF Sbrk, Labels, Calls
      <3>2. sz' \in [Procs -> 0 .. NV]
        BY <2>4 DEF Sbrk, TypeOK
      <3> QED BY <2>0, <2>4, <3>1, <3>2 DEF Sbrk, TypeOK, PcTypeOK, KallocTypeOK
    <2>5. CASE Exit(p)
      BY <2>5 DEF Exit, Goto, Labels, TypeOK, KallocTypeOK
    <2>6. CASE Reap(p)
      <3>1. PcTypeOK'
        BY <2>1, <2>6, <1>LoopType DEF Reap, Labels, Calls
      <3> QED BY <2>6, <3>1 DEF Reap, TypeOK, PcTypeOK, KallocTypeOK
    <2>7. ASSUME NEW e \in PTE, NEW x \in Val, Write(e, x) PROVE KallocTypeOK'
      BY <2>7 DEF Write, TypeOK, KallocTypeOK
    <2>8. ASSUME NEW v \in VPages, NEW r \in Calls, NEW x \in Val, StartCow(p, v, r, x)
          PROVE  PcTypeOK'
      BY <2>1, <2>8 DEF StartCow, Labels, TypeOK, PcTypeOK
    <2>9. ASSUME NEW v \in VPages, NEW x \in Val, UserStore(p, v, x) PROVE TypeOK'
      <3>1. KallocTypeOK'
        BY <2>7, <2>9, WorkTypes DEF UserStore
      <3> QED BY <2>9, <3>1 DEF UserStore, TypeOK
    <2>10. ASSUME NEW v \in VPages, NEW x \in Val, Copyout(p, v, x) PROVE TypeOK'
      <3>1. KallocTypeOK'
        BY <2>7, <2>10, WorkTypes DEF Copyout, TypeOK, KallocTypeOK
      <3>2. PcTypeOK'
        <4>1. CASE StartCow(p, v, "copyout", x)
          BY <2>8, <4>1 DEF Calls
        <4>2. CASE UNCHANGED pcVars
          BY <4>2 DEF TypeOK, PcTypeOK
        <4> QED BY <2>10, <4>1, <4>2 DEF Copyout
      <3> QED BY <2>10, <3>1, <3>2 DEF Copyout, TypeOK, PcTypeOK
    <2>11. ASSUME NEW v \in VPages, NEW below \in BOOLEAN, StoreFault(p, v, below) PROVE TypeOK'
      <3>1. PcTypeOK'
        <4>1. CASE Goto(p, "zombie") /\ UNCHANGED <<ret, tb, idx, lim, val, par>>
          BY <4>1 DEF Goto, Labels, TypeOK, PcTypeOK
        <4>2. CASE StartCow(p, v, IF below THEN "trapkill" ELSE "trap", 0)
          <5>1. (IF below THEN "trapkill" ELSE "trap") \in Calls
            BY DEF Calls
          <5> QED BY <2>8, <4>2, <5>1
        <4> QED BY <2>11, <4>1, <4>2 DEF StoreFault
      <3> QED BY <2>11, <3>1 DEF StoreFault, TypeOK, PcTypeOK, KallocTypeOK
    <2> QED BY <2>2, <2>3, <2>4, <2>5, <2>6, <2>9, <2>10, <2>11 DEF UserStep
  <1> QED BY <1>TypeBuild, <1>TypeTearDown, <1>TypeCowFault, <1>TypeUserStep

-----------------------------------------------------------------------------
RunOrFork == {"run", "forking"}

(* A step that works for slot x leaves the tables, kernel slots and locals *)
(* of every other slot alone, but for starting or ending its wait in fork. *)
Frame(x) ==
  /\ \A q \in Procs : q # x =>
       /\ tb'[q] = tb[q] /\ idx'[q] = idx[q] /\ ret'[q] = ret[q] /\ cur'[q] = cur[q]
       /\ pc'[q] = pc[q] \/ (pc[q] \in RunOrFork /\ pc'[q] \in RunOrFork)
  /\ \A h \in Held : h[1] # x => held'[h] = held[h]
  /\ \A e \in PTE : e[1][1] # x => map'[e] = map[e]

LocalsAt(p) ==
  /\ held[Ka(p)] # NoPage <=> pc[p] \in {"loadmap", "cowcopy"}
  /\ held[Pa(p)] # NoPage <=> pc[p] \in {"copymap", "cowdecr"}
  /\ pc[p] \in {"loadmap", "copymap", "cow", "cowcopy", "cowdecr"} => idx[p] \in VPages
  /\ pc[p] \in {"cow", "cowcopy"} => Mapped(WorkPte(p))

TablesAt(p) ==
  /\ pc[p] \in WorkLabels /\ ret[p] = "exec" => tb[p] = 1 - cur[p]
  /\ pc[p] \in WorkLabels /\ ret[p] # "exec" => tb[p] = cur[p]
  /\ held[High(p, 1 - cur[p])] # NoPage => ret[p] = "exec" /\ pc[p] \in LoadLabels
  /\ pc[p] = "unused" => held[High(p, cur[p])] = NoPage
  /\ pc[p] = "alloc" => held[High(p, tb[p])] = NoPage
  /\ pc[p] = "freetf" => ret[p] # "exec"

(* Control: the parts of the invariant that follow the program counters,   *)
(* and the owners of the pages.                                            *)
Control == LocalsInv /\ TablesInv /\ ForkInv /\ SingleOwner

(* Only the thread of slot p moves. *)
SlotStep(p) ==
  /\ \A q \in Procs : q # p =>
       pc'[q] = pc[q] /\ ret'[q] = ret[q] /\ tb'[q] = tb[q] /\ idx'[q] = idx[q]
  /\ par' = par

(* The pages in use change in slot p only. *)
PlaceStep(p) ==
  /\ \A q \in Procs : q # p => cur'[q] = cur[q]
  /\ \A h \in Held : h[1] # p => held'[h] = held[h]
  /\ \A e \in PTE : e[1][1] # p => map'[e] = map[e]

(* One kernel slot of p changes. *)
HeldStep(p, h, y) ==
  /\ h \in Held /\ h[1] = p
  /\ \A g \in Held : held'[g] = IF g = h THEN y ELSE held[g]

(* What ForkInv asks of the step. *)
ForkStep(p) ==
  /\ Forking(p)' => Forking(p)
  /\ pc'[p] \in {"copy", "copymap"} => ret'[p] = "fork"
  /\ pc'[p] \in {"load", "loadmap"} => ret'[p] # "fork"

LEMMA ControlSame ==
  ASSUME IInv, UNCHANGED <<ptVars, pcVars>>
  PROVE  Control'
BY DEF IInv, Control, ptVars, pcVars, LocalsInv, TablesInv, ForkInv, Forking, SingleOwner,
       Mapped, WorkPte

(* A loop variable below its bound is a page of the address space. *)
LEMMA LoopPage ==
  ASSUME TypeOK, NEW p \in Procs, idx[p] < lim[p]
  PROVE  idx[p] \in VPages
<1>1. idx[p] \in 0 .. NV /\ lim[p] \in 0 .. NV
  BY DEF TypeOK
<1> QED BY SMT, <1>1, CowAssumption DEF VPages

(* Every action keeps Control. *)
LEMMA ControlKept ==
  IInv => \A p \in Procs : Build(p) \/ TearDown(p) \/ CowFault(p) \/ UserStep(p) => Control'
  <1>AtEachSlot.
      /\ LocalsInv <=> \A p \in Procs : LocalsAt(p)
      /\ LocalsInv' <=> \A p \in Procs : LocalsAt(p)'
      /\ TablesInv <=> \A p \in Procs : TablesAt(p)
      /\ TablesInv' <=> \A p \in Procs : TablesAt(p)'
    BY DEF LocalsInv, LocalsAt, TablesInv, TablesAt
  (* What a step for slot x has to establish: its own part. *)
  <1>OthersKeepLocals.
      ASSUME TypeOK, LocalsInv, NEW x \in Procs, Frame(x), LocalsAt(x)'
      PROVE  LocalsInv'
    <2> USE <1>OthersKeepLocals
    <2> SUFFICES ASSUME NEW q \in Procs, q # x PROVE LocalsAt(q)'
      BY <1>AtEachSlot
    <2>1. LocalsAt(q) /\ tb'[q] = tb[q] /\ idx'[q] = idx[q]
          /\ (pc'[q] = pc[q] \/ (pc[q] \in RunOrFork /\ pc'[q] \in RunOrFork))
      BY <1>AtEachSlot DEF Frame
    <2>2. held'[Ka(q)] = held[Ka(q)] /\ held'[Pa(q)] = held[Pa(q)]
      BY SlotTypes DEF Frame, Ka, Pa
    <2>3. pc[q] \in {"cow", "cowcopy"} => map'[WorkPte(q)] = map[WorkPte(q)]
      BY WorkTypes DEF Frame, WorkPte
    <2> QED BY <2>1, <2>2, <2>3 DEF LocalsAt, Mapped, WorkPte, RunOrFork
  <1>OthersKeepTables.
      ASSUME TypeOK, TablesInv, NEW x \in Procs, Frame(x), TablesAt(x)'
      PROVE  TablesInv'
    <2> USE <1>OthersKeepTables
    <2> SUFFICES ASSUME NEW q \in Procs, q # x PROVE TablesAt(q)'
      BY <1>AtEachSlot
    <2>1. TablesAt(q) /\ tb'[q] = tb[q] /\ ret'[q] = ret[q] /\ cur'[q] = cur[q]
          /\ (pc'[q] = pc[q] \/ (pc[q] \in RunOrFork /\ pc'[q] \in RunOrFork))
      BY <1>AtEachSlot DEF Frame
    <2>2. cur[q] \in Tables /\ 1 - cur[q] \in Tables /\ tb[q] \in Tables
      BY SMT DEF TypeOK, Tables
    <2>3. \A b \in Tables : held'[High(q, b)] = held[High(q, b)]
      BY SlotTypes DEF Frame, High
    <2> QED BY <2>1, <2>2, <2>3 DEF TablesAt, RunOrFork, WorkLabels, LoadLabels
  (* A step of a slot that is not waiting in fork, and does not start one:   *)
  (* it ends the wait of its own parent at most.                             *)
  <1>ForkFrame.
      ASSUME TypeOK, ForkInv, NEW x \in Procs, pc[x] # "forking", par' = par,
             \A q \in Procs : q # x =>
               /\ ret'[q] = ret[q]
               /\ pc'[q] = pc[q] \/ (q = par[x] /\ Forking(x) /\ ~Forking(x)' /\ pc'[q] = "run"),
             Forking(x)' => Forking(x),
             pc'[x] \in {"copy", "copymap"} => ret'[x] = "fork",
             pc'[x] \in {"load", "loadmap"} => ret'[x] # "fork"
      PROVE  ForkInv'
    <2> USE <1>ForkFrame
    <2>1. ASSUME NEW c \in Procs, Forking(c)' PROVE Forking(c) /\ pc'[par[c]] = "forking"
      <3>1. Forking(c)
        BY <2>1 DEF Forking, ForkLabels
      <3>2. pc[par[c]] = "forking" /\ par[c] \in Procs /\ par[c] # x
        BY SMT, <3>1 DEF ForkInv, TypeOK
      <3>3. ~(par[c] = par[x] /\ Forking(x) /\ ~Forking(x)')
        BY <2>1, <3>1 DEF ForkInv
      <3> QED BY <3>1, <3>2, <3>3
    <2>2. ASSUME NEW c \in Procs
          PROVE  /\ pc'[c] \in {"copy", "copymap"} => ret'[c] = "fork"
                 /\ pc'[c] \in {"load", "loadmap"} => ret'[c] # "fork"
      BY <2>2 DEF ForkInv
    <2> QED BY <2>1, <2>2 DEF ForkInv, Forking
  <1>ControlStep.
      ASSUME IInv, NEW p \in Procs, SlotStep(p), PlaceStep(p), pc[p] # "forking",
             ForkStep(p),
             LocalsAt(p)', TablesAt(p)', SingleOwner'
      PROVE  Control'
    <2> USE <1>ControlStep
    <2>1. TypeOK /\ LocalsInv /\ TablesInv /\ ForkInv
      BY DEF IInv
    <2>2. Frame(p)
      BY DEF Frame, SlotStep, PlaceStep
    <2>3. \A q \in Procs : q # p => ret'[q] = ret[q] /\ pc'[q] = pc[q]
      BY DEF SlotStep
    <2>4. par' = par
      BY DEF SlotStep
    <2>5. ForkInv'
      BY <2>1, <2>3, <2>4, <1>ForkFrame DEF ForkStep
    <2> QED BY <2>1, <2>2, <2>5, <1>OthersKeepLocals, <1>OthersKeepTables DEF Control
  (* A step that leaves the PTEs alone keeps the owners. *)
  <1>SameOwner.
      ASSUME SingleOwner, UNCHANGED <<map, W, C>>
      PROVE  SingleOwner'
    BY <1>SameOwner DEF SingleOwner, Mapped
  (* The slots of p are p's, and are slots. *)
  <1>SlotOf.
      ASSUME NEW p \in Procs
      PROVE  /\ Tf(p)[1] = p /\ Ka(p)[1] = p /\ Pa(p)[1] = p /\ WorkPte(p)[1][1] = p
             /\ \A b, v : Root(p, b)[1] = p /\ High(p, b)[1] = p /\ Leaf(p, b, v)[1] = p
             /\ \A h \in TablePages(p, tb[p]) : h[1] = p
    BY SMT, <1>SlotOf DEF Tf, Ka, Pa, Root, High, Leaf, WorkPte, TablePages
  <1>HeldSet.
      ASSUME NEW p \in Procs, NEW h \in Held, h[1] = p, NEW y,
             held \in [Held -> Pages \cup {NoPage}], held' = [held EXCEPT ![h] = y]
      PROVE  HeldStep(p, h, y)
    BY <1>HeldSet DEF HeldStep
  (* Which of p's slots the invariant speaks of are affected by a change of h. *)
  <1>HeldAfter.
      ASSUME NEW p \in Procs, NEW h, NEW y, HeldStep(p, h, y)
      PROVE  /\ held'[Ka(p)] = IF h = Ka(p) THEN y ELSE held[Ka(p)]
             /\ held'[Pa(p)] = IF h = Pa(p) THEN y ELSE held[Pa(p)]
             /\ held'[High(p, 0)] = IF h = High(p, 0) THEN y ELSE held[High(p, 0)]
             /\ held'[High(p, 1)] = IF h = High(p, 1) THEN y ELSE held[High(p, 1)]
             /\ \A g \in Held : g[1] # p => held'[g] = held[g]
    BY <1>HeldAfter, SlotTypes DEF HeldStep, Tables
  <1>KaAfter.
      ASSUME NEW p \in Procs, NEW y, HeldStep(p, Ka(p), y)
      PROVE  /\ held'[Ka(p)] = y /\ held'[Pa(p)] = held[Pa(p)]
             /\ held'[High(p, 0)] = held[High(p, 0)]
             /\ held'[High(p, 1)] = held[High(p, 1)]
    BY <1>KaAfter, <1>HeldAfter, SlotsDiffer DEF Tables
  <1>PaAfter.
      ASSUME NEW p \in Procs, NEW y, HeldStep(p, Pa(p), y)
      PROVE  /\ held'[Ka(p)] = held[Ka(p)] /\ held'[Pa(p)] = y
             /\ held'[High(p, 0)] = held[High(p, 0)]
             /\ held'[High(p, 1)] = held[High(p, 1)]
    BY <1>PaAfter, <1>HeldAfter, SlotsDiffer DEF Tables
  <1>TfAfter.
      ASSUME NEW p \in Procs, NEW y, HeldStep(p, Tf(p), y)
      PROVE  /\ held'[Ka(p)] = held[Ka(p)] /\ held'[Pa(p)] = held[Pa(p)]
             /\ held'[High(p, 0)] = held[High(p, 0)]
             /\ held'[High(p, 1)] = held[High(p, 1)]
    BY <1>TfAfter, <1>HeldAfter, SlotsDiffer DEF Tables
  (* A call that goes on with its own table. *)
  <1>TablesMove.
      ASSUME TypeOK, NEW p \in Procs, TablesAt(p), pc[p] \in WorkLabels,
             pc'[p] \in WorkLabels \ {"alloc"}, pc'[p] \notin LoadLabels => ret[p] # "exec",
             ret'[p] = ret[p], tb'[p] = tb[p], cur' = cur,
             held'[High(p, 0)] \in {held[High(p, 0)], NoPage},
             held'[High(p, 1)] \in {held[High(p, 1)], NoPage}
      PROVE  TablesAt(p)'
    <2> USE <1>TablesMove
    <2>1. cur[p] = 0 \/ cur[p] = 1
      BY DEF TypeOK, Tables
    <2>2. CASE cur[p] = 0
      <3>1. 1 - cur[p] = 1 /\ 1 - cur'[p] = 1
        BY SMT, <2>2
      <3> QED BY <2>2, <3>1 DEF TablesAt, WorkLabels, LoadLabels
    <2>3. CASE cur[p] = 1
      <3>1. 1 - cur[p] = 0 /\ 1 - cur'[p] = 0
        BY SMT, <2>3
      <3> QED BY <2>3, <3>1 DEF TablesAt, WorkLabels, LoadLabels
    <2> QED BY <2>1, <2>2, <2>3
  (* A call that stays where it is. *)
  <1>TablesStay.
      ASSUME TypeOK, NEW p \in Procs, TablesAt(p),
             pc'[p] = pc[p], ret'[p] = ret[p], tb'[p] = tb[p], cur' = cur,
             held'[High(p, 0)] \in {held[High(p, 0)], NoPage},
             held'[High(p, 1)] \in {held[High(p, 1)], NoPage}
      PROVE  TablesAt(p)'
    <2> USE <1>TablesStay
    <2>1. (cur[p] = 0 \/ cur[p] = 1) /\ (tb[p] = 0 \/ tb[p] = 1)
      BY DEF TypeOK, Tables
    <2>2. CASE cur[p] = 0
      <3>1. 1 - cur[p] = 1 /\ 1 - cur'[p] = 1
        BY SMT, <2>2
      <3> QED BY <2>1, <2>2, <3>1 DEF TablesAt
    <2>3. CASE cur[p] = 1
      <3>1. 1 - cur[p] = 0 /\ 1 - cur'[p] = 0
        BY SMT, <2>3
      <3> QED BY <2>1, <2>3, <3>1 DEF TablesAt
    <2> QED BY <2>1, <2>2, <2>3
  (* A call that starts on the current table, or ends, with the other empty. *)
  <1>TablesQuiet.
      ASSUME TypeOK, NEW p \in Procs, cur' = cur, pc'[p] \notin {"unused", "alloc"},
             pc'[p] \in WorkLabels => ret'[p] # "exec" /\ tb'[p] = cur[p],
             held'[High(p, 0)] = held[High(p, 0)], held'[High(p, 1)] = held[High(p, 1)],
             held[High(p, 1 - cur[p])] = NoPage
      PROVE  TablesAt(p)'
    <2> USE <1>TablesQuiet
    <2>1. cur[p] = 0 \/ cur[p] = 1
      BY DEF TypeOK, Tables
    <2>2. CASE cur[p] = 0
      <3>1. 1 - cur[p] = 1 /\ 1 - cur'[p] = 1
        BY SMT, <2>2
      <3> QED BY <2>2, <3>1 DEF TablesAt, WorkLabels
    <2>3. CASE cur[p] = 1
      <3>1. 1 - cur[p] = 0 /\ 1 - cur'[p] = 0
        BY SMT, <2>3
      <3> QED BY <2>3, <3>1 DEF TablesAt, WorkLabels
    <2> QED BY <2>1, <2>2, <2>3
  (* Outside exec's steps the other table is empty. *)
  <1>OtherEmpty.
      ASSUME NEW p \in Procs, TablesAt(p), ret[p] # "exec" \/ pc[p] \notin LoadLabels
      PROVE  held[High(p, 1 - cur[p])] = NoPage
    BY <1>OtherEmpty DEF TablesAt
  (* uvmdealloc starts, for a call that ran out of memory. *)
  <1>LoadUnwindStep.
      ASSUME TypeOK, NEW p \in Procs, LoadUnwind(p)
      PROVE  /\ SlotStep(p) /\ pc'[p] = "unmap" /\ ret'[p] = ret[p] /\ tb'[p] = tb[p]
             /\ idx'[p] = IF ret[p] = "sbrk" THEN sz[p] ELSE 0
    <2> USE <1>LoadUnwindStep
    <2>1. /\ pc \in [Procs -> Labels] /\ ret \in [Procs -> Calls]
          /\ tb \in [Procs -> Tables] /\ idx \in [Procs -> 0 .. NV]
      BY DEF TypeOK
    <2>2. SlotStep(p)
      BY <2>1 DEF SlotStep, LoadUnwind, Loop, Goto
    <2> QED BY <2>1, <2>2 DEF LoadUnwind, Loop, Goto
  <1>ControlBuild.
      ASSUME IInv, NEW p \in Procs, Build(p)
      PROVE  Control'
    <2> USE <1>ControlBuild
    <2> USE DEF At, kallocVars, ptVars, pcVars, histVars
    <2>1. TypeOK /\ LocalsInv /\ LocalsAt(p) /\ TablesAt(p) /\ ForkInv /\ SingleOwner /\ KaPrivate
      BY <1>AtEachSlot DEF IInv
    <2>2. /\ pc \in [Procs -> Labels] /\ ret \in [Procs -> Calls] /\ tb \in [Procs -> {0, 1}]
          /\ cur \in [Procs -> {0, 1}] /\ idx \in [Procs -> 0 .. NV] /\ par \in [Procs -> Procs]
          /\ held \in [Held -> Pages \cup {NoPage}] /\ map \in [PTE -> Pages \cup {NoPage}]
          /\ lim \in [Procs -> 0 .. NV]
      BY <2>1 DEF TypeOK, Tables
    <2>3. CASE AllocKernPage(p)
      <3>1. pc[p] = "alloc" /\ Top # NoPage /\ cur' = cur /\ map' = map /\ W' = W /\ C' = C
        BY <2>3, <2>1, KallocType, KallocAssumption DEF AllocKernPage
      <3>2. HeldStep(p, NextKernPage(p), Top)
        BY <2>3, <2>1, <2>2, WorkTypes, <1>SlotOf DEF AllocKernPage, HeldStep, NextKernPage
      <3>3. held'[Ka(p)] = held[Ka(p)] /\ held'[Pa(p)] = held[Pa(p)]
        <4>1. NextKernPage(p) \in {Tf(p), Root(p, tb[p]), High(p, tb[p])} /\ tb[p] \in Tables
          BY <2>2 DEF NextKernPage, Tables
        <4>2. NextKernPage(p) # Ka(p) /\ NextKernPage(p) # Pa(p)
          BY <4>1, SlotsDiffer
        <4> QED BY <3>2, <4>2, <1>HeldAfter
      <3>4. PlaceStep(p)
        BY <3>1, <3>2, <1>HeldAfter DEF PlaceStep
      <3>5. SingleOwner'
        BY <2>1, <3>1, <1>SameOwner
      <3>6. CASE NextKernPage(p) # High(p, tb[p])
        <4>1. SlotStep(p) /\ pc'[p] = pc[p] /\ ret'[p] = ret[p] /\ tb'[p] = tb[p] /\ idx'[p] = idx[p]
          BY <2>3, <3>6 DEF AllocKernPage, SlotStep
        <4>2. \A b \in Tables : NextKernPage(p) # High(p, b)
          <5>1. NextKernPage(p) \in {Tf(p), Root(p, tb[p])} /\ tb[p] \in Tables
            BY <2>2, <3>6 DEF NextKernPage, Tables
          <5> QED BY <5>1, SlotsDiffer
        <4>3. held'[High(p, 0)] = held[High(p, 0)] /\ held'[High(p, 1)] = held[High(p, 1)]
          BY <3>2, <4>2, <1>HeldAfter DEF Tables
        <4>4. LocalsAt(p)'
          BY <2>1, <3>1, <3>3, <4>1 DEF LocalsAt
        <4>5. TablesAt(p)'
          BY <2>1, <3>1, <4>1, <4>3, <1>TablesStay
        <4>6. ForkStep(p)
          BY <3>1, <4>1 DEF ForkStep, Forking
        <4> QED BY <3>1, <3>4, <3>5, <4>1, <4>4, <4>5, <4>6, <1>ControlStep
      <3>7. CASE NextKernPage(p) = High(p, tb[p])
        <4>1. /\ SlotStep(p) /\ ret'[p] = ret[p] /\ tb'[p] = tb[p] /\ idx'[p] = 0
              /\ ret[p] = "fork" => pc'[p] = "copy"
              /\ ret[p] # "fork" => pc'[p] = "load"
          <5>1. CASE ret[p] = "fork"
            <6>1. Loop(p, "copy", "fork", tb[p], 0, sz[par[p]])
              BY <2>3, <3>7, <5>1 DEF AllocKernPage
            <6> QED BY <2>2, <5>1, <6>1 DEF SlotStep, Loop, Goto
          <5>2. CASE ret[p] # "fork"
            <6>1. Loop(p, "load", ret[p], tb[p], 0, ImageSize)
              BY <2>3, <3>7, <5>2 DEF AllocKernPage
            <6> QED BY <2>2, <5>2, <6>1 DEF SlotStep, Loop, Goto
          <5> QED BY <5>1, <5>2
        <4>2. \A b \in Tables : b # tb[p] => held'[High(p, b)] = held[High(p, b)]
          <5>1. \A b \in Tables : b # tb[p] => NextKernPage(p) # High(p, b)
            BY <2>2, <3>7, SlotsDiffer DEF Tables
          <5> QED BY <3>2, <5>1, SlotTypes DEF HeldStep
        <4>3. LocalsAt(p)'
          BY <2>1, <3>1, <3>3, <4>1 DEF LocalsAt
        <4>4. TablesAt(p)'
          <5>1. (cur[p] = 0 \/ cur[p] = 1) /\ (tb[p] = 0 \/ tb[p] = 1)
            BY <2>2
          <5>2. held[High(p, 1 - cur[p])] = NoPage
            BY <2>1, <3>1, <1>OtherEmpty DEF LoadLabels
          <5>3. (ret[p] = "exec" => tb[p] = 1 - cur[p]) /\ (ret[p] # "exec" => tb[p] = cur[p])
            BY <2>1, <3>1 DEF TablesAt, WorkLabels
          <5>4. ret[p] # "exec" => held'[High(p, 1 - cur[p])] = NoPage
            <6>1. 1 - cur[p] \in Tables /\ 1 - cur[p] # cur[p]
              BY SMT, <5>1 DEF Tables
            <6> QED BY <6>1, <4>2, <5>2, <5>3
          <5> QED BY <3>1, <4>1, <5>3, <5>4 DEF TablesAt, WorkLabels, LoadLabels
        <4>5. ForkStep(p)
          BY <3>1, <4>1 DEF ForkStep, Forking, ForkLabels
        <4> QED BY <3>1, <3>4, <3>5, <4>1, <4>3, <4>4, <4>5, <1>ControlStep
      <3> QED BY <3>6, <3>7
    <2>4. CASE AllocKernPageFails(p)
      <3>1. CASE Panic("kerneltrap")
        BY <3>1, ControlSame DEF Panic
      <3>2. CASE ~Panic("kerneltrap")
        <4>1. SlotStep(p) /\ pc'[p] = "tables" /\ ret'[p] = ret[p] /\ tb'[p] = tb[p] /\ idx'[p] = idx[p]
          BY <2>4, <3>2, <2>2 DEF AllocKernPageFails, SlotStep, Goto
        <4>2. held' = held
          BY <2>4, <3>2 DEF AllocKernPageFails
        <4>3. cur' = cur
          BY <2>4, <3>2 DEF AllocKernPageFails
        <4>4. map' = map /\ W' = W /\ C' = C
          BY <2>4, <3>2 DEF AllocKernPageFails
        <4>5. PlaceStep(p)
          BY <2>2, <4>2, <4>3, <4>4 DEF PlaceStep
        <4>6. pc[p] # "forking"
          BY <2>4, <3>2 DEF AllocKernPageFails
        <4>7. LocalsAt(p)'
          BY <2>4, <3>2, <2>1, <4>1, <4>2, <4>4 DEF AllocKernPageFails, LocalsAt, Mapped, WorkPte
        <4>8. TablesAt(p)'
          BY <2>4, <3>2, <2>1, <4>1, <4>2, <4>3, <1>TablesMove
            DEF AllocKernPageFails, WorkLabels, LoadLabels
        <4>9. SingleOwner'
          BY <2>1, <4>4, <1>SameOwner
        <4>10. ForkStep(p)
          BY <2>4, <3>2, <2>1, <4>1 DEF AllocKernPageFails, ForkStep, ForkLabels, Forking, ForkInv
        <4> QED BY <4>1, <4>5, <4>6, <4>7, <4>8, <4>9, <4>10, <1>ControlStep
      <3> QED BY <3>1, <3>2
    <2>5. CASE WalkAlloc(p)
      <3>1. SlotStep(p) /\ pc'[p] = pc[p] /\ ret'[p] = ret[p] /\ tb'[p] = tb[p] /\ idx'[p] = idx[p]
        BY <2>5 DEF WalkAlloc, SlotStep
      <3>2. /\ pc[p] \in {"loadmap", "copymap"} /\ cur' = cur /\ map' = map /\ W' = W /\ C' = C
            /\ idx[p] \in VPages /\ tb[p] \in Tables
        BY <2>5, <2>1, <2>2 DEF WalkAlloc, LocalsAt, Tables
      <3>3. HeldStep(p, Leaf(p, tb[p], idx[p]), Top)
        <4>1. Leaf(p, tb[p], idx[p]) \in Held /\ Leaf(p, tb[p], idx[p])[1] = p
          BY SMT, <2>2, <3>2, SlotTypes, <1>SlotOf
        <4>2. held' = [held EXCEPT ![Leaf(p, tb[p], idx[p])] = Top]
          BY <2>5 DEF WalkAlloc
        <4> QED BY <2>2, <4>1, <4>2 DEF HeldStep
      <3>4. /\ held'[Ka(p)] = held[Ka(p)] /\ held'[Pa(p)] = held[Pa(p)]
            /\ held'[High(p, 0)] = held[High(p, 0)] /\ held'[High(p, 1)] = held[High(p, 1)]
        <4>1. Leaf(p, tb[p], idx[p]) \notin {Ka(p), Pa(p), High(p, 0), High(p, 1)}
          BY <3>2, SlotsDiffer DEF Tables
        <4> QED BY <3>3, <4>1, <1>HeldAfter
      <3>5. PlaceStep(p)
        BY <3>2, <3>3, <1>HeldAfter DEF PlaceStep
      <3>6. SingleOwner'
        BY <2>1, <3>2, <1>SameOwner
      <3>7. LocalsAt(p)'
        BY <2>1, <3>1, <3>2, <3>4 DEF LocalsAt
      <3>8. TablesAt(p)'
        BY <2>1, <3>1, <3>2, <3>4, <1>TablesStay
      <3>9. ForkStep(p)
        BY <2>1, <3>1, <3>2 DEF ForkStep, Forking, ForkInv
      <3> QED BY <3>1, <3>2, <3>5, <3>6, <3>7, <3>8, <3>9, <1>ControlStep
    <2>6. CASE LoadKalloc(p)
      <3>1. Top # NoPage
        BY <2>6, <2>1, <2>2, KallocType, KallocAssumption DEF LoadKalloc
      <3>2. idx[p] \in VPages
        BY <2>6, <2>1, <2>2, LoopPage, <3>1 DEF LoadKalloc
      <3>3. SlotStep(p) /\ pc'[p] = "loadmap" /\ ret'[p] = ret[p] /\ tb'[p] = tb[p] /\ idx'[p] = idx[p]
        BY <2>6, <2>2 DEF LoadKalloc, SlotStep, Goto
      <3>4. HeldStep(p, Ka(p), Top)
        BY <2>6, <2>2, <3>1, <3>2, SlotTypes, <1>SlotOf DEF LoadKalloc, HeldStep
      <3>5. cur' = cur
        BY <2>6 DEF LoadKalloc
      <3>6. map' = map /\ W' = W /\ C' = C
        BY <2>6 DEF LoadKalloc
      <3>7. PlaceStep(p)
        BY <2>2, <3>4, <3>5, <3>6, <1>HeldAfter DEF PlaceStep
      <3>8. pc[p] # "forking"
        BY <2>6 DEF LoadKalloc
      <3>9. LocalsAt(p)'
        BY <2>6, <2>1, <3>1, <3>2, <3>3, <3>4, <1>KaAfter, <3>6 DEF LoadKalloc, LocalsAt, Mapped, WorkPte
      <3>10. TablesAt(p)'
        BY <2>6, <2>1, <3>3, <3>4, <1>KaAfter, <3>5, <1>TablesMove DEF LoadKalloc, WorkLabels, LoadLabels
      <3>11. SingleOwner'
        BY <2>1, <3>6, <1>SameOwner
      <3>12. ForkStep(p)
        BY <2>6, <2>1, <3>3 DEF LoadKalloc, ForkStep, ForkLabels, Forking, ForkInv
      <3> QED BY <3>3, <3>7, <3>8, <3>9, <3>10, <3>11, <3>12, <1>ControlStep
    <2>7. CASE LoadKallocFails(p)
      <3>1. CASE Panic("kerneltrap")
        BY <3>1, ControlSame DEF Panic
      <3>2. CASE ~Panic("kerneltrap")
        <4>1. /\ SlotStep(p) /\ pc'[p] = "unmap" /\ ret'[p] = ret[p] /\ tb'[p] = tb[p]
              /\ idx'[p] = IF ret[p] = "sbrk" THEN sz[p] ELSE 0
          <5>1. LoadUnwind(p)
            BY <2>7, <3>2 DEF LoadKallocFails
          <5> QED BY <5>1, <2>1, <1>LoadUnwindStep
        <4>2. held' = held
          BY <2>7, <3>2 DEF LoadKallocFails
        <4>3. cur' = cur
          BY <2>7, <3>2 DEF LoadKallocFails
        <4>4. map' = map /\ W' = W /\ C' = C
          BY <2>7, <3>2 DEF LoadKallocFails
        <4>5. PlaceStep(p)
          BY <2>2, <4>2, <4>3, <4>4 DEF PlaceStep
        <4>6. pc[p] # "forking"
          BY <2>7, <3>2 DEF LoadKallocFails
        <4>7. LocalsAt(p)'
          BY <2>7, <3>2, <2>1, <4>1, <4>2, <4>4 DEF LoadKallocFails, LocalsAt, Mapped, WorkPte
        <4>8. TablesAt(p)'
          BY <2>7, <3>2, <2>1, <4>1, <4>2, <4>3, <1>TablesMove
            DEF LoadKallocFails, WorkLabels, LoadLabels
        <4>9. SingleOwner'
          BY <2>1, <4>4, <1>SameOwner
        <4>10. ForkStep(p)
          BY <2>7, <3>2, <2>1, <4>1 DEF LoadKallocFails, ForkStep, ForkLabels, Forking, ForkInv
        <4> QED BY <4>1, <4>5, <4>6, <4>7, <4>8, <4>9, <4>10, <1>ControlStep
      <3> QED BY <3>1, <3>2
    <2>8. CASE LoadMap(p)
      <3>1. CASE Panic("mappages: remap")
        BY <3>1, ControlSame DEF Panic
      <3>2. CASE ~Panic("mappages: remap")
        <4>1. WorkPte(p) \in PTE /\ Ka(p) \in Held /\ held[Ka(p)] # NoPage
          BY <2>8, <3>2, <2>1, <2>2, WorkTypes, SlotTypes DEF LoadMap, LocalsAt
        <4>2. SlotStep(p) /\ pc'[p] = "load" /\ ret'[p] = ret[p] /\ tb'[p] = tb[p] /\ idx'[p] = idx[p] + 1
          BY <2>8, <3>2, <2>2 DEF LoadMap, SlotStep, Advance, Goto
        <4>3. HeldStep(p, Ka(p), NoPage)
          BY <2>8, <3>2, <2>2, <4>1, <1>SlotOf, <1>HeldSet DEF LoadMap
        <4>4. cur' = cur
          BY <2>8, <3>2 DEF LoadMap
        <4>5. /\ map' = [map EXCEPT ![WorkPte(p)] = held[Ka(p)]]
              /\ C' = C \ {WorkPte(p)} /\ W' \subseteq W \cup {WorkPte(p)}
          BY <2>8, <3>2, <2>2, <4>1 DEF LoadMap, SetPte
        <4>6. PlaceStep(p)
          <5>1. \A h \in Held : h[1] # p => held'[h] = held[h]
            BY <4>3, <1>HeldAfter
          <5>2. \A e \in PTE : e[1][1] # p => e # WorkPte(p)
            BY <1>SlotOf
          <5>3. \A e \in PTE : e # WorkPte(p) => map'[e] = map[e]
            BY <2>2, <4>5
          <5> QED BY <4>4, <5>1, <5>2, <5>3 DEF PlaceStep
        <4>7. pc[p] # "forking"
          BY <2>8, <3>2 DEF LoadMap
        <4>8. LocalsAt(p)'
          BY <2>8, <3>2, <2>1, <4>1, <4>2, <4>3, <1>KaAfter, <4>5 DEF LoadMap, LocalsAt, Mapped, WorkPte
        <4>9. TablesAt(p)'
          BY <2>8, <3>2, <2>1, <4>2, <4>3, <1>KaAfter, <4>4, <1>TablesMove
            DEF LoadMap, WorkLabels, LoadLabels
        <4>10. SingleOwner'
          BY <2>8, <3>2, <2>1, <2>2, <4>1, <4>5 DEF SingleOwner, KaPrivate, Mapped, LocalsAt
        <4>11. ForkStep(p)
          BY <2>8, <3>2, <2>1, <4>2 DEF LoadMap, ForkStep, ForkLabels, Forking, ForkInv
        <4> QED BY <4>2, <4>6, <4>7, <4>8, <4>9, <4>10, <4>11, <1>ControlStep
      <3> QED BY <3>1, <3>2
    <2>9. CASE LoadMapFails(p)
      <3>1. CASE Panic("kerneltrap") \/ Panic("kfree_decr")
        BY <3>1, ControlSame DEF Panic
      <3>2. CASE ~(Panic("kerneltrap") \/ Panic("kfree_decr"))
        <4>1. /\ SlotStep(p) /\ pc'[p] = "unmap" /\ ret'[p] = ret[p] /\ tb'[p] = tb[p]
              /\ idx'[p] = IF ret[p] = "sbrk" THEN sz[p] ELSE 0
          <5>1. LoadUnwind(p)
            BY <2>9, <3>2 DEF LoadMapFails
          <5> QED BY <5>1, <2>1, <1>LoadUnwindStep
        <4>2. HeldStep(p, Ka(p), NoPage)
          BY <2>9, <3>2, <2>2, SlotTypes, <1>SlotOf DEF LoadMapFails, HeldStep
        <4>3. cur' = cur
          BY <2>9, <3>2 DEF LoadMapFails
        <4>4. map' = map /\ W' = W /\ C' = C
          BY <2>9, <3>2 DEF LoadMapFails
        <4>5. PlaceStep(p)
          BY <2>2, <4>2, <4>3, <4>4, <1>HeldAfter DEF PlaceStep
        <4>6. pc[p] # "forking"
          BY <2>9, <3>2 DEF LoadMapFails
        <4>7. LocalsAt(p)'
          BY <2>9, <3>2, <2>1, <4>1, <4>2, <1>KaAfter, <4>4 DEF LoadMapFails, LocalsAt, Mapped, WorkPte
        <4>8. TablesAt(p)'
          BY <2>9, <3>2, <2>1, <4>1, <4>2, <1>KaAfter, <4>3, <1>TablesMove
            DEF LoadMapFails, WorkLabels, LoadLabels
        <4>9. SingleOwner'
          BY <2>1, <4>4, <1>SameOwner
        <4>10. ForkStep(p)
          BY <2>9, <3>2, <2>1, <4>1 DEF LoadMapFails, ForkStep, ForkLabels, Forking, ForkInv
        <4> QED BY <4>1, <4>5, <4>6, <4>7, <4>8, <4>9, <4>10, <1>ControlStep
      <3> QED BY <3>1, <3>2
    <2>10. CASE LoadDone(p)
      <3>1. pc[p] = "load" /\ held' = held /\ map' = map /\ W' = W /\ C' = C
        BY <2>10 DEF LoadDone
      <3>2. SingleOwner'
        BY <2>1, <3>1, <1>SameOwner
      <3>3. CASE ret[p] = "exec"
        <4>1. /\ SlotStep(p) /\ pc'[p] = "unmap" /\ ret'[p] = "exec" /\ tb'[p] = cur[p]
              /\ cur' = [cur EXCEPT ![p] = tb[p]]
          BY SMT, <2>10, <2>2, <3>3 DEF LoadDone, SlotStep, Loop, Goto
        <4>2. PlaceStep(p)
          BY <2>2, <3>1, <4>1 DEF PlaceStep
        <4>3. LocalsAt(p)'
          BY <2>1, <3>1, <4>1 DEF LocalsAt
        <4>4. TablesAt(p)'
          <5>1. tb[p] = 1 - cur[p] /\ cur'[p] = tb[p] /\ (cur[p] = 0 \/ cur[p] = 1)
            BY <2>1, <2>2, <3>1, <3>3, <4>1 DEF TablesAt, WorkLabels, LoadLabels
          <5>2. 1 - cur'[p] = cur[p]
            BY SMTT(20), <5>1
          <5> QED BY <4>1, <5>2 DEF TablesAt, LoadLabels
        <4>5. ForkStep(p)
          BY <4>1 DEF ForkStep, Forking
        <4> QED BY <3>1, <3>2, <4>1, <4>2, <4>3, <4>4, <4>5, <1>ControlStep
      <3>4. CASE ret[p] # "exec"
        <4>1. SlotStep(p) /\ pc'[p] = "run" /\ cur' = cur
          BY <2>10, <2>2, <3>4 DEF LoadDone, SlotStep, Goto
        <4>2. PlaceStep(p)
          BY <3>1, <4>1 DEF PlaceStep
        <4>3. LocalsAt(p)'
          BY <2>1, <3>1, <4>1 DEF LocalsAt
        <4>4. TablesAt(p)'
          BY <2>1, <3>1, <3>4, <4>1, <1>TablesQuiet, <1>OtherEmpty DEF WorkLabels, LoadLabels
        <4>5. ForkStep(p)
          BY <4>1 DEF ForkStep, Forking, ForkLabels
        <4> QED BY <3>1, <3>2, <4>1, <4>2, <4>3, <4>4, <4>5, <1>ControlStep
      <3> QED BY <3>3, <3>4
    <2>11. CASE CopyIncr(p)
      <3>1. CASE Panic("uvmcopy: page not present")
        BY <3>1, ControlSame DEF Panic
      <3>2. CASE ~Panic("uvmcopy: page not present")
        <4>1. idx[p] \in VPages
          BY <2>11, <3>2, <2>1, <2>2, LoopPage DEF CopyIncr
        <4>2. map[CopyFrom(p)] # NoPage
          BY <2>11, <3>2, <2>1, <2>2, <4>1 DEF CopyIncr, Mapped
        <4>3. SlotStep(p) /\ pc'[p] = "copymap" /\ ret'[p] = ret[p] /\ tb'[p] = tb[p] /\ idx'[p] = idx[p]
          BY <2>11, <3>2, <2>2 DEF CopyIncr, SlotStep, Goto
        <4>4. HeldStep(p, Pa(p), map[CopyFrom(p)])
          <5>1. held' = [held EXCEPT ![Pa(p)] = map[CopyFrom(p)]]
            BY <2>11, <3>2, <4>2 DEF CopyIncr, Mapped
          <5>2. Pa(p) \in Held
            BY SlotTypes
          <5> QED BY <2>2, <5>1, <5>2, <1>SlotOf, <1>HeldSet
        <4>5. cur' = cur
          BY <2>11, <3>2 DEF CopyIncr
        <4>6. map' = map /\ W' = W /\ C' = C
          BY <2>11, <3>2 DEF CopyIncr
        <4>7. PlaceStep(p)
          BY <2>2, <4>4, <4>5, <4>6, <1>HeldAfter DEF PlaceStep
        <4>8. pc[p] # "forking"
          BY <2>11, <3>2 DEF CopyIncr
        <4>9. LocalsAt(p)'
          BY <2>11, <3>2, <2>1, <4>1, <4>2, <4>3, <4>4, <1>PaAfter, <4>6
            DEF CopyIncr, LocalsAt, Mapped, WorkPte
        <4>10. TablesAt(p)'
          BY <2>11, <3>2, <2>1, <4>3, <4>4, <1>PaAfter, <4>5, <1>TablesMove
            DEF CopyIncr, WorkLabels, LoadLabels, ForkInv
        <4>11. SingleOwner'
          BY <2>1, <4>6, <1>SameOwner
        <4>12. ForkStep(p)
          BY <2>11, <3>2, <2>1, <4>3 DEF CopyIncr, ForkStep, ForkLabels, Forking, ForkInv
        <4> QED BY <4>3, <4>7, <4>8, <4>9, <4>10, <4>11, <4>12, <1>ControlStep
      <3> QED BY <3>1, <3>2
    <2>12. CASE CopyMap(p)
      <3>1. CASE Panic("mappages: remap")
        BY <3>1, ControlSame DEF Panic
      <3>2. CASE ~Panic("mappages: remap")
        <4>1. WorkPte(p) \in PTE /\ Pa(p) \in Held /\ held[Pa(p)] # NoPage
          BY <2>12, <3>2, <2>1, <2>2, WorkTypes, SlotTypes DEF CopyMap, LocalsAt
        <4>2. SlotStep(p) /\ pc'[p] = "copy" /\ ret'[p] = ret[p] /\ tb'[p] = tb[p] /\ idx'[p] = idx[p] + 1
          BY <2>12, <3>2, <2>2 DEF CopyMap, SlotStep, Advance, Goto
        <4>3. HeldStep(p, Pa(p), NoPage)
          BY <2>12, <3>2, <2>2, <4>1, <1>SlotOf, <1>HeldSet DEF CopyMap
        <4>4. cur' = cur
          BY <2>12, <3>2 DEF CopyMap
        <4>5. /\ map' = [map EXCEPT ![WorkPte(p)] = held[Pa(p)]]
              /\ C' = C \cup {WorkPte(p)} /\ W' = W \ {WorkPte(p)}
          BY <2>12, <3>2, <2>2, <4>1 DEF CopyMap, SetPte
        <4>6. PlaceStep(p)
          <5>1. \A h \in Held : h[1] # p => held'[h] = held[h]
            BY <4>3, <1>HeldAfter
          <5>2. \A e \in PTE : e[1][1] # p => e # WorkPte(p)
            BY <1>SlotOf
          <5>3. \A e \in PTE : e # WorkPte(p) => map'[e] = map[e]
            BY <2>2, <4>5
          <5> QED BY <4>4, <5>1, <5>2, <5>3 DEF PlaceStep
        <4>7. pc[p] # "forking"
          BY <2>12, <3>2 DEF CopyMap
        <4>8. LocalsAt(p)'
          BY <2>12, <3>2, <2>1, <4>1, <4>2, <4>3, <1>PaAfter, <4>5 DEF CopyMap, LocalsAt, Mapped, WorkPte
        <4>9. TablesAt(p)'
          BY <2>12, <3>2, <2>1, <4>2, <4>3, <1>PaAfter, <4>4, <1>TablesMove
            DEF CopyMap, WorkLabels, LoadLabels, ForkInv
        <4>10. SingleOwner'
          BY <2>12, <3>2, <2>1, <2>2, <4>1, <4>5 DEF SingleOwner, Mapped
        <4>11. ForkStep(p)
          BY <2>12, <3>2, <2>1, <4>2 DEF CopyMap, ForkStep, ForkLabels, Forking, ForkInv
        <4> QED BY <4>2, <4>6, <4>7, <4>8, <4>9, <4>10, <4>11, <1>ControlStep
      <3> QED BY <3>1, <3>2
    <2>13. CASE CopyMapFails(p)
      <3>1. SlotStep(p) /\ pc'[p] = "unmap" /\ ret'[p] = "fork" /\ tb'[p] = tb[p] /\ idx'[p] = 0
        BY <2>13, <2>2 DEF CopyMapFails, SlotStep, Loop, Goto
      <3>2. HeldStep(p, Pa(p), NoPage)
        BY <2>13, <2>2, SlotTypes, <1>SlotOf DEF CopyMapFails, HeldStep
      <3>3. cur' = cur
        BY <2>13 DEF CopyMapFails
      <3>4. map' = map /\ W' = W /\ C' = C
        BY <2>13 DEF CopyMapFails
      <3>5. PlaceStep(p)
        BY <2>2, <3>2, <3>3, <3>4, <1>HeldAfter DEF PlaceStep
      <3>6. pc[p] # "forking"
        BY <2>13 DEF CopyMapFails
      <3>7. LocalsAt(p)'
        BY <2>13, <2>1, <3>1, <3>2, <1>PaAfter, <3>4 DEF CopyMapFails, LocalsAt, Mapped, WorkPte
      <3>8. TablesAt(p)'
        BY <2>13, <2>1, <3>1, <3>2, <1>PaAfter, <3>3, <1>TablesMove
          DEF CopyMapFails, WorkLabels, LoadLabels, ForkInv
      <3>9. SingleOwner'
        BY <2>1, <3>4, <1>SameOwner
      <3>10. ForkStep(p)
        BY <2>13, <2>1, <3>1 DEF CopyMapFails, ForkStep, ForkLabels, Forking, ForkInv
      <3> QED BY <3>1, <3>5, <3>6, <3>7, <3>8, <3>9, <3>10, <1>ControlStep
    <2>14. CASE ForkDone(p)
      <3>1. /\ pc[p] = "copy" /\ held' = held /\ map' = map /\ W' = W /\ C' = C /\ cur' = cur
            /\ ret' = ret /\ tb' = tb /\ idx' = idx /\ par' = par
        BY <2>14 DEF ForkDone
      <3>2. Forking(p) /\ pc[par[p]] = "forking" /\ par[p] # p
        BY <2>1, <3>1 DEF ForkInv, Forking, ForkLabels
      <3>3. /\ pc'[p] = "run"
            /\ \A q \in Procs : q # p => pc'[q] = IF q = par[p] THEN "run" ELSE pc[q]
        BY <2>14, <2>2, <3>2 DEF ForkDone
      <3>4. Frame(p)
        BY <3>1, <3>2, <3>3 DEF Frame, RunOrFork
      <3>5. LocalsAt(p)'
        BY <2>1, <3>1, <3>3 DEF LocalsAt
      <3>6. TablesAt(p)'
        BY <2>1, <3>1, <3>3, <1>TablesQuiet, <1>OtherEmpty DEF WorkLabels, LoadLabels
      <3>7. ForkInv'
        <4>1. ~Forking(p)'
          BY <3>3 DEF Forking, ForkLabels
        <4> QED BY <2>1, <3>1, <3>2, <3>3, <4>1, <1>ForkFrame
      <3>8. SingleOwner'
        BY <2>1, <3>1, <1>SameOwner
      <3> QED BY <2>1, <3>4, <3>5, <3>6, <3>7, <3>8, <1>OthersKeepLocals, <1>OthersKeepTables DEF IInv, Control
    <2> QED BY <2>3, <2>4, <2>5, <2>6, <2>7, <2>8, <2>9, <2>10, <2>11, <2>12, <2>13, <2>14 DEF Build
  <1>ControlTearDown.
      ASSUME IInv, NEW p \in Procs, TearDown(p)
      PROVE  Control'
    <2> USE <1>ControlTearDown
    <2> USE DEF At, kallocVars, ptVars, pcVars, histVars
    <2>1. TypeOK /\ LocalsInv /\ LocalsAt(p) /\ TablesAt(p) /\ ForkInv /\ SingleOwner /\ KaPrivate
      BY <1>AtEachSlot DEF IInv
    <2>2. /\ pc \in [Procs -> Labels] /\ ret \in [Procs -> Calls] /\ tb \in [Procs -> {0, 1}]
          /\ cur \in [Procs -> {0, 1}] /\ idx \in [Procs -> 0 .. NV] /\ par \in [Procs -> Procs]
          /\ held \in [Held -> Pages \cup {NoPage}] /\ map \in [PTE -> Pages \cup {NoPage}]
          /\ lim \in [Procs -> 0 .. NV]
      BY <2>1 DEF TypeOK, Tables
    <2>3. CASE Unmap(p)
      <3>1. CASE Panic("uvmunmap: not mapped") \/ Panic("kfree_decr")
        BY <3>1, ControlSame DEF Panic
      <3>2. CASE ~(Panic("uvmunmap: not mapped") \/ Panic("kfree_decr"))
        <4>1. WorkPte(p) \in PTE
          BY <2>3, <3>2, <2>1, <2>2, WorkTypes DEF Unmap
        <4>2. SlotStep(p) /\ pc'[p] = "unmap" /\ ret'[p] = ret[p] /\ tb'[p] = tb[p] /\ idx'[p] = idx[p] + 1
          BY <2>3, <3>2, <2>2 DEF Unmap, SlotStep, Advance, Goto
        <4>3. held' = held
          BY <2>3, <3>2 DEF Unmap
        <4>4. cur' = cur
          BY <2>3, <3>2 DEF Unmap
        <4>5. /\ map' = [map EXCEPT ![WorkPte(p)] = NoPage]
              /\ W' = W \ {WorkPte(p)} /\ C' = C \ {WorkPte(p)}
          BY <2>3, <3>2, <2>2, <4>1 DEF Unmap, SetPte
        <4>6. PlaceStep(p)
          BY <2>2, <4>3, <4>4, <4>5, <4>1, <1>SlotOf DEF PlaceStep
        <4>7. pc[p] # "forking"
          BY <2>3, <3>2 DEF Unmap
        <4>8. LocalsAt(p)'
          BY <2>3, <3>2, <2>1, <4>1, <4>2, <4>3, <4>5 DEF Unmap, LocalsAt, Mapped, WorkPte
        <4>9. TablesAt(p)'
          BY <2>3, <3>2, <2>1, <4>2, <4>3, <4>4, <1>TablesMove DEF Unmap, WorkLabels, LoadLabels
        <4>10. SingleOwner'
          BY <2>3, <3>2, <2>1, <2>2, <4>1, <4>5 DEF SingleOwner, Mapped
        <4>11. ForkStep(p)
          BY <2>3, <3>2, <2>1, <4>2 DEF Unmap, ForkStep, ForkLabels, Forking, ForkInv
        <4> QED BY <4>2, <4>6, <4>7, <4>8, <4>9, <4>10, <4>11, <1>ControlStep
      <3> QED BY <3>1, <3>2
    <2>4. CASE UnmapDone(p)
      <3>1. pc[p] = "unmap" /\ held' = held /\ map' = map /\ W' = W /\ C' = C /\ cur' = cur
        BY <2>4 DEF UnmapDone
      <3>2. /\ SlotStep(p) /\ ret'[p] = ret[p] /\ tb'[p] = tb[p] /\ idx'[p] = idx[p]
            /\ pc'[p] \in {"run", "freetf", "tables"}
            /\ pc'[p] \in {"run", "freetf"} => ret[p] # "exec"
        BY <2>4, <2>2 DEF UnmapDone, SlotStep, Goto
      <3>3. PlaceStep(p)
        BY <3>1 DEF PlaceStep
      <3>4. LocalsAt(p)'
        BY <2>1, <3>1, <3>2 DEF LocalsAt
      <3>5. TablesAt(p)'
        <4>1. CASE pc'[p] = "run"
          BY <2>1, <3>1, <3>2, <4>1, <1>TablesQuiet, <1>OtherEmpty DEF WorkLabels, LoadLabels
        <4>2. CASE pc'[p] # "run"
          BY <2>1, <3>1, <3>2, <4>2, <1>TablesMove DEF WorkLabels, LoadLabels
        <4> QED BY <4>1, <4>2
      <3>6. SingleOwner'
        BY <2>1, <3>1, <1>SameOwner
      <3>7. ForkStep(p)
        BY <3>1, <3>2 DEF ForkStep, Forking, ForkLabels
      <3> QED BY <3>1, <3>2, <3>3, <3>4, <3>5, <3>6, <3>7, <1>ControlStep
    <2>5. CASE Freewalk(p)
      <3>1. CASE Panic("freewalk: leaf") \/ Panic("kfree_decr")
        BY <3>1, ControlSame DEF Panic
      <3>2. CASE ~(Panic("freewalk: leaf") \/ Panic("kfree_decr"))
        <4>1. PICK h \in TablePages(p, tb[p]) : held' = [held EXCEPT ![h] = NoPage]
          BY <2>5, <3>2 DEF Freewalk
        <4>2. /\ pc[p] = "tables" /\ cur' = cur /\ map' = map /\ W' = W /\ C' = C
              /\ SlotStep(p) /\ pc'[p] = pc[p] /\ ret'[p] = ret[p] /\ tb'[p] = tb[p] /\ idx'[p] = idx[p]
          BY <2>5, <3>2 DEF Freewalk, SlotStep
        <4>3. HeldStep(p, h, NoPage)
          BY <2>1, <2>2, <4>1, WorkTypes, <1>SlotOf DEF HeldStep
        <4>4. h # Ka(p) /\ h # Pa(p)
          BY SMT DEF TablePages, Root, High, Ka, Pa, Slot
        <4>5. PlaceStep(p)
          BY <4>2, <4>3, <1>HeldAfter DEF PlaceStep
        <4>6. LocalsAt(p)'
          BY <2>1, <4>2, <4>3, <4>4, <1>HeldAfter DEF LocalsAt
        <4>7. TablesAt(p)'
          <5>1. /\ held'[High(p, 0)] \in {held[High(p, 0)], NoPage}
                /\ held'[High(p, 1)] \in {held[High(p, 1)], NoPage}
            BY <4>3, <1>HeldAfter
          <5> QED BY <2>1, <4>2, <5>1, <1>TablesStay
        <4>8. SingleOwner'
          BY <2>1, <4>2, <1>SameOwner
        <4>9. ForkStep(p)
          BY <4>2 DEF ForkStep, Forking
        <4> QED BY <4>2, <4>5, <4>6, <4>7, <4>8, <4>9, <1>ControlStep
      <3> QED BY <3>1, <3>2
    <2>6. CASE FreeTf(p)
      <3>1. CASE Panic("kfree_decr")
        BY <3>1, ControlSame DEF Panic
      <3>2. CASE ~Panic("kfree_decr")
        <4>1. pc[p] \in {"freetf", "tables"}
          BY <2>6, <3>2, <2>1, <2>2 DEF FreeTf
        <4>2. SlotStep(p) /\ pc'[p] \in {"unmap", "tables"} /\ ret'[p] = ret[p] /\ tb'[p] = tb[p] /\ idx'[p] = idx[p]
          BY <2>6, <3>2, <2>2 DEF FreeTf, SlotStep, Goto
        <4>3. HeldStep(p, Tf(p), NoPage)
          BY SMTT(20), <2>6, <3>2, <2>2, <4>1, SlotTypes, <1>SlotOf DEF FreeTf, HeldStep
        <4>4. cur' = cur
          BY <2>6, <3>2 DEF FreeTf
        <4>5. map' = map /\ W' = W /\ C' = C
          BY <2>6, <3>2 DEF FreeTf
        <4>6. PlaceStep(p)
          BY <2>2, <4>3, <4>4, <4>5, <1>HeldAfter DEF PlaceStep
        <4>7. pc[p] # "forking"
          BY <2>6, <3>2 DEF FreeTf
        <4>8. LocalsAt(p)'
          BY <2>6, <3>2, <2>1, <4>1, <4>2, <4>3, <1>TfAfter, <4>5 DEF FreeTf, LocalsAt, Mapped, WorkPte
        <4>9. TablesAt(p)'
          BY <2>6, <3>2, <2>1, <4>2, <4>3, <1>TfAfter, <4>4, <1>TablesMove
            DEF FreeTf, WorkLabels, LoadLabels
        <4>10. SingleOwner'
          BY <2>1, <4>5, <1>SameOwner
        <4>11. ForkStep(p)
          BY <2>6, <3>2, <2>1, <4>2 DEF FreeTf, ForkStep, ForkLabels, Forking, ForkInv
        <4> QED BY <4>2, <4>6, <4>7, <4>8, <4>9, <4>10, <4>11, <1>ControlStep
      <3> QED BY <3>1, <3>2
    <2>7. CASE FreeDone(p)
      <3>1. /\ pc[p] = "tables" /\ held' = held /\ map' = map /\ W' = W /\ C' = C /\ cur' = cur
            /\ ret' = ret /\ tb' = tb /\ idx' = idx /\ par' = par
        BY <2>7 DEF FreeDone
      <3>2. /\ ret[p] = "exec" => tb[p] = 1 - cur[p]
            /\ ret[p] # "exec" => tb[p] = cur[p]
        BY <2>1, <3>1 DEF TablesAt, WorkLabels, LoadLabels
      <3>3. held[High(p, tb[p])] = NoPage
        BY <2>7 DEF FreeDone, NoTables, TablePages
      <3>4. SingleOwner'
        BY <2>1, <3>1, <1>SameOwner
      <3>5. CASE ret[p] = "exec"
        <4>1. SlotStep(p) /\ pc'[p] = "run"
          BY <2>7, <2>2, <3>1, <3>5 DEF FreeDone, SlotStep, Goto
        <4>2. PlaceStep(p)
          BY <3>1 DEF PlaceStep
        <4>3. LocalsAt(p)'
          BY <2>1, <3>1, <4>1 DEF LocalsAt
        <4>4. TablesAt(p)'
          BY <2>1, <3>1, <3>2, <3>3, <3>5, <4>1, <1>TablesQuiet DEF WorkLabels, LoadLabels
        <4>5. ForkStep(p)
          BY <4>1 DEF ForkStep, Forking, ForkLabels
        <4> QED BY <3>1, <3>4, <4>1, <4>2, <4>3, <4>4, <4>5, <1>ControlStep
      <3>6. CASE ret[p] # "exec"
        <4>1. /\ pc'[p] = "unused"
              /\ \A q \in Procs : q # p =>
                   pc'[q] = IF ret[p] = "fork" /\ q = par[p] THEN "run" ELSE pc[q]
          BY <2>7, <3>6 DEF FreeDone
        <4>2. ret[p] = "fork" => Forking(p) /\ pc[par[p]] = "forking"
          BY <2>1, <3>1 DEF ForkInv, Forking, ForkLabels
        <4>3. Frame(p)
          BY <3>1, <4>1, <4>2 DEF Frame, RunOrFork
        <4>4. LocalsAt(p)'
          BY <2>1, <3>1, <4>1 DEF LocalsAt
        <4>5. TablesAt(p)'
          BY <2>1, <3>1, <3>2, <3>3, <3>6, <4>1 DEF TablesAt, WorkLabels, LoadLabels
        <4>6. ForkInv'
          <5>1. ~Forking(p)'
            BY <4>1 DEF Forking, ForkLabels
          <5> QED BY <2>1, <3>1, <4>1, <4>2, <5>1, <1>ForkFrame
        <4> QED BY <2>1, <3>4, <4>3, <4>4, <4>5, <4>6, <1>OthersKeepLocals, <1>OthersKeepTables
              DEF IInv, Control
      <3> QED BY <3>5, <3>6
    <2>8. CASE Push(p)
      BY <2>8, ControlSame DEF Push
    <2> QED BY <2>3, <2>4, <2>5, <2>6, <2>7, <2>8 DEF TearDown
  <1>ControlCowFault.
      ASSUME IInv, NEW p \in Procs, CowFault(p)
      PROVE  Control'
    <2> USE <1>ControlCowFault
    <2> USE DEF At, kallocVars, ptVars, pcVars, histVars
    <2>1. TypeOK /\ LocalsInv /\ LocalsAt(p) /\ TablesAt(p) /\ ForkInv /\ SingleOwner /\ KaPrivate
      BY <1>AtEachSlot DEF IInv
    <2>2. /\ pc \in [Procs -> Labels] /\ ret \in [Procs -> Calls] /\ tb \in [Procs -> {0, 1}]
          /\ cur \in [Procs -> {0, 1}] /\ idx \in [Procs -> 0 .. NV] /\ par \in [Procs -> Procs]
          /\ held \in [Held -> Pages \cup {NoPage}] /\ map \in [PTE -> Pages \cup {NoPage}]
          /\ lim \in [Procs -> 0 .. NV]
      BY <2>1 DEF TypeOK, Tables
    <2>3. CASE CowKalloc(p)
      <3>1. Top # NoPage
        BY <2>3, <2>1, <2>2, KallocType, KallocAssumption DEF CowKalloc
      <3>2. SlotStep(p) /\ pc'[p] = "cowcopy" /\ ret'[p] = ret[p] /\ tb'[p] = tb[p] /\ idx'[p] = idx[p]
        BY <2>3, <2>2 DEF CowKalloc, SlotStep, Goto
      <3>3. HeldStep(p, Ka(p), Top)
        BY <2>3, <2>2, <3>1, SlotTypes, <1>SlotOf DEF CowKalloc, HeldStep
      <3>4. cur' = cur
        BY <2>3 DEF CowKalloc
      <3>5. map' = map /\ W' = W /\ C' = C
        BY <2>3 DEF CowKalloc
      <3>6. PlaceStep(p)
        BY <2>2, <3>3, <3>4, <3>5, <1>HeldAfter DEF PlaceStep
      <3>7. pc[p] # "forking"
        BY <2>3 DEF CowKalloc
      <3>8. LocalsAt(p)'
        BY <2>3, <2>1, <3>1, <3>2, <3>3, <1>KaAfter, <3>5 DEF CowKalloc, LocalsAt, Mapped, WorkPte
      <3>9. TablesAt(p)'
        BY <2>3, <2>1, <3>2, <3>3, <1>KaAfter, <3>4, <3>1, <1>TablesQuiet, <1>OtherEmpty
          DEF CowKalloc, WorkLabels, LoadLabels
      <3>10. SingleOwner'
        BY <2>1, <3>5, <1>SameOwner
      <3>11. ForkStep(p)
        BY <2>3, <2>1, <3>2 DEF CowKalloc, ForkStep, ForkLabels, Forking, ForkInv
      <3> QED BY <3>2, <3>6, <3>7, <3>8, <3>9, <3>10, <3>11, <1>ControlStep
    <2>4. CASE CowKallocFails(p)
      <3>1. SlotStep(p) /\ pc'[p] \in {"run", "zombie"} /\ ret'[p] = ret[p] /\ tb'[p] = tb[p] /\ idx'[p] = idx[p]
        BY <2>4, <2>2 DEF CowKallocFails, SlotStep, Goto
      <3>2. held' = held
        BY <2>4 DEF CowKallocFails
      <3>3. cur' = cur
        BY <2>4 DEF CowKallocFails
      <3>4. map' = map /\ W' = W /\ C' = C
        BY <2>4 DEF CowKallocFails
      <3>5. PlaceStep(p)
        BY <2>2, <3>2, <3>3, <3>4 DEF PlaceStep
      <3>6. pc[p] # "forking"
        BY <2>4 DEF CowKallocFails
      <3>7. LocalsAt(p)'
        BY <2>4, <2>1, <3>1, <3>2, <3>4 DEF CowKallocFails, LocalsAt, Mapped, WorkPte
      <3>8. TablesAt(p)'
        BY <2>4, <2>1, <3>1, <3>2, <3>3, <1>TablesQuiet, <1>OtherEmpty
          DEF CowKallocFails, WorkLabels, LoadLabels
      <3>9. SingleOwner'
        BY <2>1, <3>4, <1>SameOwner
      <3>10. ForkStep(p)
        BY <2>4, <2>1, <3>1 DEF CowKallocFails, ForkStep, ForkLabels, Forking, ForkInv
      <3> QED BY <3>1, <3>5, <3>6, <3>7, <3>8, <3>9, <3>10, <1>ControlStep
    <2>5. CASE CowCopy(p)
      <3>1. /\ pc[p] = "cowcopy" /\ WorkPte(p) \in PTE /\ held[Ka(p)] # NoPage
            /\ map[WorkPte(p)] # NoPage /\ Ka(p) \in Held /\ Pa(p) \in Held /\ Ka(p) # Pa(p)
        BY <2>5, <2>1, WorkTypes, SlotTypes, SlotsDiffer DEF CowCopy, LocalsAt, Mapped
      <3>2. SlotStep(p) /\ pc'[p] = "cowdecr" /\ ret'[p] = ret[p] /\ tb'[p] = tb[p] /\ idx'[p] = idx[p]
        BY <2>5, <2>2 DEF CowCopy, SlotStep, Goto
      <3>3. /\ map' = [map EXCEPT ![WorkPte(p)] = held[Ka(p)]]
            /\ W' = W \cup {WorkPte(p)} /\ C' = C \ {WorkPte(p)} /\ cur' = cur
        BY <2>5 DEF CowCopy, SetPte
      <3>4. \A h \in Held : held'[h] = IF h = Ka(p) THEN NoPage
                                       ELSE IF h = Pa(p) THEN map[WorkPte(p)] ELSE held[h]
        BY <2>5, <2>2, <3>1 DEF CowCopy
      <3>5. /\ held'[High(p, 0)] = held[High(p, 0)] /\ held'[High(p, 1)] = held[High(p, 1)]
            /\ held'[Ka(p)] = NoPage /\ held'[Pa(p)] # NoPage
        BY <3>1, <3>4, SlotTypes, SlotsDiffer DEF Tables
      <3>6. PlaceStep(p)
        BY <2>2, <3>1, <3>3, <3>4, <1>SlotOf DEF PlaceStep
      <3>7. LocalsAt(p)'
        BY <2>1, <3>1, <3>2, <3>5 DEF LocalsAt
      <3>8. TablesAt(p)'
        BY <2>1, <3>1, <3>2, <3>3, <3>5, <1>TablesQuiet, <1>OtherEmpty DEF WorkLabels, LoadLabels
      <3>9. SingleOwner'
        BY SMT, <2>1, <2>2, <3>1, <3>3 DEF SingleOwner, KaPrivate, Mapped
      <3>10. ForkStep(p)
        BY <3>2 DEF ForkStep, Forking, ForkLabels
      <3> QED BY <3>1, <3>2, <3>6, <3>7, <3>8, <3>9, <3>10, <1>ControlStep
    <2>6. CASE CowDecr(p)
      <3>1. SlotStep(p) /\ pc'[p] \in {"run", "zombie"} /\ ret'[p] = ret[p] /\ tb'[p] = tb[p] /\ idx'[p] = idx[p]
        BY <2>6, <2>2 DEF CowDecr, krefdecr, SlotStep, Goto
      <3>2. HeldStep(p, Pa(p), NoPage)
        BY <2>6, <2>2, SlotTypes, <1>SlotOf DEF CowDecr, krefdecr, HeldStep
      <3>3. cur' = cur
        BY <2>6 DEF CowDecr, krefdecr
      <3>4. map' = map /\ W' = W /\ C' = C
        BY <2>6 DEF CowDecr, krefdecr
      <3>5. PlaceStep(p)
        BY <2>2, <3>2, <3>3, <3>4, <1>HeldAfter DEF PlaceStep
      <3>6. pc[p] # "forking"
        BY <2>6 DEF CowDecr, krefdecr
      <3>7. LocalsAt(p)'
        BY <2>6, <2>1, <3>1, <3>2, <1>PaAfter, <3>4 DEF CowDecr, krefdecr, LocalsAt, Mapped, WorkPte
      <3>8. TablesAt(p)'
        BY <2>6, <2>1, <3>1, <3>2, <1>PaAfter, <3>3, <1>TablesQuiet, <1>OtherEmpty
          DEF CowDecr, krefdecr, WorkLabels, LoadLabels
      <3>9. SingleOwner'
        BY <2>1, <3>4, <1>SameOwner
      <3>10. ForkStep(p)
        BY <2>6, <2>1, <3>1 DEF CowDecr, krefdecr, ForkStep, ForkLabels, Forking, ForkInv
      <3> QED BY <3>1, <3>5, <3>6, <3>7, <3>8, <3>9, <3>10, <1>ControlStep
    <2> QED BY <2>3, <2>4, <2>5, <2>6 DEF CowFault
  <1>ControlUserStep.
      ASSUME IInv, NEW p \in Procs, UserStep(p)
      PROVE  Control'
    <2> USE <1>ControlUserStep
    <2> USE DEF At, kallocVars, ptVars, pcVars, histVars
    <2>1. TypeOK /\ LocalsInv /\ LocalsAt(p) /\ TablesAt(p) /\ ForkInv /\ SingleOwner /\ KaPrivate
      BY <1>AtEachSlot DEF IInv
    <2>2. /\ pc \in [Procs -> Labels] /\ ret \in [Procs -> Calls] /\ tb \in [Procs -> {0, 1}]
          /\ cur \in [Procs -> {0, 1}] /\ idx \in [Procs -> 0 .. NV] /\ par \in [Procs -> Procs]
          /\ held \in [Held -> Pages \cup {NoPage}] /\ map \in [PTE -> Pages \cup {NoPage}]
          /\ lim \in [Procs -> 0 .. NV]
      BY <2>1 DEF TypeOK, Tables
    <2>3. ASSUME NEW c \in Procs, Fork(p, c) PROVE Control'
      <3>1. /\ pc[p] = "run" /\ pc[c] = "unused" /\ p # c
            /\ held' = held /\ map' = map /\ W' = W /\ C' = C /\ cur' = cur /\ idx' = idx
        BY <2>3 DEF Fork, StartCall
      <3>2. \A q \in Procs :
              /\ pc'[q] = IF q = c THEN "alloc" ELSE IF q = p THEN "forking" ELSE pc[q]
              /\ ret'[q] = IF q = c THEN "fork" ELSE ret[q]
              /\ tb'[q] = IF q = c THEN cur[c] ELSE tb[q]
              /\ par'[q] = IF q = c THEN p ELSE par[q]
        BY <2>3, <2>2, <3>1 DEF Fork
      <3>3. LocalsAt(c) /\ TablesAt(c)
        BY <2>1, <1>AtEachSlot DEF IInv
      <3>4. Frame(c)
        BY <3>1, <3>2 DEF Frame, RunOrFork
      <3>5. LocalsAt(c)'
        BY <3>1, <3>2, <3>3 DEF LocalsAt
      <3>6. TablesAt(c)'
        BY <2>3, <3>1, <3>2, <3>3 DEF TablesAt, WorkLabels, LoadLabels
      <3>7. ForkInv'
        <4>1. ASSUME NEW d \in Procs, d # c, Forking(d)'
              PROVE  /\ Forking(d) /\ par'[d] = par[d] /\ par[d] \in Procs
                     /\ par[d] # p /\ pc'[par[d]] = "forking"
          <5>1. Forking(d) /\ par'[d] = par[d]
            BY <3>2, <4>1 DEF Forking, ForkLabels
          <5>2. par[d] \in Procs /\ pc[par[d]] = "forking"
            BY <2>1, <2>2, <5>1 DEF ForkInv
          <5> QED BY <3>1, <3>2, <5>1, <5>2
        <4>2. pc'[c] = "alloc" /\ par'[c] = p /\ pc'[p] = "forking"
          BY <2>3, <3>1, <3>2
        <4>3. ASSUME NEW d \in Procs
              PROVE  /\ pc'[d] \in {"copy", "copymap"} => ret'[d] = "fork"
                     /\ pc'[d] \in {"load", "loadmap"} => ret'[d] # "fork"
                     /\ Forking(d)' => pc'[par'[d]] = "forking"
          BY SMT, <2>1, <3>2, <4>1, <4>2 DEF ForkInv
        <4>4. ASSUME NEW d \in Procs, NEW b \in Procs, Forking(d)', Forking(b)', par'[d] = par'[b]
              PROVE  d = b
          <5>1. CASE d = c
            BY <4>1, <4>2, <4>4, <5>1
          <5>2. CASE b = c
            BY <4>1, <4>2, <4>4, <5>2
          <5>3. CASE d # c /\ b # c
            BY SMT, <2>1, <4>1, <4>4, <5>3 DEF ForkInv
          <5> QED BY <5>1, <5>2, <5>3
        <4> QED BY <4>3, <4>4 DEF ForkInv
      <3>8. SingleOwner'
        BY <2>1, <3>1, <1>SameOwner
      <3> QED BY <2>1, <2>3, <3>4, <3>5, <3>6, <3>7, <3>8, <1>OthersKeepLocals, <1>OthersKeepTables
            DEF IInv, Control
    <2>4. CASE Exec(p)
      <3>1. /\ pc[p] \in {"run", "zombie"} /\ held' = held /\ map' = map /\ W' = W /\ C' = C
            /\ cur' = cur
        BY <2>4 DEF Exec, StartCall
      <3>2. SlotStep(p) /\ pc'[p] = "alloc" /\ ret'[p] = "exec" /\ tb'[p] = 1 - cur[p]
        BY <2>4, <2>2 DEF Exec, StartCall, SlotStep, Loop, Goto
      <3>3. PlaceStep(p)
        BY <3>1 DEF PlaceStep
      <3>4. LocalsAt(p)'
        BY <2>1, <3>1, <3>2 DEF LocalsAt
      <3>5. TablesAt(p)'
        BY <2>1, <3>1, <3>2, <1>OtherEmpty DEF TablesAt, LoadLabels
      <3>6. SingleOwner'
        BY <2>1, <3>1, <1>SameOwner
      <3>7. ForkStep(p)
        BY <3>2 DEF ForkStep, Forking, ForkLabels
      <3> QED BY <3>1, <3>2, <3>3, <3>4, <3>5, <3>6, <3>7, <1>ControlStep
    <2>5. ASSUME NEW n \in 0 .. NV, Sbrk(p, n) PROVE Control'
      <3>1. /\ pc[p] \in {"run", "zombie"} /\ held' = held /\ map' = map /\ W' = W /\ C' = C
            /\ cur' = cur
        BY <2>5 DEF Sbrk, StartCall
      <3>2. SlotStep(p) /\ pc'[p] \in {"load", "unmap"} /\ ret'[p] = "sbrk" /\ tb'[p] = cur[p]
        BY SMTT(20), <2>5, <2>2 DEF Sbrk, StartCall, SlotStep, Loop, Goto
      <3>3. PlaceStep(p)
        BY <3>1 DEF PlaceStep
      <3>4. LocalsAt(p)'
        BY <2>1, <3>1, <3>2 DEF LocalsAt
      <3>5. TablesAt(p)'
        BY <2>1, <3>1, <3>2, <1>TablesQuiet, <1>OtherEmpty DEF WorkLabels, LoadLabels
      <3>6. SingleOwner'
        BY <2>1, <3>1, <1>SameOwner
      <3>7. ForkStep(p)
        BY <3>2 DEF ForkStep, Forking, ForkLabels
      <3> QED BY <3>1, <3>2, <3>3, <3>4, <3>5, <3>6, <3>7, <1>ControlStep
    <2>6. CASE Exit(p)
      <3>1. /\ pc[p] \in {"run", "zombie"} /\ held' = held /\ map' = map /\ W' = W /\ C' = C
            /\ cur' = cur
        BY <2>6 DEF Exit
      <3>2. SlotStep(p) /\ pc'[p] = "zombie"
        BY <2>6, <2>2 DEF Exit, SlotStep, Loop, Goto
      <3>3. PlaceStep(p)
        BY <3>1 DEF PlaceStep
      <3>4. LocalsAt(p)'
        BY <2>1, <3>1, <3>2 DEF LocalsAt
      <3>5. TablesAt(p)'
        BY <2>1, <3>1, <3>2, <1>TablesQuiet, <1>OtherEmpty DEF WorkLabels, LoadLabels
      <3>6. SingleOwner'
        BY <2>1, <3>1, <1>SameOwner
      <3>7. ForkStep(p)
        BY <3>2 DEF ForkStep, Forking, ForkLabels
      <3> QED BY <3>1, <3>2, <3>3, <3>4, <3>5, <3>6, <3>7, <1>ControlStep
    <2>7. CASE Reap(p)
      <3>1. /\ pc[p] \in {"run", "zombie"} /\ held' = held /\ map' = map /\ W' = W /\ C' = C
            /\ cur' = cur
        BY <2>7 DEF Reap
      <3>2. SlotStep(p) /\ pc'[p] = "freetf" /\ ret'[p] = "reap" /\ tb'[p] = cur[p]
        BY <2>7, <2>2 DEF Reap, SlotStep, Loop, Goto
      <3>3. PlaceStep(p)
        BY <3>1 DEF PlaceStep
      <3>4. LocalsAt(p)'
        BY <2>1, <3>1, <3>2 DEF LocalsAt
      <3>5. TablesAt(p)'
        BY <2>1, <3>1, <3>2, <1>TablesQuiet, <1>OtherEmpty DEF WorkLabels, LoadLabels
      <3>6. SingleOwner'
        BY <2>1, <3>1, <1>SameOwner
      <3>7. ForkStep(p)
        BY <3>2 DEF ForkStep, Forking, ForkLabels
      <3> QED BY <3>1, <3>2, <3>3, <3>4, <3>5, <3>6, <3>7, <1>ControlStep
    <2>8. ASSUME NEW v \in VPages, NEW x \in Val, UserStore(p, v, x) PROVE Control'
      BY <2>8, ControlSame DEF UserStore
    <2>9. ASSUME NEW v \in VPages, NEW x \in Val, Copyout(p, v, x) PROVE Control'
      <3>1. /\ pc[p] = "run" /\ held' = held /\ map' = map /\ W' = W /\ C' = C /\ cur' = cur
        BY <2>9 DEF Copyout, Write
      <3>2. CASE UNCHANGED pcVars
        BY <2>9, <3>2, ControlSame DEF Copyout
      <3>3. CASE ~(UNCHANGED pcVars)
        <4>1. PICK r, y : StartCow(p, v, r, y)
          BY <2>9, <3>3 DEF Copyout
        <4>2. ~CowRefuses(Pte(p, v))
          BY <2>9, <3>3 DEF Copyout
        <4>3. SlotStep(p) /\ pc'[p] = "cow" /\ tb'[p] = cur[p] /\ idx'[p] = v
          BY <2>2, <4>1 DEF StartCow, SlotStep
        <4>4. PlaceStep(p)
          BY <3>1 DEF PlaceStep
        <4>5. LocalsAt(p)'
          BY <2>9, <2>1, <3>1, <4>2, <4>3 DEF LocalsAt, CowRefuses, Mapped, Pte, WorkPte
        <4>6. TablesAt(p)'
          BY <2>1, <3>1, <4>3, <1>TablesQuiet, <1>OtherEmpty DEF WorkLabels, LoadLabels
        <4>7. SingleOwner'
          BY <2>1, <3>1, <1>SameOwner
        <4>8. ForkStep(p)
          BY <4>3 DEF ForkStep, Forking, ForkLabels
        <4> QED BY <3>1, <4>3, <4>4, <4>5, <4>6, <4>7, <4>8, <1>ControlStep
      <3> QED BY <3>2, <3>3
    <2>10. ASSUME NEW v \in VPages, NEW below \in BOOLEAN, StoreFault(p, v, below) PROVE Control'
      <3>1. /\ pc[p] = "run" /\ held' = held /\ map' = map /\ W' = W /\ C' = C /\ cur' = cur
        BY <2>10 DEF StoreFault, Write
      <3>2. CASE Goto(p, "zombie") /\ UNCHANGED <<ret, tb, idx, par>>
        <4>1. SlotStep(p) /\ pc'[p] = "zombie"
          BY <2>2, <3>2 DEF SlotStep, Goto
        <4>2. PlaceStep(p)
          BY <3>1 DEF PlaceStep
        <4>3. LocalsAt(p)'
          BY <2>1, <3>1, <4>1 DEF LocalsAt
        <4>4. TablesAt(p)'
          BY <2>1, <3>1, <4>1, <1>TablesQuiet, <1>OtherEmpty DEF WorkLabels, LoadLabels
        <4>5. SingleOwner'
          BY <2>1, <3>1, <1>SameOwner
        <4>6. ForkStep(p)
          BY <4>1 DEF ForkStep, Forking, ForkLabels
        <4> QED BY <3>1, <4>1, <4>2, <4>3, <4>4, <4>5, <4>6, <1>ControlStep
      <3>3. CASE ~(Goto(p, "zombie") /\ UNCHANGED <<ret, tb, idx, par>>)
        <4>1. PICK r, y : StartCow(p, v, r, y)
          BY <2>10, <3>3 DEF StoreFault
        <4>2. ~CowRefuses(Pte(p, v))
          BY <2>10, <3>3 DEF StoreFault
        <4>3. SlotStep(p) /\ pc'[p] = "cow" /\ tb'[p] = cur[p] /\ idx'[p] = v
          BY <2>2, <4>1 DEF StartCow, SlotStep
        <4>4. PlaceStep(p)
          BY <3>1 DEF PlaceStep
        <4>5. LocalsAt(p)'
          BY <2>10, <2>1, <3>1, <4>2, <4>3 DEF LocalsAt, CowRefuses, Mapped, Pte, WorkPte
        <4>6. TablesAt(p)'
          BY <2>1, <3>1, <4>3, <1>TablesQuiet, <1>OtherEmpty DEF WorkLabels, LoadLabels
        <4>7. SingleOwner'
          BY <2>1, <3>1, <1>SameOwner
        <4>8. ForkStep(p)
          BY <4>3 DEF ForkStep, Forking, ForkLabels
        <4> QED BY <3>1, <4>3, <4>4, <4>5, <4>6, <4>7, <4>8, <1>ControlStep
      <3> QED BY <3>2, <3>3
    <2> QED BY <2>3, <2>4, <2>5, <2>6, <2>7, <2>8, <2>9, <2>10 DEF UserStep
  <1> QED BY <1>ControlBuild, <1>ControlTearDown, <1>ControlCowFault, <1>ControlUserStep

-----------------------------------------------------------------------------
(* Counting the arguments that a function maps to a given value. *)
Fiber(f, S, c) == {x \in S : f[x] = c}
Cnt(f, S, c) == Cardinality(Fiber(f, S, c))

(* g differs from f in one place, where b replaces a, and the fiber of c   *)
(* grows or shrinks by that place.                                         *)
CntMoves(S, f, g, a, b, c) ==
  /\ Cnt(f, S, c) \in Nat
  /\ Cnt(g, S, c) \in Nat
  /\ c = b => Cnt(g, S, c) = Cnt(f, S, c) + 1
  /\ c = a => Cnt(g, S, c) = Cnt(f, S, c) - 1
  /\ c # b /\ c # a => Cnt(g, S, c) = Cnt(f, S, c)

LEMMA CntUpdate ==
  ASSUME SetFacts, NEW S, IsFiniteSet(S), NEW f, NEW g, NEW x \in S, NEW b, f[x] # b,
         \A y \in S : g[y] = IF y = x THEN b ELSE f[y], NEW c
  PROVE  CntMoves(S, f, g, f[x], b, c)
<1>1. IsFiniteSet(Fiber(f, S, c)) /\ IsFiniteSet(Fiber(g, S, c))
  BY DEF Fiber, SetFacts, FinSubset
<1>2. Cnt(f, S, c) \in Nat /\ Cnt(g, S, c) \in Nat
  BY <1>1 DEF Cnt, SetFacts, FinCard
<1>3. ASSUME c = b PROVE Cnt(g, S, c) = Cnt(f, S, c) + 1
  <2>1. Fiber(g, S, c) = Fiber(f, S, c) \cup {x} /\ x \notin Fiber(f, S, c)
    BY <1>3 DEF Fiber
  <2> QED BY <2>1, <1>1 DEF Cnt, SetFacts, FinAdd
<1>4. ASSUME c = f[x] PROVE Cnt(g, S, c) = Cnt(f, S, c) - 1
  <2>1. Fiber(g, S, c) = Fiber(f, S, c) \ {x} /\ x \in Fiber(f, S, c)
    BY <1>4 DEF Fiber
  <2> QED BY <2>1, <1>1 DEF Cnt, SetFacts, FinRemove
<1>5. ASSUME c # b, c # f[x] PROVE Cnt(g, S, c) = Cnt(f, S, c)
  <2>1. Fiber(g, S, c) = Fiber(f, S, c)
    BY <1>5 DEF Fiber
  <2> QED BY <2>1 DEF Cnt
<1> QED BY <1>2, <1>3, <1>4, <1>5 DEF CntMoves

(* A fiber is counted by a natural number, positive when it has a member. *)
LEMMA CntNat ==
  ASSUME SetFacts, NEW S, IsFiniteSet(S), NEW f, NEW c
  PROVE  /\ Cnt(f, S, c) \in Nat
         /\ \A x \in S : f[x] = c => Cnt(f, S, c) >= 1
<1>1. IsFiniteSet(Fiber(f, S, c))
  BY DEF Fiber, SetFacts, FinSubset
<1>2. Cnt(f, S, c) \in Nat /\ (Cnt(f, S, c) = 0 <=> Fiber(f, S, c) = {})
  BY <1>1 DEF Cnt, SetFacts, FinCard, FinEmpty
<1>3. ASSUME NEW x \in S, f[x] = c PROVE Cnt(f, S, c) >= 1
  <2>1. Fiber(f, S, c) # {}
    BY <1>3 DEF Fiber
  <2> QED BY SMT, <2>1, <1>2
<1> QED BY <1>2, <1>3

(* There are finitely many PTEs and kernel slots. *)
LEMMA FinitePlaces ==
  ASSUME SetFacts
  PROVE  IsFiniteSet(PTE) /\ IsFiniteSet(Held)
<1> USE CowAssumption
<1>1. IsFiniteSet(Tables)
  <2>1. IsFiniteSet({0} \cup {1}) /\ Tables = {0} \cup {1}
    BY DEF Tables, SetFacts, FinAdd, FinSingle
  <2> QED BY <2>1
<1>2. IsFiniteSet(VPages)
  BY SMT DEF VPages, SetFacts, FinInterval
<1>3. IsFiniteSet(PTE)
  BY <1>1, <1>2 DEF PTE, SetFacts, FinProduct
<1>4. (NV - 1) \div PTSpan \in Int
  BY SMT
<1>5. IsFiniteSet(Leaves \cup {0})
  <2>1. IsFiniteSet(0 .. (NV - 1) \div PTSpan)
    BY SMT, <1>4 DEF SetFacts, FinInterval
  <2> QED BY <2>1 DEF Leaves, SetFacts, FinAdd
<1> DEFINE Kinds == {"tf", "ka", "pa", "root", "high", "leaf"}
<1>6. IsFiniteSet(Kinds)
  <2>1. IsFiniteSet({"tf"} \cup {"ka"} \cup {"pa"})
    BY DEF SetFacts, FinAdd, FinSingle
  <2>2. IsFiniteSet({"root"} \cup {"high"} \cup {"leaf"})
    BY DEF SetFacts, FinAdd, FinSingle
  <2>3. Kinds = ({"tf"} \cup {"ka"} \cup {"pa"}) \cup ({"root"} \cup {"high"} \cup {"leaf"})
    BY SMT
  <2> HIDE DEF Kinds
  <2> QED BY <2>1, <2>2, <2>3 DEF SetFacts, FinUnion
<1>7. IsFiniteSet(Kinds \X (Tables \X (Leaves \cup {0})))
  BY <1>1, <1>5, <1>6 DEF SetFacts, FinProduct
<1>8. KSlots \subseteq Kinds \X (Tables \X (Leaves \cup {0}))
  BY SMT DEF KSlots, Slot, Tables
<1>9. IsFiniteSet(KSlots)
  BY <1>7, <1>8 DEF SetFacts, FinSubset
<1> QED BY <1>3, <1>9 DEF Held, SetFacts, FinProduct

(* RefCount in terms of Cnt. *)
LEMMA RefCountCnt ==
  /\ RefCount <=> \A pa \in Pages :
       refcnt[pa] = Cnt(map, PTE, pa) + Cnt(held, Held, pa) + lost[pa]
  /\ RefCount' <=> \A pa \in Pages :
       refcnt'[pa] = Cnt(map', PTE, pa) + Cnt(held', Held, pa) + lost'[pa]
BY DEF RefCount, UserRefs, KernRefs, Cnt, Fiber

(* What is referred to is counted. *)
LEMMA Counted ==
  ASSUME SetFacts, TypeOK, RefCount
  PROVE  /\ \A e \in PTE : Mapped(e) => map[e] \in Pages /\ refcnt[map[e]] >= 1
         /\ \A h \in Held : held[h] # NoPage => held[h] \in Pages /\ refcnt[held[h]] >= 1
<1> DEFINE M(pa) == Cnt(map, PTE, pa)
           H(pa) == Cnt(held, Held, pa)
<1>1. \A pa \in Pages : refcnt[pa] = M(pa) + H(pa) + lost[pa] /\ lost[pa] \in Nat
  BY RefCountCnt DEF TypeOK
<1>2. \A pa \in Pages : M(pa) \in Nat /\ H(pa) \in Nat
  BY FinitePlaces, CntNat
<1>3. ASSUME NEW e \in PTE, Mapped(e)
      PROVE  map[e] \in Pages /\ refcnt[map[e]] >= 1
  <2>1. map[e] \in Pages
    BY <1>3 DEF TypeOK, Mapped
  <2>2. M(map[e]) >= 1
    BY FinitePlaces, CntNat
  <2> HIDE DEF M, H
  <2> QED BY SMT, <2>1, <2>2, <1>1, <1>2
<1>4. ASSUME NEW h \in Held, held[h] # NoPage
      PROVE  held[h] \in Pages /\ refcnt[held[h]] >= 1
  <2>1. held[h] \in Pages
    BY <1>4 DEF TypeOK
  <2>2. H(held[h]) >= 1
    BY FinitePlaces, CntNat
  <2> HIDE DEF M, H
  <2> QED BY SMT, <2>1, <2>2, <1>1, <1>2
<1> QED BY <1>3, <1>4

(* A page whose count is zero is referred to by nothing. *)
LEMMA Uncounted ==
  ASSUME SetFacts, TypeOK, RefCount, NEW pa \in Pages, refcnt[pa] = 0
  PROVE  /\ \A e \in PTE : map[e] # pa
         /\ \A h \in Held : held[h] # pa
BY SMT, Counted, KallocAssumption DEF Mapped

(* What the actions do to the counts: one lemma for each way of moving a   *)
(* reference.                                                              *)
PagesInv == RefCount /\ FreeInv /\ KaPrivate

(* RefCount after a step that changes the counts of map, held, lost and    *)
(* refcnt of every page by the same amounts.                               *)
Balanced(pa) ==
  refcnt'[pa] - refcnt[pa] = (Cnt(map', PTE, pa) - Cnt(map, PTE, pa))
                           + (Cnt(held', Held, pa) - Cnt(held, Held, pa))
                           + (lost'[pa] - lost[pa])

(* Every action keeps PagesInv: a step for each way of moving a reference, *)
(* then one for each action.                                               *)
LEMMA PagesKept ==
  SetFacts /\ IInv => \A p \in Procs : Build(p) \/ TearDown(p) \/ CowFault(p) \/ UserStep(p) => PagesInv'
  (* CntUpdate for one kernel slot and for one PTE. *)
  <1>HeldUpdate.
      ASSUME SetFacts, TypeOK, NEW h \in Held, NEW b, held[h] # b,
             held' = [held EXCEPT ![h] = b], NEW pa
      PROVE  CntMoves(Held, held, held', held[h], b, pa)
    <2> USE <1>HeldUpdate
    <2>1. \A y \in Held : held'[y] = IF y = h THEN b ELSE held[y]
      BY DEF TypeOK
    <2> QED BY <2>1, FinitePlaces, CntUpdate
  <1>MapUpdate.
      ASSUME SetFacts, TypeOK, NEW e \in PTE, NEW b, map[e] # b,
             map' = [map EXCEPT ![e] = b], NEW pa
      PROVE  CntMoves(PTE, map, map', map[e], b, pa)
    <2> USE <1>MapUpdate
    <2>1. \A y \in PTE : map'[y] = IF y = e THEN b ELSE map[y]
      BY DEF TypeOK
    <2> QED BY <2>1, FinitePlaces, CntUpdate
  (* kalloc for the kernel slot h. *)
  <1>TakePage.
      ASSUME SetFacts, TypeOK, PagesInv, NEW h \in Held, held[h] = NoPage,
             NEW x, kalloc(x), held' = [held EXCEPT ![h] = Top], UNCHANGED <<map, lost>>
      PROVE  /\ PagesInv'
             /\ Top \in Pages
             /\ \A e \in PTE : map[e] # Top
             /\ \A g \in Held : held[g] # Top
    <2> USE <1>TakePage
    <2> USE KallocAssumption
    <2>1. freelist # <<>> /\ Len(freelist) \in 1 .. Len(freelist) /\ Len(freelist) \in Nat
      <3>1. freelist # <<>>
        BY DEF kalloc, KallocFails
      <3> QED BY SMT, <3>1 DEF TypeOK, KallocTypeOK
    <2>2. Top \in Pages /\ refcnt[Top] = 0
      BY SMT, <2>1 DEF Top, PagesInv, FreeInv, TypeOK, KallocTypeOK
    <2>3. (\A e \in PTE : map[e] # Top) /\ (\A g \in Held : held[g] # Top)
      BY <2>2, Uncounted DEF PagesInv
    <2>4. /\ refcnt' = [refcnt EXCEPT ![Top] = 1]
          /\ freelist' = SubSeq(freelist, 1, Len(freelist) - 1)
          /\ UNCHANGED freeing
      BY DEF kalloc
    <2>5. RefCount'
      <3> SUFFICES ASSUME NEW pa \in Pages
                   PROVE  refcnt'[pa] = Cnt(map', PTE, pa) + Cnt(held', Held, pa) + lost'[pa]
        BY RefCountCnt
      <3>1. refcnt[pa] = Cnt(map, PTE, pa) + Cnt(held, Held, pa) + lost[pa]
        BY RefCountCnt DEF PagesInv
      <3>2. Cnt(map, PTE, pa) \in Nat /\ lost[pa] \in Nat
        BY FinitePlaces, CntNat DEF TypeOK
      <3>3. /\ Cnt(held, Held, pa) \in Nat
            /\ pa = Top => Cnt(held', Held, pa) = Cnt(held, Held, pa) + 1
            /\ pa # Top => Cnt(held', Held, pa) = Cnt(held, Held, pa)
        <4>1. held[h] # Top /\ pa # held[h]
          BY <2>2
        <4>2. CntMoves(Held, held, held', held[h], Top, pa)
          BY <4>1, <1>HeldUpdate
        <4> QED BY <4>1, <4>2 DEF CntMoves
      <3>4. refcnt'[pa] = IF pa = Top THEN 1 ELSE refcnt[pa]
        BY <2>2, <2>4 DEF TypeOK, KallocTypeOK
      <3> QED BY SMT, <3>1, <3>2, <3>3, <3>4, <2>2
    <2>6. FreeInv'
      <3>1. freelist' \in Seq(Pages) /\ Len(freelist') = Len(freelist) - 1
            /\ \A i \in 1 .. Len(freelist') : freelist'[i] = freelist[i] /\ i \in 1 .. Len(freelist)
        <4>1. freelist \in Seq(Pages)
          BY DEF TypeOK, KallocTypeOK
        <4>2. IsButLast(Pages, freelist, freelist')
          BY <4>1, <2>1, <2>4, ButLast
        <4> QED BY <4>2 DEF IsButLast
      <3>2. \A i \in 1 .. Len(freelist') : freelist'[i] # Top
        BY SMT, <3>1, <2>1 DEF PagesInv, FreeInv, Top
      <3>3. \A p \in Procs : freeing[p] # Top
        BY <2>1 DEF PagesInv, FreeInv, Top
      <3>4. \A pa \in Pages : pa # Top => refcnt'[pa] = refcnt[pa]
        BY <2>4 DEF TypeOK, KallocTypeOK
      <3>5. \A i \in 1 .. Len(freelist') : freelist'[i] \in Pages
        BY SMT, <3>1
      <3> HIDE DEF Top
      <3>6. /\ \A p \in Procs : freeing'[p] = freeing[p]
            /\ \A p \in Procs : freeing[p] # NoPage => freeing[p] \in Pages
        BY <2>4 DEF TypeOK, KallocTypeOK
      <3>7. FreeInv
        BY SMT DEF PagesInv
      <3>8. \A i, j \in 1 .. Len(freelist') : freelist'[i] = freelist'[j] => i = j
        BY <3>1, <3>7 DEF FreeInv
      <3>9. ASSUME NEW i \in 1 .. Len(freelist') PROVE refcnt'[freelist'[i]] = 0
        <4>1. freelist'[i] = freelist[i] /\ i \in 1 .. Len(freelist) /\ freelist'[i] \in Pages /\ freelist'[i] # Top
          BY <3>1, <3>2, <3>5
        <4>2. refcnt[freelist[i]] = 0
          BY <3>7, <4>1 DEF FreeInv
        <4> QED BY <3>4, <4>1, <4>2
      <3>10. \A i \in 1 .. Len(freelist'), p \in Procs : freeing'[p] # freelist'[i]
        BY <3>1, <3>6, <3>7 DEF FreeInv
      <3>11. \A p \in Procs : freeing'[p] # NoPage => refcnt'[freeing'[p]] = 0
        BY <3>3, <3>4, <3>6, <3>7 DEF FreeInv
      <3>12. \A p, q \in Procs : freeing'[p] # NoPage /\ freeing'[p] = freeing'[q] => p = q
        BY <3>6, <3>7 DEF FreeInv
      <3> QED BY <3>8, <3>9, <3>10, <3>11, <3>12 DEF FreeInv
    <2>7. KaPrivate'
      <3> SUFFICES ASSUME NEW q \in Procs, held'[Ka(q)] # NoPage
                   PROVE  /\ \A e \in PTE : map[e] # held'[Ka(q)]
                          /\ \A g \in Held : held'[g] = held'[Ka(q)] => g = Ka(q)
        BY DEF KaPrivate
      <3>1. \A g \in Held : held'[g] = IF g = h THEN Top ELSE held[g]
        BY DEF TypeOK
      <3> HIDE DEF Top
      <3> QED BY SMT, <3>1, <2>3, SlotTypes DEF PagesInv, KaPrivate
    <2> QED BY <2>2, <2>3, <2>5, <2>6, <2>7 DEF PagesInv
  (* kfree of a counted page keeps the free pages apart. *)
  <1>KfreeFreeInv.
      ASSUME TypeOK, FreeInv, NEW p \in Procs, freeing[p] = NoPage,
             NEW pa \in Pages, refcnt[pa] >= 1, kfree(p, pa)
      PROVE  FreeInv'
    <2> USE <1>KfreeFreeInv
    <2> USE KallocAssumption
    <2>1. (\A i \in 1 .. Len(freelist) : freelist[i] # pa) /\ (\A q \in Procs : freeing[q] # pa)
      BY SMT DEF FreeInv
    <2>2. /\ \A x \in Pages : refcnt'[x] = IF x = pa THEN refcnt[x] - 1 ELSE refcnt[x]
          /\ \A q \in Procs : freeing'[q] = IF q = p /\ refcnt[pa] = 1 THEN pa ELSE freeing[q]
          /\ freelist' = freelist
      BY DEF kfree, TypeOK, KallocTypeOK
    <2>3. /\ \A i \in 1 .. Len(freelist) : freelist[i] \in Pages
          /\ \A q \in Procs : freeing[q] \in Pages \cup {NoPage}
          /\ refcnt[pa] \in Int
      BY SMT DEF TypeOK, KallocTypeOK
    <2> QED BY SMT, <2>1, <2>2, <2>3 DEF FreeInv
  <1>BalancedRefCount.
      ASSUME SetFacts, TypeOK, RefCount, \A pa \in Pages : Balanced(pa),
             \A pa \in Pages : /\ refcnt'[pa] \in Int /\ lost'[pa] \in Int
                              /\ Cnt(map', PTE, pa) \in Int /\ Cnt(held', Held, pa) \in Int
      PROVE  RefCount'
    <2> USE <1>BalancedRefCount
    <2> SUFFICES ASSUME NEW pa \in Pages
                 PROVE  refcnt'[pa] = Cnt(map', PTE, pa) + Cnt(held', Held, pa) + lost'[pa]
      BY RefCountCnt
    <2>1. refcnt[pa] = Cnt(map, PTE, pa) + Cnt(held, Held, pa) + lost[pa]
      BY RefCountCnt
    <2>2. refcnt[pa] \in Int /\ lost[pa] \in Int
      BY SMT DEF TypeOK, KallocTypeOK
    <2>3. Cnt(map, PTE, pa) \in Int /\ Cnt(held, Held, pa) \in Int
      BY SMT, FinitePlaces, CntNat
    <2> QED BY SMT, <2>1, <2>2, <2>3 DEF Balanced
  (* kfree of the page in kernel slot h. *)
  <1>DropHeld.
      ASSUME SetFacts, TypeOK, PagesInv, NEW p \in Procs, freeing[p] = NoPage,
             NEW h \in Held, held[h] # NoPage, kfree(p, held[h]),
             held' = [held EXCEPT ![h] = NoPage], UNCHANGED <<map, lost>>
      PROVE  PagesInv'
    <2> USE <1>DropHeld
    <2> USE KallocAssumption
    <2>1. held[h] \in Pages /\ refcnt[held[h]] >= 1
      BY Counted DEF PagesInv
    <2>2. FreeInv'
      BY <2>1, <1>KfreeFreeInv DEF PagesInv
    <2>3. RefCount'
      <3>1. ASSUME NEW pa \in Pages
            PROVE  Balanced(pa) /\ refcnt'[pa] \in Int /\ lost'[pa] \in Int
                   /\ Cnt(map', PTE, pa) \in Int /\ Cnt(held', Held, pa) \in Int
        <4>1. refcnt'[pa] = IF pa = held[h] THEN refcnt[pa] - 1 ELSE refcnt[pa]
          BY DEF kfree, TypeOK, KallocTypeOK
        <4>2. CntMoves(Held, held, held', held[h], NoPage, pa)
          BY <1>HeldUpdate
        <4>3. refcnt[pa] \in Int /\ lost[pa] \in Int /\ Cnt(map, PTE, pa) \in Int
          BY SMT, FinitePlaces, CntNat DEF TypeOK, KallocTypeOK
        <4>4. map' = map /\ lost' = lost /\ pa # NoPage
          BY SMT
        <4> QED BY SMT, <4>1, <4>2, <4>3, <4>4 DEF CntMoves, Balanced
      <3> QED BY <3>1, <1>BalancedRefCount DEF PagesInv
    <2>4. KaPrivate'
      <3>1. \A g \in Held : held'[g] = IF g = h THEN NoPage ELSE held[g]
        BY DEF TypeOK
      <3> QED BY SMT, <3>1, SlotTypes DEF PagesInv, KaPrivate
    <2> QED BY <2>2, <2>3, <2>4 DEF PagesInv
  (* kfree of the page PTE e maps. *)
  <1>DropMap.
      ASSUME SetFacts, TypeOK, PagesInv, NEW p \in Procs, freeing[p] = NoPage,
             NEW e \in PTE, Mapped(e), kfree(p, map[e]),
             map' = [map EXCEPT ![e] = NoPage], UNCHANGED <<held, lost>>
      PROVE  PagesInv'
    <2> USE <1>DropMap
    <2> USE KallocAssumption
    <2>1. map[e] \in Pages /\ refcnt[map[e]] >= 1 /\ map[e] # NoPage
      BY Counted DEF PagesInv, Mapped
    <2>2. FreeInv'
      BY <2>1, <1>KfreeFreeInv DEF PagesInv
    <2>3. RefCount'
      <3>1. ASSUME NEW pa \in Pages
            PROVE  Balanced(pa) /\ refcnt'[pa] \in Int /\ lost'[pa] \in Int
                   /\ Cnt(map', PTE, pa) \in Int /\ Cnt(held', Held, pa) \in Int
        <4>1. refcnt'[pa] = IF pa = map[e] THEN refcnt[pa] - 1 ELSE refcnt[pa]
          BY DEF kfree, TypeOK, KallocTypeOK
        <4>2. CntMoves(PTE, map, map', map[e], NoPage, pa)
          BY <2>1, <1>MapUpdate
        <4>3. refcnt[pa] \in Int /\ lost[pa] \in Int /\ Cnt(held, Held, pa) \in Int
          BY SMT, FinitePlaces, CntNat DEF TypeOK, KallocTypeOK
        <4>4. held' = held /\ lost' = lost /\ pa # NoPage
          BY SMT
        <4> QED BY SMT, <4>1, <4>2, <4>3, <4>4 DEF CntMoves, Balanced
      <3> QED BY <3>1, <1>BalancedRefCount DEF PagesInv
    <2>4. KaPrivate'
      <3>1. \A f \in PTE : map'[f] = IF f = e THEN NoPage ELSE map[f]
        BY DEF TypeOK
      <3> QED BY SMT, <3>1 DEF PagesInv, KaPrivate
    <2> QED BY <2>2, <2>3, <2>4 DEF PagesInv
  (* A step that moves no reference. *)
  <1>SamePages.
      ASSUME PagesInv, UNCHANGED <<freelist, refcnt, freeing, map, held, lost>>
      PROVE  PagesInv'
    BY <1>SamePages DEF PagesInv, RefCount, UserRefs, KernRefs, FreeInv, KaPrivate
  (* mappages: the page of kernel slot h goes to the PTE e. *)
  <1>MoveToMap.
      ASSUME SetFacts, TypeOK, PagesInv, NEW h \in Held, NEW e \in PTE, held[h] # NoPage, ~Mapped(e),
             map' = [map EXCEPT ![e] = held[h]], held' = [held EXCEPT ![h] = NoPage],
             UNCHANGED <<freelist, refcnt, freeing, lost>>
      PROVE  PagesInv'
    <2> USE <1>MoveToMap
    <2> USE KallocAssumption
    <2>1. FreeInv'
      BY DEF PagesInv, FreeInv
    <2>2. RefCount'
      <3>1. ASSUME NEW pa \in Pages
            PROVE  Balanced(pa) /\ refcnt'[pa] \in Int /\ lost'[pa] \in Int
                   /\ Cnt(map', PTE, pa) \in Int /\ Cnt(held', Held, pa) \in Int
        <4>1. CntMoves(PTE, map, map', map[e], held[h], pa)
          BY <1>MapUpdate DEF Mapped
        <4>2. CntMoves(Held, held, held', held[h], NoPage, pa)
          BY <1>HeldUpdate
        <4>3. refcnt[pa] \in Int /\ lost[pa] \in Int /\ pa # NoPage /\ map[e] = NoPage
          BY SMT DEF TypeOK, KallocTypeOK, Mapped
        <4>4. refcnt' = refcnt /\ lost' = lost
          BY SMT
        <4>5. /\ Cnt(map, PTE, pa) \in Int
              /\ Cnt(map', PTE, pa) = Cnt(map, PTE, pa) + (IF pa = held[h] THEN 1 ELSE 0)
          BY SMT, <4>1, <4>3 DEF CntMoves
        <4>6. /\ Cnt(held, Held, pa) \in Int
              /\ Cnt(held', Held, pa) = Cnt(held, Held, pa) - (IF pa = held[h] THEN 1 ELSE 0)
          BY SMT, <4>2, <4>3 DEF CntMoves
        <4> QED BY SMT, <4>3, <4>4, <4>5, <4>6 DEF Balanced
      <3> QED BY <3>1, <1>BalancedRefCount DEF PagesInv
    <2>3. KaPrivate'
      <3>1. \A f \in PTE : map'[f] = IF f = e THEN held[h] ELSE map[f]
        BY DEF TypeOK
      <3>2. \A g \in Held : held'[g] = IF g = h THEN NoPage ELSE held[g]
        BY DEF TypeOK
      <3> QED BY SMT, <3>1, <3>2, SlotTypes DEF PagesInv, KaPrivate
    <2> QED BY <2>1, <2>2, <2>3 DEF PagesInv
  (* uvmcopy counts the page PTE e maps once more, for its variable pa. *)
  <1>IncrPa.
      ASSUME SetFacts, TypeOK, PagesInv, NEW c \in Procs, NEW e \in PTE, held[Pa(c)] = NoPage, Mapped(e),
             krefincr(map[e]), held' = [held EXCEPT ![Pa(c)] = map[e]], UNCHANGED <<map, lost>>
      PROVE  PagesInv'
    <2> USE <1>IncrPa
    <2> USE KallocAssumption
    <2>1. map[e] \in Pages /\ refcnt[map[e]] >= 1 /\ map[e] # NoPage
      BY Counted DEF PagesInv, Mapped
    <2>2. \A x \in Pages : refcnt'[x] = IF x = map[e] THEN refcnt[x] + 1 ELSE refcnt[x]
      BY DEF krefincr, TypeOK, KallocTypeOK
    <2>3. FreeInv'
      <3>1. freelist' = freelist /\ freeing' = freeing
        BY DEF krefincr
      <3>2. /\ \A i \in 1 .. Len(freelist) : freelist[i] \in Pages /\ freelist[i] # map[e]
            /\ \A q \in Procs : freeing[q] \in Pages \cup {NoPage} /\ freeing[q] # map[e]
        <4>1. freelist \in Seq(Pages) /\ freeing \in [Procs -> Pages \cup {NoPage}] /\ FreeInv
          BY DEF PagesInv, TypeOK, KallocTypeOK
        <4>2. refcnt[map[e]] # 0
          BY SMT, <2>1
        <4>3. \A i \in 1 .. Len(freelist) : freelist[i] \in Pages
          BY SMT, <4>1
        <4> QED BY <2>1, <4>1, <4>2, <4>3 DEF FreeInv
      <3> QED BY SMT, <2>2, <3>1, <3>2 DEF PagesInv, FreeInv
    <2>4. RefCount'
      <3>1. ASSUME NEW pa \in Pages
            PROVE  Balanced(pa) /\ refcnt'[pa] \in Int /\ lost'[pa] \in Int
                   /\ Cnt(map', PTE, pa) \in Int /\ Cnt(held', Held, pa) \in Int
        <4>1. CntMoves(Held, held, held', held[Pa(c)], map[e], pa)
          BY <2>1, SlotTypes, <1>HeldUpdate
        <4>2. refcnt[pa] \in Int /\ lost[pa] \in Int /\ Cnt(map, PTE, pa) \in Int
          BY SMT, FinitePlaces, CntNat DEF TypeOK, KallocTypeOK
        <4>3. map' = map /\ lost' = lost /\ pa # NoPage
          BY SMT
        <4> QED BY SMT, <2>2, <4>1, <4>2, <4>3 DEF CntMoves, Balanced
      <3> QED BY <3>1, <1>BalancedRefCount DEF PagesInv
    <2>5. KaPrivate'
      <3>1. \A g \in Held : held'[g] = IF g = Pa(c) THEN map[e] ELSE held[g]
        BY DEF TypeOK
      <3>2. \A q \in Procs : Ka(q) # Pa(c) /\ Ka(q) \in Held
        BY SlotTypes, SlotsDiffer
      <3> QED BY SMT, <3>1, <3>2 DEF PagesInv, KaPrivate
    <2> QED BY <2>3, <2>4, <2>5 DEF PagesInv
  (* uvmcopy fails, and the count it took for pa is never given back. *)
  <1>LosePa.
      ASSUME SetFacts, TypeOK, PagesInv, NEW c \in Procs, held[Pa(c)] # NoPage,
             held' = [held EXCEPT ![Pa(c)] = NoPage], lost' = [lost EXCEPT ![held[Pa(c)]] = @ + 1],
             UNCHANGED <<freelist, refcnt, freeing, map>>
      PROVE  PagesInv'
    <2> USE <1>LosePa
    <2> USE KallocAssumption
    <2>1. FreeInv'
      BY DEF PagesInv, FreeInv
    <2>2. RefCount'
      <3>1. ASSUME NEW pa \in Pages
            PROVE  Balanced(pa) /\ refcnt'[pa] \in Int /\ lost'[pa] \in Int
                   /\ Cnt(map', PTE, pa) \in Int /\ Cnt(held', Held, pa) \in Int
        <4>1. CntMoves(Held, held, held', held[Pa(c)], NoPage, pa)
          BY SlotTypes, <1>HeldUpdate
        <4>2. refcnt[pa] \in Int /\ lost[pa] \in Int /\ Cnt(map, PTE, pa) \in Int
          BY SMT, FinitePlaces, CntNat DEF TypeOK, KallocTypeOK
        <4>3. lost'[pa] = IF pa = held[Pa(c)] THEN lost[pa] + 1 ELSE lost[pa]
          BY DEF TypeOK
        <4>4. map' = map /\ refcnt' = refcnt /\ pa # NoPage
          BY SMT
        <4> QED BY SMT, <4>1, <4>2, <4>3, <4>4 DEF CntMoves, Balanced
      <3> QED BY <3>1, <1>BalancedRefCount DEF PagesInv
    <2>3. KaPrivate'
      <3>1. \A g \in Held : held'[g] = IF g = Pa(c) THEN NoPage ELSE held[g]
        BY DEF TypeOK
      <3> QED BY SMT, <3>1, SlotTypes DEF PagesInv, KaPrivate
    <2> QED BY <2>1, <2>2, <2>3 DEF PagesInv
  (* cowalloc's krefdecr: the reference of pa is given back. *)
  <1>DecrPa.
      ASSUME SetFacts, TypeOK, PagesInv, NEW p \in Procs, held[Pa(p)] # NoPage,
             refcnt' = [refcnt EXCEPT ![held[Pa(p)]] = @ - 1],
             held' = [held EXCEPT ![Pa(p)] = NoPage],
             UNCHANGED <<freelist, freeing, map, lost>>
      PROVE  PagesInv'
    <2> USE <1>DecrPa
    <2> USE KallocAssumption
    <2>1. Pa(p) \in Held /\ held[Pa(p)] \in Pages /\ refcnt[held[Pa(p)]] >= 1
      BY Counted, SlotTypes DEF PagesInv
    <2>2. \A x \in Pages : refcnt'[x] = IF x = held[Pa(p)] THEN refcnt[x] - 1 ELSE refcnt[x]
      BY DEF TypeOK, KallocTypeOK
    <2>3. FreeInv'
      <3>1. /\ \A i \in 1 .. Len(freelist) : freelist[i] \in Pages /\ freelist[i] # held[Pa(p)]
            /\ \A q \in Procs : freeing[q] \in Pages \cup {NoPage} /\ freeing[q] # held[Pa(p)]
        <4>1. /\ \A i \in 1 .. Len(freelist) : refcnt[freelist[i]] = 0
              /\ \A q \in Procs : freeing[q] # NoPage => refcnt[freeing[q]] = 0
          BY DEF PagesInv, FreeInv
        <4>2. /\ \A i \in 1 .. Len(freelist) : freelist[i] \in Pages
              /\ \A q \in Procs : freeing[q] \in Pages \cup {NoPage}
          BY SMTT(20) DEF TypeOK, KallocTypeOK
        <4> QED BY SMT, <2>1, <4>1, <4>2
      <3> QED BY SMTT(20), <2>2, <3>1 DEF PagesInv, FreeInv
    <2>4. RefCount'
      <3>1. ASSUME NEW pa \in Pages
            PROVE  Balanced(pa) /\ refcnt'[pa] \in Int /\ lost'[pa] \in Int
                   /\ Cnt(map', PTE, pa) \in Int /\ Cnt(held', Held, pa) \in Int
        <4>1. CntMoves(Held, held, held', held[Pa(p)], NoPage, pa)
          BY <2>1, <1>HeldUpdate
        <4>2. refcnt[pa] \in Int /\ lost[pa] \in Int /\ Cnt(map, PTE, pa) \in Int
          BY SMT, FinitePlaces, CntNat DEF TypeOK, KallocTypeOK
        <4>3. map' = map /\ lost' = lost /\ pa # NoPage
          BY SMT
        <4> QED BY SMT, <2>2, <4>1, <4>2, <4>3 DEF CntMoves, Balanced
      <3> QED BY <3>1, <1>BalancedRefCount DEF PagesInv
    <2>5. KaPrivate'
      <3>1. \A g \in Held : held'[g] = IF g = Pa(p) THEN NoPage ELSE held[g]
        BY DEF TypeOK
      <3> QED BY SMT, <3>1, SlotTypes DEF PagesInv, KaPrivate
    <2> QED BY <2>3, <2>4, <2>5 DEF PagesInv
  (* kfree's second section: the page goes from freeing to the list. *)
  <1>PushPage.
      ASSUME TypeOK, PagesInv, NEW p \in Procs, KfreePush(p), UNCHANGED <<map, held, lost>>
      PROVE  PagesInv'
    <2> USE <1>PushPage
    <2> USE KallocAssumption
    <2>1. RefCount' /\ KaPrivate'
      BY DEF PagesInv, KfreePush, RefCount, UserRefs, KernRefs, KaPrivate
    <2>2. FreeInv'
      <3>1. freelist \in Seq(Pages) /\ Len(freelist) \in Nat /\ freeing[p] \in Pages
        BY SMT DEF TypeOK, KallocTypeOK, KfreePush
      <3>2. /\ Len(freelist') = Len(freelist) + 1
            /\ \A i \in 1 .. Len(freelist') :
                 freelist'[i] = IF i = Len(freelist) + 1 THEN freeing[p] ELSE freelist[i]
        BY SMT, <3>1 DEF KfreePush
      <3>3. /\ \A q \in Procs : freeing'[q] = IF q = p THEN NoPage ELSE freeing[q]
            /\ refcnt' = refcnt
        BY DEF KfreePush, TypeOK, KallocTypeOK
      <3>4. \A i \in 1 .. Len(freelist') : i # Len(freelist) + 1 => i \in 1 .. Len(freelist)
        BY SMT, <3>1, <3>2
      <3>5. freeing[p] # NoPage /\ \A i \in 1 .. Len(freelist) : freelist[i] \in Pages
        BY SMT, <3>1
      <3> QED BY SMT, <3>2, <3>3, <3>4, <3>5 DEF PagesInv, FreeInv
    <2> QED BY <2>1, <2>2 DEF PagesInv
  (* cowalloc installs the copy: the page of ka goes to the PTE e, and the   *)
  (* page e mapped goes to pa.                                               *)
  <1>SwapMap.
      ASSUME SetFacts, TypeOK, PagesInv, NEW p \in Procs, NEW e \in PTE,
             held[Ka(p)] # NoPage, held[Pa(p)] = NoPage, Mapped(e),
             map' = [map EXCEPT ![e] = held[Ka(p)]],
             held' = [held EXCEPT ![Ka(p)] = NoPage, ![Pa(p)] = map[e]],
             UNCHANGED <<freelist, refcnt, freeing, lost>>
      PROVE  PagesInv'
    <2> USE <1>SwapMap
    <2> USE KallocAssumption
    <2>1. Ka(p) \in Held /\ Pa(p) \in Held /\ Ka(p) # Pa(p) /\ map[e] # held[Ka(p)]
          /\ map[e] # NoPage
      BY SlotTypes, SlotsDiffer DEF PagesInv, KaPrivate, Mapped
    <2>2. FreeInv'
      BY DEF PagesInv, FreeInv
    <2>3. RefCount'
      <3>1. ASSUME NEW pa \in Pages
            PROVE  Balanced(pa) /\ refcnt'[pa] \in Int /\ lost'[pa] \in Int
                   /\ Cnt(map', PTE, pa) \in Int /\ Cnt(held', Held, pa) \in Int
        <4> DEFINE mid == [held EXCEPT ![Ka(p)] = NoPage]
        <4>1. CntMoves(PTE, map, map', map[e], held[Ka(p)], pa)
          BY <2>1, <1>MapUpdate
        <4>2. CntMoves(Held, held, mid, held[Ka(p)], NoPage, pa)
          <5>1. \A y \in Held : mid[y] = IF y = Ka(p) THEN NoPage ELSE held[y]
            BY DEF TypeOK
          <5> HIDE DEF mid
          <5> QED BY <5>1, <2>1, FinitePlaces, CntUpdate
        <4>3. CntMoves(Held, mid, held', mid[Pa(p)], map[e], pa)
          <5>1. \A y \in Held : held'[y] = IF y = Pa(p) THEN map[e] ELSE mid[y]
            BY DEF TypeOK
          <5>2. mid[Pa(p)] # map[e]
            BY <2>1 DEF TypeOK
          <5> HIDE DEF mid
          <5> QED BY <5>1, <5>2, <2>1, FinitePlaces, CntUpdate
        <4>4. mid[Pa(p)] = NoPage
          BY <2>1 DEF TypeOK
        <4>5. refcnt[pa] \in Int /\ lost[pa] \in Int /\ pa # NoPage
          BY SMT DEF TypeOK, KallocTypeOK
        <4>6. refcnt' = refcnt /\ lost' = lost
          BY SMT
        <4> HIDE DEF mid
        <4>7. /\ Cnt(map, PTE, pa) \in Int
              /\ Cnt(map', PTE, pa) = Cnt(map, PTE, pa) + (IF pa = held[Ka(p)] THEN 1 ELSE 0)
                                                       - (IF pa = map[e] THEN 1 ELSE 0)
          BY SMTT(20), <2>1, <4>1 DEF CntMoves
        <4>8. /\ Cnt(held, Held, pa) \in Int
              /\ Cnt(mid, Held, pa) = Cnt(held, Held, pa) - (IF pa = held[Ka(p)] THEN 1 ELSE 0)
          BY SMTT(20), <4>2, <4>5 DEF CntMoves
        <4>9. Cnt(held', Held, pa) = Cnt(mid, Held, pa) + (IF pa = map[e] THEN 1 ELSE 0)
          BY SMT, <4>3, <4>4, <4>5 DEF CntMoves
        <4> QED BY SMT, <4>5, <4>6, <4>7, <4>8, <4>9 DEF Balanced
      <3> QED BY <3>1, <1>BalancedRefCount DEF PagesInv
    <2>4. KaPrivate'
      <3>1. \A f \in PTE : map'[f] = IF f = e THEN held[Ka(p)] ELSE map[f]
        BY DEF TypeOK
      <3>2. \A g \in Held : held'[g] = IF g = Pa(p) THEN map[e]
                                     ELSE IF g = Ka(p) THEN NoPage ELSE held[g]
        BY DEF TypeOK
      <3>3. \A q \in Procs : Ka(q) # Pa(p) /\ Ka(q) \in Held
        BY SlotTypes, SlotsDiffer
      <3> SUFFICES ASSUME NEW q \in Procs, held'[Ka(q)] # NoPage
                   PROVE  /\ \A f \in PTE : map'[f] # held'[Ka(q)]
                          /\ \A g \in Held : held'[g] = held'[Ka(q)] => g = Ka(q)
        BY DEF KaPrivate
      <3>4. Ka(q) # Ka(p) /\ held'[Ka(q)] = held[Ka(q)]
        BY <3>2, <3>3
      <3>5. /\ \A f \in PTE : map[f] # held[Ka(q)]
            /\ \A g \in Held : held[g] = held[Ka(q)] => g = Ka(q)
        BY <3>4 DEF PagesInv, KaPrivate
      <3>6. \A f \in PTE : map'[f] # held[Ka(q)]
        BY <2>1, <3>1, <3>4, <3>5
      <3>7. ASSUME NEW g \in Held, held'[g] = held[Ka(q)] PROVE g = Ka(q)
        <4>1. map[e] # held[Ka(q)] /\ held[Ka(q)] # NoPage
          BY <3>4, <3>5
        <4>2. held'[g] = held[g]
          BY <3>2, <3>7, <4>1
        <4> QED BY <3>5, <3>7, <4>2
      <3> QED BY <3>4, <3>6, <3>7
    <2> QED BY <2>2, <2>3, <2>4 DEF PagesInv
  (* allocproc and proc_pagetable take the next page into an empty slot. *)
  <1>NextKernPageEmpty.
      ASSUME TablesInv, NEW p \in Procs, pc[p] = "alloc"
      PROVE  held[NextKernPage(p)] = NoPage
    BY <1>NextKernPageEmpty DEF TablesInv, NextKernPage
  <1>PagesBuild.
      ASSUME SetFacts, IInv, NEW p \in Procs, Build(p)
      PROVE  PagesInv'
    <2> USE <1>PagesBuild
    <2>1. TypeOK /\ PagesInv /\ LocalsInv /\ TablesInv
      BY DEF IInv, PagesInv
    <2> USE <2>1 DEF At
    <2>2. CASE AllocKernPage(p)
      BY <2>2, WorkTypes, <1>NextKernPageEmpty, <1>TakePage DEF AllocKernPage, histVars
    <2>3. CASE AllocKernPageFails(p)
      BY <2>3, <1>SamePages DEF AllocKernPageFails, Panic, kallocVars, ptVars, histVars
    <2>4. CASE WalkAlloc(p)
      BY <2>4, WorkTypes, <1>TakePage DEF WalkAlloc, NeedsLeaf, histVars
    <2>5. CASE LoadKalloc(p)
      <3>1. held[Ka(p)] = NoPage
        BY <2>5 DEF LoadKalloc, LocalsInv
      <3> QED BY <2>5, <3>1, SlotTypes, <1>TakePage DEF LoadKalloc, histVars
    <2>6. CASE LoadKallocFails(p)
      BY <2>6, <1>SamePages DEF LoadKallocFails, Panic, kallocVars, ptVars, histVars
    <2>7. CASE LoadMap(p)
      <3>1. CASE Mapped(WorkPte(p))
        BY <2>7, <3>1, <1>SamePages DEF LoadMap, Panic, kallocVars, ptVars, histVars
      <3>2. CASE ~Mapped(WorkPte(p))
        <4>1. held[Ka(p)] # NoPage /\ WorkPte(p) \in PTE
          BY <2>7, WorkTypes DEF LoadMap, LocalsInv
        <4> QED BY <2>7, <3>2, <4>1, SlotTypes, <1>MoveToMap DEF LoadMap, SetPte, kallocVars, histVars
      <3> QED BY <3>1, <3>2
    <2>8. CASE LoadMapFails(p)
      <3>1. CASE Panic("kerneltrap") \/ Panic("kfree_decr")
        BY <3>1, <1>SamePages DEF Panic, kallocVars, ptVars, histVars
      <3>2. CASE ~(Panic("kerneltrap") \/ Panic("kfree_decr"))
        <4>1. held[Ka(p)] # NoPage
          BY <2>8 DEF LoadMapFails, LocalsInv
        <4> QED BY <2>8, <3>2, <4>1, SlotTypes, <1>DropHeld DEF LoadMapFails, histVars
      <3> QED BY <3>1, <3>2
    <2>9. CASE LoadDone(p)
      BY <2>9, <1>SamePages DEF LoadDone, kallocVars, histVars
    <2>10. CASE CopyIncr(p)
      <3>1. CASE ~Mapped(CopyFrom(p))
        BY <2>10, <3>1, <1>SamePages DEF CopyIncr, Panic, kallocVars, ptVars, histVars
      <3>2. CASE Mapped(CopyFrom(p))
        <4>1. held[Pa(p)] = NoPage /\ CopyFrom(p) \in PTE
          BY <2>10, WorkTypes DEF CopyIncr, LocalsInv
        <4> QED BY <2>10, <3>2, <4>1, <1>IncrPa DEF CopyIncr, histVars
      <3> QED BY <3>1, <3>2
    <2>11. CASE CopyMap(p)
      <3>1. CASE Mapped(WorkPte(p))
        BY <2>11, <3>1, <1>SamePages DEF CopyMap, Panic, kallocVars, ptVars, histVars
      <3>2. CASE ~Mapped(WorkPte(p))
        <4>1. held[Pa(p)] # NoPage /\ WorkPte(p) \in PTE
          BY <2>11, WorkTypes DEF CopyMap, LocalsInv
        <4> QED BY <2>11, <3>2, <4>1, SlotTypes, <1>MoveToMap DEF CopyMap, SetPte, kallocVars, histVars
      <3> QED BY <3>1, <3>2
    <2>12. CASE CopyMapFails(p)
      <3>1. held[Pa(p)] # NoPage
        BY <2>12 DEF CopyMapFails, LocalsInv
      <3> QED BY <2>12, <3>1, <1>LosePa DEF CopyMapFails, kallocVars
    <2>13. CASE ForkDone(p)
      BY <2>13, <1>SamePages DEF ForkDone, kallocVars, histVars
    <2> QED BY <2>2, <2>3, <2>4, <2>5, <2>6, <2>7, <2>8, <2>9, <2>10, <2>11, <2>12, <2>13 DEF Build
  <1>PagesTearDown.
      ASSUME SetFacts, IInv, NEW p \in Procs, TearDown(p)
      PROVE  PagesInv'
    <2> USE <1>PagesTearDown
    <2>1. TypeOK /\ PagesInv /\ LocalsInv
      BY DEF IInv, PagesInv
    <2> USE <2>1 DEF At
    <2>2. ASSUME NEW m, Panic(m) PROVE PagesInv'
      BY <2>2, <1>SamePages DEF Panic, kallocVars, ptVars, histVars
    <2>3. CASE Unmap(p)
      <3>1. CASE \E m : Panic(m)
        BY <2>2, <3>1
      <3>2. CASE ~\E m : Panic(m)
        BY <2>3, <3>2, WorkTypes, <1>DropMap DEF Unmap, SetPte, histVars
      <3> QED BY <3>1, <3>2
    <2>4. CASE UnmapDone(p)
      BY <2>4, <1>SamePages DEF UnmapDone, kallocVars, ptVars, histVars
    <2>5. CASE Freewalk(p)
      <3>1. CASE \E m : Panic(m)
        BY <2>2, <3>1
      <3>2. CASE ~\E m : Panic(m)
        <4>1. PICK h \in TablePages(p, tb[p]) :
                kfree(p, held[h]) /\ held' = [held EXCEPT ![h] = NoPage] /\ UNCHANGED <<map, lost>>
          BY <2>5, <3>2 DEF Freewalk, histVars
        <4>2. h \in Held /\ held[h] # NoPage
          BY <4>1, WorkTypes DEF TablePages
        <4> QED BY <2>5, <4>1, <4>2, <1>DropHeld DEF Freewalk
      <3> QED BY <3>1, <3>2
    <2>6. CASE FreeTf(p)
      <3>1. CASE \E m : Panic(m)
        BY <2>2, <3>1
      <3>2. CASE ~\E m : Panic(m)
        BY <2>6, <3>2, SlotTypes, <1>DropHeld DEF FreeTf, histVars
      <3> QED BY <3>1, <3>2
    <2>7. CASE FreeDone(p)
      BY <2>7, <1>SamePages DEF FreeDone, kallocVars, histVars
    <2>8. CASE Push(p)
      BY <2>8, <1>PushPage DEF Push, ptVars, histVars
    <2> QED BY <2>3, <2>4, <2>5, <2>6, <2>7, <2>8 DEF TearDown
  <1>PagesCowFault.
      ASSUME SetFacts, IInv, NEW p \in Procs, CowFault(p)
      PROVE  PagesInv'
    <2> USE <1>PagesCowFault
    <2>1. TypeOK /\ PagesInv /\ LocalsInv
      BY DEF IInv, PagesInv
    <2> USE <2>1 DEF At
    <2>2. CASE CowKalloc(p)
      <3>1. held[Ka(p)] = NoPage
        BY <2>2 DEF CowKalloc, LocalsInv
      <3> QED BY <2>2, <3>1, SlotTypes, <1>TakePage DEF CowKalloc, histVars
    <2>3. CASE CowKallocFails(p)
      BY <2>3, <1>SamePages DEF CowKallocFails, kallocVars, ptVars, histVars
    <2>4. CASE CowCopy(p)
      <3>1. held[Ka(p)] # NoPage /\ held[Pa(p)] = NoPage /\ Mapped(WorkPte(p)) /\ WorkPte(p) \in PTE
        BY <2>4, WorkTypes DEF CowCopy, LocalsInv
      <3> QED BY <2>4, <3>1, <1>SwapMap DEF CowCopy, SetPte, histVars
    <2>5. CASE CowDecr(p)
      <3>1. held[Pa(p)] # NoPage
        BY <2>5 DEF CowDecr, krefdecr, LocalsInv
      <3> QED BY <2>5, <3>1, <1>DecrPa DEF CowDecr, krefdecr, histVars
    <2> QED BY <2>2, <2>3, <2>4, <2>5 DEF CowFault
  <1>PagesUserStep.
      ASSUME IInv, NEW p \in Procs, UserStep(p)
      PROVE  PagesInv'
    <2> USE <1>PagesUserStep
    <2>1. UNCHANGED <<freelist, refcnt, freeing, map, held, lost>>
      BY DEF UserStep, Fork, Exec, Sbrk, Exit, Reap, UserStore, Copyout, StoreFault, Write,
             kallocVars, ptVars, histVars
    <2> QED BY <2>1, <1>SamePages DEF IInv, PagesInv
  <1> QED BY <1>PagesBuild, <1>PagesTearDown, <1>PagesCowFault, <1>PagesUserStep

(* uvmunmap for a failed or a negative sbrk stops at the size that stays. *)
Low(p) == IF ret[p] = "sbrk" THEN sz[p] ELSE 0

(* Whether page v of table b of slot p ought to be mapped.  A table that   *)
(* is being built is mapped up to the loop variable, one that is being     *)
(* torn down from there on, and p->pagetable is otherwise mapped up to     *)
(* p->sz.                                                                  *)
Has(p, b, v) ==
  IF pc[p] \in WorkLabels /\ b = tb[p]
  THEN \/ pc[p] \in {"load", "loadmap", "copy", "copymap"} /\ v < idx[p]
       \/ pc[p] = "unmap" /\ (v < Low(p) \/ (idx[p] <= v /\ v < lim[p]))
       \/ pc[p] = "freetf" /\ ret[p] = "reap" /\ idx[p] <= v /\ v < lim[p]
  ELSE b = cur[p] /\ v < sz[p]

Fits(p) == \A b \in Tables, v \in VPages : Mapped(<<<<p, b>>, v>>) <=> Has(p, b, v)

(* The mapped pages are the ones the call's position says, and its bounds  *)
(* are the sizes they were read from.                                      *)
ShapeAt(p) ==
  /\ Fits(p)
  /\ pc[p] = "unused" => sz[p] = 0
  /\ pc[p] = "alloc" => ret[p] # "sbrk"
  /\ pc[p] \in {"load", "loadmap", "unmap"} /\ ret[p] = "sbrk" => sz[p] <= idx[p]
  /\ pc[p] \in {"copy", "copymap"} => lim[p] = sz[par[p]]

(* userinit and the first exec, whose callers do not check for a full      *)
(* memory.                                                                 *)
Booting(p) == ret[p] = "boot" /\ pc[p] \in {"alloc", "load", "loadmap"}

(* Table pages and a trapframe that allocproc still needs. *)
KernPagesLeft(p) ==
  IF held[Tf(p)] = NoPage THEN 3 ELSE IF held[Root(p, tb[p])] = NoPage THEN 2 ELSE 1

(* While the first process is built nobody else runs, and the pages it     *)
(* still needs are on the list: for each user page one page and perhaps    *)
(* one for the table above it.                                             *)
BootAt(p) ==
  Booting(p) =>
    /\ \A q \in Procs : freeing[q] = NoPage /\ (q # p => pc[q] = "unused")
    /\ pc[p] = "alloc" => Len(freelist) >= 2 * ImageSize + KernPagesLeft(p)
    /\ pc[p] = "load" => Len(freelist) >= 2 * (lim[p] - idx[p])
    /\ pc[p] = "loadmap" =>
         /\ idx[p] < lim[p]
         /\ Len(freelist) >= 2 * (lim[p] - idx[p]) - (IF NeedsLeaf(p) THEN 1 ELSE 2)

(* The copy that cowalloc has mapped is not copy-on-write. *)
OwnAt(p) == pc[p] = "cowdecr" => Mapped(WorkPte(p)) /\ WorkPte(p) \notin C

(* The address spaces have the shape the calls expect, and nothing panics. *)
SpaceInv ==
  /\ \A p \in Procs : ShapeAt(p) /\ BootAt(p) /\ OwnAt(p)
  /\ panic = "none"
-----------------------------------------------------------------------------
(* A step of slot x's thread leaves the other slots alone, but for         *)
(* starting or ending a wait in fork.                                      *)
Others(x) ==
  \A q \in Procs : q # x =>
    /\ tb'[q] = tb[q] /\ idx'[q] = idx[q] /\ lim'[q] = lim[q] /\ ret'[q] = ret[q]
    /\ cur'[q] = cur[q] /\ sz'[q] = sz[q] /\ par'[q] = par[q]
    /\ pc'[q] = pc[q] \/ (pc[q] \in RunOrFork /\ pc'[q] \in RunOrFork)
    /\ \A b \in Tables, v \in VPages :
         /\ map'[<<<<q, b>>, v>>] = map[<<<<q, b>>, v>>]
         /\ <<<<q, b>>, v>> \in C' <=> <<<<q, b>>, v>> \in C

OnlyBooter(x) == \A q \in Procs : Booting(q) => q = x

(* The thread of slot p goes on at label l with these locals. *)
PcStep(p, l, r, b, lo, hi) ==
  /\ \A q \in Procs : q # p =>
       /\ pc'[q] = pc[q] /\ ret'[q] = ret[q] /\ tb'[q] = tb[q]
       /\ idx'[q] = idx[q] /\ lim'[q] = lim[q]
  /\ par' = par
  /\ pc'[p] = l /\ ret'[p] = r /\ tb'[p] = b /\ idx'[p] = lo /\ lim'[p] = hi

(* Every kfree is of a page that is counted. *)
AllCounted ==
  /\ \A e \in PTE : Mapped(e) => ~KfreePanics(map[e])
  /\ \A h \in Held : held[h] # NoPage => ~KfreePanics(held[h])

(* The part of SpaceInv that a step of slot p's thread has to establish. *)
SpaceAt(p) == Others(p) /\ ShapeAt(p)' /\ BootAt(p)' /\ OwnAt(p)' /\ panic' = "none"

(* Every action keeps SpaceInv. *)
LEMMA SpaceKept ==
  IInv /\ SpaceInv /\ AllCounted => \A p \in Procs : Build(p) \/ TearDown(p) \/ CowFault(p) \/ UserStep(p) => SpaceInv'
  (* A slot that takes a step is the only one that can be booting. *)
  <1>Stepper.
      ASSUME SpaceInv, NEW x \in Procs, pc[x] # "unused" \/ freeing[x] # NoPage
      PROVE  OnlyBooter(x)
    BY <1>Stepper DEF SpaceInv, BootAt, OnlyBooter
  <1>OthersKeepShape.
      ASSUME IInv, SpaceInv, NEW x \in Procs, Others(x), sz'[x] = sz[x] \/ pc[x] # "forking",
             NEW q \in Procs, q # x
      PROVE  ShapeAt(q)'
    <2> USE <1>OthersKeepShape
    <2>1. /\ tb'[q] = tb[q] /\ idx'[q] = idx[q] /\ lim'[q] = lim[q] /\ ret'[q] = ret[q]
          /\ cur'[q] = cur[q] /\ sz'[q] = sz[q] /\ par'[q] = par[q]
          /\ pc'[q] = pc[q] \/ (pc[q] \in RunOrFork /\ pc'[q] \in RunOrFork)
          /\ \A b \in Tables, v \in VPages : map'[<<<<q, b>>, v>>] = map[<<<<q, b>>, v>>]
      BY DEF Others
    <2>2. ShapeAt(q) /\ ForkInv /\ par[q] \in Procs
      BY DEF SpaceInv, IInv, TypeOK
    <2>3. Fits(q)'
      <3>1. Low(q)' = Low(q)
        BY <2>1 DEF Low
      <3>2. CASE pc'[q] = pc[q]
        <4>1. \A b, v : Has(q, b, v)' <=> Has(q, b, v)
          BY <2>1, <3>1, <3>2 DEF Has
        <4> QED BY <2>1, <2>2, <4>1 DEF ShapeAt, Fits, Mapped
      <3>3. CASE pc[q] \in RunOrFork /\ pc'[q] \in RunOrFork
        <4>1. pc[q] \notin WorkLabels /\ pc'[q] \notin WorkLabels
          BY SMT, <3>3 DEF RunOrFork, WorkLabels, LoadLabels
        <4> QED BY <2>1, <2>2, <4>1 DEF ShapeAt, Fits, Has, Mapped
      <3> QED BY <2>1, <3>2, <3>3
    <2>4. pc'[q] \in {"copy", "copymap"} => lim'[q] = sz'[par'[q]]
      <3> SUFFICES ASSUME pc'[q] \in {"copy", "copymap"} PROVE lim[q] = sz'[par[q]]
        BY <2>1
      <3>1. pc[q] \in {"copy", "copymap"}
        BY <2>1 DEF RunOrFork
      <3>2. lim[q] = sz[par[q]] /\ pc[par[q]] = "forking"
        BY <2>2, <3>1 DEF ShapeAt, ForkInv, Forking, ForkLabels
      <3>3. CASE par[q] = x
        BY <3>2, <3>3
      <3>4. CASE par[q] # x
        BY <2>2, <3>2, <3>4 DEF Others
      <3> QED BY <3>3, <3>4
    <2>5. /\ pc'[q] = "unused" => sz'[q] = 0
          /\ pc'[q] = "alloc" => ret'[q] # "sbrk"
          /\ pc'[q] \in {"load", "loadmap", "unmap"} /\ ret'[q] = "sbrk" => sz'[q] <= idx'[q]
      BY <2>1, <2>2 DEF ShapeAt, RunOrFork
    <2> QED BY <2>3, <2>4, <2>5 DEF ShapeAt
  (* What a step for slot x has to establish: its own part. *)
  <1>SpaceStep.
      ASSUME IInv, SpaceInv, NEW x \in Procs, Others(x), sz'[x] = sz[x] \/ pc[x] # "forking",
             OnlyBooter(x), ShapeAt(x)', BootAt(x)', OwnAt(x)', panic' = "none"
      PROVE  SpaceInv'
    <2> USE <1>SpaceStep
    <2> SUFFICES ASSUME NEW q \in Procs, q # x PROVE ShapeAt(q)' /\ BootAt(q)' /\ OwnAt(q)'
      BY DEF SpaceInv
    <2>1. ShapeAt(q)'
      BY <1>OthersKeepShape
    <2>2. BootAt(q)'
      <3>1. ~Booting(q)'
        <4>1. ~Booting(q)
          BY DEF OnlyBooter
        <4>2. ret'[q] = ret[q] /\ (pc'[q] = pc[q] \/ pc'[q] \in RunOrFork)
          BY DEF Others
        <4> QED BY SMT, <4>1, <4>2 DEF Booting, RunOrFork
      <3> QED BY <3>1 DEF BootAt
    <2>3. OwnAt(q)'
      <3> SUFFICES ASSUME pc'[q] = "cowdecr" PROVE (Mapped(WorkPte(q)) /\ WorkPte(q) \notin C)'
        BY DEF OwnAt
      <3>1. pc[q] = "cowdecr" /\ tb'[q] = tb[q] /\ idx'[q] = idx[q]
        BY DEF Others, RunOrFork
      <3>2. tb[q] \in Tables /\ idx[q] \in VPages
        BY <3>1 DEF IInv, TypeOK, LocalsInv
      <3>3. Mapped(WorkPte(q)) /\ WorkPte(q) \notin C
        BY <3>1 DEF SpaceInv, OwnAt
      <3>4. /\ map'[<<<<q, tb[q]>>, idx[q]>>] = map[<<<<q, tb[q]>>, idx[q]>>]
            /\ <<<<q, tb[q]>>, idx[q]>> \in C' <=> <<<<q, tb[q]>>, idx[q]>> \in C
        BY <3>2 DEF Others
      <3>5. WorkPte(q)' = <<<<q, tb[q]>>, idx[q]>> /\ WorkPte(q) = <<<<q, tb[q]>>, idx[q]>>
        BY <3>1 DEF WorkPte
      <3> QED BY <3>3, <3>4, <3>5 DEF Mapped
    <2> QED BY <2>1, <2>2, <2>3
  <1>PcMoves.
      ASSUME TypeOK, NEW p \in Procs, NEW l
      PROVE  /\ \A r, b, lo, hi : Loop(p, l, r, b, lo, hi) => PcStep(p, l, r, b, lo, hi)
             /\ Advance(p, l) => PcStep(p, l, ret[p], tb[p], idx[p] + 1, lim[p])
             /\ Goto(p, l) /\ UNCHANGED <<ret, tb, idx, lim, par>>
                  => PcStep(p, l, ret[p], tb[p], idx[p], lim[p])
             /\ UNCHANGED pcVars => PcStep(p, pc[p], ret[p], tb[p], idx[p], lim[p])
             /\ \A r, v, y : StartCow(p, v, r, y) => PcStep(p, "cow", r, cur[p], v, lim[p])
    <2> USE <1>PcMoves
    <2>1. /\ pc \in [Procs -> Labels] /\ ret \in [Procs -> Calls] /\ tb \in [Procs -> Tables]
          /\ idx \in [Procs -> 0 .. NV] /\ lim \in [Procs -> 0 .. NV]
      BY DEF TypeOK
    <2>2. \A r, b, lo, hi : Loop(p, l, r, b, lo, hi) => PcStep(p, l, r, b, lo, hi)
      BY <2>1 DEF Loop, Goto, PcStep
    <2>3. Advance(p, l) => PcStep(p, l, ret[p], tb[p], idx[p] + 1, lim[p])
      BY <2>1 DEF Advance, Goto, PcStep
    <2>4. Goto(p, l) /\ UNCHANGED <<ret, tb, idx, lim, par>>
            => PcStep(p, l, ret[p], tb[p], idx[p], lim[p])
      BY <2>1 DEF Goto, PcStep
    <2>5. UNCHANGED pcVars => PcStep(p, pc[p], ret[p], tb[p], idx[p], lim[p])
      BY DEF pcVars, PcStep
    <2>6. \A r, v, y : StartCow(p, v, r, y) => PcStep(p, "cow", r, cur[p], v, lim[p])
      BY <2>1 DEF StartCow, PcStep
    <2> QED BY <2>2, <2>3, <2>4, <2>5, <2>6
  (* The other slots, after a step that leaves the page tables alone, and    *)
  (* after one that writes the PTE the call is at.                           *)
  <1>OthersSame.
      ASSUME NEW p \in Procs, NEW l, NEW r, NEW t, NEW lo, NEW hi, PcStep(p, l, r, t, lo, hi),
             \A q \in Procs : q # p => cur'[q] = cur[q] /\ sz'[q] = sz[q], map' = map, C' = C
      PROVE  Others(p)
    BY <1>OthersSame DEF Others, PcStep
  <1>OthersSet.
      ASSUME TypeOK, NEW p \in Procs, NEW l, NEW r, NEW t, NEW lo, NEW hi, PcStep(p, l, r, t, lo, hi),
             UNCHANGED <<cur, sz>>, NEW pa, NEW w, NEW u, NEW c, SetPte(WorkPte(p), pa, w, u, c)
      PROVE  Others(p)
    <2> USE <1>OthersSet
    <2> SUFFICES ASSUME NEW q \in Procs, q # p, NEW b \in Tables, NEW v \in VPages
                 PROVE  /\ map'[<<<<q, b>>, v>>] = map[<<<<q, b>>, v>>]
                        /\ <<<<q, b>>, v>> \in C' <=> <<<<q, b>>, v>> \in C
      BY DEF Others, PcStep
    <2>1. <<<<q, b>>, v>> # WorkPte(p) /\ <<<<q, b>>, v>> \in PTE
      BY DEF WorkPte, PTE
    <2>2. map \in [PTE -> Pages \cup {NoPage}]
      BY DEF TypeOK
    <2> QED BY <2>1, <2>2 DEF SetPte
  (* A step that stays at its page. *)
  <1>ShapeMove.
      ASSUME NEW p \in Procs, ShapeAt(p), NEW l, PcStep(p, l, ret[p], tb[p], idx[p], lim[p]),
             UNCHANGED <<map, cur, sz>>,
             \/ l = pc[p] \/ (pc[p] = "load" /\ l = "loadmap") \/ (pc[p] = "copy" /\ l = "copymap")
      PROVE  ShapeAt(p)'
    <2> USE <1>ShapeMove
    <2>1. /\ pc'[p] = l /\ ret'[p] = ret[p] /\ tb'[p] = tb[p] /\ idx'[p] = idx[p] /\ lim'[p] = lim[p]
          /\ par' = par
      BY DEF PcStep
    <2>2. \A b, v : Has(p, b, v)' <=> Has(p, b, v)
      <3>1. Low(p)' = Low(p)
        BY <2>1 DEF Low
      <3>2. CASE l = pc[p]
        BY <2>1, <3>1, <3>2 DEF Has
      <3>3. CASE l # pc[p]
        BY <2>1, <3>3 DEF Has, WorkLabels, LoadLabels
      <3> QED BY <3>2, <3>3
    <2>3. Fits(p)'
      BY <2>2 DEF ShapeAt, Fits, Mapped
    <2>4. /\ pc'[p] = "unused" => sz'[p] = 0
          /\ pc'[p] = "alloc" => ret'[p] # "sbrk"
          /\ pc'[p] \in {"load", "loadmap", "unmap"} /\ ret'[p] = "sbrk" => sz'[p] <= idx'[p]
          /\ pc'[p] \in {"copy", "copymap"} => lim'[p] = sz'[par'[p]]
      BY <2>1 DEF ShapeAt
    <2> QED BY <2>3, <2>4 DEF ShapeAt
  (* A step outside the calls that work on a table. *)
  <1>ShapeQuiet.
      ASSUME NEW p \in Procs, ShapeAt(p), pc[p] \notin WorkLabels, pc'[p] \notin WorkLabels,
             pc'[p] # "unused", UNCHANGED <<cur, sz>>,
             \A b \in Tables, v \in VPages : Mapped(<<<<p, b>>, v>>)' <=> Mapped(<<<<p, b>>, v>>)
      PROVE  ShapeAt(p)'
    <2> USE <1>ShapeQuiet
    <2>1. \A b, v : Has(p, b, v)' <=> Has(p, b, v)
      BY DEF Has
    <2>2. Fits(p)'
      BY <2>1 DEF ShapeAt, Fits
    <2> QED BY SMT, <2>2 DEF ShapeAt, WorkLabels, LoadLabels
  (* kalloc fails only when the list is empty. *)
  <1>PageLeft.
      ASSUME IInv, Len(freelist) >= 1
      PROVE  ~KallocFails
    <2> USE <1>PageLeft
    <2>1. freelist \in Seq(Pages) /\ FreeInv
      BY DEF IInv, TypeOK, KallocTypeOK
    <2>2. Len(freelist) \in 1 .. Len(freelist) /\ freelist # <<>>
      BY SMT, <2>1
    <2>3. refcnt[Top] = 0
      BY <2>1, <2>2 DEF FreeInv, Top
    <2> HIDE DEF Top
    <2> QED BY SMT, <2>2, <2>3 DEF KallocFails
  <1>KallocTakes.
      ASSUME TypeOK, NEW x, kalloc(x)
      PROVE  /\ Len(freelist) \in Nat /\ Len(freelist') = Len(freelist) - 1 /\ freeing' = freeing
             /\ Top # NoPage
    <2> USE <1>KallocTakes
    <2>1. freelist # <<>> /\ freelist \in Seq(Pages)
      BY DEF kalloc, KallocFails, TypeOK, KallocTypeOK
    <2>2. Len(freelist) \in Nat /\ Len(freelist) \in 1 .. Len(freelist)
      BY SMT, <2>1
    <2>3. IsButLast(Pages, freelist, freelist')
      BY <2>1, ButLast DEF kalloc
    <2>4. Top \in Pages
      BY SMT, <2>1, <2>2 DEF Top
    <2>5. Top # NoPage
      BY <2>4, KallocAssumption
    <2> QED BY <2>2, <2>3, <2>5 DEF IsButLast, kalloc
  (* While the first process is built no kalloc of it fails. *)
  <1>BootPages.
      ASSUME IInv, SpaceInv, NEW p \in Procs, ret[p] = "boot",
             \/ pc[p] = "alloc"
             \/ pc[p] = "load" /\ idx[p] < lim[p]
             \/ pc[p] = "loadmap" /\ NeedsLeaf(p)
      PROVE  ~KallocFails
    <2> USE <1>BootPages
    <2>1. /\ idx[p] \in Int /\ lim[p] \in Int /\ Len(freelist) \in Nat /\ ImageSize \in Nat
      <3>1. idx[p] \in 0 .. NV /\ lim[p] \in 0 .. NV /\ freelist \in Seq(Pages)
        BY DEF IInv, TypeOK, KallocTypeOK
      <3> QED BY SMT, <3>1, CowAssumption
    <2>2. Booting(p) /\ BootAt(p)
      BY DEF Booting, SpaceInv
    <2>3. CASE pc[p] = "alloc"
      <3>1. Len(freelist) >= 2 * ImageSize + KernPagesLeft(p)
        BY <2>2, <2>3 DEF BootAt
      <3>2. KernPagesLeft(p) \in {1, 2, 3}
        BY DEF KernPagesLeft
      <3>3. Len(freelist) >= 1
        BY SMT, <2>1, <3>1, <3>2
      <3> QED BY <3>3, <1>PageLeft
    <2>4. CASE pc[p] = "load" /\ idx[p] < lim[p]
      <3>1. Len(freelist) >= 2 * (lim[p] - idx[p])
        BY <2>2, <2>4 DEF BootAt
      <3>2. Len(freelist) >= 1
        BY SMT, <2>1, <2>4, <3>1
      <3> QED BY <3>2, <1>PageLeft
    <2>5. CASE pc[p] = "loadmap" /\ NeedsLeaf(p)
      <3>1. idx[p] < lim[p] /\ Len(freelist) >= 2 * (lim[p] - idx[p]) - 1
        BY <2>2, <2>5 DEF BootAt
      <3>2. Len(freelist) >= 1
        BY SMT, <2>1, <3>1
      <3> QED BY <3>2, <1>PageLeft
    <2> QED BY <2>3, <2>4, <2>5
  (* The table a call works on, and the other one. *)
  <1>WorkTable.
      ASSUME IInv, NEW p \in Procs, pc[p] \in WorkLabels
      PROVE  /\ tb[p] \in Tables /\ cur[p] \in Tables
             /\ ret[p] = "exec" => tb[p] # cur[p] /\ \A b \in Tables : b = tb[p] \/ b = cur[p]
             /\ ret[p] # "exec" => tb[p] = cur[p]
    <2> USE <1>WorkTable
    <2>1. tb[p] \in Tables /\ cur[p] \in Tables
      BY DEF IInv, TypeOK
    <2>2. ret[p] # "exec" => tb[p] = cur[p]
      BY DEF IInv, TablesInv
    <2>3. ret[p] = "exec" => tb[p] = 1 - cur[p]
      BY DEF IInv, TablesInv
    <2>4. ret[p] = "exec" => tb[p] # cur[p] /\ \A b \in Tables : b = tb[p] \/ b = cur[p]
      BY SMT, <2>1, <2>3 DEF Tables
    <2> QED BY <2>1, <2>2, <2>4
  (* mappages has written the PTE the call is at. *)
  <1>ShapeMapped.
      ASSUME TypeOK, NEW p \in Procs, ShapeAt(p), NEW l, NEW pa, pa # NoPage, NEW w, NEW u, NEW c,
             SetPte(WorkPte(p), pa, w, u, c), UNCHANGED <<cur, sz>>, idx[p] \in VPages,
             PcStep(p, l, ret[p], tb[p], idx[p] + 1, lim[p]),
             (pc[p] = "loadmap" /\ l = "load") \/ (pc[p] = "copymap" /\ l = "copy")
      PROVE  ShapeAt(p)'
    <2> USE <1>ShapeMapped
    <2>1. /\ pc'[p] = l /\ ret'[p] = ret[p] /\ tb'[p] = tb[p] /\ idx'[p] = idx[p] + 1
          /\ lim'[p] = lim[p] /\ par' = par
      BY DEF PcStep
    <2>2. idx[p] \in Int /\ sz[p] \in Int
      <3>1. sz[p] \in 0 .. NV
        BY DEF TypeOK
      <3> QED BY SMT, <3>1 DEF VPages
    <2>3. Fits(p)'
      <3> SUFFICES ASSUME NEW b \in Tables, NEW v \in VPages
                   PROVE  Mapped(<<<<p, b>>, v>>)' <=> Has(p, b, v)'
        BY DEF Fits
      <3>1. map \in [PTE -> Pages \cup {NoPage}] /\ <<<<p, b>>, v>> \in PTE
        BY DEF TypeOK, PTE
      <3>2. <<<<p, b>>, v>> = WorkPte(p) <=> b = tb[p] /\ v = idx[p]
        BY DEF WorkPte
      <3>3. Mapped(<<<<p, b>>, v>>)' <=> Mapped(<<<<p, b>>, v>>) \/ (b = tb[p] /\ v = idx[p])
        BY <3>1, <3>2 DEF SetPte, Mapped
      <3>4. Mapped(<<<<p, b>>, v>>) <=> Has(p, b, v)
        BY DEF ShapeAt, Fits
      <3>5. pc[p] \in WorkLabels /\ l \in WorkLabels
        BY DEF WorkLabels, LoadLabels
      <3>6. CASE b = tb[p]
        <4>1. Has(p, b, v) <=> v < idx[p]
          BY SMT, <3>5, <3>6 DEF Has
        <4>2. Has(p, b, v)' <=> v < idx[p] + 1
          BY SMTT(30), <2>1, <3>5, <3>6 DEF Has
        <4>3. v < idx[p] + 1 <=> v < idx[p] \/ v = idx[p]
          BY SMT, <2>2 DEF VPages
        <4> QED BY <3>3, <3>4, <3>6, <4>1, <4>2, <4>3
      <3>7. CASE b # tb[p]
        <4>1. Has(p, b, v)' <=> Has(p, b, v)
          BY <2>1, <3>7 DEF Has
        <4> QED BY <3>3, <3>4, <3>7, <4>1
      <3> QED BY <3>6, <3>7
    <2>4. /\ pc'[p] = "unused" => sz'[p] = 0
          /\ pc'[p] = "alloc" => ret'[p] # "sbrk"
          /\ pc'[p] \in {"copy", "copymap"} => lim'[p] = sz'[par'[p]]
      BY <2>1 DEF ShapeAt
    <2>5. pc'[p] \in {"load", "loadmap", "unmap"} /\ ret'[p] = "sbrk" => sz'[p] <= idx'[p]
      <3>1. l = "load" /\ ret[p] = "sbrk" => sz[p] <= idx[p]
        BY DEF ShapeAt
      <3>2. l = "load" /\ ret[p] = "sbrk" => sz[p] <= idx[p] + 1
        BY SMT, <2>2, <3>1
      <3> QED BY <2>1, <3>2
    <2> QED BY <2>3, <2>4, <2>5 DEF ShapeAt
  (* A call that ran out of memory starts to unmap what it has mapped. *)
  <1>ShapeUnwind.
      ASSUME TypeOK, NEW p \in Procs, ShapeAt(p), UNCHANGED <<map, cur, sz>>,
             pc[p] \in {"load", "loadmap", "copymap"},
             PcStep(p, "unmap", ret[p], tb[p], IF ret[p] = "sbrk" THEN sz[p] ELSE 0, idx[p]),
             pc[p] = "copymap" => ret[p] # "sbrk"
      PROVE  ShapeAt(p)'
    <2> USE <1>ShapeUnwind
    <2>1. /\ pc'[p] = "unmap" /\ ret'[p] = ret[p] /\ tb'[p] = tb[p] /\ idx'[p] = Low(p)
          /\ lim'[p] = idx[p]
      BY DEF PcStep, Low
    <2>2. Low(p)' = Low(p)
      BY <2>1 DEF Low
    <2>3. Low(p) \in Int /\ idx[p] \in Int /\ 0 <= Low(p) /\ Low(p) <= idx[p]
      <3>1. idx[p] \in 0 .. NV /\ sz[p] \in 0 .. NV
        BY DEF TypeOK
      <3>2. ret[p] = "sbrk" => sz[p] <= idx[p]
        BY DEF ShapeAt
      <3> QED BY SMT, <3>1, <3>2 DEF Low
    <2>4. Fits(p)'
      <3> SUFFICES ASSUME NEW b \in Tables, NEW v \in VPages
                   PROVE  Mapped(<<<<p, b>>, v>>)' <=> Has(p, b, v)'
        BY DEF Fits
      <3>1. Mapped(<<<<p, b>>, v>>)' <=> Has(p, b, v)
        BY DEF ShapeAt, Fits, Mapped
      <3>2. pc[p] \in WorkLabels /\ pc'[p] \in WorkLabels
        BY <2>1 DEF WorkLabels, LoadLabels
      <3>3. CASE b = tb[p]
        <4>1. Has(p, b, v) <=> v < idx[p]
          BY SMT, <3>2, <3>3 DEF Has
        <4>2. Has(p, b, v)' <=> v < Low(p) \/ (Low(p) <= v /\ v < idx[p])
          BY <2>1, <2>2, <3>2, <3>3 DEF Has
        <4>3. v < idx[p] <=> v < Low(p) \/ (Low(p) <= v /\ v < idx[p])
          <5> HIDE DEF Low
          <5> QED BY SMT, <2>3 DEF VPages
        <4> QED BY <3>1, <4>1, <4>2, <4>3
      <3>4. CASE b # tb[p]
        <4>1. Has(p, b, v)' <=> Has(p, b, v)
          BY <2>1, <3>4 DEF Has
        <4> QED BY <3>1, <4>1
      <3> QED BY <3>3, <3>4
    <2>5. ret[p] = "sbrk" => sz'[p] <= idx'[p]
      <3>1. ret[p] = "sbrk" => idx'[p] = sz[p] /\ sz'[p] = sz[p]
        BY <2>1 DEF Low
      <3>2. sz[p] \in 0 .. NV
        BY DEF TypeOK
      <3> QED BY SMT, <3>1, <3>2
    <2> QED BY <2>1, <2>4, <2>5 DEF ShapeAt
  (* A step that maps and unmaps nothing. *)
  <1>ShapeSame.
      ASSUME NEW p \in Procs, ShapeAt(p), map' = map,
             \A b \in Tables, v \in VPages : Has(p, b, v)' <=> Has(p, b, v)
      PROVE  Fits(p)'
    BY <1>ShapeSame DEF ShapeAt, Fits, Mapped
  <1>SpaceAlloc.
      ASSUME IInv, SpaceInv, NEW p \in Procs, AllocKernPage(p)
      PROVE  SpaceAt(p)
    <2> USE <1>SpaceAlloc
    <2> USE DEF At
    <2>1. /\ TypeOK /\ ShapeAt(p) /\ BootAt(p) /\ pc[p] = "alloc" /\ kalloc(Junk)
          /\ UNCHANGED <<map, C, cur, sz>> /\ panic' = "none"
      BY DEF IInv, SpaceInv, AllocKernPage
    <2>2. /\ Len(freelist) \in Nat /\ Len(freelist') = Len(freelist) - 1 /\ freeing' = freeing
          /\ Top # NoPage
      BY <2>1, <1>KallocTakes
    <2>3. ret[p] # "sbrk"
      BY <2>1 DEF ShapeAt
    <2>4. held' = [held EXCEPT ![NextKernPage(p)] = Top] /\ held \in [Held -> Pages \cup {NoPage}]
      BY <2>1 DEF AllocKernPage, TypeOK
    <2>5. /\ tb[p] \in Tables /\ Tf(p) \in Held /\ Root(p, tb[p]) \in Held /\ High(p, tb[p]) \in Held
          /\ Tf(p) # Root(p, tb[p]) /\ Tf(p) # High(p, tb[p]) /\ Root(p, tb[p]) # High(p, tb[p])
      <3>1. tb[p] \in Tables
        BY <2>1 DEF TypeOK
      <3> QED BY <3>1, SlotTypes, SlotsDiffer
    <2>6. CASE NextKernPage(p) # High(p, tb[p])
      <3>1. UNCHANGED pcVars
        BY <2>6 DEF AllocKernPage
      <3>2. PcStep(p, pc[p], ret[p], tb[p], idx[p], lim[p])
        BY <2>1, <3>1, <1>PcMoves
      <3>3. Others(p) /\ ShapeAt(p)'
        BY <2>1, <3>2, <1>OthersSame, <1>ShapeMove
      <3>4. KernPagesLeft(p)' <= KernPagesLeft(p) - 1
        <4>1. CASE held[Tf(p)] = NoPage
          <5>1. held'[Tf(p)] # NoPage
            BY <2>2, <2>4, <2>5, <4>1 DEF NextKernPage
          <5>2. KernPagesLeft(p) = 3 /\ KernPagesLeft(p)' \in {1, 2}
            BY <4>1, <5>1 DEF KernPagesLeft
          <5> QED BY SMT, <5>2
        <4>2. CASE held[Tf(p)] # NoPage
          <5>1. held[Root(p, tb[p])] = NoPage
            BY <2>6, <4>2 DEF NextKernPage
          <5>2. NextKernPage(p) = Root(p, tb[p])
            BY <4>2, <5>1 DEF NextKernPage
          <5>3. held'[Tf(p)] # NoPage /\ held'[Root(p, tb[p])] # NoPage /\ tb' = tb
            BY <2>2, <2>4, <2>5, <3>1, <4>2, <5>2 DEF pcVars
          <5>4. KernPagesLeft(p) = 2 /\ KernPagesLeft(p)' = 1
            BY <4>2, <5>1, <5>3 DEF KernPagesLeft
          <5> QED BY SMT, <5>4
        <4> QED BY <4>1, <4>2
      <3>5. BootAt(p)'
        <4> SUFFICES ASSUME Booting(p)'
                     PROVE  /\ \A q \in Procs : freeing'[q] = NoPage /\ (q # p => pc'[q] = "unused")
                            /\ Len(freelist') >= 2 * ImageSize + KernPagesLeft(p)'
                            /\ pc'[p] = "alloc"
          BY DEF BootAt
        <4>1. Booting(p) /\ pc' = pc
          BY <3>1 DEF Booting, pcVars
        <4>2. Len(freelist) >= 2 * ImageSize + KernPagesLeft(p)
          BY <2>1, <4>1 DEF BootAt
        <4>3. KernPagesLeft(p) \in {1, 2, 3} /\ KernPagesLeft(p)' \in {1, 2, 3} /\ ImageSize \in Nat
          <5>1. KernPagesLeft(p) \in {1, 2, 3} /\ KernPagesLeft(p)' \in {1, 2, 3}
            BY DEF KernPagesLeft
          <5> QED BY SMT, <5>1, CowAssumption
        <4>4. Len(freelist') >= 2 * ImageSize + KernPagesLeft(p)'
          BY SMT, <2>2, <3>4, <4>2, <4>3
        <4> QED BY <2>1, <2>2, <4>1, <4>4 DEF BootAt
      <3>6. OwnAt(p)'
        <4>1. pc'[p] = "alloc"
          BY <2>1, <3>1 DEF pcVars
        <4> QED BY SMT, <4>1 DEF OwnAt
      <3> QED BY <2>1, <3>3, <3>5, <3>6 DEF SpaceAt
    <2>7. CASE NextKernPage(p) = High(p, tb[p])
      <3>1. CASE ret[p] = "fork"
        <4>1. Loop(p, "copy", "fork", tb[p], 0, sz[par[p]])
          BY <2>7, <3>1 DEF AllocKernPage
        <4>2. PcStep(p, "copy", "fork", tb[p], 0, sz[par[p]])
          BY <2>1, <4>1, <1>PcMoves
        <4>3. /\ pc'[p] = "copy" /\ ret'[p] = "fork" /\ tb'[p] = tb[p] /\ idx'[p] = 0
              /\ lim'[p] = sz[par[p]] /\ par' = par
          BY <4>2 DEF PcStep
        <4>4. Others(p)
          BY <2>1, <4>2, <1>OthersSame
        <4>5. \A b \in Tables, v \in VPages : Has(p, b, v)' <=> Has(p, b, v)
          BY SMT, <2>1, <4>3 DEF Has, WorkLabels, LoadLabels, VPages
        <4>6. ShapeAt(p)'
          BY <2>1, <4>3, <4>5, <1>ShapeSame DEF ShapeAt
        <4> QED BY <2>1, <4>3, <4>4, <4>6 DEF SpaceAt, BootAt, Booting, OwnAt
      <3>2. CASE ret[p] # "fork"
        <4>1. Loop(p, "load", ret[p], tb[p], 0, ImageSize)
          BY <2>7, <3>2 DEF AllocKernPage
        <4>2. PcStep(p, "load", ret[p], tb[p], 0, ImageSize)
          BY <2>1, <4>1, <1>PcMoves
        <4>3. /\ pc'[p] = "load" /\ ret'[p] = ret[p] /\ tb'[p] = tb[p] /\ idx'[p] = 0
              /\ lim'[p] = ImageSize /\ par' = par
          BY <4>2 DEF PcStep
        <4>4. Others(p)
          BY <2>1, <4>2, <1>OthersSame
        <4>5. \A b \in Tables, v \in VPages : Has(p, b, v)' <=> Has(p, b, v)
          BY SMT, <2>1, <4>3 DEF Has, WorkLabels, LoadLabels, VPages
        <4>6. ShapeAt(p)'
          BY <2>1, <2>3, <4>3, <4>5, <1>ShapeSame DEF ShapeAt
        <4>7. BootAt(p)'
          <5> SUFFICES ASSUME Booting(p)'
                       PROVE  /\ \A q \in Procs : freeing'[q] = NoPage /\ (q # p => pc'[q] = "unused")
                              /\ Len(freelist') >= 2 * (lim'[p] - idx'[p])
            BY <4>3 DEF BootAt
          <5>1. Booting(p)
            BY <2>1, <4>3 DEF Booting
          <5>2. Len(freelist) >= 2 * ImageSize + KernPagesLeft(p)
            BY <2>1, <5>1 DEF BootAt
          <5>3. KernPagesLeft(p) \in {1, 2, 3} /\ ImageSize \in Nat
            <6>1. KernPagesLeft(p) \in {1, 2, 3}
              BY DEF KernPagesLeft
            <6> QED BY SMT, <6>1, CowAssumption
          <5>4. Len(freelist') >= 2 * (lim'[p] - idx'[p])
            BY SMT, <2>2, <4>3, <5>2, <5>3
          <5>5. \A q \in Procs : q # p => pc'[q] = pc[q]
            BY <4>2 DEF PcStep
          <5> QED BY <2>1, <2>2, <5>1, <5>4, <5>5 DEF BootAt
        <4> QED BY <2>1, <4>3, <4>4, <4>6, <4>7 DEF SpaceAt, OwnAt
      <3> QED BY <3>1, <3>2
    <2> QED BY <2>6, <2>7
  (* A step after which slot p is neither being booted nor copying. *)
  <1>SpaceOther.
      ASSUME NEW p \in Procs, Others(p), ShapeAt(p)', panic' = "none",
             ret'[p] # "boot" \/ pc'[p] \notin {"alloc", "load", "loadmap"}, pc'[p] # "cowdecr"
      PROVE  SpaceAt(p)
    BY <1>SpaceOther DEF SpaceAt, BootAt, Booting, OwnAt
  (* The steps of uvmalloc. *)
  <1>SpaceLoad.
      ASSUME IInv, SpaceInv, AllCounted, NEW p \in Procs,
             LoadKalloc(p) \/ LoadKallocFails(p) \/ LoadMap(p) \/ LoadMapFails(p) \/ LoadDone(p)
      PROVE  SpaceAt(p)
    <2> USE <1>SpaceLoad
    <2> USE DEF At
    <2>1. /\ TypeOK /\ ShapeAt(p) /\ BootAt(p) /\ LocalsInv /\ panic = "none"
          /\ held \in [Held -> Pages \cup {NoPage}]
      BY DEF IInv, SpaceInv, TypeOK
    <2>2. /\ idx[p] \in 0 .. NV /\ lim[p] \in 0 .. NV /\ sz[p] \in 0 .. NV
          /\ tb[p] \in Tables /\ cur[p] \in Tables
      BY <2>1 DEF TypeOK
    <2>3. CASE LoadKalloc(p)
      <3>1. /\ pc[p] = "load" /\ kalloc(0) /\ Goto(p, "loadmap") /\ UNCHANGED <<map, C, cur, sz>>
            /\ UNCHANGED <<ret, tb, idx, lim, par>> /\ panic' = "none" /\ idx[p] < lim[p]
        BY <2>3 DEF LoadKalloc
      <3>2. /\ Len(freelist) \in Nat /\ Len(freelist') = Len(freelist) - 1 /\ freeing' = freeing
        BY <2>1, <3>1, <1>KallocTakes
      <3>3. PcStep(p, "loadmap", ret[p], tb[p], idx[p], lim[p])
        BY <2>1, <3>1, <1>PcMoves
      <3>4. Others(p) /\ ShapeAt(p)'
        BY <2>1, <3>1, <3>3, <1>OthersSame, <1>ShapeMove
      <3>5. pc'[p] = "loadmap" /\ \A q \in Procs : q # p => pc'[q] = pc[q]
        BY <3>3 DEF PcStep
      <3>6. BootAt(p)'
        <4> SUFFICES ASSUME Booting(p)'
                     PROVE  /\ \A q \in Procs : freeing'[q] = NoPage /\ (q # p => pc'[q] = "unused")
                            /\ idx'[p] < lim'[p]
                            /\ Len(freelist') >= 2 * (lim'[p] - idx'[p]) - (IF NeedsLeaf(p)' THEN 1 ELSE 2)
          BY <3>5 DEF BootAt
        <4>1. Booting(p)
          BY <3>1 DEF Booting
        <4>2. Len(freelist) >= 2 * (lim[p] - idx[p])
          BY <2>1, <3>1, <4>1 DEF BootAt
        <4>3. Len(freelist') >= 2 * (lim[p] - idx[p]) - 1 /\ Len(freelist') >= 2 * (lim[p] - idx[p]) - 2
          BY SMT, <2>2, <3>2, <4>2
        <4>4. Len(freelist') >= 2 * (lim'[p] - idx'[p]) - (IF NeedsLeaf(p)' THEN 1 ELSE 2)
          BY <3>1, <4>3
        <4> QED BY <2>1, <3>1, <3>2, <3>5, <4>1, <4>4 DEF BootAt
      <3> QED BY <3>1, <3>4, <3>5, <3>6 DEF SpaceAt, OwnAt
    <2>4. ASSUME pc[p] \in {"load", "loadmap"}, LoadUnwind(p), UNCHANGED <<map, C, cur, sz>>, panic' = "none"
          PROVE  SpaceAt(p)
      <3>1. PcStep(p, "unmap", ret[p], tb[p], IF ret[p] = "sbrk" THEN sz[p] ELSE 0, idx[p])
        BY <2>1, <2>4, <1>PcMoves DEF LoadUnwind
      <3>2. Others(p)
        BY <2>4, <3>1, <1>OthersSame
      <3>3. ShapeAt(p)'
        BY <2>1, <2>4, <3>1, <1>ShapeUnwind
      <3>4. pc'[p] = "unmap"
        BY <3>1 DEF PcStep
      <3> QED BY <2>4, <3>2, <3>3, <3>4, <1>SpaceOther
    <2>5. CASE LoadKallocFails(p)
      <3>1. pc[p] = "load" /\ idx[p] < lim[p] /\ KallocFails
        BY <2>5 DEF LoadKallocFails
      <3>2. ret[p] # "boot"
        BY <3>1, <1>BootPages
      <3>3. LoadUnwind(p) /\ UNCHANGED <<map, C, cur, sz, panic>>
        BY <2>5, <3>2 DEF LoadKallocFails, ptVars
      <3> QED BY <2>1, <2>4, <3>1, <3>3
    <2>6. CASE LoadMapFails(p)
      <3>1. pc[p] = "loadmap" /\ NeedsLeaf(p) /\ KallocFails
        BY <2>6 DEF LoadMapFails
      <3>2. ret[p] # "boot"
        BY <3>1, <1>BootPages
      <3>3. held[Ka(p)] # NoPage /\ Ka(p) \in Held
        BY <2>1, <3>1, SlotTypes DEF LocalsInv
      <3>4. ~KfreePanics(held[Ka(p)])
        BY <3>3 DEF AllCounted
      <3>5. LoadUnwind(p) /\ UNCHANGED <<map, C, cur, sz, panic>>
        BY <2>6, <3>2, <3>4 DEF LoadMapFails
      <3> QED BY <2>1, <2>4, <3>1, <3>5
    <2>7. CASE LoadMap(p)
      <3>1. pc[p] = "loadmap" /\ ~NeedsLeaf(p)
        BY <2>7 DEF LoadMap
      <3>2. idx[p] \in VPages /\ held[Ka(p)] # NoPage
        BY <2>1, <3>1 DEF LocalsInv
      <3>3. ~Mapped(WorkPte(p))
        <4>1. Mapped(WorkPte(p)) <=> Has(p, tb[p], idx[p])
          BY <2>1, <2>2, <3>2 DEF ShapeAt, Fits, WorkPte
        <4>2. ~(idx[p] < idx[p])
          BY SMT, <2>2
        <4>3. ~Has(p, tb[p], idx[p])
          BY SMT, <3>1, <4>2 DEF Has, WorkLabels, LoadLabels
        <4> QED BY <4>1, <4>3
      <3>4. /\ SetPte(WorkPte(p), held[Ka(p)], LoadW(p), LoadU(p), FALSE) /\ Advance(p, "load")
            /\ UNCHANGED <<cur, sz>> /\ freelist' = freelist /\ freeing' = freeing /\ panic' = "none"
        BY <2>1, <2>7, <3>3 DEF LoadMap, kallocVars
      <3>5. PcStep(p, "load", ret[p], tb[p], idx[p] + 1, lim[p])
        BY <2>1, <3>4, <1>PcMoves
      <3>6. Others(p)
        BY <2>1, <3>4, <3>5, <1>OthersSet
      <3>7. ShapeAt(p)'
        BY <2>1, <3>1, <3>2, <3>4, <3>5, <1>ShapeMapped
      <3>8. /\ pc'[p] = "load" /\ ret'[p] = ret[p] /\ idx'[p] = idx[p] + 1 /\ lim'[p] = lim[p]
            /\ \A q \in Procs : q # p => pc'[q] = pc[q]
        BY <3>5 DEF PcStep
      <3>9. BootAt(p)'
        <4> SUFFICES ASSUME Booting(p)'
                     PROVE  /\ \A q \in Procs : freeing'[q] = NoPage /\ (q # p => pc'[q] = "unused")
                            /\ Len(freelist') >= 2 * (lim'[p] - idx'[p])
          BY <3>8 DEF BootAt
        <4>1. Booting(p)
          BY <3>1, <3>8 DEF Booting
        <4>2. Len(freelist) >= 2 * (lim[p] - idx[p]) - 2
          BY <2>1, <3>1, <4>1 DEF BootAt
        <4>3. Len(freelist) \in Nat
          BY SMT, <2>1 DEF TypeOK, KallocTypeOK
        <4>4. Len(freelist) >= 2 * (lim[p] - (idx[p] + 1))
          BY SMT, <2>2, <4>2, <4>3
        <4> QED BY <2>1, <3>4, <3>8, <4>1, <4>4 DEF BootAt
      <3> QED BY <3>4, <3>6, <3>7, <3>8, <3>9 DEF SpaceAt, OwnAt
    <2>8. CASE LoadDone(p)
      <3>1. /\ pc[p] = "load" /\ idx[p] = lim[p] /\ UNCHANGED <<map, C>> /\ panic' = "none"
            /\ sz' = [sz EXCEPT ![p] = lim[p]] /\ sz \in [Procs -> 0 .. NV]
        BY <2>1, <2>8 DEF LoadDone, TypeOK
      <3>2. sz'[p] = lim[p] /\ \A q \in Procs : q # p => sz'[q] = sz[q]
        BY <3>1
      <3>3. CASE ret[p] = "exec"
        <4>1. /\ Loop(p, "unmap", "exec", cur[p], 0, sz[p]) /\ cur' = [cur EXCEPT ![p] = tb[p]]
              /\ cur \in [Procs -> Tables]
          BY <2>1, <2>8, <3>3 DEF LoadDone, TypeOK
        <4>2. PcStep(p, "unmap", "exec", cur[p], 0, sz[p])
          BY <2>1, <4>1, <1>PcMoves
        <4>3. /\ pc'[p] = "unmap" /\ ret'[p] = "exec" /\ tb'[p] = cur[p] /\ idx'[p] = 0
              /\ lim'[p] = sz[p] /\ cur'[p] = tb[p] /\ \A q \in Procs : q # p => cur'[q] = cur[q]
          BY <4>1, <4>2 DEF PcStep
        <4>4. Others(p)
          BY <3>1, <3>2, <4>2, <4>3, <1>OthersSame
        <4>5. ASSUME NEW b \in Tables, NEW v \in VPages PROVE Has(p, b, v)' <=> Has(p, b, v)
          <5>1. pc[p] \in WorkLabels /\ "unmap" \in WorkLabels
            BY <3>1 DEF WorkLabels, LoadLabels
          <5>2. tb[p] # cur[p] /\ (b = tb[p] \/ b = cur[p])
            BY <3>3, <5>1, <1>WorkTable
          <5>3. Low(p)' = 0
            BY <4>3 DEF Low
          <5>4. v \in Int /\ 0 <= v
            BY SMT DEF VPages
          <5>5. CASE b = tb[p]
            <6>1. Has(p, b, v) <=> v < idx[p]
              BY <3>1, <5>1, <5>5 DEF Has
            <6>2. Has(p, b, v)' <=> v < sz'[p]
              BY <4>3, <5>2, <5>5 DEF Has
            <6> QED BY <3>1, <3>2, <6>1, <6>2
          <5>6. CASE b = cur[p]
            <6>1. Has(p, b, v) <=> v < sz[p]
              BY <5>2, <5>6 DEF Has
            <6>2. Has(p, b, v)' <=> v < 0 \/ (0 <= v /\ v < sz[p])
              BY <4>3, <5>1, <5>3, <5>6 DEF Has
            <6>3. v < 0 \/ (0 <= v /\ v < sz[p]) <=> v < sz[p]
              BY SMT, <5>4, <2>2
            <6> QED BY <6>1, <6>2, <6>3
          <5> QED BY <5>2, <5>5, <5>6
        <4>6. ShapeAt(p)'
          BY <2>1, <3>1, <4>3, <4>5, <1>ShapeSame DEF ShapeAt
        <4> QED BY <3>1, <4>3, <4>4, <4>6, <1>SpaceOther
      <3>4. CASE ret[p] # "exec"
        <4>1. Goto(p, "run") /\ UNCHANGED <<cur, ret, tb, idx, lim, par>>
          BY <2>8, <3>4 DEF LoadDone
        <4>2. PcStep(p, "run", ret[p], tb[p], idx[p], lim[p])
          BY <2>1, <4>1, <1>PcMoves
        <4>3. pc'[p] = "run"
          BY <4>2 DEF PcStep
        <4>4. Others(p)
          BY <3>1, <3>2, <4>1, <4>2, <1>OthersSame
        <4>5. ASSUME NEW b \in Tables, NEW v \in VPages PROVE Has(p, b, v)' <=> Has(p, b, v)
          <5>1. pc[p] \in WorkLabels /\ pc'[p] \notin WorkLabels
            BY SMT, <3>1, <4>3 DEF WorkLabels, LoadLabels
          <5>2. tb[p] = cur[p]
            BY <3>4, <5>1, <1>WorkTable
          <5>3. Has(p, b, v) <=> b = cur[p] /\ v < idx[p]
            BY SMT, <3>1, <5>1, <5>2 DEF Has
          <5>4. Has(p, b, v)' <=> b = cur[p] /\ v < sz'[p]
            BY <4>1, <5>1 DEF Has
          <5> QED BY <3>1, <3>2, <5>3, <5>4
        <4>6. ShapeAt(p)'
          BY <2>1, <3>1, <4>3, <4>5, <1>ShapeSame DEF ShapeAt
        <4> QED BY <3>1, <4>3, <4>4, <4>6, <1>SpaceOther
      <3> QED BY <3>3, <3>4
    <2> QED BY <2>3, <2>5, <2>6, <2>7, <2>8
  (* The steps of uvmcopy. *)
  <1>SpaceCopy.
      ASSUME IInv, SpaceInv, NEW p \in Procs,
             CopyIncr(p) \/ CopyMap(p) \/ CopyMapFails(p) \/ ForkDone(p)
      PROVE  SpaceAt(p)
    <2> USE <1>SpaceCopy
    <2> USE DEF At
    <2>1. /\ TypeOK /\ ShapeAt(p) /\ LocalsInv /\ ForkInv /\ panic = "none"
      BY DEF IInv, SpaceInv
    <2>2. /\ idx[p] \in 0 .. NV /\ lim[p] \in 0 .. NV /\ sz[p] \in 0 .. NV
          /\ tb[p] \in Tables /\ cur[p] \in Tables /\ par[p] \in Procs
      BY <2>1 DEF TypeOK
    <2>3. /\ pc[p] \in {"copy", "copymap"} /\ ret[p] = "fork" /\ pc[par[p]] = "forking"
          /\ lim[p] = sz[par[p]] /\ tb[p] = cur[p]
      <3>1. pc[p] \in {"copy", "copymap"}
        BY DEF CopyIncr, CopyMap, CopyMapFails, ForkDone
      <3>2. ret[p] = "fork" /\ pc[par[p]] = "forking"
        BY <2>1, <3>1 DEF ForkInv, Forking, ForkLabels
      <3>3. pc[p] \in WorkLabels
        BY <3>1 DEF WorkLabels
      <3> QED BY <2>1, <3>1, <3>2, <3>3, <1>WorkTable DEF ShapeAt
    <2>4. CASE CopyIncr(p)
      <3>1. pc[p] = "copy" /\ idx[p] < lim[p]
        BY <2>4 DEF CopyIncr
      <3>2. Mapped(CopyFrom(p))
        <4>1. idx[p] \in VPages /\ idx[p] < sz[par[p]]
          BY <2>1, <2>3, <3>1, LoopPage
        <4>2. ShapeAt(par[p]) /\ cur[par[p]] \in Tables
          BY <2>1, <2>2 DEF SpaceInv, TypeOK
        <4>3. pc[par[p]] \notin WorkLabels
          BY SMT, <2>3 DEF WorkLabels, LoadLabels
        <4>4. Has(par[p], cur[par[p]], idx[p])
          BY <4>1, <4>3 DEF Has
        <4> QED BY <4>1, <4>2, <4>4 DEF ShapeAt, Fits, CopyFrom, Pte
      <3>3. /\ Goto(p, "copymap") /\ UNCHANGED <<map, C, cur, sz>>
            /\ UNCHANGED <<ret, tb, idx, lim, par>> /\ panic' = "none"
        BY <2>1, <2>4, <3>2 DEF CopyIncr
      <3>4. PcStep(p, "copymap", ret[p], tb[p], idx[p], lim[p])
        BY <2>1, <3>3, <1>PcMoves
      <3>5. Others(p) /\ ShapeAt(p)'
        BY <2>1, <3>1, <3>3, <3>4, <1>OthersSame, <1>ShapeMove
      <3>6. pc'[p] = "copymap"
        BY <3>4 DEF PcStep
      <3> QED BY <3>3, <3>5, <3>6, <1>SpaceOther
    <2>5. CASE CopyMap(p)
      <3>1. pc[p] = "copymap"
        BY <2>5 DEF CopyMap
      <3>2. idx[p] \in VPages /\ held[Pa(p)] # NoPage
        BY <2>1, <3>1 DEF LocalsInv
      <3>3. ~Mapped(WorkPte(p))
        <4>1. Mapped(WorkPte(p)) <=> Has(p, tb[p], idx[p])
          BY <2>1, <2>2, <3>2 DEF ShapeAt, Fits, WorkPte
        <4>2. ~(idx[p] < idx[p])
          BY SMT, <2>2
        <4>3. ~Has(p, tb[p], idx[p])
          BY SMT, <3>1, <4>2 DEF Has, WorkLabels, LoadLabels
        <4> QED BY <4>1, <4>3
      <3>4. /\ SetPte(WorkPte(p), held[Pa(p)], FALSE, CopyFrom(p) \in U, TRUE) /\ Advance(p, "copy")
            /\ UNCHANGED <<cur, sz>> /\ panic' = "none"
        BY <2>1, <2>5, <3>3 DEF CopyMap
      <3>5. PcStep(p, "copy", ret[p], tb[p], idx[p] + 1, lim[p])
        BY <2>1, <3>4, <1>PcMoves
      <3>6. Others(p)
        BY <2>1, <3>4, <3>5, <1>OthersSet
      <3>7. ShapeAt(p)'
        BY <2>1, <3>1, <3>2, <3>4, <3>5, <1>ShapeMapped
      <3>8. pc'[p] = "copy"
        BY <3>5 DEF PcStep
      <3> QED BY <3>4, <3>6, <3>7, <3>8, <1>SpaceOther
    <2>6. CASE CopyMapFails(p)
      <3>1. /\ pc[p] = "copymap" /\ Loop(p, "unmap", "fork", tb[p], 0, idx[p])
            /\ UNCHANGED <<map, C, cur, sz>> /\ panic' = "none"
        BY <2>6 DEF CopyMapFails
      <3>2. PcStep(p, "unmap", ret[p], tb[p], IF ret[p] = "sbrk" THEN sz[p] ELSE 0, idx[p])
        BY <2>1, <2>3, <3>1, <1>PcMoves
      <3>3. Others(p)
        BY <3>1, <3>2, <1>OthersSame
      <3>4. ShapeAt(p)'
        BY <2>1, <2>3, <3>1, <3>2, <1>ShapeUnwind
      <3>5. pc'[p] = "unmap"
        BY <3>2 DEF PcStep
      <3> QED BY <3>1, <3>3, <3>4, <3>5, <1>SpaceOther
    <2>7. CASE ForkDone(p)
      <3>1. /\ pc[p] = "copy" /\ idx[p] = lim[p] /\ sz' = [sz EXCEPT ![p] = lim[p]]
            /\ pc' = [pc EXCEPT ![p] = "run", ![par[p]] = "run"]
            /\ UNCHANGED <<map, C, cur, ret, tb, idx, lim, par>> /\ panic' = "none"
            /\ pc \in [Procs -> Labels] /\ sz \in [Procs -> 0 .. NV]
        BY <2>1, <2>7 DEF ForkDone, TypeOK
      <3>2. par[p] # p
        BY SMT, <2>3
      <3>3. /\ pc'[p] = "run" /\ sz'[p] = lim[p]
            /\ \A q \in Procs : q # p => sz'[q] = sz[q] /\ pc'[q] = IF q = par[p] THEN "run" ELSE pc[q]
        BY <3>1, <3>2
      <3>4. Others(p)
        BY <2>3, <3>1, <3>3 DEF Others, RunOrFork
      <3>5. ASSUME NEW b \in Tables, NEW v \in VPages PROVE Has(p, b, v)' <=> Has(p, b, v)
        <4>1. pc[p] \in WorkLabels /\ pc'[p] \notin WorkLabels
          BY SMT, <3>1, <3>3 DEF WorkLabels, LoadLabels
        <4>2. Has(p, b, v) <=> b = cur[p] /\ v < idx[p]
          BY SMT, <2>3, <3>1, <4>1 DEF Has
        <4>3. Has(p, b, v)' <=> b = cur[p] /\ v < sz'[p]
          BY <3>1, <4>1 DEF Has
        <4> QED BY <3>1, <3>3, <4>2, <4>3
      <3>6. ShapeAt(p)'
        BY <2>1, <3>1, <3>3, <3>5, <1>ShapeSame DEF ShapeAt
      <3> QED BY <3>1, <3>3, <3>4, <3>6, <1>SpaceOther
    <2> QED BY <2>4, <2>5, <2>6, <2>7
  <1>SpaceBuild.
      ASSUME IInv, SpaceInv, AllCounted, NEW p \in Procs, Build(p)
      PROVE  SpaceInv'
    <2> USE <1>SpaceBuild
    <2> USE DEF At
    <2>1. TypeOK /\ ShapeAt(p) /\ BootAt(p) /\ panic = "none" /\ LocalsInv
      BY DEF IInv, SpaceInv
    <2>2. CASE AllocKernPageFails(p)
      <3>1. pc[p] = "alloc" /\ KallocFails
        BY <2>2 DEF AllocKernPageFails
      <3>2. ret[p] # "boot"
        BY <3>1, <1>BootPages
      <3>3. /\ Goto(p, "tables") /\ UNCHANGED <<ret, tb, idx, lim, par>>
            /\ UNCHANGED <<map, C, cur, sz>> /\ panic' = "none"
        BY <2>1, <2>2, <3>2 DEF AllocKernPageFails, ptVars
      <3>4. PcStep(p, "tables", ret[p], tb[p], idx[p], lim[p])
        BY <2>1, <3>3, <1>PcMoves
      <3>5. pc'[p] = "tables"
        BY <3>4 DEF PcStep
      <3>6. Others(p)
        BY <3>3, <3>4, <1>OthersSame
      <3>7. \A b, v : Has(p, b, v)' <=> Has(p, b, v)
        BY <3>1, <3>3, <3>5 DEF Has, WorkLabels, LoadLabels
      <3>8. ShapeAt(p)'
        BY <2>1, <3>3, <3>5, <3>7, <1>ShapeSame DEF ShapeAt
      <3> QED BY <3>3, <3>5, <3>6, <3>8, <1>SpaceOther, <3>1, <1>Stepper, <1>SpaceStep DEF SpaceAt
    <2>3. CASE WalkAlloc(p)
      <3>1. /\ pc[p] \in {"loadmap", "copymap"} /\ NeedsLeaf(p) /\ kalloc(Junk) /\ UNCHANGED pcVars
            /\ held' = [held EXCEPT ![Leaf(p, tb[p], idx[p])] = Top]
            /\ UNCHANGED <<map, C, cur, sz>> /\ panic' = "none"
        BY <2>3 DEF WalkAlloc
      <3>2. /\ Len(freelist) \in Nat /\ Len(freelist') = Len(freelist) - 1 /\ freeing' = freeing
            /\ Top # NoPage
        BY <2>1, <3>1, <1>KallocTakes
      <3>3. PcStep(p, pc[p], ret[p], tb[p], idx[p], lim[p])
        BY <2>1, <3>1, <1>PcMoves
      <3>4. Others(p) /\ ShapeAt(p)'
        BY <2>1, <3>1, <3>3, <1>OthersSame, <1>ShapeMove
      <3>5. ~NeedsLeaf(p)'
        <4>1. Leaf(p, tb[p], idx[p]) \in Held /\ held \in [Held -> Pages \cup {NoPage}]
          BY <2>1, <3>1, WorkTypes DEF TypeOK
        <4> QED BY <3>1, <3>2, <4>1 DEF NeedsLeaf, pcVars
      <3>6. BootAt(p)'
        <4> SUFFICES ASSUME Booting(p)'
                     PROVE  /\ \A q \in Procs : freeing'[q] = NoPage /\ (q # p => pc'[q] = "unused")
                            /\ idx'[p] < lim'[p] /\ Len(freelist') >= 2 * (lim'[p] - idx'[p]) - 2
                            /\ pc'[p] = "loadmap"
          BY <3>5 DEF BootAt
        <4>1. Booting(p) /\ pc[p] = "loadmap"
          BY <3>1 DEF Booting, pcVars
        <4>2. /\ idx[p] < lim[p] /\ Len(freelist) >= 2 * (lim[p] - idx[p]) - 1
              /\ \A q \in Procs : freeing[q] = NoPage /\ (q # p => pc[q] = "unused")
          BY <2>1, <3>1, <4>1 DEF BootAt
        <4>3. idx[p] \in 0 .. NV /\ lim[p] \in 0 .. NV
          BY <2>1 DEF TypeOK
        <4>4. Len(freelist') >= 2 * (lim[p] - idx[p]) - 2
          BY SMT, <3>2, <4>2, <4>3
        <4> QED BY <3>1, <3>2, <4>1, <4>2, <4>4 DEF pcVars
      <3>7. pc'[p] # "cowdecr" /\ pc[p] # "unused"
        BY SMT, <3>1 DEF pcVars
      <3> QED BY <3>1, <3>4, <3>6, <3>7, <1>Stepper, <1>SpaceStep DEF OwnAt
    <2>4. ASSUME SpaceAt(p), pc[p] \in {"alloc", "load", "loadmap", "copy", "copymap"} PROVE SpaceInv'
      <3>1. pc[p] # "unused" /\ pc[p] # "forking"
        BY SMT, <2>4
      <3> QED BY <2>4, <3>1, <1>Stepper, <1>SpaceStep DEF SpaceAt
    <2>5. CASE AllocKernPage(p)
      BY <2>4, <2>5, <1>SpaceAlloc DEF AllocKernPage
    <2>6. CASE LoadKalloc(p) \/ LoadKallocFails(p) \/ LoadMap(p) \/ LoadMapFails(p) \/ LoadDone(p)
      <3>1. pc[p] \in {"load", "loadmap"}
        BY <2>6 DEF LoadKalloc, LoadKallocFails, LoadMap, LoadMapFails, LoadDone
      <3> QED BY <2>4, <2>6, <3>1, <1>SpaceLoad
    <2>7. CASE CopyIncr(p) \/ CopyMap(p) \/ CopyMapFails(p) \/ ForkDone(p)
      <3>1. pc[p] \in {"copy", "copymap"}
        BY <2>7 DEF CopyIncr, CopyMap, CopyMapFails, ForkDone
      <3> QED BY <2>4, <2>7, <3>1, <1>SpaceCopy
    <2> QED BY <2>2, <2>3, <2>5, <2>6, <2>7 DEF Build
  <1>SpaceTearDown.
      ASSUME IInv, SpaceInv, AllCounted, NEW p \in Procs, TearDown(p)
      PROVE  SpaceInv'
    <2> USE <1>SpaceTearDown
    <2> USE DEF At
    <2>1. /\ TypeOK /\ ShapeAt(p) /\ BootAt(p) /\ panic = "none" /\ LocalsInv /\ ForkInv
      BY DEF IInv, SpaceInv
    <2>2. /\ idx[p] \in 0 .. NV /\ lim[p] \in 0 .. NV /\ sz[p] \in 0 .. NV
          /\ tb[p] \in Tables /\ cur[p] \in Tables
      BY <2>1 DEF TypeOK
    <2>3. ASSUME SpaceAt(p), pc[p] \in {"unmap", "tables", "freetf"} PROVE SpaceInv'
      <3>1. pc[p] # "unused" /\ pc[p] # "forking"
        BY SMT, <2>3
      <3> QED BY <2>3, <3>1, <1>Stepper, <1>SpaceStep DEF SpaceAt
    <2>4. CASE Unmap(p)
      <3>1. pc[p] = "unmap" /\ idx[p] < lim[p]
        BY <2>4 DEF Unmap
      <3>2. /\ Low(p) \in Int /\ Low(p) <= idx[p] /\ idx[p] \in VPages
        <4>1. ret[p] = "sbrk" => sz[p] <= idx[p]
          BY <2>1, <3>1 DEF ShapeAt
        <4>2. idx[p] \in VPages
          BY <2>1, <3>1, LoopPage
        <4> QED BY SMT, <2>2, <4>1, <4>2 DEF Low
      <3>3. \A v \in VPages : Has(p, tb[p], v) <=> v < Low(p) \/ (idx[p] <= v /\ v < lim[p])
        BY SMT, <3>1 DEF Has, WorkLabels, LoadLabels
      <3>4. Mapped(WorkPte(p)) /\ WorkPte(p) \in PTE
        <4>1. Mapped(WorkPte(p)) <=> Has(p, tb[p], idx[p])
          BY <2>1, <2>2, <3>2 DEF ShapeAt, Fits, WorkPte
        <4>2. idx[p] <= idx[p]
          BY SMT, <2>2
        <4> QED BY <2>2, <3>1, <3>2, <3>3, <4>1, <4>2 DEF WorkPte, PTE
      <3>5. ~KfreePanics(map[WorkPte(p)])
        BY <3>4 DEF AllCounted
      <3>6. /\ SetPte(WorkPte(p), NoPage, FALSE, FALSE, FALSE) /\ Advance(p, "unmap")
            /\ UNCHANGED <<cur, sz>> /\ panic' = "none"
        BY <2>1, <2>4, <3>4, <3>5 DEF Unmap
      <3>7. PcStep(p, "unmap", ret[p], tb[p], idx[p] + 1, lim[p])
        BY <2>1, <3>6, <1>PcMoves
      <3>8. /\ pc'[p] = "unmap" /\ ret'[p] = ret[p] /\ tb'[p] = tb[p] /\ idx'[p] = idx[p] + 1
            /\ lim'[p] = lim[p]
        BY <3>7 DEF PcStep
      <3>9. Others(p)
        BY <2>1, <3>6, <3>7, <1>OthersSet
      <3>10. Fits(p)'
        <4> SUFFICES ASSUME NEW b \in Tables, NEW v \in VPages
                     PROVE  Mapped(<<<<p, b>>, v>>)' <=> Has(p, b, v)'
          BY DEF Fits
        <4>1. map \in [PTE -> Pages \cup {NoPage}] /\ <<<<p, b>>, v>> \in PTE
          BY <2>1 DEF TypeOK, PTE
        <4>2. <<<<p, b>>, v>> = WorkPte(p) <=> b = tb[p] /\ v = idx[p]
          BY DEF WorkPte
        <4>3. Mapped(<<<<p, b>>, v>>)' <=> Mapped(<<<<p, b>>, v>>) /\ ~(b = tb[p] /\ v = idx[p])
          BY <3>6, <4>1, <4>2 DEF SetPte, Mapped
        <4>4. Mapped(<<<<p, b>>, v>>) <=> Has(p, b, v)
          BY <2>1 DEF ShapeAt, Fits
        <4>5. CASE b = tb[p]
          <5>1. Low(p)' = Low(p)
            BY <3>6, <3>8 DEF Low
          <5>2. Has(p, b, v)' <=> v < Low(p) \/ (idx[p] + 1 <= v /\ v < lim[p])
            <6>1. pc'[p] \in WorkLabels
              BY <3>8 DEF WorkLabels, LoadLabels
            <6> QED BY <3>8, <4>5, <5>1, <6>1 DEF Has
          <5>3. (v < Low(p) \/ (idx[p] <= v /\ v < lim[p])) /\ v # idx[p]
                  <=> v < Low(p) \/ (idx[p] + 1 <= v /\ v < lim[p])
            <6> HIDE DEF Low
            <6> QED BY SMT, <2>2, <3>2 DEF VPages
          <5> QED BY <3>3, <4>3, <4>4, <4>5, <5>2, <5>3
        <4>6. CASE b # tb[p]
          <5>1. Has(p, b, v)' <=> Has(p, b, v)
            BY <3>6, <3>8, <4>6 DEF Has
          <5> QED BY <4>3, <4>4, <4>6, <5>1
        <4> QED BY <4>5, <4>6
      <3>11. ret'[p] = "sbrk" => sz'[p] <= idx'[p]
        <4>1. ret[p] = "sbrk" => sz[p] <= idx[p]
          BY <2>1, <3>1 DEF ShapeAt
        <4>2. sz[p] <= idx[p] => sz[p] <= idx[p] + 1
          BY SMT, <2>2
        <4> QED BY <3>6, <3>8, <4>1, <4>2
      <3>12. ShapeAt(p)'
        BY <3>8, <3>10, <3>11 DEF ShapeAt
      <3> QED BY <2>3, <3>1, <3>6, <3>8, <3>9, <3>12, <1>SpaceOther
    <2>5. CASE UnmapDone(p)
      <3>1. /\ pc[p] = "unmap" /\ idx[p] = lim[p] /\ UNCHANGED <<map, C, cur, sz>>
            /\ UNCHANGED <<ret, tb, idx, lim, par>> /\ panic' = "none"
        BY <2>5 DEF UnmapDone, ptVars
      <3> DEFINE l == CASE ret[p] = "sbrk" -> "run" [] ret[p] = "fork" -> "freetf" [] OTHER -> "tables"
      <3>2. Goto(p, l)
        BY <2>5 DEF UnmapDone
      <3>3. /\ ret[p] = "sbrk" => l = "run"
            /\ ret[p] = "fork" => l = "freetf"
            /\ ret[p] \notin {"sbrk", "fork"} => l = "tables"
        BY SMT
      <3> HIDE DEF l
      <3>4. PcStep(p, l, ret[p], tb[p], idx[p], lim[p])
        BY <2>1, <3>1, <3>2, <1>PcMoves
      <3>5. pc'[p] = l /\ Others(p)
        BY <3>1, <3>4, <1>OthersSame DEF PcStep
      <3>6. ASSUME NEW b \in Tables, NEW v \in VPages PROVE Has(p, b, v)' <=> Has(p, b, v)
        <4>1. pc[p] \in WorkLabels /\ v \in Int /\ 0 <= v
          BY SMT, <3>1 DEF WorkLabels, LoadLabels, VPages
        <4>2. b = tb[p] => (Has(p, b, v) <=> v < Low(p))
          <5>1. ~(idx[p] <= v /\ v < lim[p])
            BY SMT, <2>2, <3>1, <4>1
          <5>2. b = tb[p] => (Has(p, b, v) <=> v < Low(p) \/ (idx[p] <= v /\ v < lim[p]))
            BY SMT, <3>1, <4>1 DEF Has
          <5> QED BY <5>1, <5>2
        <4>3. CASE ret[p] = "sbrk"
          <5>1. l \notin WorkLabels /\ tb[p] = cur[p] /\ Low(p) = sz[p]
            <6>1. tb[p] = cur[p]
              BY SMT, <4>1, <4>3, <1>WorkTable
            <6> QED BY SMT, <3>3, <4>3, <6>1 DEF WorkLabels, LoadLabels, Low
          <5>2. Has(p, b, v)' <=> b = cur[p] /\ v < sz[p]
            BY <3>1, <3>5, <5>1 DEF Has
          <5>3. b # tb[p] => ~Has(p, b, v)
            BY <5>1 DEF Has
          <5> QED BY <4>2, <5>1, <5>2, <5>3
        <4>4. CASE ret[p] # "sbrk"
          <5>1. l \in WorkLabels /\ l \in {"freetf", "tables"} /\ (l = "freetf" => ret[p] # "reap")
            BY SMT, <3>3, <4>4 DEF WorkLabels, LoadLabels
          <5>2. ~(v < Low(p))
            BY SMT, <4>1, <4>4 DEF Low
          <5>3. b = tb[p] => ~Has(p, b, v)'
            BY SMT, <3>1, <3>5, <5>1 DEF Has
          <5>4. b # tb[p] => (Has(p, b, v)' <=> Has(p, b, v))
            BY <3>1 DEF Has
          <5> QED BY <4>2, <5>2, <5>3, <5>4
        <4> QED BY <4>3, <4>4
      <3>7. l \in {"run", "freetf", "tables"}
        BY <3>3
      <3>8. ShapeAt(p)'
        <4>1. Fits(p)'
          BY <2>1, <3>1, <3>6, <1>ShapeSame
        <4> QED BY SMT, <3>5, <3>7, <4>1 DEF ShapeAt
      <3>9. SpaceAt(p)
        <4>1. pc'[p] \notin {"alloc", "load", "loadmap"} /\ pc'[p] # "cowdecr"
          BY SMT, <3>5, <3>7
        <4> QED BY <3>1, <3>5, <3>8, <4>1, <1>SpaceOther
      <3> QED BY <2>3, <3>1, <3>9
    <2>6. CASE Freewalk(p)
      <3>1. pc[p] = "tables"
        BY <2>6 DEF Freewalk
      <3>2. ASSUME NEW v \in VPages PROVE ~Mapped(<<<<p, tb[p]>>, v>>)
        <4>1. ~Has(p, tb[p], v)
          BY SMT, <3>1 DEF Has, WorkLabels, LoadLabels
        <4> QED BY <2>1, <2>2, <4>1 DEF ShapeAt, Fits
      <3>3. \A h \in TablePages(p, tb[p]) : ~KfreePanics(held[h])
        BY <2>1, WorkTypes DEF TablePages, AllCounted
      <3>4. UNCHANGED <<map, C, cur, sz>> /\ UNCHANGED pcVars /\ panic' = "none"
        BY <2>1, <2>6, <3>2, <3>3 DEF Freewalk
      <3>5. PcStep(p, pc[p], ret[p], tb[p], idx[p], lim[p])
        BY <2>1, <3>4, <1>PcMoves
      <3>6. Others(p) /\ ShapeAt(p)' /\ pc'[p] = "tables"
        BY <2>1, <3>1, <3>4, <3>5, <1>OthersSame, <1>ShapeMove DEF PcStep
      <3> QED BY <2>3, <3>1, <3>4, <3>6, <1>SpaceOther
    <2>7. CASE FreeTf(p)
      <3>1. ~KfreePanics(held[Tf(p)])
        BY <2>7, SlotTypes DEF FreeTf, AllCounted
      <3> DEFINE l == IF pc[p] = "freetf" /\ ret[p] = "reap" THEN "unmap" ELSE "tables"
      <3>2. /\ pc[p] \in {"freetf", "tables"} /\ Goto(p, l) /\ UNCHANGED <<map, C, cur, sz>>
            /\ UNCHANGED <<ret, tb, idx, lim, par>> /\ panic' = "none"
        BY <2>1, <2>7, <3>1 DEF FreeTf
      <3>3. /\ pc[p] = "freetf" /\ ret[p] = "reap" => l = "unmap"
            /\ ~(pc[p] = "freetf" /\ ret[p] = "reap") => l = "tables"
        BY SMT
      <3> HIDE DEF l
      <3>4. PcStep(p, l, ret[p], tb[p], idx[p], lim[p])
        BY <2>1, <3>2, <1>PcMoves
      <3>5. pc'[p] = l /\ Others(p)
        BY <3>2, <3>4, <1>OthersSame DEF PcStep
      <3>6. ASSUME NEW b \in Tables, NEW v \in VPages PROVE Has(p, b, v)' <=> Has(p, b, v)
        <4>1. pc[p] \in WorkLabels /\ l \in WorkLabels
          BY <3>2, <3>3 DEF WorkLabels, LoadLabels
        <4>2. CASE b # tb[p]
          BY <3>2, <4>2 DEF Has
        <4>3. CASE b = tb[p] /\ pc[p] = "freetf" /\ ret[p] = "reap"
          <5>1. Has(p, b, v) <=> idx[p] <= v /\ v < lim[p]
            BY SMT, <4>1, <4>3 DEF Has
          <5>2. Low(p)' = 0
            BY <3>2, <4>3 DEF Low
          <5>3. Has(p, b, v)' <=> v < 0 \/ (idx[p] <= v /\ v < lim[p])
            BY <3>2, <3>3, <3>5, <4>1, <4>3, <5>2 DEF Has
          <5>4. ~(v < 0)
            BY SMT DEF VPages
          <5> QED BY <5>1, <5>3, <5>4
        <4>4. CASE b = tb[p] /\ ~(pc[p] = "freetf" /\ ret[p] = "reap")
          <5>1. ~Has(p, b, v)
            BY SMT, <3>2, <4>1, <4>4 DEF Has
          <5>2. ~Has(p, b, v)'
            BY <3>2, <3>3, <3>5, <4>1, <4>4 DEF Has
          <5> QED BY <5>1, <5>2
        <4> QED BY <4>2, <4>3, <4>4
      <3>7. ShapeAt(p)'
        <4>1. Fits(p)'
          BY <2>1, <3>2, <3>6, <1>ShapeSame
        <4> QED BY <3>2, <3>3, <3>5, <4>1 DEF ShapeAt
      <3>8. pc'[p] \notin {"alloc", "load", "loadmap"} /\ pc'[p] # "cowdecr"
        BY SMT, <3>3, <3>5
      <3> QED BY <2>3, <3>2, <3>5, <3>7, <3>8, <1>SpaceOther
    <2>8. CASE FreeDone(p)
      <3>1. /\ pc[p] = "tables" /\ UNCHANGED <<map, C, cur>> /\ UNCHANGED <<ret, tb, idx, lim, par>>
            /\ panic' = "none"
        BY <2>8 DEF FreeDone
      <3>2. pc[p] \in WorkLabels
        BY <3>1 DEF WorkLabels, LoadLabels
      <3>3. \A v : ~Has(p, tb[p], v)
        BY SMT, <3>1, <3>2 DEF Has
      <3>4. CASE ret[p] = "exec"
        <4>1. Goto(p, "run") /\ UNCHANGED sz
          BY <2>8, <3>4 DEF FreeDone
        <4>2. PcStep(p, "run", ret[p], tb[p], idx[p], lim[p])
          BY <2>1, <3>1, <4>1, <1>PcMoves
        <4>3. pc'[p] = "run" /\ Others(p)
          BY <3>1, <4>1, <4>2, <1>OthersSame DEF PcStep
        <4>4. ASSUME NEW b \in Tables, NEW v \in VPages PROVE Has(p, b, v)' <=> Has(p, b, v)
          <5>1. pc'[p] \notin WorkLabels
            BY SMT, <4>3 DEF WorkLabels, LoadLabels
          <5>2. tb[p] # cur[p]
            BY <3>2, <3>4, <1>WorkTable
          <5>3. Has(p, b, v)' <=> b = cur[p] /\ v < sz[p]
            BY <3>1, <4>1, <5>1 DEF Has
          <5>4. b # tb[p] => (Has(p, b, v) <=> b = cur[p] /\ v < sz[p])
            BY DEF Has
          <5> QED BY <3>3, <5>2, <5>3, <5>4
        <4>5. ShapeAt(p)'
          BY <2>1, <3>1, <4>3, <4>4, <1>ShapeSame DEF ShapeAt
        <4> QED BY <2>3, <3>1, <4>3, <4>5, <1>SpaceOther
      <3>5. CASE ret[p] # "exec"
        <4>1. /\ sz' = [sz EXCEPT ![p] = 0] /\ sz \in [Procs -> 0 .. NV]
              /\ pc' = [q \in Procs |-> IF q = p THEN "unused"
                                        ELSE IF ret[p] = "fork" /\ q = par[p] THEN "run" ELSE pc[q]]
          BY <2>1, <2>8, <3>5 DEF FreeDone, TypeOK
        <4>2. /\ pc'[p] = "unused" /\ sz'[p] = 0
              /\ \A q \in Procs : q # p =>
                   /\ sz'[q] = sz[q]
                   /\ pc'[q] = IF ret[p] = "fork" /\ q = par[p] THEN "run" ELSE pc[q]
          BY <4>1
        <4>3. ret[p] = "fork" => pc[par[p]] = "forking"
          BY <2>1, <3>1 DEF ForkInv, Forking, ForkLabels
        <4>4. Others(p)
          BY <3>1, <4>2, <4>3 DEF Others, RunOrFork
        <4>5. ASSUME NEW b \in Tables, NEW v \in VPages PROVE Has(p, b, v)' <=> Has(p, b, v)
          <5>1. pc'[p] \notin WorkLabels
            BY SMT, <4>2 DEF WorkLabels, LoadLabels
          <5>2. tb[p] = cur[p]
            BY <3>2, <3>5, <1>WorkTable
          <5>3. ~(v < 0)
            BY SMT DEF VPages
          <5> QED BY <3>1, <3>3, <4>2, <5>1, <5>2, <5>3 DEF Has
        <4>6. ShapeAt(p)'
          BY <2>1, <3>1, <4>2, <4>5, <1>ShapeSame DEF ShapeAt
        <4> QED BY <2>3, <3>1, <4>2, <4>4, <4>6, <1>SpaceOther
      <3> QED BY <3>4, <3>5
    <2>9. CASE Push(p)
      <3>1. /\ freeing[p] # NoPage /\ UNCHANGED <<map, C, cur, sz, panic>> /\ UNCHANGED pcVars
        BY <2>9 DEF Push, KfreePush, ptVars
      <3>2. PcStep(p, pc[p], ret[p], tb[p], idx[p], lim[p])
        BY <2>1, <3>1, <1>PcMoves
      <3>3. Others(p) /\ ShapeAt(p)'
        BY <2>1, <3>1, <3>2, <1>OthersSame, <1>ShapeMove
      <3>4. ~Booting(p)'
        BY <2>1, <3>1 DEF Booting, BootAt, pcVars
      <3>5. OwnAt(p)'
        BY <3>1 DEF SpaceInv, OwnAt, Mapped, WorkPte, pcVars
      <3> QED BY <2>1, <3>1, <3>3, <3>4, <3>5, <1>Stepper, <1>SpaceStep DEF BootAt
    <2> QED BY <2>4, <2>5, <2>6, <2>7, <2>8, <2>9 DEF TearDown
  <1>SpaceCowFault.
      ASSUME IInv, SpaceInv, NEW p \in Procs, CowFault(p)
      PROVE  SpaceInv'
    <2> USE <1>SpaceCowFault
    <2> USE DEF At
    <2>1. /\ TypeOK /\ ShapeAt(p) /\ panic = "none" /\ LocalsInv
      BY DEF IInv, SpaceInv
    <2>2. pc[p] \in {"cow", "cowcopy", "cowdecr"} /\ panic' = "none"
      BY DEF CowFault, CowKalloc, CowKallocFails, CowCopy, CowDecr
    <2>3. pc[p] \notin WorkLabels /\ pc[p] # "unused" /\ pc[p] # "forking"
      BY SMT, <2>2 DEF WorkLabels, LoadLabels
    <2>4. ASSUME NEW l \in {"cowcopy", "run", "zombie"}, Goto(p, l), UNCHANGED <<ret, tb, idx, lim, par>>,
                 UNCHANGED <<map, C, cur, sz>>
          PROVE  SpaceInv'
      <3>1. PcStep(p, l, ret[p], tb[p], idx[p], lim[p])
        BY <2>1, <2>4, <1>PcMoves
      <3>2. pc'[p] = l /\ Others(p)
        BY <2>4, <3>1, <1>OthersSame DEF PcStep
      <3>3. pc'[p] \notin WorkLabels /\ pc'[p] # "unused" /\ pc'[p] # "cowdecr"
            /\ pc'[p] \notin {"alloc", "load", "loadmap"}
        BY SMT, <3>2 DEF WorkLabels, LoadLabels
      <3>4. ShapeAt(p)'
        BY <2>1, <2>3, <2>4, <3>3, <1>ShapeQuiet DEF Mapped
      <3> QED BY <2>2, <2>3, <3>2, <3>3, <3>4, <1>SpaceOther, <1>Stepper, <1>SpaceStep DEF SpaceAt
    <2>5. CASE CowKalloc(p)
      BY <2>4, <2>5 DEF CowKalloc
    <2>6. CASE CowKallocFails(p)
      <3>1. Goto(p, IF ret[p] = "copyout" THEN "run" ELSE "zombie") /\ UNCHANGED <<ret, tb, idx, lim, par>>
            /\ UNCHANGED <<map, C, cur, sz>>
        BY <2>6 DEF CowKallocFails, ptVars
      <3> QED BY <2>4, <3>1
    <2>7. CASE CowDecr(p)
      <3>1. Goto(p, IF ret[p] = "trapkill" THEN "zombie" ELSE "run") /\ UNCHANGED <<ret, tb, idx, lim, par>>
            /\ UNCHANGED <<map, C, cur, sz>>
        BY <2>7 DEF CowDecr
      <3> QED BY <2>4, <3>1
    <2>8. CASE CowCopy(p)
      <3>1. /\ pc[p] = "cowcopy" /\ SetPte(WorkPte(p), held[Ka(p)], TRUE, TRUE, FALSE)
            /\ Goto(p, "cowdecr") /\ UNCHANGED <<ret, tb, idx, lim, par>> /\ UNCHANGED <<cur, sz>>
        BY <2>8 DEF CowCopy
      <3>2. /\ WorkPte(p) \in PTE /\ Mapped(WorkPte(p)) /\ held[Ka(p)] # NoPage
            /\ map \in [PTE -> Pages \cup {NoPage}]
        BY <2>1, <3>1, WorkTypes DEF LocalsInv, TypeOK
      <3>3. PcStep(p, "cowdecr", ret[p], tb[p], idx[p], lim[p])
        BY <2>1, <3>1, <1>PcMoves
      <3>4. pc'[p] = "cowdecr" /\ Others(p)
        BY <2>1, <3>1, <3>3, <1>OthersSet DEF PcStep
      <3>5. pc'[p] \notin WorkLabels /\ pc'[p] # "unused" /\ pc'[p] \notin {"alloc", "load", "loadmap"}
        BY SMT, <3>4 DEF WorkLabels, LoadLabels
      <3>6. \A e \in PTE : Mapped(e)' <=> Mapped(e)
        BY <3>1, <3>2 DEF SetPte, Mapped
      <3>7. \A b \in Tables, v \in VPages : Mapped(<<<<p, b>>, v>>)' <=> Mapped(<<<<p, b>>, v>>)
        BY <3>6 DEF PTE
      <3>8. ShapeAt(p)'
        BY <2>1, <2>3, <3>1, <3>5, <3>7, <1>ShapeQuiet
      <3>9. OwnAt(p)'
        <4>1. WorkPte(p)' = WorkPte(p)
          BY <3>1 DEF WorkPte
        <4>2. Mapped(WorkPte(p))' /\ WorkPte(p) \notin C'
          <5>1. map'[WorkPte(p)] = held[Ka(p)] /\ WorkPte(p) \notin C'
            BY <3>1, <3>2 DEF SetPte
          <5> QED BY <3>2, <4>1, <5>1 DEF Mapped
        <4> QED BY <4>1, <4>2 DEF OwnAt
      <3> QED BY <2>2, <2>3, <3>4, <3>5, <3>8, <3>9, <1>Stepper, <1>SpaceStep DEF BootAt, Booting
    <2> QED BY <2>5, <2>6, <2>7, <2>8 DEF CowFault
  <1>SpaceUserStep.
      ASSUME IInv, SpaceInv, NEW p \in Procs, UserStep(p)
      PROVE  SpaceInv'
    <2> USE <1>SpaceUserStep
    <2> USE DEF At
    <2>1. /\ TypeOK /\ ShapeAt(p) /\ panic = "none"
      BY DEF IInv, SpaceInv
    <2>2. /\ sz[p] \in 0 .. NV /\ cur[p] \in Tables
      BY <2>1 DEF TypeOK
    <2>3. ASSUME pc[p] \in {"run", "zombie"}, Others(p), ShapeAt(p)', panic' = "none",
                 ret'[p] # "boot" \/ pc'[p] \notin {"alloc", "load", "loadmap"}, pc'[p] # "cowdecr"
          PROVE  SpaceInv'
      <3>1. pc[p] # "unused" /\ pc[p] # "forking"
        BY SMT, <2>3
      <3> QED BY <2>3, <3>1, <1>SpaceOther, <1>Stepper, <1>SpaceStep DEF SpaceAt
    <2>4. ASSUME pc[p] \in {"run", "zombie"}
          PROVE  \A b, v : Has(p, b, v) <=> b = cur[p] /\ v < sz[p]
      <3>1. pc[p] \notin WorkLabels
        BY SMT, <2>4 DEF WorkLabels, LoadLabels
      <3> QED BY <3>1 DEF Has
    <2>5. ASSUME NEW c \in Procs, Fork(p, c) PROVE SpaceInv'
      <3>1. /\ pc[p] = "run" /\ pc[c] = "unused" /\ pc' = [pc EXCEPT ![p] = "forking", ![c] = "alloc"]
            /\ ret' = [ret EXCEPT ![c] = "fork"] /\ tb' = [tb EXCEPT ![c] = cur[c]]
            /\ par' = [par EXCEPT ![c] = p] /\ UNCHANGED <<map, C, cur, sz, idx, lim, panic>>
        BY <2>5 DEF Fork, StartCall, ptVars
      <3>2. p # c
        BY SMT, <3>1
      <3>3. /\ pc'[c] = "alloc" /\ ret'[c] = "fork" /\ tb'[c] = cur[c]
            /\ \A q \in Procs : q # c =>
                 /\ pc'[q] = IF q = p THEN "forking" ELSE pc[q]
                 /\ ret'[q] = ret[q] /\ tb'[q] = tb[q] /\ par'[q] = par[q]
        BY <2>1, <3>1, <3>2 DEF TypeOK
      <3>4. Others(c)
        BY ZenonT(40), <3>1, <3>3 DEF Others, RunOrFork
      <3>5. ShapeAt(c) /\ OnlyBooter(c)
        <4>1. OnlyBooter(p) /\ ~Booting(p)
          <5>1. pc[p] # "unused" /\ pc[p] \notin {"alloc", "load", "loadmap"}
            BY SMT, <3>1
          <5> QED BY <5>1, <1>Stepper DEF Booting
        <4> QED BY <4>1 DEF SpaceInv, OnlyBooter
      <3>6. ASSUME NEW b \in Tables, NEW v \in VPages PROVE Has(c, b, v)' <=> Has(c, b, v)
        <4>1. pc[c] \notin WorkLabels /\ pc'[c] \in WorkLabels
          BY SMT, <3>1, <3>3 DEF WorkLabels, LoadLabels
        <4>2. sz[c] = 0 /\ ~(v < 0)
          BY SMT, <3>1, <3>5 DEF ShapeAt, VPages
        <4>3. ~Has(c, b, v)
          BY <4>1, <4>2 DEF Has
        <4>4. CASE b = cur[c]
          BY <3>3, <4>1, <4>3, <4>4 DEF Has
        <4>5. CASE b # cur[c]
          BY <3>1, <3>3, <4>3, <4>5 DEF Has
        <4> QED BY <4>4, <4>5
      <3>7. ShapeAt(c)'
        BY <3>1, <3>3, <3>5, <3>6, <1>ShapeSame DEF ShapeAt
      <3>8. BootAt(c)' /\ OwnAt(c)'
        BY <3>3 DEF BootAt, Booting, OwnAt
      <3> QED BY <2>1, <3>1, <3>4, <3>5, <3>7, <3>8, <1>SpaceStep
    <2>6. CASE Exec(p)
      <3>1. /\ pc[p] = "run" /\ Loop(p, "alloc", "exec", 1 - cur[p], 0, 0) /\ UNCHANGED <<map, C, cur, sz>>
            /\ panic' = "none"
        BY <2>1, <2>6 DEF Exec, StartCall, ptVars
      <3>2. PcStep(p, "alloc", "exec", 1 - cur[p], 0, 0)
        BY <2>1, <3>1, <1>PcMoves
      <3>3. pc'[p] = "alloc" /\ ret'[p] = "exec" /\ tb'[p] = 1 - cur[p] /\ Others(p)
        BY <3>1, <3>2, <1>OthersSame DEF PcStep
      <3>4. ASSUME NEW b \in Tables, NEW v \in VPages PROVE Has(p, b, v)' <=> Has(p, b, v)
        <4>1. Has(p, b, v) <=> b = cur[p] /\ v < sz[p]
          BY <2>4, <3>1
        <4>2. 1 - cur[p] # cur[p] /\ pc'[p] \in WorkLabels
          BY SMT, <2>2, <3>3 DEF Tables, WorkLabels
        <4>3. CASE b = 1 - cur[p]
          <5>1. ~Has(p, b, v)'
            BY SMT, <3>3, <4>2, <4>3 DEF Has
          <5> QED BY <4>1, <4>2, <4>3, <5>1
        <4>4. CASE b # 1 - cur[p]
          BY <3>1, <3>3, <4>1, <4>4 DEF Has
        <4> QED BY <4>3, <4>4
      <3>5. ShapeAt(p)'
        BY <2>1, <3>1, <3>3, <3>4, <1>ShapeSame DEF ShapeAt
      <3> QED BY <2>3, <3>1, <3>3, <3>5
    <2>7. ASSUME NEW n \in 0 .. NV, Sbrk(p, n) PROVE SpaceInv'
      <3>1. pc[p] = "run" /\ UNCHANGED <<map, C, cur>> /\ panic' = "none" /\ sz \in [Procs -> 0 .. NV]
        BY <2>1, <2>7 DEF Sbrk, StartCall, TypeOK
      <3>2. CASE n > sz[p]
        <4>1. Loop(p, "load", "sbrk", cur[p], sz[p], n) /\ UNCHANGED sz
          BY <2>7, <3>2 DEF Sbrk
        <4>2. PcStep(p, "load", "sbrk", cur[p], sz[p], n)
          BY <2>1, <4>1, <1>PcMoves
        <4>3. /\ pc'[p] = "load" /\ ret'[p] = "sbrk" /\ tb'[p] = cur[p] /\ idx'[p] = sz[p]
              /\ Others(p)
          BY <3>1, <4>1, <4>2, <1>OthersSame DEF PcStep
        <4>4. ASSUME NEW b \in Tables, NEW v \in VPages PROVE Has(p, b, v)' <=> Has(p, b, v)
          <5>1. Has(p, b, v) <=> b = cur[p] /\ v < sz[p]
            BY <2>4, <3>1
          <5>2. CASE b = cur[p]
            <6>1. Has(p, b, v)' <=> v < sz[p]
              BY SMT, <4>3, <5>2 DEF Has, WorkLabels, LoadLabels
            <6> QED BY <5>1, <5>2, <6>1
          <5>3. CASE b # cur[p]
            BY <3>1, <4>3, <5>1, <5>3 DEF Has
          <5> QED BY <5>2, <5>3
        <4>5. ShapeAt(p)'
          <5>1. sz'[p] <= idx'[p]
            BY SMT, <2>2, <4>1, <4>3
          <5> QED BY <2>1, <3>1, <4>3, <4>4, <5>1, <1>ShapeSame DEF ShapeAt
        <4> QED BY <2>3, <3>1, <4>3, <4>5
      <3>3. CASE ~(n > sz[p])
        <4>1. Loop(p, "unmap", "sbrk", cur[p], n, sz[p]) /\ sz' = [sz EXCEPT ![p] = n]
          BY <2>7, <3>3 DEF Sbrk
        <4>2. PcStep(p, "unmap", "sbrk", cur[p], n, sz[p])
          BY <2>1, <4>1, <1>PcMoves
        <4>3. sz'[p] = n /\ \A q \in Procs : q # p => sz'[q] = sz[q]
          BY <3>1, <4>1
        <4>4. /\ pc'[p] = "unmap" /\ ret'[p] = "sbrk" /\ tb'[p] = cur[p] /\ idx'[p] = n
              /\ lim'[p] = sz[p] /\ Others(p)
          BY <3>1, <4>2, <4>3, <1>OthersSame DEF PcStep
        <4>5. ASSUME NEW b \in Tables, NEW v \in VPages PROVE Has(p, b, v)' <=> Has(p, b, v)
          <5>1. Has(p, b, v) <=> b = cur[p] /\ v < sz[p]
            BY <2>4, <3>1
          <5>2. CASE b = cur[p]
            <6>1. Low(p)' = n
              BY <4>3, <4>4 DEF Low
            <6>2. Has(p, b, v)' <=> v < n \/ (n <= v /\ v < sz[p])
              <7>1. pc'[p] \in WorkLabels
                BY <4>4 DEF WorkLabels, LoadLabels
              <7> QED BY <4>4, <5>2, <6>1, <7>1 DEF Has
            <6>3. v < n \/ (n <= v /\ v < sz[p]) <=> v < sz[p]
              BY SMT, <2>2, <3>3 DEF VPages
            <6> QED BY <5>1, <5>2, <6>2, <6>3
          <5>3. CASE b # cur[p]
            BY <3>1, <4>4, <5>1, <5>3 DEF Has
          <5> QED BY <5>2, <5>3
        <4>6. ShapeAt(p)'
          <5>1. sz'[p] <= idx'[p]
            <6>1. n <= n
              BY SMT, <2>7
            <6> QED BY <4>3, <4>4, <6>1
          <5> QED BY <2>1, <3>1, <4>4, <4>5, <5>1, <1>ShapeSame DEF ShapeAt
        <4> QED BY <2>3, <3>1, <4>4, <4>6
      <3> QED BY <3>2, <3>3
    <2>8. ASSUME pc[p] = "run", NEW l \in {"zombie", "run", "cow"}, NEW r, NEW b, NEW v, PcStep(p, l, r, b, v, lim[p]),
                 UNCHANGED <<map, C, cur, sz>>, panic' = "none"
          PROVE  SpaceInv'
      <3>1. pc'[p] = l /\ Others(p)
        BY <2>8, <1>OthersSame DEF PcStep
      <3>2. pc[p] \notin WorkLabels /\ pc'[p] \notin WorkLabels /\ pc'[p] # "unused" /\ pc'[p] # "cowdecr"
            /\ pc'[p] \notin {"alloc", "load", "loadmap"}
        BY SMT, <2>8, <3>1 DEF WorkLabels, LoadLabels
      <3>3. ShapeAt(p)'
        BY <2>1, <2>8, <3>2, <1>ShapeQuiet DEF Mapped
      <3> QED BY <2>3, <2>8, <3>1, <3>2, <3>3
    <2>9. CASE Exit(p)
      <3>1. /\ pc[p] = "run" /\ Goto(p, "zombie") /\ UNCHANGED <<ret, tb, idx, lim, par>>
            /\ UNCHANGED <<map, C, cur, sz>> /\ panic' = "none"
        BY <2>9 DEF Exit, ptVars
      <3>2. PcStep(p, "zombie", ret[p], tb[p], idx[p], lim[p])
        BY <2>1, <3>1, <1>PcMoves
      <3> QED BY <2>8, <3>1, <3>2
    <2>10. CASE Reap(p)
      <3>1. /\ pc[p] = "zombie" /\ Loop(p, "freetf", "reap", cur[p], 0, sz[p])
            /\ UNCHANGED <<map, C, cur, sz>> /\ panic' = "none"
        BY <2>10 DEF Reap, ptVars
      <3>2. PcStep(p, "freetf", "reap", cur[p], 0, sz[p])
        BY <2>1, <3>1, <1>PcMoves
      <3>3. /\ pc'[p] = "freetf" /\ ret'[p] = "reap" /\ tb'[p] = cur[p] /\ idx'[p] = 0
            /\ lim'[p] = sz[p] /\ Others(p)
        BY <3>1, <3>2, <1>OthersSame DEF PcStep
      <3>4. ASSUME NEW b \in Tables, NEW v \in VPages PROVE Has(p, b, v)' <=> Has(p, b, v)
        <4>1. Has(p, b, v) <=> b = cur[p] /\ v < sz[p]
          BY <2>4, <3>1
        <4>2. CASE b = cur[p]
          <5>1. Has(p, b, v)' <=> 0 <= v /\ v < sz[p]
            BY SMT, <3>3, <4>2 DEF Has, WorkLabels, LoadLabels
          <5>2. 0 <= v
            BY SMT DEF VPages
          <5> QED BY <4>1, <4>2, <5>1, <5>2
        <4>3. CASE b # cur[p]
          BY <3>1, <3>3, <4>1, <4>3 DEF Has
        <4> QED BY <4>2, <4>3
      <3>5. ShapeAt(p)'
        BY <2>1, <3>1, <3>3, <3>4, <1>ShapeSame DEF ShapeAt
      <3> QED BY <2>3, <3>1, <3>3, <3>5
    <2>11. ASSUME NEW v \in VPages, NEW x \in Val, UserStore(p, v, x) PROVE SpaceInv'
      <3>1. pc[p] = "run" /\ UNCHANGED pcVars /\ UNCHANGED <<map, C, cur, sz>> /\ panic' = "none"
        BY <2>11 DEF UserStore, ptVars
      <3>2. PcStep(p, "run", ret[p], tb[p], idx[p], lim[p])
        BY <2>1, <3>1, <1>PcMoves
      <3> QED BY <2>8, <3>1, <3>2
    <2>12. ASSUME NEW v \in VPages, NEW x \in Val, Copyout(p, v, x) PROVE SpaceInv'
      <3>1. pc[p] = "run" /\ UNCHANGED <<map, C, cur, sz>> /\ panic' = "none"
        BY <2>12 DEF Copyout, ptVars
      <3>2. CASE UNCHANGED pcVars
        <4>1. PcStep(p, "run", ret[p], tb[p], idx[p], lim[p])
          BY <2>1, <3>1, <3>2, <1>PcMoves
        <4> QED BY <2>8, <3>1, <4>1
      <3>3. CASE ~(UNCHANGED pcVars)
        <4>1. StartCow(p, v, "copyout", x)
          BY <2>12, <3>3 DEF Copyout
        <4>2. PcStep(p, "cow", "copyout", cur[p], v, lim[p])
          BY <2>1, <4>1, <1>PcMoves
        <4> QED BY <2>8, <3>1, <4>2
      <3> QED BY <3>2, <3>3
    <2>13. ASSUME NEW v \in VPages, NEW below \in BOOLEAN, StoreFault(p, v, below) PROVE SpaceInv'
      <3>1. pc[p] = "run" /\ UNCHANGED <<map, C, cur, sz>> /\ panic' = "none"
        BY <2>13 DEF StoreFault, ptVars
      <3>2. CASE Goto(p, "zombie") /\ UNCHANGED <<ret, tb, idx, lim, val, par>>
        <4>1. PcStep(p, "zombie", ret[p], tb[p], idx[p], lim[p])
          BY <2>1, <3>2, <1>PcMoves
        <4> QED BY <2>8, <3>1, <4>1
      <3>3. CASE ~(Goto(p, "zombie") /\ UNCHANGED <<ret, tb, idx, lim, val, par>>)
        <4>1. PICK r, y : StartCow(p, v, r, y)
          BY <2>13, <3>3 DEF StoreFault
        <4>2. PcStep(p, "cow", r, cur[p], v, lim[p])
          BY <2>1, <4>1, <1>PcMoves
        <4> QED BY <2>8, <3>1, <4>2
      <3> QED BY <3>2, <3>3
    <2> QED BY <2>5, <2>6, <2>7, <2>9, <2>10, <2>11, <2>12, <2>13 DEF UserStep
  <1> QED BY <1>SpaceBuild, <1>SpaceTearDown, <1>SpaceCowFault, <1>SpaceUserStep

-----------------------------------------------------------------------------
(* At boot no page is counted and every page is on the list once. *)
LEMMA InitIInv ==
  ASSUME SetFacts, Init
  PROVE  IInv
<1> USE KallocAssumption, CowAssumption
<1>1. TypeOK
  <2>1. KallocTypeOK
    BY SMT DEF Init, KallocTypeOK, Junk
  <2>2. /\ cur \in [Procs -> Tables] /\ tb \in [Procs -> Tables] /\ sz \in [Procs -> 0 .. NV]
        /\ idx \in [Procs -> 0 .. NV] /\ lim \in [Procs -> 0 .. NV]
    <3>1. 0 \in 0 .. NV /\ 0 \in Tables
      BY SMT DEF Tables
    <3> QED BY <3>1 DEF Init
  <2>3. /\ pc \in [Procs -> Labels] /\ ret \in [Procs -> Calls] /\ panic \in Messages
    BY DEF Init, Labels, Calls, Messages
  <2>4. /\ map \in [PTE -> Pages \cup {NoPage}] /\ W \subseteq PTE /\ C \subseteq PTE
        /\ U \subseteq PTE /\ held \in [Held -> Pages \cup {NoPage}]
    BY DEF Init
  <2>5. /\ val \in [Procs -> Val] /\ par \in [Procs -> Procs] /\ ops \in 0 .. MaxOps
        /\ lost \in [Pages -> Nat]
    BY SMT DEF Init
  <2> QED BY <2>1, <2>2, <2>3, <2>4, <2>5 DEF TypeOK
<1>2. RefCount
  <2> SUFFICES ASSUME NEW pa \in Pages
               PROVE  refcnt[pa] = Cardinality(UserRefs(pa)) + Cardinality(KernRefs(pa)) + lost[pa]
    BY DEF RefCount
  <2>1. UserRefs(pa) = {} /\ KernRefs(pa) = {}
    BY DEF UserRefs, KernRefs, Init
  <2>2. Cardinality(UserRefs(pa)) = 0 /\ Cardinality(KernRefs(pa)) = 0
    BY <2>1 DEF SetFacts, FinEmpty
  <2> QED BY SMT, <2>2 DEF Init
<1>3. FreeInv
  <2>1. \A i \in 1 .. Len(freelist) : freelist[i] \in Pages
    BY SMT DEF Init
  <2> QED BY <2>1 DEF FreeInv, Init
<1>4. SingleOwner /\ KaPrivate
  <2>1. \A p \in Procs : Ka(p) \in Held
    BY SlotTypes
  <2> QED BY <2>1 DEF SingleOwner, KaPrivate, Mapped, Init
<1>5. LocalsInv
  BY SlotTypes DEF Init, LocalsInv
<1>6. TablesInv
  <2>1. \A p \in Procs : High(p, 0) \in Held /\ High(p, 1) \in Held
    BY SlotTypes DEF Tables
  <2>2. \A p \in Procs : cur[p] = 0 /\ tb[p] = 0
    BY DEF Init
  <2>3. /\ \A h \in Held : held[h] = NoPage
        /\ \A p \in Procs : ret[p] # "exec"
    BY DEF Init
  <2>4. ASSUME NEW p \in Procs PROVE High(p, 1 - cur[p]) = High(p, 1)
    <3>1. cur[p] = 0
      BY <2>2
    <3> QED BY SMT, <3>1
  <2> QED BY <2>1, <2>2, <2>3, <2>4 DEF TablesInv
<1>7. ForkInv
  BY DEF Init, ForkInv, Forking
<1> QED BY <1>1, <1>2, <1>3, <1>4, <1>5, <1>6, <1>7 DEF IInv

LEMMA NextIInv ==
  ASSUME SetFacts, IInv, [Next]_vars
  PROVE  IInv'
<1>1. TypeOK /\ LocalsInv
  BY DEF IInv
<1>2. ASSUME NEW p \in Procs, Build(p) PROVE IInv'
  BY <1>1, <1>2, PagesKept, TypeKept, ControlKept DEF IInv, PagesInv, Control
<1>3. ASSUME NEW p \in Procs, TearDown(p) PROVE IInv'
  BY <1>1, <1>3, PagesKept, TypeKept, ControlKept DEF IInv, PagesInv, Control
<1>4. ASSUME NEW p \in Procs, CowFault(p) PROVE IInv'
  BY <1>1, <1>4, PagesKept, TypeKept, ControlKept DEF IInv, PagesInv, Control
<1>5. ASSUME NEW p \in Procs, UserStep(p) PROVE IInv'
  BY <1>1, <1>5, PagesKept, TypeKept, ControlKept DEF IInv, PagesInv, Control
<1>6. CASE UNCHANGED vars
  <2>1. UNCHANGED <<kallocVars, ptVars, pcVars, panic, histVars>>
    BY <1>6 DEF vars
  <2>2. Control'
    BY <2>1, ControlSame
  <2>3. PagesInv'
    BY <2>1 DEF IInv, PagesInv, RefCount, UserRefs, KernRefs, FreeInv, KaPrivate, kallocVars,
                ptVars, histVars
  <2>4. TypeOK'
    BY <1>1, <2>1 DEF TypeOK, KallocTypeOK, kallocVars, ptVars, pcVars, histVars
  <2> QED BY <2>2, <2>3, <2>4 DEF IInv, PagesInv, Control
<1> QED BY <1>2, <1>3, <1>4, <1>5, <1>6 DEF Next

(* At boot nothing is mapped, and userinit has the memory for itself. *)
LEMMA InitSpace == Init => SpaceInv
<1> SUFFICES ASSUME Init PROVE SpaceInv
  BY SMT
<1>1. ASSUME NEW p \in Procs PROVE ShapeAt(p)
  <2>1. /\ tb[p] = 0 /\ cur[p] = 0 /\ sz[p] = 0 /\ pc[p] \in {"alloc", "unused"}
        /\ ret[p] \in {"boot", "none"}
    BY DEF Init
  <2>2. ASSUME NEW b \in Tables, NEW v \in VPages
        PROVE  Mapped(<<<<p, b>>, v>>) <=> Has(p, b, v)
    <3>1. ~Mapped(<<<<p, b>>, v>>)
      BY DEF Init, Mapped, PTE
    <3>2. ~(v < 0)
      BY SMT DEF VPages
    <3>3. ~Has(p, b, v)
      BY SMT, <2>1, <3>2 DEF Has
    <3> QED BY <3>1, <3>3
  <2> QED BY SMT, <2>1, <2>2 DEF ShapeAt, Fits
<1>2. ASSUME NEW p \in Procs PROVE BootAt(p)
  <2> SUFFICES ASSUME Booting(p)
               PROVE  /\ \A q \in Procs : freeing[q] = NoPage /\ (q # p => pc[q] = "unused")
                      /\ pc[p] = "alloc" /\ Len(freelist) >= 2 * ImageSize + KernPagesLeft(p)
    BY DEF BootAt
  <2>1. p = InitProc
    BY DEF Booting, Init
  <2>2. KernPagesLeft(p) = 3
    BY SlotTypes DEF KernPagesLeft, Init
  <2>3. Len(freelist) >= 2 * ImageSize + 3
    <3>1. Len(BootOrder) \in Nat /\ ImageSize \in Nat /\ freelist = BootOrder
      BY SMT, CowAssumption DEF Init
    <3> HIDE DEF ImageSize
    <3> QED BY SMT, <3>1, BootAssumption
  <2> QED BY <2>1, <2>2, <2>3 DEF Init
<1>3. \A p \in Procs : OwnAt(p)
  <2>1. \A p \in Procs : pc[p] \in {"alloc", "unused"}
    BY DEF Init
  <2> QED BY SMT, <2>1 DEF OwnAt
<1> QED BY <1>1, <1>2, <1>3 DEF SpaceInv, Init

LEMMA NextSpace ==
  ASSUME SetFacts, IInv, SpaceInv, [Next]_vars
  PROVE  SpaceInv'
<1>1. AllCounted
  <2>1. TypeOK /\ RefCount
    BY DEF IInv
  <2>2. \A pa \in Pages : refcnt[pa] \in Int
    BY <2>1 DEF TypeOK, KallocTypeOK
  <2> QED BY SMT, <2>1, <2>2, Counted DEF KfreePanics, AllCounted
<1>2. CASE UNCHANGED vars
  <2>1. UNCHANGED <<kallocVars, ptVars, pcVars, panic>>
    BY <1>2 DEF vars
  <2>2. ASSUME NEW p \in Procs PROVE ShapeAt(p)'
    <3>1. ShapeAt(p)
      BY DEF SpaceInv
    <3> QED BY <2>1, <3>1 DEF ShapeAt, Fits, Has, Low, Mapped, ptVars, pcVars
  <2>3. ASSUME NEW p \in Procs PROVE BootAt(p)'
    <3>1. BootAt(p)
      BY DEF SpaceInv
    <3>2. Booting(p)' <=> Booting(p)
      BY <2>1 DEF Booting, pcVars
    <3>3. KernPagesLeft(p)' = KernPagesLeft(p) /\ (NeedsLeaf(p)' <=> NeedsLeaf(p))
      BY <2>1 DEF KernPagesLeft, NeedsLeaf, ptVars, pcVars
    <3>4. freelist' = freelist /\ freeing' = freeing /\ pc' = pc /\ idx' = idx /\ lim' = lim
      BY <2>1 DEF kallocVars, pcVars
    <3> QED BY <3>1, <3>2, <3>3, <3>4 DEF BootAt
  <2>4. ASSUME NEW p \in Procs PROVE OwnAt(p)'
    <3>1. OwnAt(p)
      BY DEF SpaceInv
    <3> QED BY <2>1, <3>1 DEF OwnAt, Mapped, WorkPte, ptVars, pcVars
  <2> QED BY <2>1, <2>2, <2>3, <2>4 DEF SpaceInv
<1> QED BY <1>1, <1>2, SpaceKept DEF Next

INSTANCE FiniteSetTheorems

LEMMA SetFactsHold == SetFacts
  <1>1. FinCard
    BY FS_CardinalityType DEF FinCard
  <1>2. FinEmpty
    BY FS_EmptySet DEF FinEmpty
  <1>3. FinSingle
    BY FS_Singleton DEF FinSingle
  <1>4. FinAdd
    BY FS_AddElement DEF FinAdd
  <1>5. FinRemove
    BY FS_RemoveElement DEF FinRemove
  <1>6. FinSubset
    BY FS_Subset DEF FinSubset
  <1>7. FinUnion
    BY FS_Union DEF FinUnion
  <1>8. FinProduct
    BY FS_Product DEF FinProduct
  <1>9. FinInterval
    BY FS_Interval DEF FinInterval
  <1>10. FinImage
    <2> SUFFICES ASSUME NEW S, NEW T, NEW h \in [S -> T], IsFiniteSet(S),
                        \A c, d \in S : h[c] = h[d] => c = d,
                        \A y \in T : \E d \in S : h[d] = y
                 PROVE  Cardinality(T) = Cardinality(S)
      BY DEF FinImage
    <2>1. h \in Injection(S, T)
      BY DEF Injection, IsInjective
    <2>2. h \in Surjection(S, T)
      BY DEF Surjection
    <2>3. ExistsBijection(S, T)
      BY <2>1, <2>2 DEF ExistsBijection, Bijection
    <2> QED BY <2>3, FS_Bijection
  <1>11. NatLeast
    <2> SUFFICES ASSUME NEW S \in SUBSET Nat, S # {} PROVE \E m \in S : \A y \in S : m <= y
      BY DEF NatLeast
    <2> DEFINE R == OpToRel(<, Nat)
    <2>1. IsWellFoundedOn(R, Nat)
      BY NatLessThanWellFounded
    <2>2. PICK m \in S : \A y \in S : ~(<<y, m>> \in R)
      BY <2>1, WFMin
    <2>3. \A y \in S : ~(y < m)
      BY <2>2 DEF OpToRel
    <2> HIDE DEF R
    <2>4. \A y \in S : m <= y
      BY SMT, <2>3
    <2> QED BY <2>4
  <1> QED BY <1>1, <1>2, <1>3, <1>4, <1>5, <1>6, <1>7, <1>8, <1>9, <1>10, <1>11 DEF SetFacts

(* The invariant of the allocator and the address spaces: counts, owners,  *)
(* locals and tables fit together at every point of every interleaving of  *)
(* fork, exec, sbrk, exit, wait and COW faults.                            *)
THEOREM CowInvariant == Spec => []IInv
<1>1. Init => IInv
  BY InitIInv, SetFactsHold
<1>2. IInv /\ [Next]_vars => IInv'
  BY NextIInv, SetFactsHold
<1> QED BY <1>1, <1>2, PTL DEF Spec

(* Every variable of the model keeps its type. *)
THEOREM CowTypeOK == Spec => []TypeOK
<1>1. IInv => TypeOK
  BY DEF IInv
<1> QED BY <1>1, CowInvariant, PTL

(* refcnt.count in kalloc.c is exact: it equals the number of references   *)
(* to the page, plus what a failed uvmcopy dropped.                        *)
THEOREM CowRefCount == Spec => []RefCount
<1>1. IInv => RefCount
  BY DEF IInv
<1> QED BY <1>1, CowInvariant, PTL

(* kalloc never hands out a page that somebody refers to, and kfree never  *)
(* frees a page twice.                                                     *)
THEOREM CowFreePagesUnused == Spec => []FreePagesUnused
<1>1. IInv => FreePagesUnused
  <2> SUFFICES ASSUME IInv PROVE FreePagesUnused
    BY SMT
  <2>1. TypeOK /\ RefCount /\ FreeInv
    BY DEF IInv
  <2>2. ASSUME NEW i \in 1 .. Len(freelist)
        PROVE  UserRefs(freelist[i]) = {} /\ KernRefs(freelist[i]) = {}
    <3>1. freelist[i] \in Pages /\ refcnt[freelist[i]] = 0
      BY SMT, <2>1 DEF FreeInv, TypeOK, KallocTypeOK
    <3> QED BY <2>1, <3>1, Uncounted, SetFactsHold DEF UserRefs, KernRefs
  <2> QED BY <2>1, <2>2 DEF FreePagesUnused, FreeInv
<1> QED BY <1>1, CowInvariant, PTL

(* A page has at most one PTE without PTE_C, and no PTE with PTE_C is      *)
(* writable, whatever fork, exec and cowalloc do.                          *)
THEOREM CowSingleOwner == Spec => []SingleOwner
<1>1. IInv => SingleOwner
  BY DEF IInv
<1> QED BY <1>1, CowInvariant, PTL

(* Every table is mapped exactly as far as the call that works on it has   *)
(* got, and p->pagetable up to p->sz, at every point of every interleaving *)
(* of fork, exec, sbrk, exit, wait and COW faults.                         *)
THEOREM CowSpaces == Spec => []SpaceInv
<1>1. IInv /\ SpaceInv /\ [Next]_vars => SpaceInv'
  BY NextSpace, SetFactsHold
<1> QED BY <1>1, InitSpace, CowInvariant, PTL DEF Spec

(* None of the panics of kalloc.c and vm.c is reached: no kfree finds a    *)
(* zero count, no mappages a present page, no uvmunmap or uvmcopy a        *)
(* missing one, no freewalk a leaf, and userinit never runs out of memory. *)
THEOREM CowNoPanic == Spec => []NoPanic
<1>1. SpaceInv => NoPanic
  BY DEF SpaceInv, NoPanic
<1> QED BY <1>1, CowSpaces, PTL

-----------------------------------------------------------------------------
(* Page pa may be written: it changes hands, or one of its PTEs owns it. *)
Writable(pa) ==
  (\E e \in PTE : map[e] = pa /\ map'[e] = pa) => \E e \in PTE : map[e] = pa /\ e \notin C

(* The pages that change are writable: FrozenWithoutOwner's step. *)
Frozen == \A pa \in Pages : mem'[pa] # mem[pa] => Writable(pa)

(* A page without a count is not mapped. *)
LEMMA UncountedUnmapped ==
  TypeOK /\ RefCount => \A pa \in Pages : refcnt[pa] = 0 => \A e \in PTE : map[e] # pa
BY Uncounted, SetFactsHold

LEMMA FrozenSame ==
  ASSUME mem' = mem
  PROVE  Frozen
BY DEF Frozen

(* One page is written, and it is writable. *)
LEMMA FrozenOne ==
  ASSUME TypeOK, NEW y, NEW z, mem' = [mem EXCEPT ![y] = z], y \in Pages => Writable(y)
  PROVE  Frozen
BY DEF Frozen, TypeOK, KallocTypeOK

(* kalloc fills a page that nobody maps. *)
LEMMA FrozenKalloc ==
  ASSUME TypeOK, RefCount, FreeInv, NEW x, kalloc(x)
  PROVE  Frozen
<1>1. freelist # <<>> /\ freelist \in Seq(Pages) /\ mem' = [mem EXCEPT ![Top] = x]
  BY DEF kalloc, KallocFails, TypeOK, KallocTypeOK
<1>2. Len(freelist) \in 1 .. Len(freelist)
  BY SMT, <1>1
<1>3. refcnt[Top] = 0
  BY <1>2 DEF FreeInv, Top
<1> HIDE DEF Top
<1> QED BY <1>1, <1>3, Uncounted, SetFactsHold, FrozenOne DEF Writable

(* kfree fills a page that nobody maps any more. *)
LEMMA FrozenKfree ==
  ASSUME TypeOK, TypeOK', RefCount', NEW p, NEW y \in Pages, kfree(p, y)
  PROVE  Frozen
<1>1. CASE refcnt[y] = 1
  <2>1. mem' = [mem EXCEPT ![y] = Junk]
    BY <1>1 DEF kfree
  <2>2. refcnt'[y] = 0
    <3>1. refcnt'[y] = refcnt[y] - 1
      BY DEF kfree, TypeOK, KallocTypeOK
    <3> QED BY SMT, <1>1, <3>1
  <2>3. (TypeOK /\ RefCount => \A pa \in Pages : refcnt[pa] = 0 => \A e \in PTE : map[e] # pa)'
    BY UncountedUnmapped, PTL
  <2>4. \A e \in PTE : map'[e] # y
    BY <2>2, <2>3
  <2> QED BY <2>1, <2>4, FrozenOne DEF Writable
<1>2. CASE refcnt[y] # 1
  BY <1>2, FrozenSame DEF kfree
<1> QED BY <1>1, <1>2

LEMMA FrozenStep == IInv /\ IInv' /\ SpaceInv /\ [Next]_vars => Frozen
<1> SUFFICES ASSUME IInv, IInv', SpaceInv, [Next]_vars PROVE Frozen
  BY SMT
<1> USE DEF At
<1>1. /\ TypeOK /\ RefCount /\ FreeInv /\ LocalsInv /\ KaPrivate /\ SingleOwner
      /\ TypeOK' /\ RefCount'
  BY DEF IInv
<1>2. ASSUME NEW m, Panic(m) PROVE Frozen
  BY <1>2, FrozenSame DEF Panic, kallocVars
<1>3. ASSUME NEW p \in Procs, Build(p) PROVE Frozen
  <2>1. CASE AllocKernPage(p) \/ WalkAlloc(p) \/ LoadKalloc(p)
    BY <1>1, <2>1, FrozenKalloc DEF AllocKernPage, WalkAlloc, LoadKalloc
  <2>2. CASE LoadMapFails(p)
    <3>1. held[Ka(p)] \in Pages
      BY <1>1, <2>2, SlotTypes DEF LoadMapFails, LocalsInv, TypeOK
    <3> QED BY <1>1, <1>2, <2>2, <3>1, FrozenKfree DEF LoadMapFails
  <2>3. CASE AllocKernPageFails(p) \/ LoadKallocFails(p) \/ LoadMap(p) \/ LoadDone(p)
    BY <1>2, <2>3, FrozenSame DEF AllocKernPageFails, LoadKallocFails, LoadMap, LoadDone,
       kallocVars
  <2>4. CASE CopyIncr(p) \/ CopyMap(p) \/ CopyMapFails(p) \/ ForkDone(p)
    BY <1>2, <2>4, FrozenSame DEF CopyIncr, krefincr, CopyMap, CopyMapFails, ForkDone,
       kallocVars
  <2> QED BY <1>3, <2>1, <2>2, <2>3, <2>4 DEF Build
<1>4. ASSUME NEW p \in Procs, TearDown(p) PROVE Frozen
  <2>1. CASE Unmap(p)
    <3>1. Mapped(WorkPte(p)) => map[WorkPte(p)] \in Pages
      BY <1>1, <2>1, WorkTypes DEF Unmap, Mapped, TypeOK
    <3> QED BY <1>1, <1>2, <2>1, <3>1, FrozenKfree DEF Unmap
  <2>2. CASE Freewalk(p)
    <3>1. \A h \in TablePages(p, tb[p]) : held[h] \in Pages
      BY <1>1, WorkTypes DEF TablePages, TypeOK
    <3> QED BY <1>1, <1>2, <2>2, <3>1, FrozenKfree DEF Freewalk
  <2>3. CASE FreeTf(p)
    <3>1. held[Tf(p)] # NoPage
      BY Zenon, <2>3 DEF FreeTf
    <3>2. held[Tf(p)] \in Pages
      BY <1>1, <3>1, SlotTypes DEF TypeOK
    <3> QED BY <1>1, <1>2, <2>3, <3>2, FrozenKfree DEF FreeTf
  <2>4. CASE UnmapDone(p) \/ FreeDone(p) \/ Push(p)
    BY <2>4, FrozenSame DEF UnmapDone, FreeDone, Push, KfreePush, kallocVars
  <2> QED BY <1>4, <2>1, <2>2, <2>3, <2>4 DEF TearDown
<1>5. ASSUME NEW p \in Procs, CowFault(p) PROVE Frozen
  <2>1. CASE CowKalloc(p)
    BY <1>1, <2>1, FrozenKalloc DEF CowKalloc
  <2>2. CASE CowKallocFails(p)
    BY <2>2, FrozenSame DEF CowKallocFails, kallocVars
  <2>3. CASE CowCopy(p)
    <3>1. held[Ka(p)] # NoPage /\ \A e \in PTE : map[e] # held[Ka(p)]
      BY <1>1, <2>3 DEF CowCopy, LocalsInv, KaPrivate
    <3>2. mem' = [mem EXCEPT ![held[Ka(p)]] = mem[map[WorkPte(p)]]]
      BY <2>3 DEF CowCopy
    <3> QED BY <1>1, <3>1, <3>2, FrozenOne DEF Writable
  <2>4. CASE CowDecr(p)
    <3>1. WorkPte(p) \in PTE /\ WorkPte(p) \notin C
      BY <1>1, <2>4, WorkTypes DEF CowDecr, SpaceInv, OwnAt
    <3>2. Writable(map[WorkPte(p)])
      BY <3>1 DEF Writable
    <3>3. mem' = mem \/ mem' = [mem EXCEPT ![map[WorkPte(p)]] = val[p]]
      BY <2>4 DEF CowDecr
    <3> QED BY <1>1, <3>2, <3>3, FrozenOne, FrozenSame
  <2> QED BY <1>5, <2>1, <2>2, <2>3, <2>4 DEF CowFault
<1>6. ASSUME NEW p \in Procs, UserStep(p) PROVE Frozen
  <2>1. ASSUME NEW e \in PTE, e \notin C, NEW x, Write(e, x) PROVE Frozen
    BY <1>1, <2>1, FrozenOne DEF Write, Writable
  <2>2. ASSUME NEW v \in VPages, NEW x \in Val, UserStore(p, v, x) PROVE Frozen
    <3>1. Pte(p, v) \in PTE /\ Pte(p, v) \notin C
      BY <1>1, <2>2, WorkTypes DEF UserStore, Storable, SingleOwner
    <3> QED BY <2>1, <2>2, <3>1 DEF UserStore
  <2>3. ASSUME NEW v \in VPages, NEW x \in Val, Copyout(p, v, x) PROVE Frozen
    <3>1. Pte(p, v) \in PTE
      BY <1>1, WorkTypes
    <3> QED BY <2>1, <2>3, <3>1, FrozenSame DEF Copyout, kallocVars
  <2>4. CASE mem' = mem
    BY <2>4, FrozenSame
  <2>5. CASE ~(mem' = mem)
    <3>1. \E v \in VPages, x \in Val : UserStore(p, v, x) \/ Copyout(p, v, x)
      BY <1>6, <2>5 DEF UserStep, Fork, Exec, Sbrk, Exit, Reap, StoreFault, kallocVars
    <3> QED BY <2>2, <2>3, <3>1
  <2> QED BY <2>4, <2>5
<1>7. CASE UNCHANGED vars
  BY <1>7, FrozenSame DEF vars, kallocVars
<1> QED BY <1>3, <1>4, <1>5, <1>6, <1>7 DEF Next

(* Whatever the interleaving, a page all of whose PTEs are copy-on-write   *)
(* keeps its contents while it is mapped: only its owner's stores and      *)
(* copyouts change it.                                                     *)
THEOREM CowFrozenWithoutOwner == Spec => FrozenWithoutOwner
<1> DEFINE A == \A pa \in Pages :
       /\ mem'[pa] # mem[pa]
       /\ \E e \in PTE : map[e] = pa /\ map'[e] = pa
       => \E e \in PTE : map[e] = pa /\ e \notin C
<1>1. Frozen => A
  BY DEF Frozen, Writable
<1> HIDE DEF A
<1>2. IInv /\ IInv' /\ SpaceInv /\ [Next]_vars => [A]_vars
  BY <1>1, FrozenStep
<1>3. Spec => [][A]_vars
  BY <1>2, CowInvariant, CowSpaces, PTL DEF Spec
<1> QED BY SMT, <1>3 DEF FrozenWithoutOwner, A
=============================================================================
