-------------------------------- MODULE Cow ---------------------------------
(***************************************************************************)
(* User address spaces with copy-on-write fork: the page tables of         *)
(* kernel/vm.c, cowalloc and the store-fault path of kernel/trap.c, and    *)
(* the callers that build and tear down address spaces (allocproc, fork,   *)
(* exec, growproc, exit, freeproc), over the allocator of module Kalloc.   *)
(*                                                                         *)
(* The steps of a system call that are separated by an acquire of          *)
(* kmem.lock are separate actions, so address spaces on different CPUs     *)
(* interleave between them.  A page table is only touched by the one       *)
(* thread that works for its slot: its own process, the parent while fork  *)
(* builds it, or the process that reaps it.  pc[p] is where that thread    *)
(* is.  A slot has two tables because exec builds the new image beside the *)
(* old one; cur[p] is p->pagetable.                                        *)
(*                                                                         *)
(* The three table levels are collapsed: a table is its root page, one     *)
(* page on the way to the trampoline and trapframe, and one leaf page for  *)
(* every PTSpan user pages.                                                *)
(***************************************************************************)
EXTENDS Kalloc, FiniteSets

CONSTANTS
  InitProc,   \* the slot of initproc
  NV,         \* bound on the number of user pages of an address space
  PTSpan,     \* user pages under one leaf table page (512 in the code)
  Image,      \* Image[v]: the kind of page v of a program exec loads
  BootOrder,  \* the order in which freerange frees the pages
  MaxOps      \* bound on the number of fork, exec and sbrk calls

VPages == 0 .. NV - 1
ImageSize == Len(Image)

ASSUME CowAssumption ==
  /\ IsFiniteSet(Procs) /\ IsFiniteSet(Pages)
  /\ InitProc \in Procs
  /\ NV \in Nat \ {0} /\ PTSpan \in Nat \ {0} /\ MaxOps \in Nat
  /\ Image \in Seq({"text", "data", "guard"}) /\ ImageSize \in 1 .. NV
  /\ BootOrder \in Seq(Pages)
  /\ \A i, j \in 1 .. Len(BootOrder) : BootOrder[i] = BootOrder[j] => i = j

(* freerange frees every page, and there are enough of them (128 MB) for   *)
(* the first process: its trapframe and page table, and for each page of   *)
(* its image the page and at most one more table page.                     *)
ASSUME BootAssumption ==
  /\ \A pa \in Pages : \E i \in 1 .. Len(BootOrder) : BootOrder[i] = pa
  /\ Len(BootOrder) >= 3 + 2 * ImageSize

Tables == {0, 1}
PTE == (Procs \X Tables) \X VPages

(* Pages a slot holds besides the ones its user PTEs map: the trapframe,  *)
(* the pages of its two tables, and the locals ka and pa of the function   *)
(* its thread is in.                                                       *)
Slot(k, b, i) == <<k, <<b, i>>>>
Leaves == 0 .. (NV - 1) \div PTSpan
KSlots == {Slot("tf", 0, 0), Slot("ka", 0, 0), Slot("pa", 0, 0)}
          \cup {Slot(k, b, 0) : k \in {"root", "high"}, b \in Tables}
          \cup {Slot("leaf", b, i) : b \in Tables, i \in Leaves}
Held == Procs \X KSlots

VARIABLES
  map,      \* map[e]: the page the user PTE e maps, or NoPage (PTE_V clear)
  W, C, U,  \* the PTEs with PTE_W, PTE_C (copy on write), PTE_U set
  held,     \* held[h]: the page kernel slot h holds
  cur, sz,  \* p->pagetable, and p->sz in pages
  pc, ret,  \* where the slot's thread is, and on behalf of which call
  tb,       \* the table that call works on
  idx, lim, \* its loop variable and bound
  val,      \* the value copyout writes
  par,      \* the process that is forking this slot
  panic,    \* the panic message, or "none"
  ops,      \* calls made so far, bounded by MaxOps
  lost      \* history: counts nothing will ever give back

ptVars == <<map, W, C, U, held, cur, sz>>
pcVars == <<pc, ret, tb, idx, lim, val, par>>
histVars == <<ops, lost>>
vars == <<kallocVars, ptVars, pcVars, panic, histVars>>

Tf(p) == <<p, Slot("tf", 0, 0)>>
Ka(p) == <<p, Slot("ka", 0, 0)>>
Pa(p) == <<p, Slot("pa", 0, 0)>>
Root(p, b) == <<p, Slot("root", b, 0)>>
High(p, b) == <<p, Slot("high", b, 0)>>
Leaf(p, b, v) == <<p, Slot("leaf", b, v \div PTSpan)>>
TablePages(p, b) ==
  {h \in {Root(p, b), High(p, b)} \cup {<<p, Slot("leaf", b, i)>> : i \in Leaves}
     : held[h] # NoPage}

Mapped(e) == map[e] # NoPage
Pte(p, v) == <<<<p, cur[p]>>, v>>
WorkPte(p) == <<<<p, tb[p]>>, idx[p]>>

(* Slot p's thread is at label l, and not in the middle of kfree. *)
At(p, l) == pc[p] = l /\ freeing[p] = NoPage /\ panic = "none"

Goto(p, l) == pc' = [pc EXCEPT ![p] = l]

(* The thread goes to label l, to loop over lo .. hi-1 of table b for r. *)
Loop(p, l, r, b, lo, hi) ==
  /\ Goto(p, l)
  /\ ret' = [ret EXCEPT ![p] = r]
  /\ tb' = [tb EXCEPT ![p] = b]
  /\ idx' = [idx EXCEPT ![p] = lo]
  /\ lim' = [lim EXCEPT ![p] = hi]
  /\ UNCHANGED <<val, par>>

Panic(m) == panic' = m /\ UNCHANGED <<kallocVars, ptVars, pcVars, histVars>>
-----------------------------------------------------------------------------
(* Boot: every page is on the list and userinit is in allocproc.  The      *)
(* initcode page userinit maps, which only execs /init, is left out: the   *)
(* first image is /init's.                                                 *)
Init ==
  /\ freelist = BootOrder
  /\ refcnt = [pa \in Pages |-> 0]
  /\ mem = [pa \in Pages |-> Junk]
  /\ freeing = [p \in Procs |-> NoPage]
  /\ map = [e \in PTE |-> NoPage]
  /\ W = {} /\ C = {} /\ U = {}
  /\ held = [h \in Held |-> NoPage]
  /\ cur = [p \in Procs |-> 0]
  /\ sz = [p \in Procs |-> 0]
  /\ pc = [p \in Procs |-> IF p = InitProc THEN "alloc" ELSE "unused"]
  /\ ret = [p \in Procs |-> IF p = InitProc THEN "boot" ELSE "none"]
  /\ tb = [p \in Procs |-> 0]
  /\ idx = [p \in Procs |-> 0]
  /\ lim = [p \in Procs |-> 0]
  /\ val = [p \in Procs |-> 0]
  /\ par = [p \in Procs |-> p]
  /\ panic = "none"
  /\ ops = 0
  /\ lost = [pa \in Pages |-> 0]
-----------------------------------------------------------------------------
(* System calls that start working on an address space. *)

StartCall(p) == At(p, "run") /\ ops < MaxOps /\ ops' = ops + 1

(* fork() finds the unused slot c and enters allocproc. *)
Fork(p, c) ==
  /\ StartCall(p)
  /\ At(c, "unused")
  /\ pc' = [pc EXCEPT ![p] = "forking", ![c] = "alloc"]
  /\ ret' = [ret EXCEPT ![c] = "fork"]
  /\ tb' = [tb EXCEPT ![c] = cur[c]]
  /\ par' = [par EXCEPT ![c] = p]
  /\ UNCHANGED <<kallocVars, ptVars, idx, lim, val, panic, lost>>

(* exec() enters proc_pagetable for the new image. *)
Exec(p) ==
  /\ StartCall(p)
  /\ Loop(p, "alloc", "exec", 1 - cur[p], 0, 0)
  /\ UNCHANGED <<kallocVars, ptVars, panic, lost>>

(* growproc(n): uvmalloc maps the new pages, or uvmdealloc unmaps the end. *)
(* p->sz is written after uvmdealloc, and nobody reads it before.          *)
Sbrk(p, n) ==
  /\ StartCall(p)
  /\ n \in VPages \cup {NV} /\ n # sz[p]
  /\ IF n > sz[p]
     THEN Loop(p, "load", "sbrk", cur[p], sz[p], n) /\ UNCHANGED sz
     ELSE Loop(p, "unmap", "sbrk", cur[p], n, sz[p]) /\ sz' = [sz EXCEPT ![p] = n]
  /\ UNCHANGED <<kallocVars, map, W, C, U, held, cur, panic, lost>>

(* exit(), called by the process or by usertrap for a killed one. *)
Exit(p) ==
  /\ At(p, "run") /\ p # InitProc
  /\ Goto(p, "zombie")
  /\ UNCHANGED <<kallocVars, ptVars, ret, tb, idx, lim, val, par, panic, histVars>>

(* wait() in the parent finds the zombie and calls freeproc. *)
Reap(p) ==
  /\ At(p, "zombie")
  /\ Loop(p, "freetf", "reap", cur[p], 0, sz[p])
  /\ UNCHANGED <<kallocVars, ptVars, panic, histVars>>
-----------------------------------------------------------------------------
(* allocproc and proc_pagetable: the pages of an empty address space. *)

NextKernPage(p) ==
  CASE held[Tf(p)] = NoPage -> Tf(p)
    [] held[Tf(p)] # NoPage /\ held[Root(p, tb[p])] = NoPage -> Root(p, tb[p])
    [] OTHER -> High(p, tb[p])

AllocKernPage(p) ==
  /\ At(p, "alloc")
  /\ ~KallocFails
  /\ LET h == NextKernPage(p) IN
     /\ kalloc(Junk)
     /\ held' = [held EXCEPT ![h] = Top]
     /\ CASE h # High(p, tb[p]) -> UNCHANGED pcVars
          [] h = High(p, tb[p]) /\ ret[p] = "fork" ->
               Loop(p, "copy", "fork", tb[p], 0, sz[par[p]])
          [] h = High(p, tb[p]) /\ ret[p] # "fork" ->
               Loop(p, "load", ret[p], tb[p], 0, ImageSize)
  /\ UNCHANGED <<map, W, C, U, cur, sz, panic, histVars>>

(* Out of memory: free what the call has so far.  userinit does not check. *)
AllocKernPageFails(p) ==
  /\ At(p, "alloc")
  /\ KallocFails
  /\ IF ret[p] = "boot"
     THEN Panic("kerneltrap")
     ELSE /\ Goto(p, "tables")
          /\ UNCHANGED <<kallocVars, ptVars, ret, tb, idx, lim, val, par, panic, histVars>>
-----------------------------------------------------------------------------
(* mappages: walk allocates the leaf table page, then the PTE is written. *)

NeedsLeaf(p) == held[Leaf(p, tb[p], idx[p])] = NoPage

WalkAlloc(p) ==
  /\ At(p, "loadmap") \/ At(p, "copymap")
  /\ NeedsLeaf(p)
  /\ kalloc(Junk)
  /\ held' = [held EXCEPT ![Leaf(p, tb[p], idx[p])] = Top]
  /\ UNCHANGED <<map, W, C, U, cur, sz, pcVars, panic, histVars>>

(* The PTE e gets page pa and the bits w, u and c. *)
SetPte(e, pa, w, u, c) ==
  /\ map' = [map EXCEPT ![e] = pa]
  /\ W' = IF w THEN W \cup {e} ELSE W \ {e}
  /\ U' = IF u THEN U \cup {e} ELSE U \ {e}
  /\ C' = IF c THEN C \cup {e} ELSE C \ {e}

Advance(p, l) ==
  /\ Goto(p, l)
  /\ idx' = [idx EXCEPT ![p] = @ + 1]
  /\ UNCHANGED <<ret, tb, lim, val, par>>
-----------------------------------------------------------------------------
(* uvmalloc, called by growproc and exec. *)

LoadKalloc(p) ==
  /\ At(p, "load") /\ idx[p] < lim[p]
  /\ kalloc(0)
  /\ held' = [held EXCEPT ![Ka(p)] = Top]
  /\ Goto(p, "loadmap")
  /\ UNCHANGED <<map, W, C, U, cur, sz, ret, tb, idx, lim, val, par, panic, histVars>>

(* No page: uvmdealloc back to the old size, and for exec the rest too. *)
LoadUnwind(p) ==
  Loop(p, "unmap", ret[p], tb[p], IF ret[p] = "sbrk" THEN sz[p] ELSE 0, idx[p])

LoadKallocFails(p) ==
  /\ At(p, "load") /\ idx[p] < lim[p]
  /\ KallocFails
  /\ IF ret[p] = "boot"
     THEN Panic("kerneltrap")
     ELSE LoadUnwind(p) /\ UNCHANGED <<kallocVars, ptVars, panic, histVars>>

(* The bits of page v: sbrk maps writable pages, exec uses flags2perm for  *)
(* the segments and uvmclear for the guard page.                           *)
LoadW(p) == ret[p] # "sbrk" => Image[idx[p] + 1] # "text"
LoadU(p) == ret[p] # "sbrk" => Image[idx[p] + 1] # "guard"

LoadMap(p) ==
  LET e == WorkPte(p) IN
  /\ At(p, "loadmap") /\ ~NeedsLeaf(p)
  /\ IF Mapped(e)
     THEN Panic("mappages: remap")
     ELSE /\ SetPte(e, held[Ka(p)], LoadW(p), LoadU(p), FALSE)
          /\ held' = [held EXCEPT ![Ka(p)] = NoPage]
          /\ Advance(p, "load")
          /\ UNCHANGED <<kallocVars, cur, sz, panic, histVars>>

(* walk found no page: kfree(mem), then uvmdealloc. *)
LoadMapFails(p) ==
  /\ At(p, "loadmap") /\ NeedsLeaf(p) /\ KallocFails
  /\ IF ret[p] = "boot"
     THEN Panic("kerneltrap")
     ELSE IF KfreePanics(held[Ka(p)])
     THEN Panic("kfree_decr")
     ELSE /\ kfree(p, held[Ka(p)])
          /\ held' = [held EXCEPT ![Ka(p)] = NoPage]
          /\ LoadUnwind(p)
          /\ UNCHANGED <<map, W, C, U, cur, sz, panic, histVars>>

(* Faulty variant of LoadDone: the old image is freed up to the new size. *)
LoadDoneNewSize(p) ==
  /\ At(p, "load") /\ idx[p] = lim[p]
  /\ IF ret[p] = "exec"
     THEN /\ cur' = [cur EXCEPT ![p] = tb[p]]
          /\ Loop(p, "unmap", "exec", cur[p], 0, lim[p])
     ELSE /\ Goto(p, "run")
          /\ UNCHANGED <<cur, ret, tb, idx, lim, val, par>>
  /\ sz' = [sz EXCEPT ![p] = lim[p]]
  /\ UNCHANGED <<kallocVars, map, W, C, U, held, panic, histVars>>

(* uvmalloc is done; exec commits the image and frees the old one. *)
LoadDone(p) ==
  /\ At(p, "load") /\ idx[p] = lim[p]
  /\ IF ret[p] = "exec"
     THEN /\ cur' = [cur EXCEPT ![p] = tb[p]]
          /\ Loop(p, "unmap", "exec", cur[p], 0, sz[p])
     ELSE /\ Goto(p, "run")
          /\ UNCHANGED <<cur, ret, tb, idx, lim, val, par>>
  /\ sz' = [sz EXCEPT ![p] = lim[p]]
  /\ UNCHANGED <<kallocVars, map, W, C, U, held, panic, histVars>>
-----------------------------------------------------------------------------
(* uvmcopy: the child c gets every page of its parent, counted once more, *)
(* read-only and copy-on-write.  The parent's PTE does not change.        *)

CopyFrom(c) == Pte(par[c], idx[c])

(* Faulty variant of CopyIncr: krefincr is forgotten. *)
CopyNoIncr(c) ==
  LET e == CopyFrom(c) IN
  /\ At(c, "copy") /\ idx[c] < lim[c]
  /\ Mapped(e)
  /\ held' = [held EXCEPT ![Pa(c)] = map[e]]
  /\ Goto(c, "copymap")
  /\ UNCHANGED <<kallocVars, map, W, C, U, cur, sz, ret, tb, idx, lim, val, par, panic, histVars>>

CopyIncr(c) ==
  LET e == CopyFrom(c) IN
  /\ At(c, "copy") /\ idx[c] < lim[c]
  /\ IF ~Mapped(e)
     THEN Panic("uvmcopy: page not present")
     ELSE /\ krefincr(map[e])
          /\ held' = [held EXCEPT ![Pa(c)] = map[e]]
          /\ Goto(c, "copymap")
          /\ UNCHANGED <<map, W, C, U, cur, sz, ret, tb, idx, lim, val, par, panic, histVars>>

(* Faulty variant of CopyMap: the child keeps the parent's flags. *)
CopyMapSameFlags(c) ==
  LET e == WorkPte(c)
      f == CopyFrom(c) IN
  /\ At(c, "copymap") /\ ~NeedsLeaf(c) /\ ~Mapped(e)
  /\ SetPte(e, held[Pa(c)], f \in W, f \in U, f \in C)
  /\ held' = [held EXCEPT ![Pa(c)] = NoPage]
  /\ Advance(c, "copy")
  /\ UNCHANGED <<kallocVars, cur, sz, panic, histVars>>

CopyMap(c) ==
  LET e == WorkPte(c) IN
  /\ At(c, "copymap") /\ ~NeedsLeaf(c)
  /\ IF Mapped(e)
     THEN Panic("mappages: remap")
     ELSE /\ SetPte(e, held[Pa(c)], FALSE, CopyFrom(c) \in U, TRUE)
          /\ held' = [held EXCEPT ![Pa(c)] = NoPage]
          /\ Advance(c, "copy")
          /\ UNCHANGED <<kallocVars, cur, sz, panic, histVars>>

(* mappages fails: uvmunmap of the pages before this one.  The count that  *)
(* krefincr took for this page is not given back.                          *)
CopyMapFails(c) ==
  /\ At(c, "copymap") /\ NeedsLeaf(c) /\ KallocFails
  /\ held' = [held EXCEPT ![Pa(c)] = NoPage]
  /\ lost' = [lost EXCEPT ![held[Pa(c)]] = @ + 1]
  /\ Loop(c, "unmap", "fork", tb[c], 0, idx[c])
  /\ UNCHANGED <<kallocVars, map, W, C, U, cur, sz, panic, ops>>

(* fork returns in the parent, and the child runs. *)
ForkDone(c) ==
  /\ At(c, "copy") /\ idx[c] = lim[c]
  /\ sz' = [sz EXCEPT ![c] = lim[c]]
  /\ pc' = [pc EXCEPT ![c] = "run", ![par[c]] = "run"]
  /\ UNCHANGED <<kallocVars, map, W, C, U, held, cur, ret, tb, idx, lim, val, par, panic, histVars>>
-----------------------------------------------------------------------------
(* uvmunmap with do_free: one page.  The PTE is cleared after kfree in the *)
(* code; until then only this thread could see it.                         *)
Unmap(p) ==
  LET e == WorkPte(p) IN
  /\ At(p, "unmap") /\ idx[p] < lim[p]
  /\ IF ~Mapped(e)
     THEN Panic("uvmunmap: not mapped")
     ELSE IF KfreePanics(map[e])
     THEN Panic("kfree_decr")
     ELSE /\ kfree(p, map[e])
          /\ SetPte(e, NoPage, FALSE, FALSE, FALSE)
          /\ Advance(p, "unmap")
          /\ UNCHANGED <<held, cur, sz, panic, histVars>>

(* The range is unmapped: back to growproc, freewalk or freeproc. *)
UnmapDone(p) ==
  /\ At(p, "unmap") /\ idx[p] = lim[p]
  /\ Goto(p, CASE ret[p] = "sbrk" -> "run"
               [] ret[p] = "fork" -> "freetf"
               [] OTHER -> "tables")
  /\ UNCHANGED <<kallocVars, ptVars, ret, tb, idx, lim, val, par, panic, histVars>>

(* freewalk's order: the leaf tables, the page of the high end, the root. *)
Rank(h) == CASE h[2][1] = "leaf" -> h[2][2][2]
             [] h[2][1] = "high" -> NV
             [] OTHER -> NV + 1

Freewalk(p) ==
  /\ At(p, "tables")
  /\ \E h \in TablePages(p, tb[p]) :
       /\ \A g \in TablePages(p, tb[p]) : Rank(h) <= Rank(g)
       /\ IF h[2][1] = "leaf" /\ \E v \in VPages :
               Leaf(p, tb[p], v) = h /\ Mapped(<<<<p, tb[p]>>, v>>)
          THEN Panic("freewalk: leaf")
          ELSE IF KfreePanics(held[h])
          THEN Panic("kfree_decr")
          ELSE /\ kfree(p, held[h])
               /\ held' = [held EXCEPT ![h] = NoPage]
               /\ UNCHANGED <<map, W, C, U, cur, sz, pcVars, panic, histVars>>

NoTables(p) == TablePages(p, tb[p]) = {}

(* freeproc: kfree(p->trapframe), before the page table, or after it when  *)
(* proc_pagetable failed and freed the table itself.                       *)
FreeTf(p) ==
  /\ \/ At(p, "freetf")
     \/ At(p, "tables") /\ NoTables(p) /\ ret[p] # "exec"
  /\ held[Tf(p)] # NoPage
  /\ IF KfreePanics(held[Tf(p)])
     THEN Panic("kfree_decr")
     ELSE /\ kfree(p, held[Tf(p)])
          /\ held' = [held EXCEPT ![Tf(p)] = NoPage]
          /\ Goto(p, IF pc[p] = "freetf" /\ ret[p] = "reap" THEN "unmap" ELSE "tables")
          /\ UNCHANGED <<map, W, C, U, cur, sz, ret, tb, idx, lim, val, par, panic, histVars>>

(* The address space is gone: exec returns, or the slot is UNUSED and a    *)
(* failed fork returns -1 in the parent.                                   *)
FreeDone(p) ==
  /\ At(p, "tables") /\ NoTables(p)
  /\ IF ret[p] = "exec"
     THEN Goto(p, "run") /\ UNCHANGED sz
     ELSE /\ held[Tf(p)] = NoPage
          /\ pc' = [q \in Procs |->
                      IF q = p THEN "unused"
                      ELSE IF ret[p] = "fork" /\ q = par[p] THEN "run"
                      ELSE pc[q]]
          /\ sz' = [sz EXCEPT ![p] = 0]
  /\ UNCHANGED <<kallocVars, map, W, C, U, held, cur, ret, tb, idx, lim, val, par, panic, histVars>>

(* kfree's second critical section. *)
Push(p) ==
  /\ panic = "none"
  /\ KfreePush(p)
  /\ UNCHANGED <<ptVars, pcVars, panic, histVars>>
-----------------------------------------------------------------------------
(* Stores.  A user store needs PTE_V, PTE_U and PTE_W, else it traps. *)

Storable(e) == Mapped(e) /\ e \in W /\ e \in U

Write(e, x) ==
  /\ mem' = [mem EXCEPT ![map[e]] = x]
  /\ UNCHANGED <<freelist, refcnt, freeing>>

UserStore(p, v, x) ==
  /\ At(p, "run") /\ Storable(Pte(p, v))
  /\ Write(Pte(p, v), x)
  /\ UNCHANGED <<ptVars, pcVars, panic, histVars>>

(* cowalloc returns -1 before it looks at PTE_C. *)
CowRefuses(e) == e[2] = 0 \/ ~Mapped(e) \/ e \notin U

StartCow(p, v, r, x) ==
  /\ pc' = [pc EXCEPT ![p] = "cow"]
  /\ ret' = [ret EXCEPT ![p] = r]
  /\ tb' = [tb EXCEPT ![p] = cur[p]]
  /\ idx' = [idx EXCEPT ![p] = v]
  /\ val' = [val EXCEPT ![p] = x]
  /\ UNCHANGED <<lim, par>>

(* usertrap, scause 15.  below: the address is in the page under sp, which *)
(* kills the process after cowalloc.  cowalloc returns 0 for a page        *)
(* without PTE_C, and the store traps again.                               *)
StoreFault(p, v, below) ==
  LET e == Pte(p, v) IN
  /\ At(p, "run") /\ p # InitProc
  /\ ~Storable(e)
  /\ IF ~CowRefuses(e) /\ e \in C
     THEN StartCow(p, v, IF below THEN "trapkill" ELSE "trap", 0)
     ELSE /\ CowRefuses(e) \/ below
          /\ Goto(p, "zombie")
          /\ UNCHANGED <<ret, tb, idx, lim, val, par>>
  /\ UNCHANGED <<kallocVars, ptVars, panic, histVars>>

(* Faulty variant of Copyout: no cowalloc before the write. *)
CopyoutInPlace(p, v, x) ==
  LET e == Pte(p, v) IN
  /\ At(p, "run") /\ ~CowRefuses(e)
  /\ Write(e, x)
  /\ UNCHANGED <<pcVars, ptVars, panic, histVars>>

(* copyout of x to page v: cowalloc, walkaddr, then the write, with no     *)
(* regard to PTE_W.  When cowalloc fails copyout returns -1.               *)
Copyout(p, v, x) ==
  LET e == Pte(p, v) IN
  /\ At(p, "run")
  /\ ~CowRefuses(e)
  /\ IF e \in C
     THEN StartCow(p, v, "copyout", x) /\ UNCHANGED kallocVars
     ELSE Write(e, x) /\ UNCHANGED pcVars
  /\ UNCHANGED <<ptVars, panic, histVars>>

CowKalloc(p) ==
  /\ At(p, "cow")
  /\ kalloc(Junk)
  /\ held' = [held EXCEPT ![Ka(p)] = Top]
  /\ Goto(p, "cowcopy")
  /\ UNCHANGED <<map, W, C, U, cur, sz, ret, tb, idx, lim, val, par, panic, histVars>>

CowKallocFails(p) ==
  /\ At(p, "cow")
  /\ KallocFails
  /\ Goto(p, IF ret[p] = "copyout" THEN "run" ELSE "zombie")
  /\ UNCHANGED <<kallocVars, ptVars, ret, tb, idx, lim, val, par, panic, histVars>>

(* memmove, and the new PTE: always PTE_U, PTE_W, PTE_X and PTE_R. *)
CowCopy(p) ==
  LET e == WorkPte(p) IN
  /\ At(p, "cowcopy")
  /\ mem' = [mem EXCEPT ![held[Ka(p)]] = mem[map[e]]]
  /\ SetPte(e, held[Ka(p)], TRUE, TRUE, FALSE)
  /\ held' = [held EXCEPT ![Ka(p)] = NoPage, ![Pa(p)] = map[e]]
  /\ Goto(p, "cowdecr")
  /\ UNCHANGED <<freelist, refcnt, freeing, cur, sz, ret, tb, idx, lim, val, par, panic, histVars>>

(* krefdecr(pa): nobody frees the page when its count reaches zero.  Then  *)
(* the trap returns, or copyout writes.                                    *)
CowDecr(p) ==
  LET pa == held[Pa(p)]
      e == WorkPte(p) IN
  /\ At(p, "cowdecr")
  /\ krefdecr(pa)
  /\ mem' = IF ret[p] = "copyout" THEN [mem EXCEPT ![map[e]] = val[p]] ELSE mem
  /\ held' = [held EXCEPT ![Pa(p)] = NoPage]
  /\ Goto(p, IF ret[p] = "trapkill" THEN "zombie" ELSE "run")
  /\ UNCHANGED <<map, W, C, U, cur, sz, ret, tb, idx, lim, val, par, panic, histVars>>
-----------------------------------------------------------------------------
Build(p) ==
  \/ AllocKernPage(p) \/ AllocKernPageFails(p) \/ WalkAlloc(p)
  \/ LoadKalloc(p) \/ LoadKallocFails(p) \/ LoadMap(p) \/ LoadMapFails(p) \/ LoadDone(p)
  \/ CopyIncr(p) \/ CopyMap(p) \/ CopyMapFails(p) \/ ForkDone(p)

TearDown(p) ==
  Unmap(p) \/ UnmapDone(p) \/ Freewalk(p) \/ FreeTf(p) \/ FreeDone(p) \/ Push(p)

CowFault(p) == CowKalloc(p) \/ CowKallocFails(p) \/ CowCopy(p) \/ CowDecr(p)

UserStep(p) ==
  \/ \E c \in Procs : Fork(p, c)
  \/ Exec(p)
  \/ \E n \in 0 .. NV : Sbrk(p, n)
  \/ Exit(p) \/ Reap(p)
  \/ \E v \in VPages, x \in Val : UserStore(p, v, x) \/ Copyout(p, v, x)
  \/ \E v \in VPages, below \in BOOLEAN : StoreFault(p, v, below)

Next == \E p \in Procs : Build(p) \/ TearDown(p) \/ CowFault(p) \/ UserStep(p)

Spec == Init /\ [][Next]_vars
-----------------------------------------------------------------------------
Labels == {"unused", "alloc", "copy", "copymap", "load", "loadmap", "run", "forking",
           "cow", "cowcopy", "cowdecr", "unmap", "tables", "freetf", "zombie"}
Messages == {"none", "kerneltrap", "kfree_decr", "mappages: remap", "freewalk: leaf",
             "uvmcopy: page not present", "uvmunmap: not mapped"}
Calls == {"none", "boot", "fork", "exec", "sbrk", "reap", "trap", "trapkill", "copyout"}

(* Every variable has a value of its type. *)
TypeOK ==
  /\ KallocTypeOK
  /\ map \in [PTE -> Pages \cup {NoPage}]
  /\ W \subseteq PTE /\ C \subseteq PTE /\ U \subseteq PTE
  /\ held \in [Held -> Pages \cup {NoPage}]
  /\ cur \in [Procs -> Tables] /\ tb \in [Procs -> Tables]
  /\ sz \in [Procs -> 0 .. NV]
  /\ pc \in [Procs -> Labels] /\ ret \in [Procs -> Calls]
  /\ idx \in [Procs -> 0 .. NV] /\ lim \in [Procs -> 0 .. NV]
  /\ val \in [Procs -> Val]
  /\ par \in [Procs -> Procs]
  /\ panic \in Messages
  /\ ops \in 0 .. MaxOps
  /\ lost \in [Pages -> Nat]

UserRefs(pa) == {e \in PTE : map[e] = pa}
KernRefs(pa) == {h \in Held : held[h] = pa}

(* refcnt.count of a page is the number of PTEs, table entries and kernel  *)
(* variables that refer to it, plus the counts a failed uvmcopy dropped,   *)
(* at every point of every interleaving of fork, exec, sbrk, exit and COW  *)
(* faults.                                                                 *)
RefCount ==
  \A pa \in Pages :
    refcnt[pa] = Cardinality(UserRefs(pa)) + Cardinality(KernRefs(pa)) + lost[pa]

(* A page on the free list, or on its way there in kfree, is counted by    *)
(* nobody, referred to by nobody, and there only once: what kalloc hands   *)
(* out is never in use.                                                    *)
FreePagesUnused ==
  /\ \A i, j \in 1 .. Len(freelist) : freelist[i] = freelist[j] => i = j
  /\ \A i \in 1 .. Len(freelist) :
       /\ refcnt[freelist[i]] = 0
       /\ UserRefs(freelist[i]) = {} /\ KernRefs(freelist[i]) = {}
       /\ \A p \in Procs : freeing[p] # freelist[i]
  /\ \A p, q \in Procs : freeing[p] # NoPage =>
       /\ refcnt[freeing[p]] = 0
       /\ freeing[p] = freeing[q] => p = q

(* A page has at most one PTE without PTE_C, and only that PTE can be      *)
(* writable: every other address space that shares the page copies it      *)
(* before a store.                                                         *)
SingleOwner ==
  /\ W \cap C = {}
  /\ \A e, f \in PTE : Mapped(e) /\ map[e] = map[f] /\ e \notin C /\ f \notin C => e = f

(* No kfree finds a zero count, no uvmunmap a missing page, no mappages a  *)
(* present one, no freewalk a leaf.                                        *)
NoPanic == panic = "none"

(* A page all of whose sharers are copy-on-write keeps its contents as     *)
(* long as it is mapped: only its owner, the one PTE without PTE_C, can    *)
(* change it, whether by a store or by copyout.                            *)
FrozenWithoutOwner ==
  [][\A pa \in Pages :
       /\ mem'[pa] # mem[pa]
       /\ \E e \in PTE : map[e] = pa /\ map'[e] = pa
       => \E e \in PTE : map[e] = pa /\ e \notin C]_vars

(* What uvmcopy's comment promises: after fork, a store by one process is  *)
(* never seen by another.                                                  *)
ForkIsolation ==
  [][\A p, q \in Procs : p # q /\ pc[p] = "run" /\ (\E v \in VPages, x \in Val : UserStore(q, v, x))
       => \A v \in VPages : Mapped(Pte(p, v)) => mem'[map[Pte(p, v)]] = mem[map[Pte(p, v)]]]_vars

(* What usertests checks with countfree: no page is lost.  Every page is   *)
(* free, on its way to the list, or referred to.                           *)
NoPageLost ==
  \A pa \in Pages :
    \/ UserRefs(pa) # {} \/ KernRefs(pa) # {}
    \/ \E i \in 1 .. Len(freelist) : freelist[i] = pa
    \/ \E p \in Procs : freeing[p] = pa
=============================================================================
