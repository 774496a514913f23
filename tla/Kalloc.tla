------------------------------- MODULE Kalloc -------------------------------
(***************************************************************************)
(* The physical page allocator of kernel/kalloc.c.  Every operation is one *)
(* critical section of kmem.lock, except kfree, which decrements under the *)
(* lock, releases it, fills the page with junk and takes the lock again to *)
(* put the page on the list: between the two sections the page is in       *)
(* freeing[p], p being the process slot on whose behalf kfree runs.        *)
(*                                                                         *)
(* Page contents are one value per page: a member of Val, or Junk for a    *)
(* page filled by kalloc (byte 5) or kfree (byte 1).                       *)
(***************************************************************************)
EXTENDS Integers, Sequences

CONSTANTS
  Procs,    \* process slots, the proc[] table
  Pages,    \* physical pages between end and PHYSTOP
  NoPage,   \* the null physical address
  Val       \* what a page can hold

ASSUME KallocAssumption ==
  /\ NoPage \notin Pages
  /\ Val \subseteq Nat
  /\ 0 \in Val

VARIABLES
  freelist, \* kmem.freelist as a stack: its head is the last element
  refcnt,   \* refcnt.count
  mem,      \* the contents of the pages
  freeing   \* freeing[p]: the page kfree has yet to put on the list

kallocVars == <<freelist, refcnt, mem, freeing>>

Junk == -1

Top == freelist[Len(freelist)]

(* kalloc returns 0: the list is empty or its head is still counted. *)
KallocFails == freelist # <<>> => refcnt[Top] > 0

(* kalloc succeeds and returns Top, holding x once its caller filled it. *)
kalloc(x) ==
  /\ ~KallocFails
  /\ refcnt' = [refcnt EXCEPT ![Top] = 1]
  /\ freelist' = SubSeq(freelist, 1, Len(freelist) - 1)
  /\ mem' = [mem EXCEPT ![Top] = x]
  /\ UNCHANGED freeing

krefincr(pa) ==
  /\ refcnt' = [refcnt EXCEPT ![pa] = @ + 1]
  /\ UNCHANGED <<freelist, mem, freeing>>

(* krefdecr, called by cowalloc; the caller says what happens to mem. *)
krefdecr(pa) ==
  /\ refcnt' = [refcnt EXCEPT ![pa] = @ - 1]
  /\ UNCHANGED <<freelist, freeing>>

(* kfree would panic("kfree_decr"). *)
KfreePanics(pa) == refcnt[pa] < 1

(* Faulty variant of kfree: puts the page on the list whatever its count. *)
KfreeIgnoresCount(p, pa) ==
  /\ refcnt' = [refcnt EXCEPT ![pa] = @ - 1]
  /\ freeing' = [freeing EXCEPT ![p] = pa]
  /\ mem' = [mem EXCEPT ![pa] = Junk]
  /\ UNCHANGED freelist

(* kfree's first critical section, and the memset that follows it. *)
kfree(p, pa) ==
  /\ refcnt' = [refcnt EXCEPT ![pa] = @ - 1]
  /\ freeing' = IF refcnt[pa] = 1 THEN [freeing EXCEPT ![p] = pa] ELSE freeing
  /\ mem' = IF refcnt[pa] = 1 THEN [mem EXCEPT ![pa] = Junk] ELSE mem
  /\ UNCHANGED freelist

(* kfree's second critical section. *)
KfreePush(p) ==
  /\ freeing[p] # NoPage
  /\ freelist' = Append(freelist, freeing[p])
  /\ freeing' = [freeing EXCEPT ![p] = NoPage]
  /\ UNCHANGED <<refcnt, mem>>

KallocTypeOK ==
  /\ freelist \in Seq(Pages)
  /\ refcnt \in [Pages -> Int]
  /\ mem \in [Pages -> Val \cup {Junk}]
  /\ freeing \in [Procs -> Pages \cup {NoPage}]
=============================================================================
