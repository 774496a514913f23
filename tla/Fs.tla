--------------------------------- MODULE Fs ---------------------------------
(***************************************************************************)
(* The file system of kernel/fs.c and the system calls of kernel/sysfile.c *)
(* on it: the inode table, directories, path names, block allocation, and  *)
(* what a crash leaves of them.                                            *)
(*                                                                         *)
(* What a process does under the sleep locks of its inodes is one step, up *)
(* to where it locks another inode or gives one up; the steps of iput,     *)
(* which lets go of itable.lock, are apart.  The layers below are          *)
(* used as modules Log and Bcache show them: the calls between a begin_op  *)
(* and the time when none is outstanding take effect together or not at    *)
(* all.  Sizes are in blocks, and those of directories in entries, EPB to  *)
(* a block.  The table of inodes is indexed by inode number: iget keeps at *)
(* most one slot for each.                                                 *)
(***************************************************************************)
EXTENDS Integers, Sequences, FiniteSets, TLC

CONSTANTS
  Procs, NoProc,
  NInodes,     \* sb.ninodes - 1
  Blocks,      \* the data blocks, numbered from 1
  EPB,         \* entries per block, BSIZE / sizeof(struct dirent)
  Images,      \* the disks it may boot from: what mkfs makes, or a later state
  Calls,       \* the calls on path names that are made: op, path, new
  MaxCalls,    \* bound on the calls that are made
  MaxCrashes

Inum == 1 .. NInodes
ROOTINO == 1
MAXFILE == 2   \* one direct block, and one by way of the indirect block

ASSUME FsAssumption == NInodes \in Nat \ {0} /\ EPB > 2 /\ NoProc \notin Procs

VARIABLES
  di, used, ents,          \* on disk: the inodes, the bitmap, the directories
  mi, valid, ref, lock,    \* itable: the copies of inodes, and ip->lock
  cwd, ofile, off,         \* of each process; it has one descriptor
  L,                       \* its local variables
  stable,                  \* the disk as the log would recover it
  crashes, calls, stray, panic

disk == <<di, used, ents>>
core == <<mi, valid, ref>>
user == <<cwd, ofile, off>>
rest == <<stable, crashes, calls, panic>>
vars == <<disk, core, lock, user, L, rest, stray>>

None == 0
Free == [type |-> "free", nlink |-> 0, size |-> 0, addrs |-> [n \in 0 .. 2 |-> None]]
Idle == [pc |-> "idle", op |-> "none", path |-> <<>>, new |-> <<>>, parent |-> FALSE, name |-> ".",
         n |-> None, ip |-> None, dp |-> None, x |-> None,
         then |-> "idle", found |-> "idle", fails |-> "idle"]

Booted ==   \* fsinit, and the processes with the root as their directory
  /\ mi' = [i \in Inum |-> Free] /\ valid' = [i \in Inum |-> FALSE]
  /\ ref' = [i \in Inum |-> IF i = ROOTINO THEN Cardinality(Procs) ELSE 0]
  /\ lock' = [i \in Inum |-> NoProc]
  /\ cwd' = [p \in Procs |-> ROOTINO] /\ ofile' = [p \in Procs |-> None]
  /\ off' = [p \in Procs |-> 0] /\ L' = [p \in Procs |-> Idle]

Init ==
  /\ stable \in Images
  /\ di = stable.di /\ used = stable.used /\ ents = stable.ents
  /\ mi = [i \in Inum |-> Free] /\ valid = [i \in Inum |-> FALSE]
  /\ ref = [i \in Inum |-> IF i = ROOTINO THEN Cardinality(Procs) ELSE 0]
  /\ lock = [i \in Inum |-> NoProc]
  /\ cwd = [p \in Procs |-> ROOTINO] /\ ofile = [p \in Procs |-> None]
  /\ off = [p \in Procs |-> 0] /\ L = [p \in Procs |-> Idle]
  /\ crashes = 0 /\ calls = 0 /\ stray = FALSE /\ panic = "none"

At(p, l) == L[p].pc = l /\ panic = "none"
Go(p, r) == L' = [L EXCEPT ![p] = r @@ @]
Panic(m) == panic' = m /\ UNCHANGED <<disk, core, lock, user, L, stable, crashes, calls, stray>>

(* ilock: what the copy of inode i is once it is locked, and when it       *)
(* cannot be.                                                              *)
InCore(i) == IF valid[i] THEN mi[i] ELSE di[i]
NoType(i) == ~valid[i] /\ di[i].type = "free"
CanLock(i) == lock[i] = NoProc /\ ~NoType(i)

(* The inode table after the copies of m were changed or read in and the   *)
(* inodes of S were got by iget or idup.                                   *)
Core(m, S) ==
  /\ mi' = m @@ mi
  /\ valid' = [i \in Inum |-> (valid[i] \/ i \in DOMAIN m) /\ ~(i \in S /\ ref[i] = 0)]
  /\ ref' = [i \in Inum |-> IF i \in S THEN ref[i] + 1 ELSE ref[i]]

(* iupdate of the inodes of m. *)
iupdate(m) == m @@ di

(* iput(i), after which p goes on at l. *)
Put(i, l) == [pc |-> "iput", x |-> i, then |-> l]

(* balloc takes the first block that is free; bmap finds the block bn of   *)
(* an inode or allocates it.  The indirect block may be allocated although *)
(* there is none left for the data.                                        *)
balloc(u) == CHOOSE b \in Blocks \ u : \A a \in Blocks \ u : b <= a
Alloc(r, n) ==
  IF ~r.ok \/ r.c.addrs[n] # None THEN r
  ELSE IF Blocks \subseteq r.used THEN [r EXCEPT !.ok = FALSE]
  ELSE [r EXCEPT !.c.addrs[n] = balloc(r.used), !.used = @ \cup {balloc(@)}]
bmap(c, u, bn) ==
  LET r == [ok |-> TRUE, c |-> c, used |-> u] IN
  IF bn = 0 THEN Alloc(r, 0) ELSE Alloc(Alloc(r, 1), 2)

(* itrunc gives all of them back. *)
BlocksOf(c) == {c.addrs[n] : n \in 0 .. 2} \ {None}
FreedNotIndirect(c) == {c.addrs[0], c.addrs[2]} \ {None}
Freed(c) ==
  ({c.addrs[0]} \cup (IF c.addrs[1] = None THEN {} ELSE {c.addrs[1], c.addrs[2]})) \ {None}
itrunc(c) == [c EXCEPT !.size = 0, !.addrs = Free.addrs]

(* dirlookup and dirlink, on the entries s of a directory.                 *)
Named(s, name) == {n \in 1 .. Len(s) : s[n].inum # None /\ s[n].name = name}
dirlookup(i, name) ==
  LET S == Named(ents[i], name) IN IF S = {} THEN None ELSE ents[i][CHOOSE n \in S : TRUE].inum
EmptySlot(s) ==
  LET S == {n \in 1 .. Len(s) : s[n].inum = None}
  IN  IF S = {} THEN Len(s) + 1 ELSE CHOOSE n \in S : \A k \in S : n <= k
dirlink(r, s, name, i) ==
  LET n == EmptySlot(s)
      b == bmap(r.c, r.used, (n - 1) \div EPB) IN
  IF ~r.ok \/ Named(s, name) # {} \/ n > MAXFILE * EPB THEN [r EXCEPT !.ok = FALSE] @@ [s |-> s]
  ELSE IF ~b.ok THEN b @@ [s |-> s]
  ELSE [b EXCEPT !.c.size = IF n > @ THEN n ELSE @]
         @@ [s |-> LET e == [name |-> name, inum |-> i]
                   IN  IF n > Len(s) THEN Append(s, e) ELSE [s EXCEPT ![n] = e]]
-----------------------------------------------------------------------------
(* mkfs: iappend adds n units of data to an inode, and takes the blocks it *)
(* needs one after the other; a unit is an entry or a block.               *)
iappend(r, n, unit) ==
  LET A[k \in 0 .. n] == IF k = 0 THEN r
                         ELSE [bmap(A[k - 1].c, A[k - 1].used, A[k - 1].c.size \div unit) EXCEPT !.c.size = @ + 1]
  IN  A[n]

(* The root gets an entry for each file, and in the end the size of whole  *)
(* blocks.                                                                 *)
New(type) == [Free EXCEPT !.type = type, !.nlink = 1]
NoEntry == [name |-> ".", inum |-> None]
Whole(n) == ((n \div EPB) + 1) * EPB

mkfs(files) ==
  LET N == Len(files)
      M[k \in 0 .. N] ==
        IF k = 0 THEN [root |-> iappend([ok |-> TRUE, c |-> New("dir"), used |-> {}], 2, EPB), files |-> <<>>]
        ELSE LET root == iappend(M[k - 1].root, 1, EPB)
                 f == iappend([ok |-> TRUE, c |-> New("file"), used |-> root.used], files[k].size, 1)
             IN  [root |-> [root EXCEPT !.used = f.used], files |-> Append(M[k - 1].files, f.c)]
      root == M[N].root.c IN
  [di   |-> [i \in Inum |-> CASE i = ROOTINO -> [root EXCEPT !.size = Whole(@)]
                             [] i \in 2 .. N + 1 -> M[N].files[i - 1]
                             [] OTHER -> Free],
   used |-> M[N].root.used,
   ents |-> [i \in Inum |-> IF i # ROOTINO THEN <<>>
             ELSE [n \in 1 .. Whole(root.size) |->
                     CASE n \in {1, 2} -> [name |-> IF n = 1 THEN "." ELSE "..", inum |-> ROOTINO]
                       [] n \in 3 .. N + 2 -> [name |-> files[n - 2].name, inum |-> n - 1]
                       [] OTHER -> NoEntry]]]
-----------------------------------------------------------------------------
(* namex starts from the root or the current directory; found and fails    *)
(* say where p goes on when it returns an inode, or 0.                     *)
StartNamex(p, path, r) ==
  LET i == IF path[1] = "/" THEN ROOTINO ELSE cwd[p] IN
  /\ Core(<<>>, {i})
  /\ Go(p, r @@ [pc |-> "namex", n |-> i, path |-> SelectSeq(path, LAMBDA s : s # "/")])

(* A system call on a path starts a transaction and looks the path up. *)
Begin(p, op, path, new) ==
  /\ At(p, "idle") /\ calls < MaxCalls /\ calls' = calls + 1
  /\ StartNamex(p, path,
       [op |-> op, new |-> new, parent |-> op \in {"creat", "mkdir", "mknod", "unlink"},
        found |-> IF op \in {"creat", "mkdir", "mknod"} THEN "create" ELSE op, fails |-> "end"])
  /\ UNCHANGED <<disk, lock, user, stable, crashes, panic, stray>>

(* The directory with contents c was removed, and its entry .. is used. *)
GoesUp(c, name) == name = ".." /\ c.nlink = 0

(* The loop of namex. *)
namex(p) ==
  LET l == L[p]
      i == l.n
      c == InCore(i)
      last == Len(l.path) = 1
      stop == c.type = "dir" /\ l.parent /\ last
      e == IF c.type = "dir" /\ ~stop THEN dirlookup(i, Head(l.path)) ELSE None IN
  /\ At(p, "namex") /\ l.path # <<>> /\ CanLock(i)
  /\ Core(i :> c, {e} \ {None})
  /\ IF stop THEN Go(p, [pc |-> l.found, dp |-> i, n |-> None, name |-> Head(l.path), path |-> <<>>])
     ELSE IF e = None THEN Go(p, Put(i, l.fails) @@ [n |-> None, path |-> <<>>])
     ELSE IF last THEN Go(p, Put(i, l.found) @@ [ip |-> e, n |-> None, path |-> <<>>])
     ELSE Go(p, Put(i, "namex") @@ [n |-> e, path |-> Tail(l.path)])
  /\ stray' = (stray \/ (e # None /\ GoesUp(c, Head(l.path))))
  /\ UNCHANGED <<disk, lock, user, rest>>

(* The path had no name in it. *)
NoName(p) ==
  LET l == L[p] IN
  /\ At(p, "namex") /\ l.path = <<>>
  /\ IF l.parent THEN Go(p, Put(l.n, l.fails) @@ [n |-> None])
                 ELSE Go(p, [pc |-> l.found, ip |-> l.n, n |-> None])
  /\ UNCHANGED <<disk, core, lock, user, rest, stray>>

(* iput: the last reference to an inode without links frees it, for which  *)
(* itable.lock is released.                                                *)
Unref(p) ==
  /\ ref' = [ref EXCEPT ![L[p].x] = @ - 1]
  /\ Go(p, [pc |-> L[p].then, x |-> None, then |-> "idle"])

UnusedWithLink(i) == ref[i] = 1 /\ valid[i] /\ mi[i].nlink <= 1
Unused(i) == ref[i] = 1 /\ valid[i] /\ mi[i].nlink = 0

iput(p) ==
  LET i == L[p].x IN
  /\ At(p, "iput")
  /\ IF ~Unused(i)
     THEN Unref(p) /\ UNCHANGED <<lock, panic>>
     ELSE IF lock[i] # NoProc
     THEN panic' = "iput: blocks" /\ UNCHANGED <<ref, lock, L>>
     ELSE lock' = [lock EXCEPT ![i] = p] /\ Go(p, [pc |-> "itrunc"]) /\ UNCHANGED <<ref, panic>>
  /\ UNCHANGED <<disk, mi, valid, user, stable, crashes, calls, stray>>

FreeInode(p) ==
  LET i == L[p].x
      c == itrunc(mi[i]) IN
  /\ At(p, "itrunc")
  /\ IF ~(Freed(mi[i]) \subseteq used)
     THEN Panic("freeing free block")
     ELSE /\ Core(i :> [c EXCEPT !.type = "free"], {})
          /\ di' = iupdate(i :> [c EXCEPT !.type = "free"])
          /\ used' = used \ Freed(mi[i])
          /\ ents' = [ents EXCEPT ![i] = <<>>]
          /\ Go(p, [pc |-> "invalid"])
          /\ UNCHANGED <<lock, user, rest, stray>>

InvalidateNot(p) ==
  /\ At(p, "invalid")
  /\ lock' = [lock EXCEPT ![L[p].x] = NoProc]
  /\ Go(p, [pc |-> "unref"])
  /\ UNCHANGED <<disk, core, user, rest, stray>>

Invalidate(p) ==
  LET i == L[p].x IN
  /\ At(p, "invalid")
  /\ valid' = [valid EXCEPT ![i] = FALSE]
  /\ lock' = [lock EXCEPT ![i] = NoProc]
  /\ Go(p, [pc |-> "unref"])
  /\ UNCHANGED <<disk, mi, ref, user, rest, stray>>

IputDone(p) ==
  /\ At(p, "unref") /\ Unref(p)
  /\ UNCHANGED <<disk, mi, valid, lock, user, rest, stray>>

(* ilock panics at an inode that is free on disk. *)
Target(p) == CASE L[p].pc = "namex" /\ L[p].path # <<>> -> L[p].n
               [] L[p].pc \in {"create", "unlink", "link2"} -> L[p].dp
               [] L[p].pc \in {"create2", "mkinode", "open", "chdir", "unlink2", "link", "linkbad"} -> L[p].ip
               [] L[p].pc = "write" -> ofile[p]
               [] OTHER -> None
IlockPanics(p) ==
  /\ panic = "none" /\ Target(p) # None /\ lock[Target(p)] = NoProc /\ NoType(Target(p))
  /\ Panic("ilock: no type")

(* create looks the name up in dp; if it is new, ialloc takes the first    *)
(* inode that is free on disk.                                             *)
FreeInums == {i \in Inum : di[i].type = "free"}
ialloc == CHOOSE i \in FreeInums : \A j \in FreeInums : i <= j
TypeOf(op) == CASE op = "creat" -> "file" [] op = "mkdir" -> "dir" [] OTHER -> "dev"

create(p) ==
  LET d == L[p].dp
      c == InCore(d)
      e == dirlookup(d, L[p].name) IN
  /\ At(p, "create") /\ CanLock(d)
  /\ IF e # None
     THEN Go(p, Put(d, "create2") @@ [ip |-> e, dp |-> None]) /\ UNCHANGED <<di, lock>>
     ELSE IF FreeInums = {}
     THEN Go(p, Put(d, "end") @@ [dp |-> None]) /\ UNCHANGED <<di, lock>>
     ELSE /\ di' = iupdate(ialloc :> [Free EXCEPT !.type = TypeOf(L[p].op)])
          /\ lock' = [lock EXCEPT ![d] = p]
          /\ Go(p, [pc |-> "iget", n |-> ialloc])
  /\ Core(d :> c, {e} \ {None})
  /\ stray' = (stray \/ (e # None /\ GoesUp(c, L[p].name)))
  /\ UNCHANGED <<used, ents, user, rest>>

iget(p) ==
  /\ At(p, "iget")
  /\ Core(<<>>, {L[p].n})
  /\ Go(p, [pc |-> "mkinode", ip |-> L[p].n, n |-> None])
  /\ UNCHANGED <<disk, lock, user, rest, stray>>

(* The new inode gets its link, a directory its first entries, and dp the  *)
(* entry; if one of them fails the inode is given up.                      *)
MkInode(p) ==
  LET i == L[p].ip
      d == L[p].dp
      isdir == L[p].op = "mkdir"
      r0 == [ok |-> TRUE, c |-> [InCore(i) EXCEPT !.nlink = 1], used |-> used]
      r1 == IF isdir THEN dirlink(r0, ents[i], ".", i) ELSE r0 @@ [s |-> ents[i]]
      r2 == IF isdir THEN dirlink(r1, r1.s, "..", d) ELSE r1
      r3 == dirlink([ok |-> r2.ok, c |-> mi[d], used |-> r2.used], ents[d], L[p].name, i)
      m == (i :> [r2.c EXCEPT !.nlink = IF r3.ok THEN 1 ELSE 0])
             @@ (d :> [r3.c EXCEPT !.nlink = IF r3.ok /\ isdir THEN @ + 1 ELSE @]) IN
  /\ At(p, "mkinode") /\ CanLock(i)
  /\ Core(m, {}) /\ di' = iupdate(m) /\ used' = r3.used
  /\ ents' = [ents EXCEPT ![i] = r2.s, ![d] = r3.s]
  /\ IF r3.ok
     THEN /\ lock' = [lock EXCEPT ![d] = NoProc, ![i] = p]
          /\ Go(p, Put(d, IF L[p].op = "creat" THEN "opened" ELSE "mkdone") @@ [dp |-> None])
     ELSE Go(p, Put(i, "unlockdp") @@ [ip |-> None]) /\ UNCHANGED lock
  /\ stray' = (stray \/ (r3.ok /\ mi[d].nlink = 0))
  /\ UNCHANGED <<user, rest>>

MkDone(p) ==
  /\ At(p, "mkdone")
  /\ lock' = [lock EXCEPT ![L[p].ip] = NoProc]
  /\ Go(p, Put(L[p].ip, "end") @@ [ip |-> None])
  /\ UNCHANGED <<disk, core, user, rest, stray>>

(* The error paths of create and sys_unlink that end with iunlockput(dp). *)
UnlockDpNoPut(p) ==
  /\ At(p, "unlockdp")
  /\ lock' = [lock EXCEPT ![L[p].dp] = NoProc]
  /\ Go(p, [pc |-> "end", dp |-> None])
  /\ UNCHANGED <<disk, core, user, rest, stray>>

UnlockDp(p) ==
  /\ At(p, "unlockdp")
  /\ lock' = [lock EXCEPT ![L[p].dp] = NoProc]
  /\ Go(p, Put(L[p].dp, "end") @@ [dp |-> None])
  /\ UNCHANGED <<disk, core, user, rest, stray>>

(* sys_unlink, of a file or an empty directory. *)
IsDirEmptyOffByOne(i) == \A n \in 4 .. Len(ents[i]) : ents[i][n].inum = None
IsDirEmpty(i) == \A n \in 3 .. Len(ents[i]) : ents[i][n].inum = None

unlink(p) ==
  LET d == L[p].dp
      e == IF L[p].name \in {".", ".."} THEN None ELSE dirlookup(d, L[p].name) IN
  /\ At(p, "unlink") /\ CanLock(d)
  /\ Core(d :> InCore(d), {e} \ {None})
  /\ IF e = None
     THEN Go(p, Put(d, "end") @@ [dp |-> None]) /\ UNCHANGED lock
     ELSE Go(p, [pc |-> "unlink2", ip |-> e]) /\ lock' = [lock EXCEPT ![d] = p]
  /\ UNCHANGED <<disk, user, rest, stray>>

EraseEntry(p) ==
  LET i == L[p].ip
      d == L[p].dp
      c == InCore(i)
      dc == [mi[d] EXCEPT !.nlink = IF c.type = "dir" THEN @ - 1 ELSE @]
      n == CHOOSE k \in Named(ents[d], L[p].name) : TRUE IN
  /\ At(p, "unlink2") /\ CanLock(i)
  /\ IF c.nlink < 1
     THEN Panic("unlink: nlink < 1")
     ELSE IF c.type = "dir" /\ ~IsDirEmpty(i)
     THEN /\ Core(i :> c, {})
          /\ Go(p, Put(i, "unlockdp") @@ [ip |-> None])
          /\ UNCHANGED <<disk, lock, user, rest, stray>>
     ELSE /\ ents' = [ents EXCEPT ![d][n] = NoEntry]
          /\ Core((i :> c) @@ (d :> dc), {}) /\ di' = iupdate(d :> dc)
          /\ lock' = [lock EXCEPT ![d] = NoProc, ![i] = p]
          /\ Go(p, Put(d, "unlink3") @@ [dp |-> None])
          /\ UNCHANGED <<used, user, rest, stray>>

DropLinkNoUpdate(p) ==
  LET i == L[p].ip IN
  /\ At(p, "unlink3")
  /\ Core(i :> [mi[i] EXCEPT !.nlink = @ - 1], {})
  /\ lock' = [lock EXCEPT ![i] = NoProc]
  /\ Go(p, Put(i, "end") @@ [ip |-> None])
  /\ UNCHANGED <<disk, user, rest, stray>>

DropLink(p) ==   \* the inode is locked
  LET i == L[p].ip
      c == [mi[i] EXCEPT !.nlink = @ - 1] IN
  /\ At(p, "unlink3")
  /\ Core(i :> c, {}) /\ di' = iupdate(i :> c)
  /\ lock' = [lock EXCEPT ![i] = NoProc]
  /\ Go(p, Put(i, "end") @@ [ip |-> None])
  /\ UNCHANGED <<used, ents, user, rest, stray>>

(* sys_open: p has inode i, locked, with the contents c.  There may be no  *)
(* struct file or descriptor for it; O_TRUNC empties it.                   *)
OpenFile(p, i, c, ok, trunc) ==
  LET empties == trunc /\ c.type = "file"
      t == IF empties THEN itrunc(c) ELSE c IN
  IF ~ok \/ ofile[p] # None
  THEN /\ Core(i :> c, {})
       /\ lock' = [lock EXCEPT ![i] = NoProc]
       /\ Go(p, Put(i, "end") @@ [ip |-> None])
       /\ UNCHANGED <<disk, user, rest, stray>>
  ELSE IF empties /\ ~(Freed(c) \subseteq used)
  THEN Panic("freeing free block")
  ELSE /\ ofile' = [ofile EXCEPT ![p] = i] /\ off' = [off EXCEPT ![p] = 0]
       /\ Core(i :> t, {}) /\ di' = (IF t = c THEN di ELSE iupdate(i :> t))
       /\ used' = (IF empties THEN used \ Freed(c) ELSE used)
       /\ lock' = [lock EXCEPT ![i] = NoProc]
       /\ Go(p, [pc |-> "end", ip |-> None])
       /\ UNCHANGED <<ents, cwd, rest, stray>>

(* open finds the inode by namei, or create finds it there; mkdir and      *)
(* mknod fail then.  A directory can be opened for reading only, a file is *)
(* opened for reading and writing.                                         *)
open(p, ok, rdonly, trunc) ==
  LET i == L[p].ip
      c == InCore(i) IN
  /\ At(p, "open") \/ At(p, "create2")
  /\ CanLock(i) /\ ~(rdonly /\ trunc)
  /\ IF \/ L[p].pc = "open" /\ c.type = "dir" /\ ~rdonly
        \/ L[p].pc = "create2" /\ (L[p].op # "creat" \/ c.type = "dir")
     THEN /\ Core(i :> c, {})
          /\ Go(p, Put(i, "end") @@ [ip |-> None])
          /\ UNCHANGED <<disk, lock, user, rest, stray>>
     ELSE OpenFile(p, i, c, ok, trunc)

OpenNew(p, ok) == At(p, "opened") /\ OpenFile(p, L[p].ip, mi[L[p].ip], ok, FALSE)

chdir(p) ==
  LET i == L[p].ip
      c == InCore(i) IN
  /\ At(p, "chdir") /\ CanLock(i)
  /\ Core(i :> c, {})
  /\ Go(p, IF c.type # "dir" THEN Put(i, "end") @@ [ip |-> None] ELSE Put(cwd[p], "chdir2"))
  /\ UNCHANGED <<disk, lock, user, rest, stray>>

\* Faulty: the inode stays locked while its new name is looked up.
LinkKeepsLock(p) ==
  LET i == L[p].ip
      up == [InCore(i) EXCEPT !.nlink = @ + 1] IN
  /\ At(p, "link") /\ CanLock(i) /\ up.type # "dir"
  /\ Core(i :> up, {}) /\ di' = iupdate(i :> up)
  /\ lock' = [lock EXCEPT ![i] = p]
  /\ Go(p, [pc |-> "linknew"])
  /\ UNCHANGED <<used, ents, user, rest, stray>>

(* sys_link: the new link is counted before the entry is made. *)
link(p) ==
  LET i == L[p].ip
      c == InCore(i)
      up == [c EXCEPT !.nlink = @ + 1] IN
  /\ At(p, "link") /\ CanLock(i)
  /\ IF c.type = "dir"
     THEN /\ Core(i :> c, {}) /\ UNCHANGED di
          /\ Go(p, Put(i, "end") @@ [ip |-> None])
     ELSE /\ Core(i :> up, {}) /\ di' = iupdate(i :> up)
          /\ Go(p, [pc |-> "linknew"])
  /\ UNCHANGED <<used, ents, lock, user, rest, stray>>

LinkNew(p) ==
  /\ At(p, "linknew")
  /\ StartNamex(p, L[p].new, [parent |-> TRUE, found |-> "link2", fails |-> "linkbad", new |-> <<>>])
  /\ UNCHANGED <<disk, lock, user, rest, stray>>

(* dirlink finds the name in the directory: it has looked it up and gives  *)
(* up what it found, before the directory is unlocked.                     *)
LinkFound(p) ==
  LET d == L[p].dp
      e == dirlookup(d, L[p].name) IN
  /\ At(p, "link2") /\ CanLock(d) /\ e # None
  /\ Core(d :> InCore(d), {e})
  /\ lock' = [lock EXCEPT ![d] = p]
  /\ Go(p, Put(e, "linkfound"))
  /\ stray' = (stray \/ GoesUp(InCore(d), L[p].name))
  /\ UNCHANGED <<disk, user, rest>>

LinkUnlock(p) ==
  /\ At(p, "linkfound")
  /\ lock' = [lock EXCEPT ![L[p].dp] = NoProc]
  /\ Go(p, Put(L[p].dp, "linkbad") @@ [dp |-> None])
  /\ UNCHANGED <<disk, core, user, rest, stray>>

LinkEntry(p) ==
  LET d == L[p].dp
      r == dirlink([ok |-> TRUE, c |-> InCore(d), used |-> used], ents[d], L[p].name, L[p].ip) IN
  /\ At(p, "link2") /\ CanLock(d) /\ dirlookup(d, L[p].name) = None
  /\ Core(d :> r.c, {}) /\ di' = iupdate(d :> r.c)
  /\ used' = r.used /\ ents' = [ents EXCEPT ![d] = r.s]
  /\ Go(p, Put(d, IF r.ok THEN "linkdone" ELSE "linkbad") @@ [dp |-> None])
  /\ stray' = (stray \/ (r.ok /\ r.c.nlink = 0))
  /\ UNCHANGED <<lock, user, rest>>

LinkDone(p) ==
  /\ At(p, "linkdone")
  /\ Go(p, Put(L[p].ip, "end") @@ [ip |-> None])
  /\ UNCHANGED <<disk, core, lock, user, rest, stray>>

LinkBad(p) ==
  LET i == L[p].ip
      c == [InCore(i) EXCEPT !.nlink = @ - 1] IN
  /\ At(p, "linkbad") /\ CanLock(i)
  /\ Core(i :> c, {}) /\ di' = iupdate(i :> c)
  /\ Go(p, Put(i, "end") @@ [ip |-> None])
  /\ UNCHANGED <<used, ents, lock, user, rest, stray>>

(* writei of block o of an inode with contents c.  There may be no block   *)
(* for it, or the bytes may not be readable (ok).                          *)
writei(c, u, o, ok) ==
  LET b == bmap(c, u, o)
      done == b.ok /\ ok IN
  IF o > c.size \/ o + 1 > MAXFILE THEN [ok |-> FALSE, c |-> c, used |-> u]
  ELSE [ok |-> done, used |-> b.used,
        c |-> [b.c EXCEPT !.size = IF done /\ o + 1 > @ THEN o + 1 ELSE @]]

(* filewrite appends or overwrites a block at the offset of the descriptor *)
(* (a longer write is cut into such transactions).                         *)
filewrite(p, ok) ==
  LET i == ofile[p]
      c == InCore(i)
      w == writei(c, used, off[p], ok) IN
  /\ At(p, "write") /\ CanLock(i)
  /\ Core(i :> w.c, {}) /\ used' = w.used
  /\ di' = (IF w.c = c THEN di ELSE iupdate(i :> w.c))
  /\ off' = [off EXCEPT ![p] = IF w.ok THEN @ + 1 ELSE @]
  /\ Go(p, [pc |-> "end"])
  /\ UNCHANGED <<ents, lock, cwd, ofile, rest, stray>>

(* readi finds the block of unit o by bmap; fileread takes no transaction, *)
(* so bmap must not have to allocate it.                                   *)
readi(c, o) == c.addrs[2 * (IF c.type = "dir" THEN o \div EPB ELSE o)]

fileread(p) ==
  LET i == ofile[p]
      c == InCore(i) IN
  /\ At(p, "idle") /\ i # None /\ CanLock(i) /\ c.type # "dev"
  /\ IF off[p] < c.size /\ readi(c, off[p]) = None
     THEN Panic("log_write outside of trans")
     ELSE /\ Core(i :> c, {})
          /\ off' = [off EXCEPT ![p] = IF @ < c.size THEN @ + 1 ELSE @]
          /\ UNCHANGED <<disk, lock, cwd, ofile, L, rest, stray>>

filestat(p) ==
  LET i == ofile[p] IN
  /\ At(p, "idle") /\ i # None /\ CanLock(i)
  /\ Core(i :> InCore(i), {})
  /\ UNCHANGED <<disk, lock, user, L, rest, stray>>

(* sys_write and sys_close start a transaction. *)
Write(p) ==
  /\ At(p, "idle") /\ calls < MaxCalls /\ calls' = calls + 1 /\ ofile[p] # None /\ InCore(ofile[p]).type = "file"
  /\ Go(p, [pc |-> "write", op |-> "write"])
  /\ UNCHANGED <<disk, core, lock, user, stable, crashes, panic, stray>>

close(p) ==
  /\ At(p, "idle") /\ calls < MaxCalls /\ calls' = calls + 1 /\ ofile[p] # None
  /\ ofile' = [ofile EXCEPT ![p] = None] /\ off' = [off EXCEPT ![p] = 0]
  /\ Go(p, Put(ofile[p], "end") @@ [op |-> "close"])
  /\ UNCHANGED <<disk, core, lock, cwd, stable, crashes, panic, stray>>

(* end_op: the log commits when no call is outstanding. *)
end_op(p) ==
  /\ At(p, "end") \/ At(p, "chdir2")
  /\ stable' = IF \A q \in Procs \ {p} : L[q].pc = "idle"
               THEN [di |-> di, used |-> used, ents |-> ents] ELSE stable
  /\ cwd' = [cwd EXCEPT ![p] = IF L[p].pc = "chdir2" THEN L[p].ip ELSE @]
  /\ L' = [L EXCEPT ![p] = Idle]
  /\ UNCHANGED <<disk, core, lock, ofile, off, crashes, calls, stray, panic>>

(* The machine stops and starts again (and what may be called then is what *)
(* may be called on a disk of Images).                                     *)
Crash ==
  /\ crashes < MaxCrashes
  /\ crashes' = crashes + 1
  /\ di' = stable.di /\ used' = stable.used /\ ents' = stable.ents
  /\ Booted
  /\ panic' = "none"
  /\ calls' = MaxCalls
  /\ UNCHANGED <<stable, stray>>

Step(p) ==
  \/ namex(p) \/ NoName(p) \/ iput(p) \/ FreeInode(p) \/ Invalidate(p) \/ IputDone(p)
  \/ IlockPanics(p) \/ create(p) \/ iget(p) \/ MkInode(p) \/ MkDone(p) \/ UnlockDp(p)
  \/ unlink(p) \/ EraseEntry(p) \/ DropLink(p)
  \/ \E ok, rdonly, trunc \in BOOLEAN : open(p, ok, rdonly, trunc)
  \/ \E ok \in BOOLEAN : OpenNew(p, ok) \/ filewrite(p, ok)
  \/ chdir(p) \/ link(p) \/ LinkNew(p) \/ LinkFound(p) \/ LinkUnlock(p) \/ LinkEntry(p) \/ LinkDone(p) \/ LinkBad(p)
  \/ end_op(p)

Call(p) ==
  \/ \E c \in Calls : Begin(p, c.op, c.path, c.new)
  \/ Write(p) \/ fileread(p) \/ filestat(p) \/ close(p)

Next == Crash \/ \E p \in Procs : Step(p) \/ Call(p)

Spec == Init /\ [][Next]_vars
-----------------------------------------------------------------------------
(* Every reference to an inode is counted: those of the current            *)
(* directories, of open files, and of the calls in progress.               *)
RefsCounted ==
  \A i \in Inum :
    ref[i] = Cardinality({p \in Procs : cwd[p] = i /\ L[p].pc # "chdir2"})
             + Cardinality({p \in Procs : ofile[p] = i})
             + Cardinality({p \in Procs : L[p].n = i /\ L[p].pc # "iget"})
             + Cardinality({p \in Procs : L[p].ip = i})
             + Cardinality({p \in Procs : L[p].dp = i})
             + Cardinality({p \in Procs : L[p].x = i /\ L[p].then # "chdir2"})

(* The copy of an inode in memory is that on disk whenever its lock is     *)
(* free: whoever changes the one has changed the other before it unlocks.  *)
CopiesAgree == \A i \in Inum : ref[i] > 0 /\ valid[i] /\ lock[i] = NoProc => mi[i] = di[i]

(* A block is in use just when an inode has it, and no two have the same,  *)
(* whichever allocations failed halfway.                                   *)
BlocksOwned ==
  /\ used = UNION {BlocksOf(di[i]) : i \in Inum}
  /\ \A i, j \in Inum : i # j => BlocksOf(di[i]) \cap BlocksOf(di[j]) = {}

(* The directories that can be reached from the root by names. *)
Names(s) == {n \in 1 .. Len(s) : s[n].inum # None /\ s[n].name \notin {".", ".."}}
Reached ==
  LET R[n \in 0 .. NInodes] ==
        IF n = 0 THEN {ROOTINO}
        ELSE UNION {{i} \cup {ents[i][k].inum : k \in Names(ents[i])} : i \in R[n - 1]}
  IN  R[NInodes]

(* An entry of a directory that can be reached refers to an inode in use:  *)
(* unlink, link and create in any order never leave a name for an inode    *)
(* that was freed, nor a directory whose parent is gone.                   *)
NoDangling ==
  \A i \in Reached : \A n \in 1 .. Len(ents[i]) :
    ents[i][n].inum # None => di[ents[i][n].inum].type # "free"

(* What is committed counts its links: nlink is the number of entries for  *)
(* the inode, with that of a directory in itself left out, and those of    *)
(* directories that were removed - until a call makes an entry in a        *)
(* directory after it was removed.                                         *)
Links(d, e, i) ==
  Cardinality({x \in Inum \X (1 .. 2 * EPB) :
                 /\ d[x[1]].type = "dir" /\ d[x[1]].nlink > 0 /\ x[2] <= Len(e[x[1]])
                 /\ e[x[1]][x[2]].inum = i /\ e[x[1]][x[2]].name # "."})
LinksCounted ==
  ~stray => \A i \in Inum : stable.di[i].type # "free" =>
                stable.di[i].nlink = Links(stable.di, stable.ents, i)

(* The calls never wait for each other in a circle, nor for themselves. *)
WaitsFor(p, q) == Target(p) # None /\ lock[Target(p)] = q
NoDeadlock ==
  \A S \in SUBSET Procs \ {{}} : \E p \in S : \A q \in S : ~WaitsFor(p, q)

(* No assertion fails, unless a call has used a directory after it was     *)
(* removed: its entry .. is not counted, and may be for an inode that was  *)
(* freed, at which ilock panics.                                           *)
NoPanic == panic = "none" \/ (stray /\ panic = "ilock: no type")
=============================================================================
