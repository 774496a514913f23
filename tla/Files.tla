------------------------------- MODULE Files --------------------------------
(***************************************************************************)
(* The file table of kernel/file.c, the descriptors of each process in     *)
(* kernel/sysfile.c, and the pipes of kernel/pipe.c behind them.           *)
(*                                                                         *)
(* A section under ftable.lock is one step.  One under pi->lock is a step  *)
(* for each test of p->killed in it, because kill needs only p->lock: a    *)
(* pipewrite takes a step per byte, and a process may be killed between    *)
(* the test and the sleep.  A process that is killed exits on its way back *)
(* to user space (trap.c).  nread and nwrite are counted modulo 2^W.       *)
(***************************************************************************)
EXTENDS Naturals, Sequences, FiniteSets

CONSTANTS
  Procs,
  NFILE,
  NOFILE,
  Pipes,      \* the pages that kalloc can give to pipes
  NoPipe,
  Val,
  PIPESIZE,
  W,          \* the width of nread and nwrite
  Counts      \* what n can be in a read or write

ASSUME FilesAssumption ==
  /\ IsFiniteSet(Procs) /\ NFILE \in Nat /\ NOFILE \in Nat
  /\ PIPESIZE \in Nat \ {0} /\ 2 ^ W \in Nat /\ PIPESIZE < 2 ^ W /\ (2 ^ W) % PIPESIZE = 0
  /\ NoPipe \notin Pipes /\ Val # {} /\ Counts \subseteq Nat

File == 1 .. NFILE
NoFile == 0
Fd == 0 .. NOFILE - 1

VARIABLES
  ref, type, wr, fpipe,   \* struct file: ref, type, writable, pipe
  ofile,                  \* p->ofile
  pi,                     \* the pipes
  mem,                    \* the pages that are in use as pipes
  plock,                  \* who holds pi->lock between two steps
  killed,
  pc,
  file,                   \* the file of the read or write in progress
  left,                   \* how many bytes it has still to transfer
  todo,                   \* the files to pass to fileclose
  exiting,                \* fileclose is called by exit
  ff,                     \* the copy of the file that fileclose makes
  stranded,               \* bytes of a killed writer for which no wakeup came
  panic

ftable == <<ref, type, wr, fpipe>>
pipes == <<pi, mem, plock, stranded>>
call == <<pc, file, left, todo, exiting, ff>>
vars == <<ftable, ofile, pipes, killed, call, panic>>

Blank == [readopen |-> FALSE, writeopen |-> FALSE, nread |-> 0, nwrite |-> 0,
          data |-> [i \in 0 .. PIPESIZE - 1 |-> CHOOSE v \in Val : TRUE]]
NoFF == [pipe |-> NoPipe, writable |-> FALSE]
Nobody == 0
ASSUME NobodyAssumption == Nobody \notin Procs

Init ==
  /\ ref = [f \in File |-> 0] /\ type = [f \in File |-> "none"]
  /\ wr = [f \in File |-> FALSE] /\ fpipe = [f \in File |-> NoPipe]
  /\ ofile = [p \in Procs |-> [d \in Fd |-> NoFile]]
  /\ pi = [g \in Pipes |-> Blank] /\ mem = {} /\ plock = [g \in Pipes |-> Nobody]
  /\ stranded = [g \in Pipes |-> FALSE]
  /\ killed = [p \in Procs |-> FALSE]
  /\ \E p \in Procs : pc = [q \in Procs |-> IF q = p THEN "user" ELSE "unused"]
  /\ file = [p \in Procs |-> NoFile] /\ left = [p \in Procs |-> 0]
  /\ todo = [p \in Procs |-> <<>>] /\ exiting = [p \in Procs |-> FALSE] /\ ff = [p \in Procs |-> NoFF]
  /\ panic = "none"

Is(p, l) == pc[p] = l /\ panic = "none"
User(p) == Is(p, "user") /\ ~killed[p]
Goto(p, l) == pc' = [pc EXCEPT ![p] = l]

(* filealloc: the first file without references. *)
FreeFiles == {f \in File : ref[f] = 0}
FirstFree == CHOOSE f \in FreeFiles : \A g \in FreeFiles : f <= g

(* fdalloc: the lowest descriptor that is free. *)
FreeFds(p) == {d \in Fd : ofile[p][d] = NoFile}
Lowest(S) == CHOOSE d \in S : \A e \in S : d <= e

(* sys_pipe: pipealloc takes two files and a page; todo holds the files    *)
(* it has, which are closed when something is missing.                     *)
filealloc(p) ==
  /\ \/ User(p) /\ todo[p] = <<>>
     \/ Is(p, "pipealloc")
  /\ IF FreeFiles = {}
     THEN Goto(p, IF todo[p] = <<>> THEN "user" ELSE "fileclose") /\ UNCHANGED <<ref, todo>>
     ELSE /\ ref' = [ref EXCEPT ![FirstFree] = 1]
          /\ todo' = [todo EXCEPT ![p] = Append(@, FirstFree)]
          /\ Goto(p, IF todo[p] = <<>> THEN "pipealloc" ELSE "kalloc")
  /\ UNCHANGED <<type, wr, fpipe, ofile, pipes, killed, file, left, exiting, ff, panic>>

(* kalloc may fail; with a page the pipe is set up, the files get their    *)
(* descriptors and the numbers of these are copied out, which may fail.    *)
pipealloc(p, g) ==
  LET r == todo[p][1]
      w == todo[p][2] IN
  /\ Is(p, "kalloc") /\ g \notin mem
  /\ mem' = mem \cup {g}
  /\ pi' = [pi EXCEPT ![g] = [Blank EXCEPT !.readopen = TRUE, !.writeopen = TRUE]]
  /\ type' = [type EXCEPT ![r] = "pipe", ![w] = "pipe"]
  /\ wr' = [wr EXCEPT ![r] = FALSE, ![w] = TRUE]
  /\ fpipe' = [fpipe EXCEPT ![r] = g, ![w] = g]
  /\ \/ LET d == Lowest(FreeFds(p))
            e == Lowest(FreeFds(p) \ {d}) IN
        /\ Cardinality(FreeFds(p)) >= 2
        /\ ofile' = [ofile EXCEPT ![p][d] = r, ![p][e] = w]
        /\ todo' = [todo EXCEPT ![p] = <<>>]
        /\ Goto(p, "user")
     \/ Goto(p, "fileclose") /\ UNCHANGED <<ofile, todo>>
  /\ UNCHANGED <<ref, plock, stranded, killed, file, left, exiting, ff, panic>>

NoPage(p) ==
  /\ Is(p, "kalloc")
  /\ Goto(p, "fileclose")
  /\ UNCHANGED <<ftable, ofile, pipes, killed, file, left, todo, exiting, ff, panic>>

sys_dup(p, d) ==
  LET f == ofile[p][d] IN
  /\ User(p) /\ f # NoFile /\ FreeFds(p) # {}
  /\ ofile' = [ofile EXCEPT ![p][Lowest(FreeFds(p))] = f]
  /\ IF ref[f] < 1 THEN panic' = "filedup" /\ UNCHANGED ref
                   ELSE ref' = [ref EXCEPT ![f] = @ + 1] /\ UNCHANGED panic
  /\ UNCHANGED <<type, wr, fpipe, pipes, killed, call>>

sys_close(p, d) ==
  /\ User(p) /\ ofile[p][d] # NoFile
  /\ ofile' = [ofile EXCEPT ![p][d] = NoFile]
  /\ todo' = [todo EXCEPT ![p] = <<ofile[p][d]>>]
  /\ Goto(p, "fileclose")
  /\ UNCHANGED <<ftable, pipes, killed, file, left, exiting, ff, panic>>

(* fork copies the descriptors.  The parent's references keep the files    *)
(* open meanwhile, and the child does not run yet.                         *)
DupsOnce(p, f) == IF \E d \in Fd : ofile[p][d] = f THEN 1 ELSE 0
Dups(p, f) == Cardinality({d \in Fd : ofile[p][d] = f})

fork(p, q) ==
  /\ User(p) /\ pc[q] = "unused"
  /\ ofile' = [ofile EXCEPT ![q] = ofile[p]]
  /\ IF \E f \in File : Dups(p, f) > 0 /\ ref[f] < 1
     THEN panic' = "filedup" /\ UNCHANGED ref
     ELSE ref' = [f \in File |-> ref[f] + Dups(p, f)] /\ UNCHANGED panic
  /\ Goto(q, "user")
  /\ UNCHANGED <<type, wr, fpipe, pipes, killed, file, left, todo, exiting, ff>>

(* exit, of a process that asks for it or was killed, closes the           *)
(* descriptors one by one; it does not look at p->killed again.            *)
exit(p) ==
  LET Open == Fd \ FreeFds(p)
      d == Lowest(Open) IN
  /\ Is(p, "user") \/ Is(p, "exit")
  /\ exiting' = [exiting EXCEPT ![p] = Open # {}]
  /\ killed' = [killed EXCEPT ![p] = FALSE]
  /\ IF Open = {}
     THEN Goto(p, "unused") /\ UNCHANGED <<ofile, todo>>
     ELSE /\ todo' = [todo EXCEPT ![p] = <<ofile[p][d]>>]
          /\ ofile' = [ofile EXCEPT ![p][d] = NoFile]
          /\ Goto(p, "fileclose")
  /\ UNCHANGED <<ftable, pipes, file, left, ff, panic>>

(* Where p goes on when the files s are still to be closed. *)
After(p, s) == IF s # <<>> THEN "fileclose" ELSE IF exiting[p] THEN "exit" ELSE "user"

(* fileclose.  What a file without references holds is never looked at,    *)
(* and is blank here.                                                      *)
fileclose(p) ==
  LET f == Head(todo[p])
      last == ref[f] = 1
      topipe == last /\ type[f] = "pipe" IN
  /\ Is(p, "fileclose")
  /\ IF ref[f] < 1
     THEN panic' = "fileclose" /\ UNCHANGED <<ftable, pc, todo, ff>>
     ELSE /\ ref' = [ref EXCEPT ![f] = @ - 1]
          /\ type' = [type EXCEPT ![f] = IF last THEN "none" ELSE @]
          /\ fpipe' = [fpipe EXCEPT ![f] = IF last THEN NoPipe ELSE @]
          /\ wr' = [wr EXCEPT ![f] = @ /\ ~last]
          /\ ff' = [ff EXCEPT ![p] = IF topipe THEN [pipe |-> fpipe[f], writable |-> wr[f]] ELSE NoFF]
          /\ todo' = [todo EXCEPT ![p] = Tail(@)]
          /\ Goto(p, IF topipe THEN "pipeclose" ELSE After(p, Tail(todo[p])))
          /\ UNCHANGED panic
  /\ UNCHANGED <<ofile, pipes, killed, file, left, exiting>>

(* wakeup(&pi->nread) and wakeup(&pi->nwrite). *)
Woken(g, l, m) == [q \in Procs |-> IF pc[q] = l /\ fpipe[file[q]] = g THEN m ELSE pc[q]]
WokenReaders(g) == Woken(g, "read asleep", "read")
WokenNoWriters(g) == pc
WokenWriters(g) == Woken(g, "write asleep", "write")
Unlocked(g, p) == plock[g] \in {Nobody, p}

(* Nobody uses the pipe c any more. *)
GoneWithOne(c) == ~c.readopen \/ ~c.writeopen
Gone(c) == ~c.readopen /\ ~c.writeopen

pipeclose(p) ==
  LET g == ff[p].pipe
      w == ff[p].writable
      c == [pi[g] EXCEPT !.readopen = @ /\ w, !.writeopen = @ /\ ~w] IN
  /\ Is(p, "pipeclose") /\ Unlocked(g, p)
  /\ pi' = [pi EXCEPT ![g] = IF Gone(c) THEN Blank ELSE c]
  /\ mem' = IF Gone(c) THEN mem \ {g} ELSE mem
  /\ stranded' = [stranded EXCEPT ![g] = @ /\ ~w]
  /\ pc' = [(IF w THEN WokenReaders(g) ELSE WokenWriters(g)) EXCEPT ![p] = After(p, todo[p])]
  /\ ff' = [ff EXCEPT ![p] = NoFF]
  /\ UNCHANGED <<ftable, ofile, plock, killed, file, left, todo, exiting, panic>>

(* sys_read and sys_write: argfd, the test of readable or writable (a file *)
(* of a pipe is one or the other), and the type of the file.               *)
CallRw(p, d, n, w) ==
  LET f == ofile[p][d] IN
  /\ User(p) /\ f # NoFile /\ wr[f] = w
  /\ IF type[f] # "pipe"
     THEN panic' = (IF w THEN "filewrite" ELSE "fileread") /\ UNCHANGED <<pc, file, left>>
     ELSE /\ Goto(p, IF w THEN "write" ELSE "read")
          /\ file' = [file EXCEPT ![p] = f] /\ left' = [left EXCEPT ![p] = n]
          /\ UNCHANGED panic
  /\ UNCHANGED <<ftable, ofile, pipes, killed, todo, exiting, ff>>

Content(c) == [i \in 1 .. (c.nwrite - c.nread + 2 ^ W) % 2 ^ W |->
                 c.data[((c.nread + i - 1) % 2 ^ W) % PIPESIZE]]
IsEmpty(c) == c.nread = c.nwrite
IsFullLate(c) == c.nwrite = (c.nread + PIPESIZE + 1) % 2 ^ W
IsFull(c) == c.nwrite = (c.nread + PIPESIZE) % 2 ^ W
Less(a, b) == IF a < b THEN a ELSE b

Return(p) ==
  /\ file' = [file EXCEPT ![p] = NoFile] /\ left' = [left EXCEPT ![p] = 0]
  /\ UNCHANGED <<ftable, ofile, killed, todo, exiting, ff, panic>>

(* piperead waits, unless p was killed, while the pipe is empty and has    *)
(* writers.                                                                *)
ReadWait(p) ==
  LET g == fpipe[file[p]] IN
  /\ Is(p, "read") /\ Unlocked(g, p) /\ IsEmpty(pi[g]) /\ pi[g].writeopen
  /\ IF killed[p]
     THEN Goto(p, "user") /\ Return(p) /\ UNCHANGED pipes
     ELSE /\ Goto(p, "read sleep") /\ plock' = [plock EXCEPT ![g] = p]
          /\ UNCHANGED <<ftable, ofile, pi, mem, stranded, killed, file, left, todo, exiting, ff, panic>>

(* sleep, which releases pi->lock. *)
Sleep(p) ==
  /\ pc[p] \in {"read sleep", "write sleep"} /\ panic = "none"
  /\ Goto(p, IF pc[p] = "read sleep" THEN "read asleep" ELSE "write asleep")
  /\ plock' = [plock EXCEPT ![fpipe[file[p]]] = Nobody]
  /\ UNCHANGED <<ftable, ofile, pi, mem, stranded, killed, file, left, todo, exiting, ff, panic>>

(* piperead takes what there is, up to n bytes; when copyout fails it has  *)
(* taken the byte that could not be delivered and stops.                   *)
piperead(p, ok) ==
  LET g == fpipe[file[p]]
      c == pi[g]
      k == Less(IF ok THEN left[p] ELSE Less(left[p], 1), Len(Content(c))) IN
  /\ Is(p, "read") /\ Unlocked(g, p) /\ ~(IsEmpty(c) /\ c.writeopen)
  /\ pi' = [pi EXCEPT ![g].nread = (@ + k) % 2 ^ W]
  /\ pc' = [WokenWriters(g) EXCEPT ![p] = "user"]
  /\ Return(p)
  /\ UNCHANGED <<mem, plock, stranded>>

(* One pass of the loop of pipewrite: the reader is gone or p was killed,  *)
(* the pipe is full, or the next byte v goes in.  ok says that copyin can  *)
(* fetch it.                                                               *)
pipewrite(p, v, ok) ==
  LET g == fpipe[file[p]]
      c == pi[g] IN
  /\ Is(p, "write") /\ Unlocked(g, p) /\ left[p] > 0
  /\ IF ~c.readopen \/ killed[p]
     THEN /\ Goto(p, "user") /\ Return(p)
          /\ plock' = [plock EXCEPT ![g] = Nobody]
          /\ stranded' = [stranded EXCEPT ![g] = @ \/ plock[g] = p]
          /\ UNCHANGED <<pi, mem>>
     ELSE IF IsFull(c)
     THEN /\ pc' = [WokenReaders(g) EXCEPT ![p] = "write sleep"]
          /\ plock' = [plock EXCEPT ![g] = p]
          /\ stranded' = [stranded EXCEPT ![g] = FALSE]
          /\ UNCHANGED <<ftable, ofile, pi, mem, killed, file, left, todo, exiting, ff, panic>>
     ELSE IF ~ok
     THEN /\ pc' = [WokenReaders(g) EXCEPT ![p] = "user"] /\ Return(p)
          /\ plock' = [plock EXCEPT ![g] = Nobody]
          /\ stranded' = [stranded EXCEPT ![g] = FALSE]
          /\ UNCHANGED <<pi, mem>>
     ELSE /\ pi' = [pi EXCEPT ![g].data[c.nwrite % PIPESIZE] = v,
                              ![g].nwrite = (@ + 1) % 2 ^ W]
          /\ left' = [left EXCEPT ![p] = @ - 1]
          /\ plock' = [plock EXCEPT ![g] = p]
          /\ UNCHANGED <<ftable, ofile, mem, stranded, killed, pc, file, todo, exiting, ff, panic>>

(* The loop of pipewrite ends. *)
WriteDone(p) ==
  LET g == fpipe[file[p]] IN
  /\ Is(p, "write") /\ Unlocked(g, p) /\ left[p] = 0
  /\ pc' = [WokenReaders(g) EXCEPT ![p] = "user"] /\ Return(p)
  /\ plock' = [plock EXCEPT ![g] = Nobody]
  /\ stranded' = [stranded EXCEPT ![g] = FALSE]
  /\ UNCHANGED <<pi, mem>>

(* kill by somebody else. *)
kill(p) ==
  /\ pc[p] # "unused" /\ ~exiting[p] /\ ~killed[p] /\ panic = "none"
  /\ killed' = [killed EXCEPT ![p] = TRUE]
  /\ pc' = [pc EXCEPT ![p] = IF @ = "read asleep" THEN "read"
                             ELSE IF @ = "write asleep" THEN "write" ELSE @]
  /\ UNCHANGED <<ftable, ofile, pipes, file, left, todo, exiting, ff, panic>>

Next ==
  \E p \in Procs :
    \/ filealloc(p) \/ NoPage(p) \/ fileclose(p) \/ pipeclose(p) \/ exit(p) \/ kill(p)
    \/ \E g \in Pipes : pipealloc(p, g)
    \/ \E d \in Fd : sys_dup(p, d) \/ sys_close(p, d)
    \/ \E d \in Fd, n \in Counts, w \in BOOLEAN : CallRw(p, d, n, w)
    \/ \E q \in Procs : fork(p, q)
    \/ ReadWait(p) \/ Sleep(p) \/ WriteDone(p)
    \/ \E ok \in BOOLEAN : piperead(p, ok) \/ \E v \in Val : pipewrite(p, v, ok)

Spec == Init /\ [][Next]_vars
-----------------------------------------------------------------------------
(* Every reference to a file is counted: those of the descriptors of all   *)
(* processes, and those of a pipe that is being set up or closed; so no    *)
(* assertion of filedup, fileclose, fileread or filewrite fails.           *)
RefsCounted ==
  /\ panic = "none"
  /\ \A f \in File :
       ref[f] = Cardinality({x \in Procs \X Fd : ofile[x[1]][x[2]] = f})
               + Cardinality({x \in Procs \X {1, 2} : x[2] <= Len(todo[x[1]]) /\ todo[x[1]][x[2]] = f})

(* An end of a pipe counts as open just as long as a file refers to it or  *)
(* its close is under way, and the page of a pipe is in use just as long   *)
(* as one of its ends is: no pipe is freed under a process that uses it,   *)
(* none is leaked, and no reader waits for writers that are gone.          *)
Holds(g, w) ==
  \/ \E f \in File : type[f] = "pipe" /\ fpipe[f] = g /\ wr[f] = w
  \/ \E p \in Procs : ff[p] = [pipe |-> g, writable |-> w]
EndsOpen ==
  \A g \in Pipes :
    /\ pi[g].readopen <=> Holds(g, FALSE)
    /\ pi[g].writeopen <=> Holds(g, TRUE)
    /\ g \in mem <=> pi[g].readopen \/ pi[g].writeopen

(* A writer sleeps only while the pipe is full and somebody can read it,   *)
(* and a reader only while somebody can write it and it is empty, or a     *)
(* writer still has the lock - unless a writer was killed after it had put *)
(* in bytes: pipewrite then returns without the wakeup.                    *)
NoLostWakeup ==
  \A p \in Procs :
    LET g == fpipe[file[p]] IN
    /\ pc[p] = "write asleep" => IsFull(pi[g]) /\ pi[g].readopen
    /\ pc[p] = "read asleep" => pi[g].writeopen /\ (IsEmpty(pi[g]) \/ stranded[g] \/ plock[g] # Nobody)

F == INSTANCE Fifo WITH
       open <- [g \in Pipes |-> {e \in {"r", "w"} : IF e = "r" THEN pi[g].readopen ELSE pi[g].writeopen}],
       queue <- [g \in Pipes |-> Content(pi[g])]

(* A pipe implements the bounded queue, also when its counters wrap        *)
(* around: no byte is overwritten, skipped or delivered twice.             *)
IsFifo == F!Spec
=============================================================================
