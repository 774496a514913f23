---------------------------- MODULE FilesProofs -----------------------------
(***************************************************************************)
(* The files and pipes of module Files, for any number of processes, files *)
(* and pipes, any size of a pipe and any width of its counters: references *)
(* are counted, an end of a pipe is open just as long as it is held, no    *)
(* sleeper is forgotten, and a pipe is the queue of module Fifo.  Module   *)
(* PipeProofs has the inductive invariant and the steps on a pipe; here    *)
(* are the steps that move references, and the theorems.                   *)
(***************************************************************************)
EXTENDS PipeProofs

USE Zenon

-----------------------------------------------------------------------------
(* Each step of the file table and of the descriptors. *)

LEMMA Step_pipealloc ==
  ASSUME SetFacts, IInv, NEW p \in Procs, NEW g \in Pipes, pipealloc(p, g)
  PROVE  IInv'
  <1> DEFINE r == todo[p][1]
             w == todo[p][2]
  <1>1. Made(p, g, r, w) /\ Given(p, r, w)
    BY MadePipe, GivenFiles
  <1>2. \A i \in Slot : \A q \in Procs, j \in Slot :
          j <= Len(todo[q]) /\ todo[q][j] = todo[p][i] => q = p
    <2>1. ASSUME NEW i \in Slot, NEW q \in Procs, NEW j \in Slot, j <= Len(todo[q]), todo[q][j] = todo[p][i]
          PROVE  q = p
      <3>1. i <= Len(todo[p]) /\ ref[todo[p][i]] = 1
        BY SMT, <1>1 DEF Made, Slot
      <3> QED BY <2>1, <3>1, ToDoOnce
    <2> QED BY <2>1
  <1>3. \A q \in Procs, j \in Slot : j <= Len(todo[q]) /\ q # p => todo[q][j] # r /\ todo[q][j] # w
    <2>1. 1 \in Slot /\ 2 \in Slot
      BY SMT DEF Slot
    <2> QED BY <1>2, <2>1
  <1> HIDE DEF r, w
  <1>4. PipeTypes' /\ EndInv' /\ EndsOpen' /\ RingInv'
    BY MadeEnds
  <1>5. /\ UNCHANGED <<ref, plock, stranded, killed, file, left, exiting, ff, panic>>
        /\ type' \in [File -> {"none", "pipe"}] /\ wr' \in [File -> BOOLEAN]
        /\ fpipe' \in [File -> Pipes \cup {NoPipe}] /\ pc[p] = "kalloc"
    BY <1>1 DEF Made
  <1>6. /\ ofile' \in [Procs -> [Fd -> File \cup {NoFile}]] /\ todo' \in [Procs -> Seq(File)]
        /\ pc' \in [Procs -> Labels]
    BY <1>1 DEF Given
  <1>7. FileTypes' /\ CallTypes'
    BY <1>5, <1>6 DEF IInv, Types, FileTypes, CallTypes
  <1>8. \A q \in Procs : q # p => ofile'[q] = ofile[q] /\ todo'[q] = todo[q] /\ pc'[q] = pc[q]
    BY <1>1 DEF Given
  <1>9. /\ r \in File /\ w \in File /\ ref[r] = 1 /\ ref[w] = 1 /\ type[r] = "none" /\ type[w] = "none"
        /\ type'[r] = "pipe" /\ type'[w] = "pipe"
        /\ fpipe'[r] = g /\ fpipe'[w] = g
        /\ \A f \in File : f # r /\ f # w => type'[f] = type[f] /\ wr'[f] = wr[f] /\ fpipe'[f] = fpipe[f]
    BY <1>1 DEF Made
  <1>10. pc'[p] \in {"user", "fileclose"} /\ Len(todo'[p]) \in ToDo(pc'[p])
    BY <1>1 DEF Given
  <1>11. pc'[p] \notin Rw /\ pc'[p] \notin Building /\ pc[p] \notin Rw /\ pc'[p] # "unused" /\ pc'[p] # "pipeclose"
         /\ pc[p] # "pipeclose" /\ pc'[p] # "kalloc"
    BY <1>5, <1>10 DEF Rw, Reading, Writing, Building
  <1>12. \A f \in File : type[f] = "pipe" => type'[f] = "pipe" /\ wr'[f] = wr[f] /\ fpipe'[f] = fpipe[f]
    BY SMT, <1>9
  <1>13. ASSUME NEW q \in Procs, pc[q] \in Rw
         PROVE  wr'[file[q]] = wr[file[q]] /\ fpipe'[file[q]] = fpipe[file[q]] /\ pi'[PipeOf(q)] = pi[PipeOf(q)]
    <2>1. file[q] \in File /\ type[file[q]] = "pipe" /\ PipeOf(q) \in Pipes
      BY <1>13, RwIs
    <2>2. PipeOf(q) # g
      <3>1. g \notin mem
        BY <1>1 DEF Made
      <3> QED BY <2>1, <3>1, Fresh DEF PipeOf
    <2>3. pi'[PipeOf(q)] = pi[PipeOf(q)]
      BY <1>1, <2>1, <2>2 DEF Made
    <2> QED BY <1>12, <2>1, <2>3
  <1>14. CallInv'
    <2>1. CallOk(p)'
      <3>1. ff'[p] = NoFF
        BY <1>5, <1>11 DEF IInv, CallInv, CallOk
      <3> QED BY <1>10, <1>11, <3>1 DEF CallOk, ToDo
    <2>2. ASSUME NEW q \in Procs, q # p PROVE CallOk(q)'
      <3>1. CallOk(q)
        BY DEF IInv, CallInv
      <3>2. /\ pc'[q] = pc[q] /\ todo'[q] = todo[q] /\ ofile'[q] = ofile[q] /\ ff'[q] = ff[q] /\ file'[q] = file[q]
        BY <1>5, <1>8, <2>2
      <3>3. pc[q] \in Rw => wr'[file[q]] = wr[file[q]]
        BY <1>13
      <3> QED BY <3>1, <3>2, <3>3, CallSame
    <2> QED BY <2>1, <2>2 DEF CallInv
  <1>15. RwInv'
    <2>1. ASSUME NEW q \in Procs, pc[q] \in Rw \/ pc'[q] \in Rw PROVE RwSame(q)
      <3>1. q # p
        BY <1>11, <2>1
      <3>2. pc'[q] = pc[q] /\ file'[q] = file[q]
        BY <1>5, <1>8, <3>1
      <3>3. pc[q] \in Rw
        BY <2>1, <3>2
      <3> QED BY <1>13, <3>2, <3>3 DEF RwSame
    <2>2. plock' = plock /\ stranded' = stranded
      BY <1>5
    <2> QED BY <2>1, <2>2, RwKept
  <1>16. RefsCounted'
    <2>1. RefsCounted
      BY DEF IInv
    <2>2. panic = "none"
          /\ \A f \in File : ref[f] = Cardinality(FdRefs(ofile, f)) + Cardinality(ToDoRefs(todo, f))
      BY <2>1, RefsAre
    <2>3. \A f \in File : Cardinality(FdRefs(ofile', f)) + Cardinality(ToDoRefs(todo', f))
                            = Cardinality(FdRefs(ofile, f)) + Cardinality(ToDoRefs(todo, f))
      BY <1>1 DEF Given
    <2>4. ref' = ref /\ panic' = panic
      BY <1>5
    <2>5. \A f \in File : ref'[f] = Cardinality(FdRefs(ofile', f)) + Cardinality(ToDoRefs(todo', f))
      BY <2>2, <2>3, <2>4
    <2> QED BY <2>2, <2>4, <2>5, RefsNext
  <1>17. TypeOk /\ FreeOk /\ FdOk /\ BuildOk /\ PairOk
    BY DEF IInv, FileInv
  <1>18. TypeOk'
    BY <1>9, <1>17 DEF TypeOk
  <1>19. FreeOk'
    <2>1. \A f \in File : f = r \/ f = w => ref[f] # 0
      BY SMT, <1>9
    <2> QED BY <1>5, <1>9, <1>17, <2>1 DEF FreeOk
  <1>20. FdOk'
    <2>1. ASSUME NEW q \in Procs, NEW d \in Fd, ofile'[q][d] # NoFile
          PROVE  type'[ofile'[q][d]] = "pipe"
      <3>1. CASE q # p \/ ofile'[q][d] = ofile[q][d]
        <4>1. ofile'[q][d] = ofile[q][d]
          BY <1>8, <3>1
        <4>2. ofile[q][d] \in File /\ type[ofile[q][d]] = "pipe"
          BY <2>1, <4>1, FdHasRef
        <4> QED BY <1>12, <4>1, <4>2
      <3>2. CASE ofile'[q][d] = r \/ ofile'[q][d] = w
        BY <1>9, <3>2
      <3>3. q = p => ofile'[q][d] = ofile[q][d] \/ ofile'[q][d] = r \/ ofile'[q][d] = w
        BY <1>1 DEF Given
      <3> QED BY <3>1, <3>2, <3>3
    <2> QED BY <2>1 DEF FdOk
  <1>21. BuildOk' /\ PairOk'
    <2>1. ASSUME NEW q \in Procs, pc'[q] \in Building, NEW i \in 1 .. Len(todo'[q])
          PROVE  ref'[todo'[q][i]] = 1 /\ type'[todo'[q][i]] = "none"
      <3>1. q # p
        BY <1>11, <2>1
      <3>2. pc[q] \in Building /\ todo'[q] = todo[q]
        BY <1>8, <2>1, <3>1
      <3>3. ref[todo[q][i]] = 1 /\ type[todo[q][i]] = "none"
        BY <1>17, <2>1, <3>2 DEF BuildOk
      <3>4. Len(todo[q]) \in {1, 2} /\ todo[q] \in Seq(File)
        <4>1. Len(todo[q]) \in ToDo(pc[q]) /\ todo[q] \in Seq(File)
          BY DEF IInv, CallInv, CallOk, Types, CallTypes
        <4> QED BY <3>2, <4>1 DEF ToDo, Building
      <3>5. i \in {1, 2} /\ i <= Len(todo[q]) /\ todo[q][i] \in File
        <4> DEFINE t == todo[q]
        <4>1. t \in Seq(File) /\ Len(t) \in {1, 2} /\ i \in 1 .. Len(t)
          BY <2>1, <3>2, <3>4
        <4> HIDE DEF t
        <4>2. i \in {1, 2} /\ i <= Len(t) /\ t[i] \in File
          BY SMT, <4>1
        <4> QED BY <4>2 DEF t
      <3>6. todo[q][i] # r /\ todo[q][i] # w
        BY <1>3, <3>1, <3>5 DEF Slot
      <3> QED BY <1>5, <1>9, <3>2, <3>3, <3>5, <3>6
    <2>2. BuildOk'
      BY <2>1 DEF BuildOk
    <2>3. PairOk'
      BY <1>8, <1>11, <1>17 DEF PairOk
    <2> QED BY SMT, <2>2, <2>3
  <1>22. FileInv'
    BY <1>18, <1>19, <1>20, <1>21 DEF FileInv
  <1> QED BY <1>4, <1>7, <1>14, <1>15, <1>16, <1>22 DEF IInv, Types, RwInv

LEMMA Step_dup ==
  ASSUME SetFacts, IInv, NEW p \in Procs, NEW d \in Fd, sys_dup(p, d)
  PROVE  IInv'
  <1> DEFINE h == ofile[p][d]
             e == Lowest(FreeFds(p))
  <1>1. /\ pc[p] = "user" /\ h # NoFile /\ FreeFds(p) # {} /\ ofile' = [ofile EXCEPT ![p][e] = h]
        /\ IF ref[h] < 1 THEN panic' = "filedup" /\ UNCHANGED ref
                         ELSE ref' = [ref EXCEPT ![h] = ref[h] + 1] /\ UNCHANGED panic
        /\ UNCHANGED <<type, wr, fpipe, pipes, killed, call>>
    BY SMT DEF sys_dup, User, Is
  <1>2. UNCHANGED <<type, wr, fpipe, pi, mem, plock, stranded, killed, pc, file, left, todo, exiting, ff>>
    BY SMT, <1>1 DEF pipes, call
  <1>3. h \in File /\ ref[h] \in Nat /\ ref[h] >= 1 /\ type[h] = "pipe"
    BY <1>1, FdHasRef
  <1>4. e \in Fd /\ ofile[p][e] = NoFile
    <2>1. FreeFds(p) \in SUBSET Fd
      BY DEF FreeFds
    <2>2. e \in FreeFds(p)
      BY <1>1, <2>1, LowestIn
    <2> QED BY <2>2 DEF FreeFds
  <1>5. ofile \in [Procs -> [Fd -> File \cup {NoFile}]] /\ ref \in [File -> Nat]
    BY DEF IInv, Types, FileTypes
  <1> HIDE DEF h, e
  <1>6. ref' = [ref EXCEPT ![h] = ref[h] + 1] /\ panic' = panic
    BY SMT, <1>1, <1>3
  <1>7. ref' \in [File -> Nat] /\ ref'[h] = ref[h] + 1 /\ \A f \in File : f # h => ref'[f] = ref[f]
    BY SMT, <1>3, <1>5, <1>6
  <1>8. /\ ofile' \in [Procs -> [Fd -> File \cup {NoFile}]] /\ ofile'[p][e] = h
        /\ \A q \in Procs : q # p => ofile'[q] = ofile[q]
        /\ \A x \in Fd : x # e => ofile'[p][x] = ofile[p][x]
    BY SMT, <1>1, <1>3, <1>4, <1>5
  <1>9. FileTypes' /\ CallTypes'
    BY <1>2, <1>7, <1>8 DEF IInv, Types, FileTypes, CallTypes
  <1>10. pc[p] \notin Rw /\ pc[p] # "unused"
    BY SMT, <1>1 DEF Rw, Reading, Writing
  <1>11. CallOk(p)'
    <2>1. CallOk(p)
      BY DEF IInv, CallInv
    <2> QED BY <1>2, <1>10, <2>1 DEF CallOk, ToDo
  <1>12. Quiet(p)
    BY <1>2, <1>8, <1>10 DEF Quiet
  <1>13. PipeTypes' /\ CallInv' /\ TypeOk' /\ EndInv' /\ EndsOpen' /\ RingInv' /\ RwInv'
    BY <1>11, <1>12, QuietStep
  <1>14. RefsCounted
    BY DEF IInv
  <1>15. RefsCounted'
    <2>1. ASSUME NEW f \in File
          PROVE  ref'[f] = Cardinality(FdRefs(ofile', f)) + Cardinality(ToDoRefs(todo, f))
      <3> DEFINE a == Cardinality(FdRefs(ofile, f))
                 b == Cardinality(ToDoRefs(todo, f))
                 c == Cardinality(FdRefs(ofile', f))
                 y == One(h = f)
      <3>1. ref[f] = a + b
        BY <1>14, RefsAre
      <3>2. b \in Nat
        BY FiniteRefs
      <3>3. c + One(ofile[p][e] = f) = a + y /\ a \in Nat /\ c \in Nat
        <4>1. /\ Cardinality(FdRefs([ofile EXCEPT ![p][e] = h], f)) + One(ofile[p][e] = f)
                   = Cardinality(FdRefs(ofile, f)) + One(h = f)
              /\ Cardinality(FdRefs(ofile, f)) \in Nat
              /\ Cardinality(FdRefs([ofile EXCEPT ![p][e] = h], f)) \in Nat
          BY <1>4, <1>5, FdSet
        <4>2. ofile' = [ofile EXCEPT ![p][e] = h]
          BY <1>1
        <4> QED BY <4>1, <4>2
      <3>4. One(ofile[p][e] = f) = 0
        BY SMT, <1>4, FdsAre DEF One
      <3>5. c + 0 = a + y
        BY <3>3, <3>4
      <3>6. ref'[f] = ref[f] + y /\ y \in Nat
        <4>1. ref[f] \in Nat
          BY <1>5
        <4>2. CASE f = h
          BY SMT, <1>3, <1>7, <4>2 DEF One
        <4>3. CASE f # h
          BY SMT, <1>7, <4>1, <4>3 DEF One
        <4> QED BY SMT, <4>2, <4>3
      <3> HIDE DEF a, b, c, y
      <3>7. ref'[f] = c + b
        BY SMT, <3>1, <3>2, <3>3, <3>5, <3>6
      <3> QED BY <3>7 DEF b, c
    <2>2. panic' = "none" /\ todo' = todo
      BY <1>2, <1>6, <1>14 DEF RefsCounted
    <2>3. \A f \in File : ref'[f] = Cardinality(FdRefs(ofile', f)) + Cardinality(ToDoRefs(todo', f))
      BY <2>1, <2>2
    <2> QED BY <2>2, <2>3, RefsNext
  <1>16. TypeOk /\ FreeOk /\ FdOk /\ BuildOk /\ PairOk
    BY DEF IInv, FileInv
  <1>17. FreeOk'
    <2>1. ref'[h] # 0
      BY SMT, <1>3, <1>7
    <2> QED BY <1>2, <1>7, <1>16, <2>1 DEF FreeOk
  <1>18. FdOk'
    <2>1. ASSUME NEW q \in Procs, NEW x \in Fd, ofile'[q][x] # NoFile
          PROVE  type[ofile'[q][x]] = "pipe"
      <3>1. CASE q = p /\ x = e
        BY <1>3, <1>8, <3>1
      <3>2. CASE ~(q = p /\ x = e)
        <4>1. ofile'[q][x] = ofile[q][x]
          BY <1>8, <3>2
        <4> QED BY <1>16, <2>1, <4>1 DEF FdOk
      <3> QED BY SMT, <3>1, <3>2
    <2>2. type' = type
      BY <1>2
    <2> QED BY <2>1, <2>2 DEF FdOk
  <1>19. BuildOk'
    <2>1. ASSUME NEW q \in Procs, pc[q] \in Building, NEW i \in 1 .. Len(todo[q])
          PROVE  ref'[todo[q][i]] = 1 /\ type[todo[q][i]] = "none"
      <3>1. ref[todo[q][i]] = 1 /\ type[todo[q][i]] = "none"
        BY <1>16, <2>1 DEF BuildOk
      <3>2. todo[q][i] # h
        BY SMT, <1>3, <3>1
      <3>3. todo[q] \in Seq(File)
        BY DEF IInv, Types, CallTypes
      <3>4. todo[q][i] \in File
        BY SMT, <2>1, <3>3
      <3> QED BY <1>7, <3>1, <3>2, <3>4
    <2>2. pc' = pc /\ todo' = todo /\ type' = type
      BY <1>2
    <2> QED BY <2>1, <2>2 DEF BuildOk
  <1>20. PairOk'
    BY <1>2, <1>16 DEF PairOk
  <1> QED BY <1>9, <1>13, <1>15, <1>17, <1>18, <1>19, <1>20 DEF IInv, Types, RwInv, FileInv

(* sys_close, and exit as long as a descriptor is open. *)
CloseFd(p, d) ==
  /\ pc[p] \in {"user", "exit"} /\ ofile[p][d] # NoFile
  /\ ofile' = [ofile EXCEPT ![p][d] = NoFile]
  /\ todo' = [todo EXCEPT ![p] = <<ofile[p][d]>>]
  /\ pc' = [pc EXCEPT ![p] = "fileclose"]
  /\ killed' \in [Procs -> BOOLEAN] /\ exiting' \in [Procs -> BOOLEAN]
  /\ UNCHANGED <<ref, type, wr, fpipe, pi, mem, plock, stranded, file, left, ff, panic>>

LEMMA CloseStep ==
  ASSUME SetFacts, IInv, NEW p \in Procs, NEW d \in Fd, CloseFd(p, d)
  PROVE  IInv'
  <1> DEFINE h == ofile[p][d]
             s == <<h>>
  <1>1. /\ pc[p] \in {"user", "exit"} /\ h # NoFile
        /\ ofile' = [ofile EXCEPT ![p][d] = NoFile]
        /\ todo' = [todo EXCEPT ![p] = s]
        /\ pc' = [pc EXCEPT ![p] = "fileclose"]
    BY DEF CloseFd
  <1>2. UNCHANGED <<ref, type, wr, fpipe, pi, mem, plock, stranded, file, left, ff, panic>>
    BY DEF CloseFd
  <1>3. h \in File
    BY <1>1, FdHasRef
  <1>4. /\ ofile \in [Procs -> [Fd -> File \cup {NoFile}]] /\ todo \in [Procs -> Seq(File)]
        /\ pc \in [Procs -> Labels]
    BY DEF IInv, Types, FileTypes, CallTypes
  <1>5. Len(todo[p]) = 0 /\ ff[p] = NoFF
    <2>1. pc[p] # "pipeclose" /\ ToDo(pc[p]) = {0}
      BY SMT, <1>1 DEF ToDo
    <2> QED BY <2>1 DEF IInv, CallInv, CallOk
  <1> HIDE DEF h
  <1>6. s \in Seq(File) /\ Len(s) = 1 /\ s[1] = h
    BY SMT, <1>3
  <1> HIDE DEF s
  <1>7. /\ ofile' \in [Procs -> [Fd -> File \cup {NoFile}]] /\ ofile'[p][d] = NoFile
        /\ \A q \in Procs : q # p => ofile'[q] = ofile[q]
        /\ \A x \in Fd : x # d => ofile'[p][x] = ofile[p][x]
    BY SMT, <1>1, <1>4
  <1>8. /\ todo' \in [Procs -> Seq(File)] /\ todo'[p] = s
        /\ \A q \in Procs : q # p => todo'[q] = todo[q]
    BY <1>1, <1>4, <1>6
  <1>9. /\ pc' \in [Procs -> Labels] /\ pc'[p] = "fileclose"
        /\ \A q \in Procs : q # p => pc'[q] = pc[q]
    <2>1. "fileclose" \in Labels
      BY SMT DEF Labels
    <2> QED BY <1>1, <1>4, <2>1
  <1>10. killed' \in [Procs -> BOOLEAN] /\ exiting' \in [Procs -> BOOLEAN]
    BY DEF CloseFd
  <1>11. FileTypes' /\ CallTypes'
    BY <1>2, <1>7, <1>8, <1>9, <1>10 DEF IInv, Types, FileTypes, CallTypes
  <1>12. pc[p] \notin Rw /\ pc'[p] \notin Rw /\ pc'[p] \notin Building /\ pc'[p] # "unused"
         /\ pc'[p] # "pipeclose" /\ pc'[p] # "kalloc" /\ 1 \in ToDo(pc'[p])
    BY <1>1, <1>9 DEF Rw, Reading, Writing, Building, ToDo
  <1>13. CallOk(p)'
    BY <1>2, <1>5, <1>6, <1>8, <1>12 DEF CallOk, ToDo
  <1>14. Quiet(p)
    BY <1>2, <1>7, <1>8, <1>9, <1>12 DEF Quiet
  <1>15. PipeTypes' /\ CallInv' /\ TypeOk' /\ EndInv' /\ EndsOpen' /\ RingInv' /\ RwInv'
    BY <1>13, <1>14, QuietStep
  <1>16. RefsCounted
    BY DEF IInv
  <1>17. RefsCounted'
    <2>1. ASSUME NEW f \in File
          PROVE  ref[f] = Cardinality(FdRefs(ofile', f)) + Cardinality(ToDoRefs(todo', f))
      <3> DEFINE a == Cardinality(FdRefs(ofile, f))
                 b == Cardinality(ToDoRefs(todo, f))
                 c == Cardinality(FdRefs(ofile', f))
                 t == Cardinality(ToDoRefs(todo', f))
                 y == One(h = f)
      <3>1. ref[f] = a + b
        BY <1>16, RefsAre
      <3>2. c + y = a + 0 /\ a \in Nat /\ c \in Nat
        <4>1. /\ Cardinality(FdRefs([ofile EXCEPT ![p][d] = NoFile], f)) + One(ofile[p][d] = f)
                   = Cardinality(FdRefs(ofile, f)) + One(NoFile = f)
              /\ Cardinality(FdRefs(ofile, f)) \in Nat
              /\ Cardinality(FdRefs([ofile EXCEPT ![p][d] = NoFile], f)) \in Nat
          BY <1>4, FdSet
        <4>2. ofile' = [ofile EXCEPT ![p][d] = NoFile]
          BY <1>1
        <4>3. One(NoFile = f) = 0
          BY SMT, FdsAre DEF One
        <4> QED BY <4>1, <4>2, <4>3 DEF h
      <3>3. t + 0 = b + y /\ b \in Nat /\ t \in Nat
        <4>1. /\ Cardinality(ToDoRefs([todo EXCEPT ![p] = s], f)) + Occurs(todo[p], f)
                   = Cardinality(ToDoRefs(todo, f)) + Occurs(s, f)
              /\ Cardinality(ToDoRefs(todo, f)) \in Nat
              /\ Cardinality(ToDoRefs([todo EXCEPT ![p] = s], f)) \in Nat
          BY <1>4, <1>6, ToDoSet
        <4>2. todo' = [todo EXCEPT ![p] = s]
          BY <1>1
        <4>3. Occurs(todo[p], f) = 0
          BY SMT, <1>5 DEF Occurs, One
        <4>4. Occurs(s, f) = One(h = f)
          BY SMT, <1>6 DEF Occurs, One
        <4> QED BY <4>1, <4>2, <4>3, <4>4
      <3>4. y \in Nat
        BY SMT DEF One
      <3> HIDE DEF a, b, c, t, y
      <3>5. ref[f] = c + t
        BY SMT, <3>1, <3>2, <3>3, <3>4
      <3> QED BY <3>5 DEF c, t
    <2>2. panic' = "none" /\ ref' = ref
      BY <1>2, <1>16 DEF RefsCounted
    <2>3. \A f \in File : ref'[f] = Cardinality(FdRefs(ofile', f)) + Cardinality(ToDoRefs(todo', f))
      BY <2>1, <2>2
    <2> QED BY <2>2, <2>3, RefsNext
  <1>18. TypeOk /\ FreeOk /\ FdOk /\ BuildOk /\ PairOk
    BY DEF IInv, FileInv
  <1>19. FreeOk'
    BY <1>2, <1>18 DEF FreeOk
  <1>20. FdOk'
    <2>1. ASSUME NEW q \in Procs, NEW x \in Fd, ofile'[q][x] # NoFile
          PROVE  type[ofile'[q][x]] = "pipe"
      <3>1. ofile'[q][x] = ofile[q][x]
        BY <1>7, <2>1
      <3> QED BY <1>18, <2>1, <3>1 DEF FdOk
    <2>2. type' = type
      BY <1>2
    <2> QED BY <2>1, <2>2 DEF FdOk
  <1>21. BuildOk' /\ PairOk'
    <2>1. ASSUME NEW q \in Procs, pc'[q] \in Building
          PROVE  pc'[q] = pc[q] /\ todo'[q] = todo[q]
      BY <1>8, <1>9, <1>12, <2>1
    <2>2. \A q \in Procs : pc'[q] = "kalloc" => pc[q] = "kalloc" /\ todo'[q] = todo[q]
      BY <1>8, <1>9, <1>12
    <2>3. ref' = ref /\ type' = type
      BY <1>2
    <2>4. BuildOk'
      <3>1. ASSUME NEW q \in Procs, pc'[q] \in Building, NEW i \in 1 .. Len(todo'[q])
            PROVE  ref'[todo'[q][i]] = 1 /\ type'[todo'[q][i]] = "none"
        <4>1. pc[q] \in Building /\ i \in 1 .. Len(todo[q]) /\ todo'[q] = todo[q]
          BY <2>1, <3>1
        <4> QED BY <1>18, <2>3, <4>1 DEF BuildOk
      <3> QED BY <3>1 DEF BuildOk
    <2>5. PairOk'
      BY <1>18, <2>2 DEF PairOk
    <2> QED BY SMT, <2>4, <2>5
  <1> QED BY <1>11, <1>15, <1>17, <1>19, <1>20, <1>21 DEF IInv, Types, RwInv, FileInv

LEMMA Step_filealloc == ASSUME SetFacts, IInv, NEW p \in Procs, filealloc(p) PROVE IInv'
  <1>1. CASE FreeFiles # {}
    BY <1>1, Allocate
  <1>2. CASE FreeFiles = {}
    <2>1. /\ pc' = [pc EXCEPT ![p] = IF todo[p] = <<>> THEN "user" ELSE "fileclose"] /\ UNCHANGED <<ref, todo>>
          /\ (pc[p] = "user" /\ todo[p] = <<>>) \/ pc[p] = "pipealloc"
          /\ UNCHANGED <<type, wr, fpipe, ofile, pipes, killed, file, left, exiting, ff, panic>>
      BY SMT, <1>2 DEF filealloc, Goto, User, Is
    <2>2. UNCHANGED <<ftable, ofile, pipes, killed, file, left, todo, exiting, ff, panic>>
      BY SMT, <2>1 DEF ftable
    <2>3. CASE pc[p] = "user" /\ todo[p] = <<>>
      <3>1. pc \in [Procs -> Labels]
        BY DEF IInv, Types, CallTypes
      <3>2. pc' = pc
        BY SMT, <2>1, <2>3, <3>1
      <3>3. UNCHANGED vars
        BY SMT, <2>2, <3>2 DEF vars, call
      <3> QED BY <3>3, Stutter
    <2>4. CASE pc[p] = "pipealloc"
      <3>1. Len(todo[p]) \in ToDo(pc[p]) /\ ToDo(pc[p]) = {1}
        <4>1. ToDo(pc[p]) = {1}
          BY SMT, <2>4 DEF ToDo
        <4> QED BY <4>1 DEF IInv, CallInv, CallOk
      <3>2. todo[p] # <<>>
        BY SMT, <3>1
      <3>3. pc' = [pc EXCEPT ![p] = "fileclose"] /\ pc[p] \in Building
        BY SMT, <2>1, <2>4, <3>2 DEF Building
      <3> QED BY <2>2, <3>3, GiveUp
    <2> QED BY <2>1, <2>3, <2>4
  <1> QED BY <1>1, <1>2

LEMMA Step_close == ASSUME SetFacts, IInv, NEW p \in Procs, NEW d \in Fd, sys_close(p, d) PROVE IInv'
  <1>1. killed \in [Procs -> BOOLEAN] /\ exiting \in [Procs -> BOOLEAN]
    BY DEF IInv, Types, CallTypes
  <1>2. /\ pc[p] \in {"user", "exit"} /\ ofile[p][d] # NoFile
        /\ ofile' = [ofile EXCEPT ![p][d] = NoFile]
        /\ todo' = [todo EXCEPT ![p] = <<ofile[p][d]>>]
        /\ pc' = [pc EXCEPT ![p] = "fileclose"]
    BY SMT DEF sys_close, User, Is, Goto
  <1>3. UNCHANGED <<ref, type, wr, fpipe, pi, mem, plock, stranded, file, left, ff, panic, killed, exiting>>
    BY SMT DEF sys_close, ftable, pipes
  <1>4. CloseFd(p, d)
    BY <1>1, <1>2, <1>3 DEF CloseFd
  <1> QED BY <1>4, CloseStep

LEMMA Step_exit == ASSUME SetFacts, IInv, NEW p \in Procs, exit(p) PROVE IInv'
  <1> DEFINE Open == Fd \ FreeFds(p)
             d == Lowest(Open)
  <1>1. killed \in [Procs -> BOOLEAN] /\ exiting \in [Procs -> BOOLEAN] /\ pc \in [Procs -> Labels]
    BY DEF IInv, Types, CallTypes
  <1>2. /\ pc[p] \in {"user", "exit"} /\ exiting' = [exiting EXCEPT ![p] = Open # {}]
        /\ killed' = [killed EXCEPT ![p] = FALSE]
        /\ UNCHANGED <<ref, type, wr, fpipe, pi, mem, plock, stranded, file, left, ff, panic>>
    BY SMT DEF exit, Is, ftable, pipes
  <1>3. killed' \in [Procs -> BOOLEAN] /\ exiting' \in [Procs -> BOOLEAN]
    BY <1>1, <1>2
  <1>4. CASE Open # {}
    <2>1. /\ todo' = [todo EXCEPT ![p] = <<ofile[p][d]>>] /\ ofile' = [ofile EXCEPT ![p][d] = NoFile]
          /\ pc' = [pc EXCEPT ![p] = "fileclose"]
      BY <1>4 DEF exit, Goto
    <2>2. Open \in SUBSET Fd
      OBVIOUS
    <2>3. d \in Open
      BY <1>4, <2>2, LowestIn
    <2>4. d \in Fd /\ ofile[p][d] # NoFile
      BY <2>3 DEF FreeFds
    <2> HIDE DEF d
    <2>5. CloseFd(p, d)
      BY <1>2, <1>3, <2>1, <2>4 DEF CloseFd
    <2> QED BY <2>4, <2>5, CloseStep
  <1>5. CASE Open = {}
    <2>1. pc' = [pc EXCEPT ![p] = "unused"] /\ ofile' = ofile /\ todo' = todo
      BY <1>5 DEF exit, Goto
    <2>2. \A x \in Fd : ofile[p][x] = NoFile
      BY <1>5 DEF FreeFds
    <2> HIDE DEF Open
    <2>3. pc' \in [Procs -> Labels] /\ pc'[p] = "unused" /\ \A q \in Procs : q # p => pc'[q] = pc[q]
      <3>1. "unused" \in Labels
        BY SMT DEF Labels
      <3> QED BY <1>1, <2>1, <3>1
    <2>4. FileTypes' /\ CallTypes'
      BY <1>2, <1>3, <2>1, <2>3 DEF IInv, Types, FileTypes, CallTypes
    <2>5. pc[p] \notin Rw /\ pc'[p] \notin Rw /\ pc'[p] \notin Building /\ pc'[p] # "pipeclose" /\ pc[p] # "pipeclose"
          /\ ToDo(pc[p]) = {0} /\ ToDo(pc'[p]) = {0}
      BY <1>2, <2>3 DEF Rw, Reading, Writing, Building, ToDo
    <2>6. CallOk(p)'
      <3>1. Len(todo[p]) \in ToDo(pc'[p]) /\ ff[p] = NoFF
        BY <2>5 DEF IInv, CallInv, CallOk
      <3>2. todo' = todo /\ ff' = ff /\ ofile' = ofile
        BY <1>2, <2>1
      <3> QED BY <2>2, <2>5, <3>1, <3>2 DEF CallOk, ToDo
    <2>7. Quiet(p)
      BY <1>2, <2>1, <2>3, <2>5 DEF Quiet
    <2>8. PipeTypes' /\ CallInv' /\ TypeOk' /\ EndInv' /\ EndsOpen' /\ RingInv' /\ RwInv'
      BY <2>6, <2>7, QuietStep
    <2>9. FileInv' /\ RefsCounted'
      <3>1. \A q \in Procs : pc'[q] \in Building => pc'[q] = pc[q]
        BY <2>3, <2>5
      <3>2. UNCHANGED <<ref, type, fpipe, ofile, todo, panic>>
        BY <1>2, <2>1
      <3> QED BY <3>1, <3>2, FileKept
    <2> QED BY <2>4, <2>8, <2>9 DEF IInv, Types, RwInv
  <1> QED BY <1>4, <1>5

LEMMA Step_fork ==
  ASSUME SetFacts, IInv, NEW p \in Procs, NEW q \in Procs, fork(p, q)
  PROVE  IInv'
  <1>1. /\ pc[p] = "user" /\ pc[q] = "unused" /\ ofile' = [ofile EXCEPT ![q] = ofile[p]]
        /\ pc' = [pc EXCEPT ![q] = "user"]
        /\ IF \E f \in File : Dups(p, f) > 0 /\ ref[f] < 1
           THEN panic' = "filedup" /\ UNCHANGED ref
           ELSE ref' = [f \in File |-> ref[f] + Dups(p, f)] /\ UNCHANGED panic
    BY SMT DEF fork, User, Is, Goto
  <1>2. UNCHANGED <<type, wr, fpipe, pi, mem, plock, stranded, killed, file, left, todo, exiting, ff>>
    BY SMT DEF fork, pipes
  <1>3. /\ ofile \in [Procs -> [Fd -> File \cup {NoFile}]] /\ ref \in [File -> Nat] /\ pc \in [Procs -> Labels]
        /\ todo \in [Procs -> Seq(File)]
    BY DEF IInv, Types, FileTypes, CallTypes
  <1>4. \A d \in Fd : ofile[q][d] = NoFile
    BY <1>1 DEF IInv, CallInv, CallOk
  <1>5. ASSUME NEW f \in File
        PROVE  /\ Cardinality(FdRefs(ofile', f)) = Cardinality(FdRefs(ofile, f)) + Dups(p, f)
               /\ Dups(p, f) \in Nat
    <2>1. /\ Cardinality(FdRefs([ofile EXCEPT ![q] = ofile[p]], f))
               = Cardinality(FdRefs(ofile, f)) + Cardinality(FdsOf(ofile, p, f))
          /\ Cardinality(FdsOf(ofile, p, f)) \in Nat
      BY <1>3, <1>4, FdCopy
    <2>2. ofile' = [ofile EXCEPT ![q] = ofile[p]]
      BY <1>1
    <2>3. Dups(p, f) = Cardinality(FdsOf(ofile, p, f))
      BY DEF Dups, FdsOf
    <2> QED BY <2>1, <2>2, <2>3
  <1>6. ASSUME NEW f \in File, Dups(p, f) # 0
        PROVE  ref[f] >= 1 /\ type[f] = "pipe"
    <2>1. {d \in Fd : ofile[p][d] = f} # {}
      BY <1>6 DEF Dups, SetFacts, FinEmpty
    <2>2. PICK d \in Fd : ofile[p][d] = f
      BY <2>1
    <2>3. f # NoFile
      BY FdsAre
    <2> QED BY <2>2, <2>3, FdHasRef
  <1>7. ref' = [f \in File |-> ref[f] + Dups(p, f)] /\ panic' = panic
    <2>1. ~(\E f \in File : Dups(p, f) > 0 /\ ref[f] < 1)
      <3> SUFFICES ASSUME NEW f \in File, Dups(p, f) > 0, ref[f] < 1 PROVE FALSE
        OBVIOUS
      <3>1. Dups(p, f) \in Nat /\ ref[f] \in Nat
        BY <1>3, <1>5
      <3>2. Dups(p, f) # 0
        BY SMT, <3>1
      <3>3. ref[f] >= 1
        BY <1>6, <3>2
      <3> QED BY SMT, <3>1, <3>3
    <2> QED BY <1>1, <2>1
  <1>8. \A f \in File : ref'[f] = ref[f] + Dups(p, f)
    BY <1>7
  <1>9. ref' \in [File -> Nat]
    <2>1. \A f \in File : ref[f] + Dups(p, f) \in Nat
      <3> TAKE f \in File
      <3>1. Dups(p, f) \in Nat /\ ref[f] \in Nat
        BY <1>3, <1>5
      <3> QED BY SMT, <3>1
    <2> QED BY <1>7, <2>1
  <1>10. /\ ofile' \in [Procs -> [Fd -> File \cup {NoFile}]] /\ ofile'[q] = ofile[p]
         /\ \A x \in Procs : x # q => ofile'[x] = ofile[x]
    BY <1>1, <1>3
  <1>11. pc' \in [Procs -> Labels] /\ pc'[q] = "user" /\ \A x \in Procs : x # q => pc'[x] = pc[x]
    <2>1. "user" \in Labels
      BY SMT DEF Labels
    <2> QED BY <1>1, <1>3, <2>1
  <1>12. FileTypes' /\ CallTypes'
    BY <1>2, <1>9, <1>10, <1>11 DEF IInv, Types, FileTypes, CallTypes
  <1>13. pc[q] \notin Rw /\ pc'[q] \notin Rw /\ pc'[q] \notin Building /\ pc'[q] # "unused"
         /\ pc'[q] # "pipeclose" /\ pc'[q] # "kalloc" /\ ToDo(pc[q]) = {0} /\ ToDo(pc'[q]) = {0} /\ pc[q] # "pipeclose"
    BY SMT, <1>1, <1>11 DEF Rw, Reading, Writing, Building, ToDo
  <1>14. CallOk(q)'
    <2>1. Len(todo[q]) \in ToDo(pc'[q]) /\ ff[q] = NoFF
      BY <1>13 DEF IInv, CallInv, CallOk
    <2> QED BY <1>2, <1>13, <2>1 DEF CallOk, ToDo
  <1>15. Quiet(q)
    BY <1>2, <1>10, <1>11, <1>13 DEF Quiet
  <1>16. PipeTypes' /\ CallInv' /\ TypeOk' /\ EndInv' /\ EndsOpen' /\ RingInv' /\ RwInv'
    BY <1>14, <1>15, QuietStep
  <1>17. RefsCounted
    BY DEF IInv
  <1>18. RefsCounted'
    <2>1. ASSUME NEW f \in File
          PROVE  ref'[f] = Cardinality(FdRefs(ofile', f)) + Cardinality(ToDoRefs(todo, f))
      <3> DEFINE a == Cardinality(FdRefs(ofile, f))
                 b == Cardinality(ToDoRefs(todo, f))
                 c == Cardinality(FdRefs(ofile', f))
                 y == Dups(p, f)
      <3>1. ref[f] = a + b
        BY <1>17, RefsAre
      <3>2. a \in Nat /\ b \in Nat
        BY FiniteRefs
      <3>3. c = a + y /\ y \in Nat /\ ref'[f] = ref[f] + y
        BY <1>5, <1>8
      <3> HIDE DEF a, b, c, y
      <3>4. ref'[f] = c + b
        BY SMT, <3>1, <3>2, <3>3
      <3> QED BY <3>4 DEF b, c
    <2>2. panic' = "none" /\ todo' = todo
      BY <1>2, <1>7, <1>17 DEF RefsCounted
    <2>3. \A f \in File : ref'[f] = Cardinality(FdRefs(ofile', f)) + Cardinality(ToDoRefs(todo', f))
      BY <2>1, <2>2
    <2> QED BY <2>2, <2>3, RefsNext
  <1>19. TypeOk /\ FreeOk /\ FdOk /\ BuildOk /\ PairOk
    BY DEF IInv, FileInv
  <1>20. FreeOk'
    <2>1. ASSUME NEW f \in File, ref'[f] = 0 PROVE type[f] = "none"
      <3>1. Dups(p, f) \in Nat /\ ref[f] \in Nat /\ ref[f] + Dups(p, f) = 0
        BY <1>3, <1>5, <1>8, <2>1
      <3>2. ref[f] = 0
        BY SMT, <3>1
      <3> QED BY <1>19, <3>2 DEF FreeOk
    <2>2. type' = type
      BY <1>2
    <2> QED BY <2>1, <2>2 DEF FreeOk
  <1>21. FdOk'
    <2>1. ASSUME NEW x \in Procs, NEW d \in Fd, ofile'[x][d] # NoFile
          PROVE  type[ofile'[x][d]] = "pipe"
      <3>1. ofile'[x][d] = ofile[x][d] \/ ofile'[x][d] = ofile[p][d]
        BY <1>10
      <3> QED BY <1>19, <2>1, <3>1 DEF FdOk
    <2>2. type' = type
      BY <1>2
    <2> QED BY <2>1, <2>2 DEF FdOk
  <1>22. BuildOk'
    <2>1. ASSUME NEW x \in Procs, pc'[x] \in Building, NEW i \in 1 .. Len(todo[x])
          PROVE  ref'[todo[x][i]] = 1 /\ type[todo[x][i]] = "none"
      <3> DEFINE h == todo[x][i]
      <3>1. pc[x] \in Building
        BY <1>11, <1>13, <2>1
      <3>2. ref[h] = 1 /\ type[h] = "none"
        BY <1>19, <2>1, <3>1 DEF BuildOk
      <3>3. todo[x] \in Seq(File)
        BY <1>3
      <3>4. h \in File
        BY SMT, <2>1, <3>3
      <3> HIDE DEF h
      <3>5. "none" # "pipe"
        BY SMT
      <3>6. Dups(p, h) = 0
        BY <1>6, <3>2, <3>4, <3>5
      <3>7. ref'[h] = ref[h] + 0
        BY <1>8, <3>4, <3>6
      <3>8. ref'[h] = 1
        BY SMT, <3>2, <3>7
      <3> QED BY <3>2, <3>8 DEF h
    <2>2. todo' = todo /\ type' = type
      BY <1>2
    <2> QED BY <2>1, <2>2 DEF BuildOk
  <1>23. PairOk'
    <2>1. \A x \in Procs : pc'[x] = "kalloc" => pc[x] = "kalloc"
      BY <1>11, <1>13
    <2>2. todo' = todo
      BY <1>2
    <2> QED BY <1>19, <2>1, <2>2 DEF PairOk
  <1> QED BY <1>12, <1>16, <1>18, <1>20, <1>21, <1>22, <1>23 DEF IInv, Types, RwInv, FileInv

(* fileclose takes the first of the files to close and drops a reference. *)
Dropped(p, h) ==
  /\ pc[p] = "fileclose" /\ h \in File /\ 1 <= Len(todo[p]) /\ todo[p][1] = h
  /\ ref[h] \in Nat /\ ref[h] >= 1 /\ ff[p] = NoFF
  /\ ref' \in [File -> Nat] /\ ref'[h] = ref[h] - 1 /\ \A f \in File : f # h => ref'[f] = ref[f]
  /\ todo' \in [Procs -> Seq(File)] /\ Len(todo'[p]) \in {0, 1}
  /\ pc' \in [Procs -> Labels]
  /\ \A q \in Procs : q # p => todo'[q] = todo[q] /\ pc'[q] = pc[q]
  /\ IF ref[h] = 1 /\ type[h] = "pipe" THEN pc'[p] = "pipeclose"
     ELSE pc'[p] \in {"fileclose", "exit", "user"} /\ Len(todo'[p]) \in ToDo(pc'[p])
  /\ UNCHANGED <<ofile, pi, mem, plock, stranded, killed, file, left, exiting, panic>>
  /\ RefsCounted'

LEMMA DropRef ==
  ASSUME SetFacts, IInv, NEW p \in Procs, fileclose(p)
  PROVE  Dropped(p, Head(todo[p]))
  <1> DEFINE h == Head(todo[p])
             t == Tail(todo[p])
             topipe == ref[h] = 1 /\ type[h] = "pipe"
  <1>1. pc[p] = "fileclose" /\ UNCHANGED <<ofile, pi, mem, plock, stranded, killed, file, left, exiting>>
    BY SMT DEF fileclose, Is, pipes
  <1>2. /\ ref \in [File -> Nat] /\ todo \in [Procs -> Seq(File)] /\ pc \in [Procs -> Labels]
        /\ exiting \in [Procs -> BOOLEAN]
    BY DEF IInv, Types, FileTypes, CallTypes
  <1>3. todo[p] \in Seq(File) /\ Len(todo[p]) \in {1, 2} /\ ff[p] = NoFF
    <2>1. ToDo(pc[p]) = {1, 2} /\ pc[p] # "pipeclose"
      BY SMT, <1>1 DEF ToDo
    <2> QED BY <1>2, <2>1 DEF IInv, CallInv, CallOk
  <1>4. 1 <= Len(todo[p]) /\ todo[p][1] = h /\ t \in Seq(File) /\ Len(t) = Len(todo[p]) - 1
        /\ Len(t) \in {0, 1} /\ (Len(t) = 0 <=> t = <<>>)
        /\ (Len(t) = 1 => t[1] = todo[p][2])
    <2> DEFINE s == todo[p]
               u == Tail(s)
    <2>1. s \in Seq(File) /\ Len(s) \in {1, 2}
      BY <1>3
    <2> HIDE DEF s
    <2>2. 1 <= Len(s) /\ s[1] = Head(s) /\ s # <<>>
      BY SMT, <2>1
    <2>3. u \in Seq(File) /\ Len(u) = Len(s) - 1 /\ \A i \in 1 .. Len(u) : u[i] = s[i + 1]
      BY SMT, <2>1, <2>2
    <2> HIDE DEF u
    <2>4. Len(u) \in {0, 1} /\ (Len(u) = 1 => u[1] = s[2])
      BY SMT, <2>1, <2>3
    <2>5. Len(u) = 0 <=> u = <<>>
      BY SMT, <2>3
    <2> QED BY <2>2, <2>3, <2>4, <2>5 DEF s, u
  <1>5. h \in File /\ ref[h] \in Nat /\ ref[h] >= 1
    <2>1. 1 \in {1, 2} /\ 1 <= Len(todo[p])
      BY SMT, <1>4
    <2>2. todo[p][1] \in File /\ ref[todo[p][1]] \in Nat /\ ref[todo[p][1]] >= 1
      BY <2>1, ToDoHasRef
    <2> QED BY <1>4, <2>2
  <1>6. ~(ref[h] < 1)
    BY SMT, <1>5
  <1>7. /\ ref' = [ref EXCEPT ![h] = ref[h] - 1] /\ todo' = [todo EXCEPT ![p] = t]
        /\ pc' = [pc EXCEPT ![p] = IF topipe THEN "pipeclose" ELSE After(p, t)]
        /\ panic' = panic
    <2>1. /\ ref' = [ref EXCEPT ![h] = @ - 1] /\ todo' = [todo EXCEPT ![p] = Tail(@)]
          /\ pc' = [pc EXCEPT ![p] = IF topipe THEN "pipeclose" ELSE After(p, t)]
          /\ panic' = panic
      BY <1>6 DEF fileclose, Goto
    <2> QED BY <1>2, <1>5, <2>1
  <1> DEFINE l == IF topipe THEN "pipeclose" ELSE After(p, t)
  <1>8. /\ l \in {"pipeclose", "fileclose", "exit", "user"}
        /\ IF topipe THEN l = "pipeclose" ELSE l \in {"fileclose", "exit", "user"} /\ Len(t) \in ToDo(l)
    <2>1. CASE topipe
      BY SMT, <2>1
    <2>2. CASE ~topipe /\ t # <<>>
      <3>1. l = "fileclose" /\ Len(t) = 1
        BY SMT, <1>4, <2>2 DEF After
      <3> HIDE DEF l, t, topipe
      <3> QED BY SMT, <2>2, <3>1 DEF ToDo
    <2>3. CASE ~topipe /\ t = <<>>
      <3>1. l \in {"exit", "user"} /\ Len(t) = 0
        BY SMT, <1>4, <2>3 DEF After
      <3> HIDE DEF l, t, topipe
      <3> QED BY SMT, <2>3, <3>1 DEF ToDo
    <2> QED BY <2>1, <2>2, <2>3
  <1>9. l \in Labels
    <2> HIDE DEF l
    <2> QED BY SMT, <1>8 DEF Labels
  <1> HIDE DEF h, t, l, topipe
  <1>10. pc' \in [Procs -> Labels] /\ pc'[p] = l /\ \A q \in Procs : q # p => pc'[q] = pc[q]
    <2>1. pc' = [pc EXCEPT ![p] = l]
      BY <1>7 DEF l
    <2> QED BY <1>2, <1>9, <2>1
  <1>11. todo' \in [Procs -> Seq(File)] /\ todo'[p] = t /\ \A q \in Procs : q # p => todo'[q] = todo[q]
    BY <1>2, <1>4, <1>7
  <1>12. ref' \in [File -> Nat] /\ ref'[h] = ref[h] - 1 /\ \A f \in File : f # h => ref'[f] = ref[f]
    BY SMT, <1>2, <1>5, <1>7
  <1>13. RefsCounted
    BY DEF IInv
  <1>14. RefsCounted'
    <2>1. ASSUME NEW f \in File
          PROVE  ref'[f] = Cardinality(FdRefs(ofile, f)) + Cardinality(ToDoRefs(todo', f))
      <3> DEFINE a == Cardinality(FdRefs(ofile, f))
                 b == Cardinality(ToDoRefs(todo, f))
                 c == Cardinality(ToDoRefs(todo', f))
                 y == One(h = f)
                 z == Occurs(t, f)
      <3>1. ref[f] = a + b
        BY <1>13, RefsAre
      <3>2. a \in Nat
        BY FiniteRefs
      <3>3. c + Occurs(todo[p], f) = b + z /\ b \in Nat /\ c \in Nat
        <4>1. /\ Cardinality(ToDoRefs([todo EXCEPT ![p] = t], f)) + Occurs(todo[p], f)
                   = Cardinality(ToDoRefs(todo, f)) + Occurs(t, f)
              /\ Cardinality(ToDoRefs(todo, f)) \in Nat
              /\ Cardinality(ToDoRefs([todo EXCEPT ![p] = t], f)) \in Nat
          BY <1>2, <1>4, ToDoSet
        <4>2. todo' = [todo EXCEPT ![p] = t]
          BY <1>7
        <4> QED BY <4>1, <4>2
      <3>4. Occurs(todo[p], f) = y + z /\ y \in Nat /\ z \in Nat
        <4>1. CASE Len(t) = 0
          <5>1. Len(todo[p]) = 1
            BY SMT, <1>3, <1>4, <4>1
          <5> QED BY SMT, <1>4, <4>1, <5>1 DEF Occurs, One
        <4>2. CASE Len(t) = 1
          <5>1. Len(todo[p]) = 2
            BY SMT, <1>3, <1>4, <4>2
          <5> QED BY SMT, <1>4, <4>2, <5>1 DEF Occurs, One
        <4> QED BY SMT, <1>4, <4>1, <4>2
      <3>5. c + (y + z) = b + z
        BY <3>3, <3>4
      <3>6. ref'[f] + y = ref[f] /\ ref'[f] \in Nat
        <4>1. ref[f] \in Nat /\ ref'[f] \in Nat
          BY <1>2, <1>12
        <4>2. CASE f = h
          BY SMT, <1>5, <1>12, <4>1, <4>2 DEF One
        <4>3. CASE f # h
          BY SMT, <1>12, <4>1, <4>3 DEF One
        <4> QED BY SMT, <4>2, <4>3
      <3> HIDE DEF a, b, c, y, z
      <3>7. ref'[f] = a + c
        BY SMT, <3>1, <3>2, <3>3, <3>4, <3>5, <3>6
      <3> QED BY <3>7 DEF a, c
    <2>2. panic' = "none" /\ ofile' = ofile
      BY <1>1, <1>7, <1>13 DEF RefsCounted
    <2>3. \A f \in File : ref'[f] = Cardinality(FdRefs(ofile', f)) + Cardinality(ToDoRefs(todo', f))
      BY <2>1, <2>2
    <2> QED BY <2>2, <2>3, RefsNext
  <1>15. /\ Len(todo'[p]) \in {0, 1}
         /\ IF ref[h] = 1 /\ type[h] = "pipe" THEN pc'[p] = "pipeclose"
            ELSE pc'[p] \in {"fileclose", "exit", "user"} /\ Len(todo'[p]) \in ToDo(pc'[p])
    BY <1>4, <1>8, <1>10, <1>11 DEF topipe
  <1>16. UNCHANGED <<ofile, pi, mem, plock, stranded, killed, file, left, exiting, panic>>
    BY <1>1, <1>7
  <1>17. Dropped(p, h)
    BY <1>1, <1>3, <1>4, <1>5, <1>10, <1>11, <1>12, <1>14, <1>15, <1>16 DEF Dropped
  <1> QED BY <1>17 DEF h

LEMMA DropMany ==
  ASSUME SetFacts, IInv, NEW p \in Procs, fileclose(p), ref[Head(todo[p])] # 1
  PROVE  IInv'
  <1> DEFINE h == Head(todo[p])
  <1>1. Dropped(p, h)
    BY DropRef
  <1>2. /\ type \in [File -> {"none", "pipe"}] /\ wr \in [File -> BOOLEAN]
        /\ fpipe \in [File -> Pipes \cup {NoPipe}] /\ ff \in [Procs -> FF]
    BY DEF IInv, Types, FileTypes, CallTypes
  <1>3. h \in File /\ ref[h] \in Nat /\ ref[h] >= 1 /\ ff[p] = NoFF /\ pc[p] = "fileclose"
    BY <1>1 DEF Dropped
  <1>4. ~(ref[h] < 1) /\ ref[h] # 1 /\ ref[h] - 1 # 0
    BY SMT, <1>3
  <1>5. type' = type /\ fpipe' = fpipe /\ wr' = wr /\ ff' = ff
    <2>1. /\ type' = [type EXCEPT ![h] = IF ref[h] = 1 THEN "none" ELSE @]
          /\ fpipe' = [fpipe EXCEPT ![h] = IF ref[h] = 1 THEN NoPipe ELSE @]
          /\ wr' = [wr EXCEPT ![h] = @ /\ ~(ref[h] = 1)]
          /\ ff' = [ff EXCEPT ![p] = IF ref[h] = 1 /\ type[h] = "pipe"
                                     THEN [pipe |-> fpipe[h], writable |-> wr[h]] ELSE NoFF]
      BY <1>4 DEF fileclose
    <2> HIDE DEF h
    <2>2. type' = type
      BY SMT, <1>2, <1>3, <1>4, <2>1
    <2>3. fpipe' = fpipe
      BY SMT, <1>2, <1>3, <1>4, <2>1
    <2>4. wr' = wr
      <3>1. wr'= [wr EXCEPT ![h] = wr[h]]
        <4>1. (wr[h] /\ ~(ref[h] = 1)) = wr[h]
          <5>1. wr[h] \in BOOLEAN
            BY <1>2, <1>3
          <5> QED BY SMT, <1>4, <5>1
        <4>2. wr' = [wr EXCEPT ![h] = wr[h] /\ ~(ref[h] = 1)]
          BY <1>2, <1>3, <2>1
        <4> QED BY <4>1, <4>2
      <3> QED BY <1>2, <1>3, <3>1
    <2>5. ff' = ff
      <3>1. ff' = [ff EXCEPT ![p] = NoFF]
        BY <1>4, <2>1
      <3>2. ff' = [ff EXCEPT ![p] = ff[p]]
        BY <1>3, <3>1
      <3> QED BY <1>2, <3>2
    <2> QED BY SMT, <2>2, <2>3, <2>4, <2>5
  <1> HIDE DEF h
  <1>6. /\ UNCHANGED <<ofile, pi, mem, plock, stranded, killed, file, left, exiting, panic>>
        /\ ref' \in [File -> Nat] /\ ref'[h] = ref[h] - 1 /\ \A f \in File : f # h => ref'[f] = ref[f]
        /\ todo' \in [Procs -> Seq(File)] /\ pc' \in [Procs -> Labels] /\ RefsCounted'
        /\ \A q \in Procs : q # p => todo'[q] = todo[q] /\ pc'[q] = pc[q]
    BY <1>1 DEF Dropped
  <1>7. pc'[p] \in {"fileclose", "exit", "user"} /\ Len(todo'[p]) \in ToDo(pc'[p])
    BY <1>1, <1>4 DEF Dropped
  <1>8. pc[p] \notin Rw /\ pc'[p] \notin Rw /\ pc'[p] \notin Building /\ pc'[p] # "unused"
        /\ pc'[p] # "pipeclose" /\ pc'[p] # "kalloc"
    BY <1>3, <1>7 DEF Rw, Reading, Writing, Building
  <1>9. FileTypes' /\ CallTypes'
    BY <1>5, <1>6 DEF IInv, Types, FileTypes, CallTypes
  <1>10. CallOk(p)'
    BY <1>3, <1>5, <1>7, <1>8 DEF CallOk, ToDo
  <1>11. Quiet(p)
    BY <1>5, <1>6, <1>8 DEF Quiet
  <1>12. PipeTypes' /\ CallInv' /\ TypeOk' /\ EndInv' /\ EndsOpen' /\ RingInv' /\ RwInv'
    BY <1>10, <1>11, QuietStep
  <1>13. TypeOk /\ FreeOk /\ FdOk /\ BuildOk /\ PairOk
    BY DEF IInv, FileInv
  <1>14. FreeOk'
    <2>1. ref'[h] # 0
      BY <1>4, <1>6
    <2> QED BY <1>5, <1>6, <1>13, <2>1 DEF FreeOk
  <1>15. FdOk'
    BY <1>5, <1>6, <1>13 DEF FdOk
  <1>16. BuildOk'
    <2>1. ASSUME NEW q \in Procs, pc'[q] \in Building, NEW i \in 1 .. Len(todo'[q])
          PROVE  ref'[todo'[q][i]] = 1 /\ type'[todo'[q][i]] = "none"
      <3>1. pc[q] \in Building /\ todo'[q] = todo[q]
        BY <1>6, <1>8, <2>1
      <3>2. ref[todo[q][i]] = 1 /\ type[todo[q][i]] = "none"
        BY <1>13, <2>1, <3>1 DEF BuildOk
      <3>3. todo[q][i] # h
        BY <1>4, <3>2
      <3>4. todo'[q] \in Seq(File)
        BY <1>6
      <3>5. todo'[q][i] \in File
        BY SMT, <2>1, <3>4
      <3> QED BY <1>5, <1>6, <3>1, <3>2, <3>3, <3>5
    <2> QED BY <2>1 DEF BuildOk
  <1>17. PairOk'
    BY <1>6, <1>8, <1>13 DEF PairOk
  <1> QED BY <1>6, <1>9, <1>12, <1>14, <1>15, <1>16, <1>17 DEF IInv, Types, RwInv, FileInv

(* The last reference goes, and with it the file. *)
LastDrop(p, h) ==
  /\ type' \in [File -> {"none", "pipe"}] /\ wr' \in [File -> BOOLEAN] /\ type'[h] = "none"
  /\ fpipe' \in [File -> Pipes \cup {NoPipe}] /\ fpipe'[h] = NoPipe
  /\ \A f \in File : f # h => type'[f] = type[f] /\ wr'[f] = wr[f] /\ fpipe'[f] = fpipe[f]
  /\ ff' \in [Procs -> FF] /\ \A q \in Procs : q # p => ff'[q] = ff[q]
  /\ IF type[h] = "pipe" THEN ff'[p] = [pipe |-> fpipe[h], writable |-> wr[h]] ELSE ff'[p] = NoFF

LEMMA DropLastIs ==
  ASSUME SetFacts, IInv, NEW p \in Procs, fileclose(p), ref[Head(todo[p])] = 1
  PROVE  LastDrop(p, Head(todo[p]))
  <1> DEFINE h == Head(todo[p])
             v == IF type[h] = "pipe" THEN [pipe |-> fpipe[h], writable |-> wr[h]] ELSE NoFF
  <1>1. Dropped(p, h)
    BY DropRef
  <1>2. /\ type \in [File -> {"none", "pipe"}] /\ wr \in [File -> BOOLEAN]
        /\ fpipe \in [File -> Pipes \cup {NoPipe}] /\ ff \in [Procs -> FF]
    BY DEF IInv, Types, FileTypes, CallTypes
  <1>3. h \in File
    BY <1>1 DEF Dropped
  <1>4. ~(ref[h] < 1) /\ ref[h] = 1
    BY SMT
  <1>5. /\ type' = [type EXCEPT ![h] = IF ref[h] = 1 THEN "none" ELSE @]
        /\ fpipe' = [fpipe EXCEPT ![h] = IF ref[h] = 1 THEN NoPipe ELSE @]
        /\ wr' = [wr EXCEPT ![h] = @ /\ ~(ref[h] = 1)]
        /\ ff' = [ff EXCEPT ![p] = IF ref[h] = 1 /\ type[h] = "pipe"
                                   THEN [pipe |-> fpipe[h], writable |-> wr[h]] ELSE NoFF]
    BY <1>4 DEF fileclose
  <1> HIDE DEF h
  <1>6. type' \in [File -> {"none", "pipe"}] /\ type'[h] = "none" /\ \A f \in File : f # h => type'[f] = type[f]
    BY SMT, <1>2, <1>3, <1>4, <1>5
  <1>7. fpipe' \in [File -> Pipes \cup {NoPipe}] /\ fpipe'[h] = NoPipe /\ \A f \in File : f # h => fpipe'[f] = fpipe[f]
    BY SMT, <1>2, <1>3, <1>4, <1>5
  <1>8. wr' \in [File -> BOOLEAN] /\ \A f \in File : f # h => wr'[f] = wr[f]
    <2>1. (wr[h] /\ ~(ref[h] = 1)) \in BOOLEAN
      BY SMT
    <2>2. wr' = [wr EXCEPT ![h] = wr[h] /\ ~(ref[h] = 1)]
      BY <1>2, <1>3, <1>5
    <2> QED BY <1>2, <2>1, <2>2
  <1>9. v \in FF
    <2>1. fpipe[h] \in Pipes \cup {NoPipe} /\ wr[h] \in BOOLEAN
      BY <1>2, <1>3
    <2> QED BY SMT, <2>1 DEF FF, NoFF
  <1>10. ff' = [ff EXCEPT ![p] = v]
    BY <1>4, <1>5
  <1>11. IF type[h] = "pipe" THEN v = [pipe |-> fpipe[h], writable |-> wr[h]] ELSE v = NoFF
    OBVIOUS
  <1> HIDE DEF v
  <1>12. ff' \in [Procs -> FF] /\ ff'[p] = v /\ \A q \in Procs : q # p => ff'[q] = ff[q]
    BY <1>2, <1>9, <1>10
  <1>13. LastDrop(p, h)
    BY <1>6, <1>7, <1>8, <1>11, <1>12 DEF LastDrop
  <1> QED BY <1>13 DEF h

LEMMA DropLastEnds ==
  ASSUME SetFacts, IInv, NEW p \in Procs, fileclose(p), ref[Head(todo[p])] = 1
  PROVE  EndInv' /\ EndsOpen' /\ RingInv'
  <1> DEFINE h == Head(todo[p])
             v == [pipe |-> fpipe[h], writable |-> wr[h]]
  <1>1. Dropped(p, h) /\ LastDrop(p, h)
    BY DropRef, DropLastIs
  <1> HIDE DEF h
  <1>2. h \in File /\ ff[p] = NoFF /\ pi' = pi /\ mem' = mem
    BY <1>1 DEF Dropped
  <1>3. /\ type'[h] = "none" /\ \A q \in Procs : q # p => ff'[q] = ff[q]
        /\ \A f \in File : f # h => type'[f] = type[f] /\ wr'[f] = wr[f] /\ fpipe'[f] = fpipe[f]
        /\ IF type[h] = "pipe" THEN ff'[p] = v ELSE ff'[p] = NoFF
    BY <1>1 DEF LastDrop
  <1>4. v.pipe = fpipe[h] /\ NoFF.pipe = NoPipe /\ NoPipe \notin Pipes /\ "none" # "pipe"
    BY SMT, FilesAssumption DEF NoFF
  <1>5. OneFile /\ OneHolder /\ OneCloser /\ EndsOpen /\ RingInv /\ TypeOk
    BY DEF IInv, EndInv, FileInv
  <1>6. \A f \in File : type'[f] = "pipe" =>
          f # h /\ type[f] = "pipe" /\ wr'[f] = wr[f] /\ fpipe'[f] = fpipe[f] /\ fpipe[f] \in Pipes
    BY <1>3, <1>4, <1>5 DEF TypeOk
  <1>7. \A f \in File : [pipe |-> fpipe[f], writable |-> wr[f]] = v => fpipe[f] = fpipe[h] /\ wr[f] = wr[h]
    BY SMT
  <1>8. \A f \in File : [pipe |-> fpipe[f], writable |-> wr[f]].pipe = fpipe[f]
    BY SMT
  <1>9. OneFile'
    BY <1>5, <1>6 DEF OneFile
  <1>10. OneHolder'
    <2>1. ASSUME NEW f \in File, NEW q \in Procs, type'[f] = "pipe",
                 ff'[q] = [pipe |-> fpipe[f], writable |-> wr[f]]
          PROVE  FALSE
      <3>1. f # h /\ type[f] = "pipe" /\ fpipe[f] \in Pipes
        BY <1>6, <2>1
      <3>2. CASE q # p
        <4>1. ff[q] = [pipe |-> fpipe[f], writable |-> wr[f]]
          BY <1>3, <2>1, <3>2
        <4> QED BY <1>5, <3>1, <4>1 DEF OneHolder
      <3>3. CASE q = p /\ type[h] = "pipe"
        <4>1. [pipe |-> fpipe[f], writable |-> wr[f]] = v
          BY <1>3, <2>1, <3>3
        <4>2. fpipe[f] = fpipe[h] /\ wr[f] = wr[h]
          BY <1>7, <4>1
        <4> QED BY <1>2, <1>5, <3>1, <3>3, <4>2 DEF OneFile
      <3>4. CASE q = p /\ type[h] # "pipe"
        <4>1. [pipe |-> fpipe[f], writable |-> wr[f]] = NoFF
          BY <1>3, <2>1, <3>4
        <4>2. fpipe[f] = NoPipe
          BY <1>4, <1>8, <4>1
        <4> QED BY <1>4, <3>1, <4>2
      <3> QED BY <3>2, <3>3, <3>4
    <2>2. ASSUME NEW f \in File, NEW q \in Procs, type'[f] = "pipe"
          PROVE  ff'[q] # [pipe |-> fpipe'[f], writable |-> wr'[f]]
      <3>1. wr'[f] = wr[f] /\ fpipe'[f] = fpipe[f]
        BY <1>6, <2>2
      <3>2. ff'[q] # [pipe |-> fpipe[f], writable |-> wr[f]]
        BY <2>1, <2>2
      <3> QED BY <3>1, <3>2
    <2> QED BY <2>2 DEF OneHolder
  <1>11. OneCloser'
    <2>1. ASSUME NEW q \in Procs, q # p, ff'[p].pipe \in Pipes, ff'[p] = ff'[q] PROVE FALSE
      <3>1. type[h] = "pipe"
        BY <1>3, <1>4, <2>1
      <3>2. ff[q] = v
        BY <1>3, <2>1, <3>1
      <3> QED BY <1>2, <1>5, <3>1, <3>2 DEF OneHolder
    <2>2. ASSUME NEW q \in Procs, NEW x \in Procs, ff'[q].pipe \in Pipes, ff'[q] = ff'[x] PROVE q = x
      <3>1. CASE q = p
        BY <2>1, <2>2, <3>1
      <3>2. CASE x = p
        <4>1. ff'[p].pipe \in Pipes /\ ff'[p] = ff'[q]
          BY <2>2, <3>2
        <4> QED BY <2>1, <3>2, <4>1
      <3>3. CASE q # p /\ x # p
        <4>1. ff'[q] = ff[q] /\ ff'[x] = ff[x]
          BY <1>3, <3>3
        <4> QED BY <1>5, <2>2, <4>1 DEF OneCloser
      <3> QED BY <3>1, <3>2, <3>3
    <2> QED BY <2>2 DEF OneCloser
  <1>12. ASSUME NEW g \in Pipes, NEW x \in BOOLEAN PROVE Holds(g, x)' <=> Holds(g, x)
    <2> DEFINE u == [pipe |-> g, writable |-> x]
    <2>1. u.pipe = g /\ u.writable = x /\ (fpipe[h] = g /\ wr[h] = x => v = u) /\ (v = u => fpipe[h] = g /\ wr[h] = x)
      BY SMT
    <2>2. NoFF # u
      BY <1>4, <2>1
    <2> HIDE DEF u, v
    <2>3. ASSUME NEW f \in File, type[f] = "pipe", fpipe[f] = g, wr[f] = x
          PROVE  \/ type'[f] = "pipe" /\ fpipe'[f] = g /\ wr'[f] = x
                 \/ ff'[p] = u
      <3>1. CASE f = h
        BY <1>3, <2>1, <2>3, <3>1
      <3>2. CASE f # h
        BY <1>3, <2>3, <3>2
      <3> QED BY SMT, <3>1, <3>2
    <2>4. ASSUME NEW q \in Procs, ff[q] = u PROVE ff'[q] = u
      <3>1. q # p
        BY <1>2, <2>2, <2>4
      <3> QED BY <1>3, <2>4, <3>1
    <2>5. ASSUME NEW q \in Procs, ff'[q] = u
          PROVE  ff[q] = u \/ (type[h] = "pipe" /\ fpipe[h] = g /\ wr[h] = x)
      <3>1. CASE q = p
        <4>1. type[h] = "pipe" /\ v = u
          BY <1>3, <2>2, <2>5, <3>1
        <4> QED BY <2>1, <4>1
      <3>2. CASE q # p
        BY <1>3, <2>5, <3>2
      <3> QED BY SMT, <3>1, <3>2
    <2>6. Holds(g, x) => Holds(g, x)'
      BY <2>3, <2>4 DEF Holds, u
    <2>7. Holds(g, x)' => Holds(g, x)
      BY <1>2, <1>6, <2>5 DEF Holds, u
    <2> QED BY SMT, <2>6, <2>7
  <1>13. EndsOpen'
    BY <1>2, <1>5, <1>12 DEF EndsOpen
  <1>14. RingInv'
    BY <1>2, <1>5 DEF RingInv, Count
  <1> QED BY <1>9, <1>10, <1>11, <1>13, <1>14 DEF EndInv

LEMMA DropLast ==
  ASSUME SetFacts, IInv, NEW p \in Procs, fileclose(p), ref[Head(todo[p])] = 1
  PROVE  IInv'
  <1> DEFINE h == Head(todo[p])
  <1>1. Dropped(p, h) /\ LastDrop(p, h)
    BY DropRef, DropLastIs
  <1>2. h \in File /\ 1 <= Len(todo[p]) /\ todo[p][1] = h /\ ref[todo[p][1]] = 1 /\ 1 \in Slot
    <2>1. 1 \in Slot
      BY SMT DEF Slot
    <2> QED BY <1>1, <2>1 DEF Dropped
  <1>3. \A q \in Procs, d \in Fd : ofile[q][d] # h
    BY <1>2, ToDoAlone
  <1>4. \A q \in Procs, j \in Slot : q # p /\ j <= Len(todo[q]) => todo[q][j] # h
    <2>1. ASSUME NEW q \in Procs, NEW j \in Slot, j <= Len(todo[q]), todo[q][j] = h PROVE q = p
      <3>1. todo[q][j] = todo[p][1]
        BY <1>2, <2>1
      <3> QED BY <1>2, <2>1, <3>1, ToDoOnce
    <2> QED BY <2>1
  <1> HIDE DEF h
  <1>5. EndInv' /\ EndsOpen' /\ RingInv'
    BY DropLastEnds
  <1>6. /\ UNCHANGED <<ofile, pi, mem, plock, stranded, killed, file, left, exiting, panic>>
        /\ ref' \in [File -> Nat] /\ \A f \in File : f # h => ref'[f] = ref[f]
        /\ todo' \in [Procs -> Seq(File)] /\ pc' \in [Procs -> Labels] /\ RefsCounted'
        /\ \A q \in Procs : q # p => todo'[q] = todo[q] /\ pc'[q] = pc[q]
    BY <1>1 DEF Dropped
  <1>7. /\ pc[p] = "fileclose" /\ Len(todo'[p]) \in {0, 1} /\ ref[h] = 1
        /\ IF ref[h] = 1 /\ type[h] = "pipe" THEN pc'[p] = "pipeclose"
           ELSE pc'[p] \in {"fileclose", "exit", "user"} /\ Len(todo'[p]) \in ToDo(pc'[p])
    BY <1>1, <1>2 DEF Dropped
  <1>8. /\ type' \in [File -> {"none", "pipe"}] /\ wr' \in [File -> BOOLEAN] /\ type'[h] = "none"
        /\ fpipe' \in [File -> Pipes \cup {NoPipe}] /\ fpipe'[h] = NoPipe
        /\ \A f \in File : f # h => type'[f] = type[f] /\ wr'[f] = wr[f] /\ fpipe'[f] = fpipe[f]
        /\ ff' \in [Procs -> FF] /\ \A q \in Procs : q # p => ff'[q] = ff[q]
        /\ IF type[h] = "pipe" THEN ff'[p] = [pipe |-> fpipe[h], writable |-> wr[h]] ELSE ff'[p] = NoFF
    BY <1>1 DEF LastDrop
  <1>9. pc[p] \notin Rw /\ pc'[p] \notin Rw /\ pc'[p] \notin Building /\ pc'[p] # "unused" /\ pc'[p] # "kalloc"
    <2>1. pc'[p] \in {"pipeclose", "fileclose", "exit", "user"}
      BY SMT, <1>7
    <2> QED BY <1>7, <2>1 DEF Rw, Reading, Writing, Building
  <1>10. FileTypes' /\ CallTypes' /\ PipeTypes'
    BY <1>6, <1>8 DEF IInv, Types, FileTypes, CallTypes, PipeTypes
  <1>11. TypeOk /\ FreeOk /\ FdOk /\ BuildOk /\ PairOk
    BY DEF IInv, FileInv
  <1>12. CallOk(p)'
    <2>1. CASE type[h] = "pipe"
      <3>1. pc'[p] = "pipeclose" /\ ff'[p] = [pipe |-> fpipe[h], writable |-> wr[h]]
        BY <1>7, <1>8, <2>1
      <3>2. fpipe[h] \in Pipes
        BY <1>2, <1>11, <2>1 DEF TypeOk
      <3>3. ff'[p].pipe \in Pipes
        BY SMT, <3>1, <3>2
      <3>4. Len(todo'[p]) \in ToDo(pc'[p])
        BY SMT, <1>7, <3>1 DEF ToDo
      <3> QED BY <1>9, <3>1, <3>3, <3>4 DEF CallOk, ToDo
    <2>2. CASE type[h] # "pipe"
      <3>1. pc'[p] \in {"fileclose", "exit", "user"} /\ Len(todo'[p]) \in ToDo(pc'[p]) /\ ff'[p] = NoFF
        BY <1>7, <1>8, <2>2
      <3>2. pc'[p] # "pipeclose"
        BY SMT, <3>1
      <3> QED BY <1>9, <3>1, <3>2 DEF CallOk, ToDo
    <2> QED BY SMT, <2>1, <2>2
  <1>13. \A q \in Procs : pc[q] \in Rw => file[q] \in File /\ file[q] # h
    <2>1. ASSUME NEW q \in Procs, pc[q] \in Rw PROVE file[q] \in File /\ file[q] # h
      <3>1. file[q] \in File /\ \E d \in Fd : ofile[q][d] = file[q]
        BY <2>1, RwIs
      <3> QED BY <1>3, <3>1
    <2> QED BY <2>1
  <1>14. CallInv'
    <2>1. ASSUME NEW q \in Procs, q # p PROVE CallOk(q)'
      <3>1. CallOk(q)
        BY DEF IInv, CallInv
      <3>2. /\ pc'[q] = pc[q] /\ todo'[q] = todo[q] /\ ofile'[q] = ofile[q] /\ ff'[q] = ff[q]
            /\ file'[q] = file[q]
        BY <1>6, <1>8, <2>1
      <3>3. pc[q] \in Rw => wr'[file[q]] = wr[file[q]]
        BY <1>8, <1>13
      <3> QED BY <3>1, <3>2, <3>3, CallSame
    <2> QED BY <1>12, <2>1 DEF CallInv
  <1>15. RwInv'
    <2>1. ASSUME NEW q \in Procs, pc[q] \in Rw \/ pc'[q] \in Rw PROVE RwSame(q)
      <3>1. q # p
        BY <1>9, <2>1
      <3>2. pc'[q] = pc[q] /\ file'[q] = file[q] /\ pi' = pi
        BY <1>6, <3>1
      <3>3. pc[q] \in Rw
        BY <2>1, <3>2
      <3>4. fpipe'[file[q]] = fpipe[file[q]]
        BY <1>8, <1>13, <3>3
      <3> QED BY <3>2, <3>4 DEF RwSame
    <2>2. plock' = plock /\ stranded' = stranded
      BY <1>6
    <2> QED BY <2>1, <2>2, RwKept
  <1>16. TypeOk'
    <2>1. "none" # "pipe" /\ NoPipe \notin Pipes
      BY SMT, FilesAssumption
    <2>2. ASSUME NEW f \in File PROVE type'[f] = "pipe" <=> fpipe'[f] \in Pipes
      <3>1. CASE f = h
        BY <1>8, <2>1, <3>1
      <3>2. CASE f # h
        BY <1>8, <1>11, <3>2 DEF TypeOk
      <3> QED BY SMT, <3>1, <3>2
    <2> QED BY <2>2 DEF TypeOk
  <1>17. FreeOk'
    BY <1>6, <1>8, <1>11 DEF FreeOk
  <1>18. FdOk'
    <2>1. ASSUME NEW q \in Procs, NEW d \in Fd, ofile[q][d] # NoFile PROVE type'[ofile[q][d]] = "pipe"
      <3>1. ofile[q][d] \in File /\ type[ofile[q][d]] = "pipe"
        BY <2>1, FdHasRef
      <3> QED BY <1>3, <1>8, <3>1
    <2>2. ofile' = ofile
      BY <1>6
    <2> QED BY <2>1, <2>2 DEF FdOk
  <1>19. BuildOk'
    <2>1. ASSUME NEW q \in Procs, pc'[q] \in Building, NEW i \in 1 .. Len(todo'[q])
          PROVE  ref'[todo'[q][i]] = 1 /\ type'[todo'[q][i]] = "none"
      <3>1. q # p
        BY <1>9, <2>1
      <3>2. pc[q] \in Building /\ todo'[q] = todo[q]
        BY <1>6, <2>1, <3>1
      <3>3. ref[todo[q][i]] = 1 /\ type[todo[q][i]] = "none"
        BY <1>11, <2>1, <3>2 DEF BuildOk
      <3>4. Len(todo[q]) \in ToDo(pc[q]) /\ todo[q] \in Seq(File)
        BY DEF IInv, CallInv, CallOk, Types, CallTypes
      <3>5. Len(todo[q]) \in {1, 2}
        BY <3>2, <3>4 DEF ToDo, Building
      <3>6. i \in Slot /\ i <= Len(todo[q]) /\ todo[q][i] \in File
        <4> DEFINE t == todo[q]
        <4>1. t \in Seq(File) /\ Len(t) \in {1, 2} /\ i \in 1 .. Len(t)
          BY <2>1, <3>2, <3>4, <3>5
        <4> HIDE DEF t
        <4>2. i \in {1, 2} /\ i <= Len(t) /\ t[i] \in File
          BY SMT, <4>1
        <4> QED BY <4>2 DEF t, Slot
      <3>7. todo[q][i] # h
        BY <1>4, <3>1, <3>6
      <3>8. ref'[todo[q][i]] = ref[todo[q][i]] /\ type'[todo[q][i]] = type[todo[q][i]]
        BY <1>6, <1>8, <3>6, <3>7
      <3> QED BY <3>2, <3>3, <3>8
    <2> QED BY <2>1 DEF BuildOk
  <1>20. PairOk'
    BY <1>6, <1>9, <1>11 DEF PairOk
  <1> QED BY <1>5, <1>6, <1>10, <1>14, <1>15, <1>16, <1>17, <1>18, <1>19, <1>20
          DEF IInv, Types, RwInv, FileInv

LEMMA Step_fileclose == ASSUME SetFacts, IInv, NEW p \in Procs, fileclose(p) PROVE IInv'
  BY DropMany, DropLast

-----------------------------------------------------------------------------
(* The invariant. *)

LEMMA InitInv ==
  ASSUME SetFacts, Init
  PROVE  IInv
  <1>1. /\ ref = [f \in File |-> 0] /\ type = [f \in File |-> "none"]
        /\ wr = [f \in File |-> FALSE] /\ fpipe = [f \in File |-> NoPipe]
        /\ ofile = [x \in Procs |-> [d \in Fd |-> NoFile]]
        /\ pi = [g \in Pipes |-> Blank] /\ mem = {} /\ plock = [g \in Pipes |-> Nobody]
        /\ stranded = [g \in Pipes |-> FALSE]
        /\ killed = [x \in Procs |-> FALSE] /\ file = [x \in Procs |-> NoFile] /\ left = [x \in Procs |-> 0]
        /\ todo = [x \in Procs |-> <<>>] /\ exiting = [x \in Procs |-> FALSE] /\ ff = [x \in Procs |-> NoFF]
        /\ panic = "none"
    BY DEF Init
  <1>2. PICK u \in Procs : pc = [q \in Procs |-> IF q = u THEN "user" ELSE "unused"]
    BY DEF Init
  <1>3. FileTypes
    BY SMT, <1>1 DEF FileTypes
  <1>4. PipeTypes
    <2>1. pi \in [Pipes -> Pipe]
      BY <1>1, BlankIs
    <2> QED BY <1>1, <2>1 DEF PipeTypes
  <1>5. pc \in [Procs -> Labels] /\ \A q \in Procs : pc[q] = "user" \/ pc[q] = "unused"
    BY SMT, <1>2 DEF Labels
  <1>6. CallTypes
    <2>1. NoFF \in FF
      BY SMT DEF NoFF, FF
    <2>2. <<>> \in Seq(File) /\ 0 \in Nat
      BY SMT
    <2> QED BY <1>1, <1>5, <2>1, <2>2 DEF CallTypes
  <1>7. \A q \in Procs : pc[q] \notin Rw /\ pc[q] \notin Building /\ pc[q] # "pipeclose" /\ ToDo(pc[q]) = {0}
    BY <1>5 DEF Rw, Reading, Writing, Building, ToDo
  <1>8. \A q \in Procs, d \in Fd : ofile[q][d] = NoFile
    BY <1>1
  <1>9. \A q \in Procs : todo[q] = <<>> /\ ff[q] = NoFF /\ Len(todo[q]) = 0
    <2>1. Len(<<>>) = 0
      BY SMT
    <2> QED BY <1>1, <2>1
  <1>10. CallInv
    BY <1>7, <1>8, <1>9 DEF CallInv, CallOk
  <1>11. \A f \in File : type[f] = "none" /\ type[f] # "pipe" /\ fpipe[f] \notin Pipes
    <2>1. "none" # "pipe"
      BY SMT
    <2> QED BY <1>1, <2>1, FilesAssumption
  <1>12. FileInv
    <2>1. "kalloc" \in Building
      BY SMT DEF Building
    <2> QED BY <1>7, <1>8, <1>11, <2>1 DEF FileInv, TypeOk, FreeOk, FdOk, BuildOk, PairOk
  <1>13. NoFF.pipe \notin Pipes
    BY SMT, FilesAssumption DEF NoFF
  <1>14. EndInv
    BY <1>9, <1>11, <1>13 DEF EndInv, OneFile, OneHolder, OneCloser
  <1>15. ASSUME NEW g \in Pipes
         PROVE  pi[g] = Blank /\ ~pi[g].readopen /\ ~pi[g].writeopen /\ pi[g].nread = 0 /\ pi[g].nwrite = 0
    <2>1. pi[g] = Blank
      BY <1>1
    <2>2. ~Blank.readopen /\ ~Blank.writeopen /\ Blank.nread = 0 /\ Blank.nwrite = 0
      BY SMT DEF Blank
    <2> QED BY <2>1, <2>2
  <1>16. RingInv
    <2>1. Count(0, 0) = 0
      BY Sizes, CountMoves
    <2>2. 0 <= PIPESIZE
      BY SMT, Sizes
    <2> QED BY <1>15, <2>1, <2>2 DEF RingInv
  <1>17. EndsOpen
    <2>1. ASSUME NEW g \in Pipes, NEW w PROVE ~Holds(g, w)
      <3>1. \A q \in Procs : ff[q] # [pipe |-> g, writable |-> w]
        <4>1. [pipe |-> g, writable |-> w].pipe = g
          BY SMT
        <4> QED BY <1>9, <1>13, <4>1
      <3> QED BY <1>11, <3>1 DEF Holds
    <2> QED BY <1>1, <1>15, <2>1 DEF EndsOpen
  <1>18. RefsCounted
    <2>1. ASSUME NEW f \in File
          PROVE  ref[f] = Cardinality(FdRefs(ofile, f)) + Cardinality(ToDoRefs(todo, f))
      <3>1. f # NoFile
        BY SMT DEF File, NoFile
      <3>2. FdRefs(ofile, f) = {}
        BY <1>8, <3>1 DEF FdRefs
      <3>3. \A i \in {1, 2} : ~(i <= 0)
        BY SMT
      <3>4. ToDoRefs(todo, f) = {}
        BY SMT, <1>9, <3>3 DEF ToDoRefs
      <3>5. Cardinality({}) = 0
        BY DEF SetFacts, FinEmpty
      <3>6. 0 + 0 = 0
        BY SMT
      <3> QED BY <1>1, <3>2, <3>4, <3>5, <3>6
    <2> QED BY <1>1, <2>1, RefsAre
  <1>19. RwInv
    <2>1. \A g \in Pipes : plock[g] = Nobody
      BY <1>1
    <2>2. LockInv
      <3>1. \A q \in Procs : pc[q] \notin {"read sleep", "write sleep"}
        BY <1>5
      <3> QED BY <2>1, <3>1, NobodyAssumption DEF LockInv
    <2>3. \A q \in Procs : pc[q] # "read sleep" /\ pc[q] # "write sleep" /\ pc[q] # "read asleep" /\ pc[q] # "write asleep"
      BY <1>5
    <2>4. SleepInv /\ NoLostWakeup
      BY <2>3 DEF SleepInv, SleepOk, NoLostWakeup
    <2> QED BY <2>2, <2>4 DEF RwInv
  <1> QED BY <1>3, <1>4, <1>6, <1>10, <1>12, <1>14, <1>16, <1>17, <1>18, <1>19, IInvIs

LEMMA StepInv ==
  ASSUME SetFacts, IInv, [Next]_vars
  PROVE  IInv'
  <1>1. CASE UNCHANGED vars
    BY <1>1, Stutter
  <1>2. CASE Next
    <2>1. PICK p \in Procs :
            \/ filealloc(p) \/ NoPage(p) \/ fileclose(p) \/ pipeclose(p) \/ exit(p) \/ kill(p)
            \/ \E g \in Pipes : pipealloc(p, g)
            \/ \E d \in Fd : sys_dup(p, d) \/ sys_close(p, d)
            \/ \E d \in Fd, n \in Counts, w \in BOOLEAN : CallRw(p, d, n, w)
            \/ \E q \in Procs : fork(p, q)
            \/ ReadWait(p) \/ Sleep(p) \/ WriteDone(p)
            \/ \E ok \in BOOLEAN : piperead(p, ok) \/ \E v \in Val : pipewrite(p, v, ok)
      BY <1>2 DEF Next
    <2>2. CASE filealloc(p) \/ NoPage(p) \/ fileclose(p) \/ pipeclose(p) \/ exit(p) \/ kill(p)
      BY <2>2, Step_filealloc, Step_NoPage, Step_fileclose, Step_pipeclose, Step_exit, Step_kill
    <2>3. CASE \E g \in Pipes : pipealloc(p, g)
      BY <2>3, Step_pipealloc
    <2>4. CASE \E d \in Fd : sys_dup(p, d) \/ sys_close(p, d)
      BY <2>4, Step_dup, Step_close
    <2>5. CASE \E d \in Fd, n \in Counts, w \in BOOLEAN : CallRw(p, d, n, w)
      BY <2>5, Step_CallRw
    <2>6. CASE \E q \in Procs : fork(p, q)
      BY <2>6, Step_fork
    <2>7. CASE ReadWait(p) \/ Sleep(p) \/ WriteDone(p)
      BY <2>7, Step_ReadWait, Step_Sleep, Step_WriteDone
    <2>8. CASE \E ok \in BOOLEAN : piperead(p, ok)
      BY <2>8, Step_piperead
    <2>9. CASE \E ok \in BOOLEAN : \E v \in Val : pipewrite(p, v, ok)
      BY <2>9, Step_pipewrite
    <2> QED BY <2>1, <2>2, <2>3, <2>4, <2>5, <2>6, <2>7, <2>8, <2>9
  <1> QED BY <1>1, <1>2

-----------------------------------------------------------------------------
(* The theorems.  From here on the library is at hand. *)

INSTANCE FiniteSetTheorems

LEMMA SetFactsHold == SetFacts
  <1>1. FinCard
    BY FS_CardinalityType DEF FinCard
  <1>2. FinEmpty
    BY FS_EmptySet DEF FinEmpty
  <1>3. FinSingle
    BY FS_Singleton DEF FinSingle
  <1>4. FinAdd
    BY FS_AddElement DEF FinAdd
  <1>5. FinRemove
    BY FS_RemoveElement DEF FinRemove
  <1>6. FinSubset
    BY FS_Subset DEF FinSubset
  <1>7. FinUnion
    BY FS_Union DEF FinUnion
  <1>8. FinProduct
    BY FS_Product DEF FinProduct
  <1>9. FinInterval
    BY FS_Interval DEF FinInterval
  <1>10. FinImage
    <2> SUFFICES ASSUME NEW S, NEW T, NEW h \in [S -> T], IsFiniteSet(S),
                        \A c, d \in S : h[c] = h[d] => c = d,
                        \A y \in T : \E d \in S : h[d] = y
                 PROVE  Cardinality(T) = Cardinality(S)
      BY DEF FinImage
    <2>1. h \in Injection(S, T)
      BY DEF Injection, IsInjective
    <2>2. h \in Surjection(S, T)
      BY DEF Surjection
    <2>3. ExistsBijection(S, T)
      BY <2>1, <2>2 DEF ExistsBijection, Bijection
    <2> QED BY <2>3, FS_Bijection
  <1>11. NatLeast
    <2> SUFFICES ASSUME NEW S \in SUBSET Nat, S # {} PROVE \E m \in S : \A y \in S : m <= y
      BY DEF NatLeast
    <2> DEFINE R == OpToRel(<, Nat)
    <2>1. IsWellFoundedOn(R, Nat)
      BY NatLessThanWellFounded
    <2>2. PICK m \in S : \A y \in S : ~(<<y, m>> \in R)
      BY <2>1, WFMin
    <2>3. \A y \in S : ~(y < m)
      BY <2>2 DEF OpToRel
    <2> HIDE DEF R
    <2>4. \A y \in S : m <= y
      BY SMT, <2>3
    <2> QED BY <2>4
  <1> QED BY <1>1, <1>2, <1>3, <1>4, <1>5, <1>6, <1>7, <1>8, <1>9, <1>10, <1>11 DEF SetFacts

(* The inductive invariant of file.c and pipe.c.  NoLostWakeup needs to    *)
(* know who holds pi->lock between the test and the sleep (LockInv) and    *)
(* that the test still holds then (SleepInv); RefsCounted and EndsOpen     *)
(* need that an end of a pipe has one holder (EndInv) and that the file of *)
(* a call in progress is one of its descriptors (CallInv).                 *)
THEOREM FilesInvariant == Spec => []IInv
  <1>1. Init => IInv
    BY InitInv, SetFactsHold
  <1>2. IInv /\ [Next]_vars => IInv'
    BY StepInv, SetFactsHold
  <1> QED BY <1>1, <1>2, PTL DEF Spec

(* ref of a file counts the descriptors and the calls that refer to it, so *)
(* no assertion of filedup, fileclose, fileread or filewrite fails.        *)
THEOREM FilesRefsCounted == Spec => []RefsCounted
  <1>1. IInv => RefsCounted
    BY DEF IInv
  <1> QED BY <1>1, FilesInvariant, PTL

(* readopen and writeopen say whether somebody holds the end, and the page *)
(* of a pipe is freed with the second of them and not before.              *)
THEOREM FilesEndsOpen == Spec => []EndsOpen
  <1>1. IInv => EndsOpen
    BY DEF IInv
  <1> QED BY <1>1, FilesInvariant, PTL

(* No process sleeps in piperead or pipewrite when it has a reason to go   *)
(* on, but for the reader that a killed writer leaves without a wakeup.    *)
THEOREM FilesNoLostWakeup == Spec => []NoLostWakeup
  <1>1. IInv => NoLostWakeup
    BY DEF IInv
  <1> QED BY <1>1, FilesInvariant, PTL

-----------------------------------------------------------------------------
(* A pipe implements the bounded queue. *)

(* A pipe is a bounded queue whatever its size and the width of nread and  *)
(* nwrite, wrap-around included: every byte written is read once, in order,*)
(* and an end that is closed stays closed until the page is a new pipe.    *)
THEOREM FilesRefinesFifo == Spec => IsFifo
  <1>1. Init => F!Init
    <2> SUFFICES ASSUME Init PROVE F!Init
      BY SMT
    <2>1. pi = [g \in Pipes |-> Blank]
      BY DEF Init
    <2>2. \A g \in Pipes : OpenEnds(pi[g]) = {} /\ Content(pi[g]) = <<>>
      <3>1. ~Blank.readopen /\ ~Blank.writeopen
        BY SMT DEF Blank
      <3>2. OpenEnds(Blank) = {}
        BY <3>1, EndsSet
      <3> QED BY <2>1, <3>2, BlankEmpty
    <2>3. Ends = [g \in Pipes |-> {}]
      BY <2>2 DEF Ends, OpenEnds
    <2>4. Queues = [g \in Pipes |-> <<>>]
      BY <2>2 DEF Queues
    <2> QED BY <2>3, <2>4 DEF F!Init, Ends, Queues
  <1>2. IInv /\ [Next]_vars =>
          [F!Next]_<<[g \in Pipes |-> {e \in {"r", "w"} : IF e = "r" THEN pi[g].readopen ELSE pi[g].writeopen}],
                     [g \in Pipes |-> Content(pi[g])]>>
    BY Refines DEF Ends, Queues
  <1> QED BY <1>1, <1>2, FilesInvariant, PTL DEF Spec, IsFifo, F!Spec
=============================================================================
