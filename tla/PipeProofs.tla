----------------------------- MODULE PipeProofs -----------------------------
(***************************************************************************)
(* The inductive invariant of module Files, and the steps on a pipe: reads *)
(* and writes and the closing of an end keep the invariant, and each step  *)
(* on a pipe is one of module Fifo or none.  The last part counts the      *)
(* references to a file, and follows the two files of a new pipe.          *)
(***************************************************************************)
EXTENDS Files, SetFacts, TLAPS

USE Zenon

N == 2 ^ W
Index == 0 .. N - 1
Pipe == [readopen : BOOLEAN, writeopen : BOOLEAN, nread : Index, nwrite : Index,
         data : [0 .. PIPESIZE - 1 -> Val]]
FF == [pipe : Pipes \cup {NoPipe}, writable : BOOLEAN]
Reading == {"read", "read sleep", "read asleep"}
Writing == {"write", "write sleep", "write asleep"}
Rw == Reading \cup Writing
Building == {"pipealloc", "kalloc"}
Labels == Rw \cup Building \cup {"unused", "user", "exit", "fileclose", "pipeclose"}

FileTypes ==
  /\ ref \in [File -> Nat] /\ type \in [File -> {"none", "pipe"}]
  /\ wr \in [File -> BOOLEAN] /\ fpipe \in [File -> Pipes \cup {NoPipe}]
  /\ ofile \in [Procs -> [Fd -> File \cup {NoFile}]]
PipeTypes ==
  /\ pi \in [Pipes -> Pipe] /\ mem \subseteq Pipes /\ plock \in [Pipes -> Procs \cup {Nobody}]
  /\ stranded \in [Pipes -> BOOLEAN]
CallTypes ==
  /\ killed \in [Procs -> BOOLEAN] /\ exiting \in [Procs -> BOOLEAN]
  /\ pc \in [Procs -> Labels] /\ file \in [Procs -> File \cup {NoFile}] /\ left \in [Procs -> Nat]
  /\ todo \in [Procs -> Seq(File)] /\ ff \in [Procs -> FF]

(* How many files a process has yet to close or to give out. *)
ToDo(l) ==
  CASE l = "pipealloc" -> {1}
    [] l = "kalloc" -> {2}
    [] l = "fileclose" -> {1, 2}
    [] l = "pipeclose" -> {0, 1}
    [] OTHER -> {0}

(* A process without a call holds nothing but its descriptors, and in a    *)
(* read or write it has the descriptor of the file.                        *)
CallOk(p) ==
  /\ Len(todo[p]) \in ToDo(pc[p])
  /\ pc[p] = "unused" => \A d \in Fd : ofile[p][d] = NoFile
  /\ pc[p] = "pipeclose" => ff[p].pipe \in Pipes
  /\ pc[p] # "pipeclose" => ff[p] = NoFF
  /\ pc[p] \in Rw =>
       /\ file[p] \in File /\ (\E d \in Fd : ofile[p][d] = file[p])
       /\ wr[file[p]] <=> pc[p] \in Writing
CallInv == \A p \in Procs : CallOk(p)

(* A file with a descriptor is set up; one that is being set up has one    *)
(* reference.                                                              *)
TypeOk == \A f \in File : type[f] = "pipe" <=> fpipe[f] \in Pipes
FreeOk == \A f \in File : ref[f] = 0 => type[f] = "none"
FdOk == \A p \in Procs, d \in Fd : ofile[p][d] # NoFile => type[ofile[p][d]] = "pipe"
BuildOk ==
  \A p \in Procs : pc[p] \in Building =>
    \A i \in 1 .. Len(todo[p]) : ref[todo[p][i]] = 1 /\ type[todo[p][i]] = "none"
PairOk == \A p \in Procs : pc[p] = "kalloc" => todo[p][1] # todo[p][2]
FileInv == TypeOk /\ FreeOk /\ FdOk /\ BuildOk /\ PairOk

(* Each end of a pipe has one holder, a file or a process that closes it. *)
OneFile ==
  \A f, h \in File : type[f] = "pipe" /\ type[h] = "pipe" /\ fpipe[f] = fpipe[h] /\ wr[f] = wr[h] => f = h
OneHolder ==
  \A f \in File, p \in Procs : type[f] = "pipe" => ff[p] # [pipe |-> fpipe[f], writable |-> wr[f]]
OneCloser == \A p, q \in Procs : ff[p].pipe \in Pipes /\ ff[p] = ff[q] => p = q
EndInv == OneFile /\ OneHolder /\ OneCloser

(* How many bytes there are from the counter i to the counter j. *)
Count(i, j) == (j - i + N) % N
RingInv == \A g \in Pipes : Count(pi[g].nread, pi[g].nwrite) <= PIPESIZE

PipeOf(p) == fpipe[file[p]]

(* pi->lock is held, between two steps, by a writer in its loop and by a   *)
(* process that is about to sleep.                                         *)
LockInv ==
  /\ \A g \in Pipes, p \in Procs :
       plock[g] = p => pc[p] \in {"write", "read sleep", "write sleep"} /\ PipeOf(p) = g
  /\ \A p \in Procs : pc[p] \in {"read sleep", "write sleep"} => plock[PipeOf(p)] = p

(* What a process saw that is about to sleep. *)
SleepOk(p) ==
  /\ pc[p] = "read sleep" => pi[PipeOf(p)].writeopen /\ IsEmpty(pi[PipeOf(p)])
  /\ pc[p] = "write sleep" =>
       /\ pi[PipeOf(p)].readopen /\ IsFull(pi[PipeOf(p)])
       /\ \A q \in Procs : pc[q] = "read asleep" => PipeOf(q) # PipeOf(p)
SleepInv == \A p \in Procs : SleepOk(p)

Types == FileTypes /\ PipeTypes /\ CallTypes
IInv == /\ Types /\ CallInv /\ FileInv /\ EndInv /\ RingInv /\ LockInv /\ SleepInv
        /\ RefsCounted /\ EndsOpen /\ NoLostWakeup

-----------------------------------------------------------------------------
(* The counters of a pipe. *)

LEMMA Sizes ==
  /\ N \in Nat \ {0} /\ PIPESIZE \in Nat \ {0} /\ PIPESIZE < N /\ N % PIPESIZE = 0
  /\ Index \subseteq Nat /\ \A i \in Index : i < N
  /\ 0 \in Index /\ 1 \in Index
  <1>1. N \in Nat /\ PIPESIZE \in Nat \ {0} /\ PIPESIZE < N /\ N % PIPESIZE = 0
    BY FilesAssumption DEF N
  <1> HIDE DEF N
  <1> QED BY SMT, <1>1 DEF Index

LEMMA ModRange == ASSUME NEW m \in Nat \ {0}, NEW a \in Int PROVE a % m \in 0 .. m - 1
  BY SMT

LEMMA DivMod ==
  ASSUME NEW m \in Nat \ {0}, NEW a \in Int
  PROVE  a \div m \in Int /\ a = m * (a \div m) + (a % m)
  BY SMT

LEMMA ModIs ==
  ASSUME NEW m \in Nat \ {0}, NEW a \in Int, NEW q \in Int, NEW x \in 0 .. m - 1, a = m * q + x
  PROVE  a % m = x
  BY SMT

LEMMA ModSmall == ASSUME NEW m \in Nat \ {0}, NEW a \in 0 .. m - 1 PROVE a % m = a
  BY SMT

(* The place of an index in the ring does not change when it wraps. *)
LEMMA Place == ASSUME NEW x \in Int PROVE (x % N) % PIPESIZE = x % PIPESIZE /\ x % PIPESIZE \in 0 .. PIPESIZE - 1
  <1>1. PIPESIZE \in Nat \ {0} /\ N \in Nat \ {0} /\ N % PIPESIZE = 0
    BY SMT, Sizes
  <1>2. N = PIPESIZE * (N \div PIPESIZE) /\ N \div PIPESIZE \in Int
    BY SMT, <1>1, DivMod
  <1>3. x \div N \in Int /\ x = N * (x \div N) + (x % N) /\ x % N \in Int
    BY SMT, <1>1, DivMod, ModRange
  <1>4. /\ x \div PIPESIZE \in Int /\ x = PIPESIZE * (x \div PIPESIZE) + (x % PIPESIZE)
        /\ x % PIPESIZE \in 0 .. PIPESIZE - 1
    BY SMT, <1>1, DivMod, ModRange
  <1> DEFINE a == x \div N
             b == x \div PIPESIZE
             c == N \div PIPESIZE
             y == x % N
             z == x % PIPESIZE
             s == PIPESIZE
  <1>5. a \in Int /\ b \in Int /\ c \in Int /\ y \in Int /\ z \in Int /\ s \in Int
    BY SMT, <1>1, <1>2, <1>3, <1>4
  <1>6. N = s * c /\ x = N * a + y /\ x = s * b + z
    BY SMT, <1>2, <1>3, <1>4
  <1> HIDE DEF a, b, c, y, z, s
  <1>7. PICK q \in Int : y = s * q + z
    <2>1. y = s * (b - c * a) + z /\ b - c * a \in Int
      BY SMT, <1>5, <1>6
    <2> QED BY <2>1
  <1>8. s \in Nat \ {0} /\ z \in 0 .. s - 1
    BY SMT, <1>1, <1>4 DEF s, z
  <1>9. y % s = z
    BY <1>5, <1>7, <1>8, ModIs
  <1> QED BY <1>4, <1>9 DEF y, z, s

LEMMA PlaceSum == ASSUME NEW x \in Int, NEW z \in Int PROVE (x + z) % PIPESIZE = ((x % N) + z) % PIPESIZE
  <1>1. PIPESIZE \in Nat \ {0} /\ N \in Nat \ {0} /\ N % PIPESIZE = 0
    BY SMT, Sizes
  <1> DEFINE a == x \div N
             c == N \div PIPESIZE
             y == x % N
             s == PIPESIZE
             d == (y + z) \div s
             v == (y + z) % s
  <1>2. c \in Int /\ N = s * c
    BY SMT, <1>1, DivMod
  <1>3. a \in Int /\ y \in Int /\ x = N * a + y
    BY SMT, <1>1, DivMod, ModRange
  <1>4. s \in Nat \ {0} /\ y + z \in Int
    BY SMT, <1>1, <1>3
  <1> HIDE DEF a, c, y, s
  <1>5. d \in Int /\ v \in 0 .. s - 1 /\ y + z = s * d + v
    BY <1>4, DivMod, ModRange
  <1> HIDE DEF d, v
  <1>6. PICK q \in Int : x + z = s * q + v
    <2>1. x + z = s * (c * a + d) + v /\ c * a + d \in Int
      BY SMT, <1>2, <1>3, <1>4, <1>5
    <2> QED BY <2>1
  <1>7. x + z \in Int
    BY SMT
  <1>8. (x + z) % s = v
    BY <1>4, <1>5, <1>6, <1>7, ModIs
  <1> QED BY <1>8 DEF v, s, y

(* Two indices that are less than a round apart have different places. *)
LEMMA Apart ==
  ASSUME NEW x \in Int, NEW y \in Int, x < y, y - x < PIPESIZE PROVE x % PIPESIZE # y % PIPESIZE
  <1>1. PIPESIZE \in Nat \ {0}
    BY SMT, Sizes
  <1> SUFFICES ASSUME x % PIPESIZE = y % PIPESIZE PROVE FALSE
    BY SMT
  <1> DEFINE a == x \div PIPESIZE
             b == y \div PIPESIZE
             z == x % PIPESIZE
             s == PIPESIZE
  <1>2. a \in Int /\ b \in Int /\ z \in Int /\ x = s * a + z /\ y = s * b + z
    BY SMT, <1>1, DivMod, ModRange
  <1>3. s \in Nat \ {0} /\ y - x < s
    BY SMT, <1>1
  <1> HIDE DEF a, b, z, s
  <1>4. y - x = s * (b - a) /\ b - a \in Int
    BY SMT, <1>2, <1>3
  <1>5. \A d, k \in Int : ~(d = s * k /\ 0 < d /\ d < s)
    BY SMT, <1>3
  <1> QED BY SMT, <1>3, <1>4, <1>5

(* The number of bytes between two counters, and what it becomes when one  *)
(* of them moves.                                                          *)
LEMMA CountIs ==
  ASSUME NEW i \in Index, NEW j \in Index
  PROVE  /\ Count(i, j) \in Index
         /\ i <= j => Count(i, j) = j - i
         /\ j < i => Count(i, j) = j - i + N
  <1> DEFINE m == N
  <1>1. m \in Nat \ {0} /\ i \in 0 .. m - 1 /\ j \in 0 .. m - 1
    BY Sizes DEF Index
  <1> HIDE DEF m
  <1>2. (j - i + m) % m \in 0 .. m - 1
    BY SMT, <1>1
  <1>3. i <= j => (j - i + m) % m = j - i
    <2>1. i <= j => j - i + m = m * 1 + (j - i) /\ j - i \in 0 .. m - 1 /\ j - i + m \in Int
      BY SMT, <1>1
    <2> QED BY SMT, <1>1, <2>1, ModIs
  <1>4. j < i => (j - i + m) % m = j - i + m
    BY SMT, <1>1
  <1> QED BY <1>2, <1>3, <1>4 DEF m, Index, Count

LEMMA Moved ==
  ASSUME NEW i \in Index, NEW k \in Index
  PROVE  /\ (i + k) % N \in Index
         /\ i + k < N => (i + k) % N = i + k
         /\ N <= i + k => (i + k) % N = i + k - N
  <1> DEFINE m == N
  <1>1. m \in Nat \ {0} /\ i \in 0 .. m - 1 /\ k \in 0 .. m - 1
    BY Sizes DEF Index
  <1> HIDE DEF m
  <1>2. (i + k) % m \in 0 .. m - 1
    BY SMT, <1>1
  <1>3. i + k < m => (i + k) % m = i + k
    BY SMT, <1>1
  <1>4. m <= i + k => (i + k) % m = i + k - m
    BY SMT, <1>1
  <1> QED BY <1>2, <1>3, <1>4 DEF m, Index

LEMMA CountMoves ==
  ASSUME NEW i \in Index, NEW j \in Index
  PROVE  (i + Count(i, j)) % N = j /\ (Count(i, j) = 0 <=> i = j)
  <1> DEFINE d == Count(i, j)
             u == (i + d) % N
             m == N
  <1>1. d \in Index /\ (i <= j => d = j - i) /\ (j < i => d = j - i + m)
    BY CountIs
  <1> HIDE DEF d
  <1>2. (i + d < m => u = i + d) /\ (m <= i + d => u = i + d - m)
    BY <1>1, Moved
  <1>3. m \in Nat \ {0} /\ \A z \in Index : z \in Nat /\ z < m
    BY Sizes
  <1> HIDE DEF m, u
  <1>4. d \in Nat /\ d < m /\ i \in Nat /\ i < m /\ j \in Nat /\ j < m
    BY <1>1, <1>3
  <1>5. u = j /\ (d = 0 <=> i = j)
    BY SMT, <1>1, <1>2, <1>3, <1>4
  <1> QED BY <1>5 DEF d, u

LEMMA CountAhead ==
  ASSUME NEW i \in Index, NEW j \in Index, NEW k \in Index, Count(i, j) + k < N
  PROVE  Count(i, (j + k) % N) = Count(i, j) + k
  <1> DEFINE d == Count(i, j)
             x == (j + k) % N
             m == N
  <1>1. d \in Index /\ (i <= j => d = j - i) /\ (j < i => d = j - i + m) /\ d + k < m
    BY CountIs
  <1>2. x \in Index /\ (j + k < m => x = j + k) /\ (m <= j + k => x = j + k - m)
    BY Moved
  <1> HIDE DEF d, x
  <1>3. (i <= x => Count(i, x) = x - i) /\ (x < i => Count(i, x) = x - i + m)
    BY <1>2, CountIs
  <1>4. m \in Nat \ {0} /\ \A z \in Index : z \in Nat /\ z < m
    BY Sizes
  <1> HIDE DEF m
  <1>5. d \in Nat /\ x \in Nat /\ x < m /\ i \in Nat /\ i < m /\ j \in Nat /\ j < m /\ k \in Nat
    BY <1>1, <1>2, <1>4
  <1>6. Count(i, x) = d + k
    BY SMT, <1>1, <1>2, <1>3, <1>4, <1>5
  <1> QED BY <1>6 DEF d, x

LEMMA CountBehind ==
  ASSUME NEW i \in Index, NEW j \in Index, NEW k \in Index, k <= Count(i, j)
  PROVE  Count((i + k) % N, j) = Count(i, j) - k
  <1> DEFINE d == Count(i, j)
             y == (i + k) % N
             m == N
  <1>1. d \in Index /\ (i <= j => d = j - i) /\ (j < i => d = j - i + m) /\ k <= d
    BY CountIs
  <1>2. y \in Index /\ (i + k < m => y = i + k) /\ (m <= i + k => y = i + k - m)
    BY Moved
  <1> HIDE DEF d, y
  <1>3. (y <= j => Count(y, j) = j - y) /\ (j < y => Count(y, j) = j - y + m)
    BY <1>2, CountIs
  <1>4. m \in Nat \ {0} /\ \A z \in Index : z \in Nat /\ z < m
    BY Sizes
  <1> HIDE DEF m
  <1>5. d \in Nat /\ y \in Nat /\ y < m /\ i \in Nat /\ i < m /\ j \in Nat /\ j < m /\ k \in Nat
    BY <1>1, <1>2, <1>4
  <1>6. Count(y, j) = d - k
    BY SMT, <1>1, <1>2, <1>3, <1>4, <1>5
  <1> QED BY <1>6 DEF d, y

-----------------------------------------------------------------------------
(* The bytes in a pipe. *)

Bytes(b, i, j) == [k \in 1 .. Count(i, j) |-> b[((i + k - 1) % N) % PIPESIZE]]

LEMMA ContentIs == \A c : Content(c) = Bytes(c.data, c.nread, c.nwrite)
  BY DEF Content, Bytes, Count, N

LEMMA BytesAre ==
  ASSUME NEW b \in [0 .. PIPESIZE - 1 -> Val], NEW i \in Index, NEW j \in Index
  PROVE  /\ Bytes(b, i, j) \in Seq(Val) /\ Len(Bytes(b, i, j)) = Count(i, j)
         /\ \A k \in 1 .. Count(i, j) : Bytes(b, i, j)[k] = b[(i + k - 1) % PIPESIZE]
         /\ Count(i, j) \in Nat
  <1> DEFINE d == Count(i, j)
  <1>1. i \in Int /\ d \in Nat
    <2>1. d \in Index
      BY CountIs
    <2>2. i \in Nat /\ d \in Nat
      BY <2>1, Sizes
    <2> QED BY SMT, <2>2
  <1>2. Bytes(b, i, j) = [k \in 1 .. d |-> b[((i + k - 1) % N) % PIPESIZE]]
    BY DEF Bytes
  <1> HIDE DEF d
  <1>3. \A k \in 1 .. d : i + k - 1 \in Int
    BY SMT, <1>1
  <1>4. \A k \in 1 .. d : /\ ((i + k - 1) % N) % PIPESIZE = (i + k - 1) % PIPESIZE
                          /\ (i + k - 1) % PIPESIZE \in 0 .. PIPESIZE - 1
    BY <1>3, Place
  <1>5. \A k \in 1 .. d : Bytes(b, i, j)[k] = b[(i + k - 1) % PIPESIZE]
    BY <1>2, <1>4
  <1>6. Bytes(b, i, j) \in [1 .. d -> Val]
    BY <1>2, <1>4
  <1>7. Bytes(b, i, j) \in Seq(Val) /\ Len(Bytes(b, i, j)) = d
    BY SMT, <1>1, <1>6
  <1> QED BY <1>1, <1>5, <1>7 DEF d

LEMMA SeqSame ==
  ASSUME NEW S, NEW s \in Seq(S), NEW t \in Seq(S), Len(s) = Len(t), \A i \in 1 .. Len(s) : s[i] = t[i]
  PROVE  s = t
  BY SMT

(* pipewrite stores a byte after the last one. *)
LEMMA BytePut ==
  ASSUME NEW b \in [0 .. PIPESIZE - 1 -> Val], NEW i \in Index, NEW j \in Index,
         Count(i, j) < PIPESIZE, NEW v \in Val
  PROVE  Bytes([b EXCEPT ![j % PIPESIZE] = v], i, (j + 1) % N) = Append(Bytes(b, i, j), v)
  <1> DEFINE d == Count(i, j)
             s == Bytes(b, i, j)
             a == [b EXCEPT ![j % PIPESIZE] = v]
             x == (j + 1) % N
             t == Bytes(a, i, x)
  <1>1. PIPESIZE \in Nat /\ N \in Nat /\ PIPESIZE < N /\ 1 \in Index /\ i \in Int /\ j \in Int
    BY SMT, Sizes
  <1>2. d \in Nat /\ (i + d) % N = j /\ x \in Index /\ d < PIPESIZE
    <2>1. d \in Nat /\ d < PIPESIZE
      BY BytesAre
    <2>2. (i + d) % N = j
      BY <1>1, CountMoves
    <2>3. x \in Index
      BY <1>1, Moved
    <2> QED BY <2>1, <2>2, <2>3
  <1>3. d + 1 < N
    BY SMT, <1>1, <1>2
  <1>4. Count(i, x) = d + 1
    BY <1>1, <1>3, CountAhead
  <1>5. a \in [0 .. PIPESIZE - 1 -> Val]
    OBVIOUS
  <1>6. /\ s \in Seq(Val) /\ Len(s) = d
        /\ \A k \in 1 .. d : s[k] = b[(i + k - 1) % PIPESIZE]
    BY BytesAre
  <1> HIDE DEF a, x, d
  <1>7. t \in Seq(Val) /\ Len(t) = d + 1
    BY <1>2, <1>4, <1>5, BytesAre
  <1>8. \A k \in 1 .. d + 1 : t[k] = a[(i + k - 1) % PIPESIZE]
    <2>1. \A k \in 1 .. Count(i, x) : t[k] = a[(i + k - 1) % PIPESIZE]
      BY <1>2, <1>5, BytesAre
    <2> QED BY <1>4, <2>1
  <1>9. (i + d) % PIPESIZE = j % PIPESIZE /\ j % PIPESIZE \in 0 .. PIPESIZE - 1
    <2>1. i + d \in Int
      BY SMT, <1>1, <1>2
    <2> QED BY <1>1, <1>2, <2>1, Place
  <1>10. ASSUME NEW k \in 1 .. d
         PROVE  (i + k - 1) % PIPESIZE \in 0 .. PIPESIZE - 1 /\ (i + k - 1) % PIPESIZE # j % PIPESIZE
    <2>1. i + k - 1 \in Int /\ i + d \in Int /\ i + k - 1 < i + d /\ (i + d) - (i + k - 1) < PIPESIZE
      BY SMT, <1>1, <1>2
    <2>2. (i + k - 1) % PIPESIZE # (i + d) % PIPESIZE
      BY <2>1, Apart
    <2>3. (i + k - 1) % PIPESIZE \in 0 .. PIPESIZE - 1
      BY <2>1, Place
    <2> QED BY <1>9, <2>2, <2>3
  <1>11. ASSUME NEW k \in 1 .. d PROVE t[k] = s[k]
    <2>1. k \in 1 .. d + 1
      BY SMT, <1>2
    <2>2. a[(i + k - 1) % PIPESIZE] = b[(i + k - 1) % PIPESIZE]
      BY <1>10 DEF a
    <2> HIDE DEF s, t
    <2> QED BY <1>6, <1>8, <2>1, <2>2
  <1>12. t[d + 1] = v
    <2>1. d + 1 \in 1 .. d + 1 /\ i + (d + 1) - 1 = i + d
      BY SMT, <1>1, <1>2
    <2>2. a[j % PIPESIZE] = v
      BY <1>9 DEF a
    <2> HIDE DEF t
    <2> QED BY <1>8, <1>9, <2>1, <2>2
  <1> HIDE DEF s, t
  <1>13. /\ Append(s, v) \in Seq(Val) /\ Len(Append(s, v)) = d + 1
         /\ \A k \in 1 .. d : Append(s, v)[k] = s[k]
         /\ Append(s, v)[d + 1] = v
    BY SMT, <1>6
  <1>14. \A k \in 1 .. Len(t) : k \in 1 .. d \/ k = d + 1
    BY SMT, <1>2, <1>7
  <1>15. t = Append(s, v)
    BY <1>7, <1>11, <1>12, <1>13, <1>14, SeqSame
  <1> QED BY <1>15 DEF s, t, a, x

(* piperead takes the first k bytes. *)
LEMMA BytesTaken ==
  ASSUME NEW b \in [0 .. PIPESIZE - 1 -> Val], NEW i \in Index, NEW j \in Index, NEW k \in Index,
         k <= Count(i, j)
  PROVE  Bytes(b, (i + k) % N, j) = SubSeq(Bytes(b, i, j), k + 1, Len(Bytes(b, i, j)))
  <1> DEFINE d == Count(i, j)
             s == Bytes(b, i, j)
             x == (i + k) % N
             t == Bytes(b, x, j)
             u == SubSeq(s, k + 1, d)
  <1>1. i \in Int /\ k \in Nat
    BY SMT, Sizes
  <1>2. d \in Nat /\ x \in Index /\ Count(x, j) = d - k /\ k <= d
    <2>1. d \in Nat /\ k <= d
      BY BytesAre
    <2>2. Count(x, j) = d - k
      BY CountBehind
    <2>3. x \in Index
      BY Moved
    <2> QED BY <2>1, <2>2, <2>3
  <1>3. /\ s \in Seq(Val) /\ Len(s) = d
        /\ \A m \in 1 .. d : s[m] = b[(i + m - 1) % PIPESIZE]
    BY BytesAre
  <1>4. \A z \in Int : (i + k + z) % PIPESIZE = (x + z) % PIPESIZE
    <2>1. i + k \in Int
      BY SMT, <1>1
    <2> QED BY <2>1, PlaceSum
  <1> HIDE DEF d, s, x
  <1>5. t \in Seq(Val) /\ Len(t) = d - k
    BY <1>2, BytesAre
  <1>6. \A m \in 1 .. d - k : t[m] = b[(x + m - 1) % PIPESIZE]
    <2>1. \A m \in 1 .. Count(x, j) : t[m] = b[(x + m - 1) % PIPESIZE]
      BY <1>2, BytesAre
    <2> QED BY <1>2, <2>1
  <1>7. u \in Seq(Val) /\ Len(u) = d - k /\ \A m \in 1 .. d - k : u[m] = s[m + k]
    BY SMT, <1>1, <1>2, <1>3
  <1> HIDE DEF t, u
  <1>8. ASSUME NEW m \in 1 .. d - k PROVE t[m] = u[m]
    <2>1. /\ m + k \in 1 .. d /\ m - 1 \in Int /\ x \in Int
          /\ i + (m + k) - 1 = i + k + (m - 1) /\ x + m - 1 = x + (m - 1)
      BY SMT, <1>1, <1>2, Sizes
    <2>2. t[m] = b[(x + (m - 1)) % PIPESIZE]
      BY <1>6, <2>1
    <2>3. u[m] = b[(i + k + (m - 1)) % PIPESIZE]
      BY <1>3, <1>7, <2>1
    <2> QED BY <1>4, <2>1, <2>2, <2>3
  <1>9. t = u
    BY <1>5, <1>7, <1>8, SeqSame
  <1> QED BY <1>3, <1>9 DEF t, u, s, x

-----------------------------------------------------------------------------
(* The references to a file. *)

FdRefs(o, f) == {x \in Procs \X Fd : o[x[1]][x[2]] = f}
ToDoRefs(t, f) == {x \in Procs \X {1, 2} : x[2] <= Len(t[x[1]]) /\ t[x[1]][x[2]] = f}
One(c) == IF c THEN 1 ELSE 0
Occurs(s, f) == One(1 <= Len(s) /\ s[1] = f) + One(2 <= Len(s) /\ s[2] = f)

LEMMA RefsAre ==
  RefsCounted <=>
    /\ panic = "none"
    /\ \A f \in File : ref[f] = Cardinality(FdRefs(ofile, f)) + Cardinality(ToDoRefs(todo, f))
  BY DEF RefsCounted, FdRefs, ToDoRefs

LEMMA RefsNext ==
  ASSUME panic' = "none",
         \A f \in File : ref'[f] = Cardinality(FdRefs(ofile', f)) + Cardinality(ToDoRefs(todo', f))
  PROVE  RefsCounted'
  BY DEF RefsCounted, FdRefs, ToDoRefs

-----------------------------------------------------------------------------
(* filealloc and fdalloc take the first of what is free. *)

LEMMA FdsAre == Fd \subseteq Nat /\ File \subseteq Nat /\ NoFile \notin File
  BY SMT, FilesAssumption DEF Fd, File, NoFile

(* What a descriptor or a close under way refers to has a reference, and   *)
(* what has one has just one of these.                                     *)
LEMMA FdHasRef ==
  ASSUME IInv, NEW p \in Procs, NEW d \in Fd, ofile[p][d] # NoFile
  PROVE  /\ ofile[p][d] \in File /\ ref[ofile[p][d]] \in Nat /\ ref[ofile[p][d]] >= 1
         /\ type[ofile[p][d]] = "pipe" /\ fpipe[ofile[p][d]] \in Pipes
  <1> DEFINE f == ofile[p][d]
  <1>1. f \in File /\ ref[f] \in Nat
    <2>1. ofile[p] \in [Fd -> File \cup {NoFile}] /\ ref \in [File -> Nat]
      BY DEF IInv, Types, FileTypes
    <2> QED BY <2>1
  <1>2. type[f] = "pipe" /\ fpipe[f] \in Pipes
    BY <1>1 DEF IInv, FileInv, TypeOk, FreeOk, FdOk, BuildOk, PairOk
  <1>3. ref[f] # 0
    <2>1. "pipe" # "none"
      BY SMT
    <2> QED BY <1>1, <1>2, <2>1 DEF IInv, FileInv, TypeOk, FreeOk, FdOk, BuildOk, PairOk
  <1> HIDE DEF f
  <1>4. ref[f] >= 1
    BY SMT, <1>1, <1>3
  <1> QED BY <1>1, <1>2, <1>4 DEF f

-----------------------------------------------------------------------------
(* What a step that leaves a part of the state alone keeps. *)

Slot == {1, 2}

LEMMA RwIs ==
  ASSUME IInv, NEW p \in Procs, pc[p] \in Rw
  PROVE  /\ file[p] \in File /\ type[file[p]] = "pipe" /\ PipeOf(p) \in Pipes
         /\ ref[file[p]] \in Nat /\ ref[file[p]] >= 1
         /\ wr[file[p]] <=> pc[p] \in Writing
         /\ \E d \in Fd : ofile[p][d] = file[p]
         /\ pi[PipeOf(p)] \in Pipe
         /\ pc[p] \in Reading => pi[PipeOf(p)].readopen
         /\ pc[p] \in Writing => pi[PipeOf(p)].writeopen
  <1>1. /\ file[p] \in File /\ (\E d \in Fd : ofile[p][d] = file[p])
        /\ wr[file[p]] <=> pc[p] \in Writing
    BY DEF IInv, CallInv, CallOk
  <1>2. PICK d \in Fd : ofile[p][d] = file[p]
    BY <1>1
  <1>3. ofile[p][d] # NoFile
    BY <1>1, <1>2, FdsAre
  <1>4. /\ ref[file[p]] \in Nat /\ ref[file[p]] >= 1
        /\ type[file[p]] = "pipe" /\ fpipe[file[p]] \in Pipes
    BY <1>2, <1>3, FdHasRef
  <1>5. pi[PipeOf(p)] \in Pipe
    BY <1>4 DEF IInv, Types, PipeTypes, PipeOf
  <1>6. Holds(PipeOf(p), wr[file[p]])
    BY <1>1, <1>4 DEF Holds, PipeOf
  <1>7. wr[file[p]] \in BOOLEAN
    BY <1>1 DEF IInv, Types, FileTypes
  <1>8. pc[p] \in Writing => wr[file[p]] = TRUE
    BY <1>1, <1>7
  <1>9. pc[p] \in Reading => wr[file[p]] = FALSE
    <2>1. pc[p] \in Reading => pc[p] \notin Writing
      BY DEF Reading, Writing
    <2> QED BY <1>1, <1>7, <2>1
  <1>10. pc[p] \in Reading => pi[PipeOf(p)].readopen
    BY <1>4, <1>6, <1>9 DEF IInv, EndsOpen, PipeOf
  <1>11. pc[p] \in Writing => pi[PipeOf(p)].writeopen
    BY <1>4, <1>6, <1>8 DEF IInv, EndsOpen, PipeOf
  <1> QED BY <1>1, <1>4, <1>5, <1>10, <1>11 DEF PipeOf

(* The reads and writes in progress. *)
RwSame(q) ==
  /\ pc'[q] = pc[q] /\ file'[q] = file[q] /\ fpipe'[file[q]] = fpipe[file[q]]
  /\ pi'[PipeOf(q)] = pi[PipeOf(q)]
RwInv == LockInv /\ SleepInv /\ NoLostWakeup

Locking == {"write", "read sleep", "write sleep"}
Sleepy == {"read sleep", "write sleep", "read asleep", "write asleep"}

LEMMA RwSleep ==
  ASSUME IInv, plock' = plock, stranded' = stranded,
         \A q \in Procs : pc'[q] \in Sleepy \/ pc[q] \in Locking => RwSame(q)
  PROVE  RwInv'
  <1>1. {"write", "read sleep", "write sleep"} = Locking
        /\ {"read sleep", "write sleep", "read asleep", "write asleep"} \subseteq Sleepy
    BY DEF Locking, Sleepy
  <1>2. \A q \in Procs : pc'[q] \in Sleepy => RwSame(q) /\ PipeOf(q)' = PipeOf(q)
    BY DEF RwSame, PipeOf
  <1>3. \A q \in Procs : pc[q] \in Locking => pc'[q] = pc[q] /\ PipeOf(q)' = PipeOf(q)
    BY DEF RwSame, PipeOf
  <1>4. LockInv'
    <2>1. ASSUME NEW g \in Pipes, NEW p \in Procs, plock'[g] = p
          PROVE  pc'[p] \in {"write", "read sleep", "write sleep"} /\ PipeOf(p)' = g
      <3>1. pc[p] \in {"write", "read sleep", "write sleep"} /\ PipeOf(p) = g
        BY <2>1 DEF IInv, LockInv
      <3> QED BY <1>1, <1>3, <3>1
    <2>2. ASSUME NEW p \in Procs, pc'[p] \in {"read sleep", "write sleep"} PROVE plock'[PipeOf(p)'] = p
      <3>1. pc[p] \in {"read sleep", "write sleep"} /\ PipeOf(p)' = PipeOf(p)
        BY <1>1, <1>2, <2>2 DEF RwSame
      <3> QED BY <3>1 DEF IInv, LockInv
    <2> QED BY <2>1, <2>2 DEF LockInv
  <1>5. SleepInv'
    <2>1. ASSUME NEW p \in Procs, pc'[p] = "read sleep"
          PROVE  pi'[PipeOf(p)'].writeopen /\ IsEmpty(pi'[PipeOf(p)'])
      <3>1. pc[p] = "read sleep" /\ pi'[PipeOf(p)'] = pi[PipeOf(p)]
        BY <1>1, <1>2, <2>1 DEF RwSame
      <3> QED BY <3>1 DEF IInv, SleepInv, SleepOk
    <2>2. ASSUME NEW p \in Procs, pc'[p] = "write sleep"
          PROVE  /\ pi'[PipeOf(p)'].readopen /\ IsFull(pi'[PipeOf(p)'])
                 /\ \A q \in Procs : pc'[q] = "read asleep" => PipeOf(q)' # PipeOf(p)'
      <3>1. pc[p] = "write sleep" /\ pi'[PipeOf(p)'] = pi[PipeOf(p)] /\ PipeOf(p)' = PipeOf(p)
        BY <1>1, <1>2, <2>2 DEF RwSame
      <3>2. \A q \in Procs : pc'[q] = "read asleep" => pc[q] = "read asleep" /\ PipeOf(q)' = PipeOf(q)
        BY <1>1, <1>2 DEF RwSame
      <3> QED BY <3>1, <3>2 DEF IInv, SleepInv, SleepOk
    <2> QED BY <2>1, <2>2 DEF SleepInv, SleepOk, IsEmpty, IsFull
  <1>6. NoLostWakeup'
    <2>1. ASSUME NEW p \in Procs, pc'[p] = "write asleep"
          PROVE  IsFull(pi'[PipeOf(p)']) /\ pi'[PipeOf(p)'].readopen
      <3>1. pc[p] = "write asleep" /\ pi'[PipeOf(p)'] = pi[PipeOf(p)]
        BY <1>1, <1>2, <2>1 DEF RwSame
      <3> QED BY <3>1 DEF IInv, NoLostWakeup, PipeOf
    <2>2. ASSUME NEW p \in Procs, pc'[p] = "read asleep"
          PROVE  /\ pi'[PipeOf(p)'].writeopen
                 /\ IsEmpty(pi'[PipeOf(p)']) \/ stranded'[PipeOf(p)'] \/ plock'[PipeOf(p)'] # Nobody
      <3>1. pc[p] = "read asleep" /\ pi'[PipeOf(p)'] = pi[PipeOf(p)] /\ PipeOf(p)' = PipeOf(p)
        BY <1>1, <1>2, <2>2 DEF RwSame
      <3> QED BY <3>1 DEF IInv, NoLostWakeup, PipeOf
    <2> QED BY <2>1, <2>2 DEF NoLostWakeup, PipeOf, IsEmpty, IsFull
  <1> QED BY <1>4, <1>5, <1>6 DEF RwInv

LEMMA RwKept ==
  ASSUME IInv, plock' = plock, stranded' = stranded,
         \A q \in Procs : pc[q] \in Rw \/ pc'[q] \in Rw => RwSame(q)
  PROVE  RwInv'
  <1>1. Locking \subseteq Rw /\ Sleepy \subseteq Rw
    BY DEF Rw, Reading, Writing, Locking, Sleepy
  <1>2. \A q \in Procs : pc'[q] \in Sleepy \/ pc[q] \in Locking => RwSame(q)
    BY <1>1
  <1> QED BY <1>2, RwSleep

(* A step of p on the pipe g, under its lock. *)
PipeStep(p, g) ==
  /\ g \in Pipes /\ plock[g] \in {Nobody, p} /\ fpipe' = fpipe /\ (pc[p] \in Rw => PipeOf(p) = g)
  /\ \A q \in Procs : q # p => file'[q] = file[q] /\
       \/ pc'[q] = pc[q]
       \/ pc[q] = "read asleep" /\ pc'[q] = "read"
       \/ pc[q] = "write asleep" /\ pc'[q] = "write"
  /\ \A j \in Pipes : j # g => pi'[j] = pi[j] /\ plock'[j] = plock[j] /\ stranded'[j] = stranded[j]
  /\ plock'[g] \in {Nobody, p}
  /\ plock'[g] = p => pc'[p] \in Locking
  /\ pc'[p] \in {"read sleep", "write sleep"} => plock'[g] = p
  /\ pc'[p] \in Rw => PipeOf(p)' = g

WakeOk(p) ==
  LET g == fpipe[file[p]] IN
  /\ pc[p] = "write asleep" => IsFull(pi[g]) /\ pi[g].readopen
  /\ pc[p] = "read asleep" => pi[g].writeopen /\ (IsEmpty(pi[g]) \/ stranded[g] \/ plock[g] # Nobody)

LEMMA PipeRw ==
  ASSUME IInv, NEW p \in Procs, NEW g, PipeStep(p, g)
  PROVE  /\ LockInv'
         /\ \A q \in Procs : q # p => SleepOk(q)'
         /\ \A q \in Procs : q # p /\ PipeOf(q) # g => WakeOk(q)'
  <1>1. g \in Pipes /\ plock[g] \in {Nobody, p} /\ fpipe' = fpipe /\ (pc[p] \in Rw => PipeOf(p) = g)
    BY DEF PipeStep
  <1>2. \A q \in Procs : q # p => file'[q] = file[q] /\ PipeOf(q)' = PipeOf(q)
    BY <1>1 DEF PipeStep, PipeOf
  <1>3. \A q \in Procs : q # p =>
          \/ pc'[q] = pc[q]
          \/ pc[q] = "read asleep" /\ pc'[q] = "read"
          \/ pc[q] = "write asleep" /\ pc'[q] = "write"
    BY DEF PipeStep
  <1>4. \A j \in Pipes : j # g => pi'[j] = pi[j] /\ plock'[j] = plock[j] /\ stranded'[j] = stranded[j]
    BY DEF PipeStep
  <1>5. /\ plock'[g] \in {Nobody, p}
        /\ plock'[g] = p => pc'[p] \in Locking
        /\ pc'[p] \in {"read sleep", "write sleep"} => plock'[g] = p
        /\ pc'[p] \in Rw => PipeOf(p)' = g
    BY DEF PipeStep
  <1>6. Nobody \notin Procs
    BY NobodyAssumption
  <1>7. Locking \subseteq Rw /\ Sleepy \subseteq Rw
    BY SMT DEF Rw, Reading, Writing, Locking, Sleepy
  <1>8. \A q \in Procs : q # p /\ pc'[q] \in Sleepy => pc'[q] = pc[q]
    BY <1>3 DEF Sleepy
  <1>9. \A q \in Procs : q # p /\ pc[q] \in Locking => pc'[q] = pc[q]
    BY <1>3 DEF Locking
  <1>10. LockInv /\ SleepInv /\ NoLostWakeup
    BY DEF IInv
  <1>11. \A q \in Procs : pc'[q] \in Rw => PipeOf(q)' \in Pipes
    <2>1. ASSUME NEW q \in Procs, pc'[q] \in Rw, q # p PROVE PipeOf(q)' \in Pipes
      <3>1. pc[q] \in Rw
        BY <1>3, <2>1 DEF Rw, Reading, Writing
      <3>2. PipeOf(q) \in Pipes
        BY <3>1, RwIs
      <3> QED BY <1>2, <2>1, <3>2
    <2> QED BY <1>1, <1>5, <2>1
  <1>12. ASSUME NEW q \in Procs, q # p, pc'[q] \in {"read sleep", "write sleep"}
         PROVE  /\ pc[q] = pc'[q] /\ PipeOf(q) \in Pipes /\ PipeOf(q) # g /\ plock[PipeOf(q)] = q
                /\ PipeOf(q)' = PipeOf(q)
    <2>1. pc'[q] \in Sleepy
      BY <1>12 DEF Sleepy
    <2>2. pc'[q] = pc[q]
      BY <1>8, <1>12, <2>1
    <2>3. plock[PipeOf(q)] = q
      BY <1>10, <1>12, <2>2 DEF LockInv
    <2>4. PipeOf(q) # g
      BY <1>1, <1>6, <1>12, <2>3
    <2>5. PipeOf(q) \in Pipes
      BY <1>2, <1>7, <1>11, <1>12, <2>1
    <2> QED BY <1>2, <1>12, <2>2, <2>3, <2>4, <2>5
  <1>13. LockInv'
    <2>1. ASSUME NEW j \in Pipes, NEW q \in Procs, plock'[j] = q
          PROVE  pc'[q] \in Locking /\ PipeOf(q)' = j
      <3>1. CASE j = g
        <4>1. q = p
          BY <1>5, <1>6, <2>1, <3>1
        <4> QED BY <1>5, <1>7, <2>1, <3>1, <4>1
      <3>2. CASE j # g
        <4>1. plock[j] = q
          BY <1>4, <2>1, <3>2
        <4>2. pc[q] \in Locking /\ PipeOf(q) = j
          BY <1>10, <4>1 DEF LockInv, Locking
        <4>3. q # p
          BY <1>1, <1>7, <3>2, <4>2
        <4> QED BY <1>2, <1>9, <4>2, <4>3
      <3> QED BY SMT, <3>1, <3>2
    <2>2. ASSUME NEW q \in Procs, pc'[q] \in {"read sleep", "write sleep"} PROVE plock'[PipeOf(q)'] = q
      <3>1. CASE q = p
        <4>1. pc'[p] \in Rw
          BY <2>2, <3>1 DEF Rw, Reading, Writing
        <4> QED BY <1>5, <2>2, <3>1, <4>1
      <3>2. CASE q # p
        <4>1. PipeOf(q) \in Pipes /\ PipeOf(q) # g /\ plock[PipeOf(q)] = q /\ PipeOf(q)' = PipeOf(q)
          BY <1>12, <2>2, <3>2
        <4> QED BY <1>4, <4>1
      <3> QED BY SMT, <3>1, <3>2
    <2> QED BY <2>1, <2>2 DEF LockInv, Locking
  <1>14. ASSUME NEW q \in Procs, q # p PROVE SleepOk(q)'
    <2>1. SleepOk(q)
      BY <1>10 DEF SleepInv
    <2>2. CASE pc'[q] = "read sleep"
      <3>1. pc[q] = "read sleep" /\ PipeOf(q) \in Pipes /\ PipeOf(q) # g /\ PipeOf(q)' = PipeOf(q)
        BY <1>12, <1>14, <2>2
      <3>2. pi'[PipeOf(q)'] = pi[PipeOf(q)]
        BY <1>4, <3>1
      <3>3. pi[PipeOf(q)].writeopen /\ IsEmpty(pi[PipeOf(q)])
        BY <2>1, <3>1 DEF SleepOk
      <3>4. pi'[PipeOf(q)'].writeopen /\ IsEmpty(pi'[PipeOf(q)'])
        BY <3>2, <3>3
      <3>5. pc'[q] # "write sleep"
        BY <2>2
      <3> QED BY <3>4, <3>5 DEF SleepOk, IsEmpty
    <2>3. CASE pc'[q] = "write sleep"
      <3>1. pc[q] = "write sleep" /\ PipeOf(q) \in Pipes /\ PipeOf(q) # g /\ PipeOf(q)' = PipeOf(q)
        BY <1>12, <1>14, <2>3
      <3>2. pi'[PipeOf(q)'] = pi[PipeOf(q)]
        BY <1>4, <3>1
      <3>3. /\ pi[PipeOf(q)].readopen /\ IsFull(pi[PipeOf(q)])
            /\ \A x \in Procs : pc[x] = "read asleep" => PipeOf(x) # PipeOf(q)
        BY <2>1, <3>1 DEF SleepOk
      <3>4. pi'[PipeOf(q)'].readopen /\ IsFull(pi'[PipeOf(q)'])
        BY <3>2, <3>3
      <3>5. ASSUME NEW x \in Procs, pc'[x] = "read asleep" PROVE PipeOf(x)' # PipeOf(q)'
        <4>1. pc'[x] \in Sleepy
          BY <3>5 DEF Sleepy
        <4>2. CASE x = p
          BY <1>5, <1>7, <3>1, <4>1, <4>2
        <4>3. CASE x # p
          <5>1. pc[x] = "read asleep" /\ PipeOf(x)' = PipeOf(x)
            BY <1>2, <1>8, <3>5, <4>1, <4>3
          <5> QED BY <3>1, <3>3, <5>1
        <4> QED BY SMT, <4>2, <4>3
      <3>6. pc'[q] # "read sleep"
        BY <2>3
      <3> QED BY <3>4, <3>5, <3>6 DEF SleepOk, IsFull
    <2>4. CASE pc'[q] # "read sleep" /\ pc'[q] # "write sleep"
      BY <2>4 DEF SleepOk
    <2> QED BY <2>2, <2>3, <2>4
  <1>15. ASSUME NEW q \in Procs, q # p, PipeOf(q) # g PROVE WakeOk(q)'
    <2>1. ASSUME pc'[q] \in Sleepy
          PROVE  /\ pc'[q] = pc[q] /\ PipeOf(q)' = PipeOf(q) /\ pi'[PipeOf(q)'] = pi[PipeOf(q)]
                 /\ plock'[PipeOf(q)'] = plock[PipeOf(q)] /\ stranded'[PipeOf(q)'] = stranded[PipeOf(q)]
      <3>1. pc'[q] = pc[q] /\ PipeOf(q)' = PipeOf(q) /\ PipeOf(q)' \in Pipes
        BY <1>2, <1>7, <1>8, <1>11, <1>15, <2>1
      <3> QED BY <1>4, <1>15, <3>1
    <2>2. WakeOk(q)
      BY <1>10 DEF NoLostWakeup, WakeOk
    <2>3. "write asleep" \in Sleepy /\ "read asleep" \in Sleepy
      BY SMT DEF Sleepy
    <2>4. ASSUME pc'[q] = "write asleep" PROVE IsFull(pi'[PipeOf(q)']) /\ pi'[PipeOf(q)'].readopen
      <3>1. pc[q] = "write asleep" /\ pi'[PipeOf(q)'] = pi[PipeOf(q)]
        BY <2>1, <2>3, <2>4
      <3>2. IsFull(pi[PipeOf(q)]) /\ pi[PipeOf(q)].readopen
        BY <2>2, <3>1 DEF WakeOk, PipeOf
      <3> QED BY <3>1, <3>2
    <2>5. ASSUME pc'[q] = "read asleep"
          PROVE  /\ pi'[PipeOf(q)'].writeopen
                 /\ IsEmpty(pi'[PipeOf(q)']) \/ stranded'[PipeOf(q)'] \/ plock'[PipeOf(q)'] # Nobody
      <3>1. pc[q] = "read asleep" /\ pi'[PipeOf(q)'] = pi[PipeOf(q)]
            /\ plock'[PipeOf(q)'] = plock[PipeOf(q)] /\ stranded'[PipeOf(q)'] = stranded[PipeOf(q)]
        BY <2>1, <2>3, <2>5
      <3>2. pi[PipeOf(q)].writeopen
            /\ (IsEmpty(pi[PipeOf(q)]) \/ stranded[PipeOf(q)] \/ plock[PipeOf(q)] # Nobody)
        BY <2>2, <3>1 DEF WakeOk, PipeOf
      <3> QED BY <3>1, <3>2
    <2> QED BY <2>4, <2>5 DEF WakeOk, PipeOf, IsEmpty, IsFull
  <1> QED BY <1>13, <1>14, <1>15

LEMMA IInvIs ==
  IInv <=> /\ FileTypes /\ PipeTypes /\ CallTypes /\ CallInv /\ FileInv /\ EndInv /\ RingInv
           /\ RefsCounted /\ EndsOpen /\ RwInv
  BY DEF IInv, Types, RwInv

LEMMA CallSame ==
  ASSUME NEW q \in Procs, CallOk(q),
         pc'[q] = pc[q], todo'[q] = todo[q], ofile'[q] = ofile[q], ff'[q] = ff[q], file'[q] = file[q],
         pc[q] \in Rw => wr'[file[q]] = wr[file[q]]
  PROVE  CallOk(q)'
  BY DEF CallOk, ToDo

LEMMA EndsKept ==
  ASSUME IInv, UNCHANGED <<type, wr, fpipe, ff, pi, mem>>
  PROVE  EndInv' /\ EndsOpen' /\ RingInv'
  <1>1. EndInv'
    BY DEF IInv, EndInv, OneFile, OneHolder, OneCloser
  <1>2. \A g \in Pipes, x \in BOOLEAN : Holds(g, x) <=> Holds(g, x)'
    BY DEF Holds
  <1>3. EndsOpen'
    BY <1>2 DEF IInv, EndsOpen
  <1>4. RingInv'
    BY DEF IInv, RingInv, Count
  <1> QED BY SMT, <1>1, <1>3, <1>4

LEMMA FileKept ==
  ASSUME IInv, UNCHANGED <<ref, type, fpipe, ofile, todo, panic>>,
         \A q \in Procs : pc'[q] \in Building => pc'[q] = pc[q]
  PROVE  FileInv' /\ RefsCounted'
  <1> DEFINE
        I1 == \A f \in File : type[f] = "pipe" <=> fpipe[f] \in Pipes
        I2 == \A f \in File : ref[f] = 0 => type[f] = "none"
        I3 == \A p \in Procs, d \in Fd : ofile[p][d] # NoFile => type[ofile[p][d]] = "pipe"
        I4 == \A p \in Procs : pc[p] \in Building =>
                \A i \in 1 .. Len(todo[p]) : ref[todo[p][i]] = 1 /\ type[todo[p][i]] = "none"
        I5 == \A p \in Procs : pc[p] = "kalloc" => todo[p][1] # todo[p][2]
  <1>1. I1 /\ I2 /\ I3 /\ I4 /\ I5
    BY DEF IInv, FileInv, TypeOk, FreeOk, FdOk, BuildOk, PairOk
  <1>2. "kalloc" \in Building
    BY SMT DEF Building
  <1>3. I1' /\ I2' /\ I3'
    BY <1>1
  <1>4. I4'
    BY <1>1
  <1>5. I5'
    <2>1. \A q \in Procs : pc'[q] = "kalloc" => pc[q] = "kalloc"
      BY SMT, <1>2
    <2> HIDE <1>2
    <2> QED BY <1>1, <2>1
  <1>6. FileInv'
    BY <1>3, <1>4, <1>5 DEF FileInv, TypeOk, FreeOk, FdOk, BuildOk, PairOk
  <1>7. RefsCounted
    BY DEF IInv
  <1>8. panic = "none" /\ \A f \in File : ref[f] = Cardinality(FdRefs(ofile, f)) + Cardinality(ToDoRefs(todo, f))
    BY <1>7, RefsAre
  <1>9. panic' = "none"
        /\ \A f \in File : ref'[f] = Cardinality(FdRefs(ofile', f)) + Cardinality(ToDoRefs(todo', f))
    BY <1>8
  <1>10. RefsCounted'
    BY <1>9, RefsNext
  <1> QED BY SMT, <1>6, <1>10

LEMMA Stutter == ASSUME IInv, UNCHANGED vars PROVE IInv'
  <1>1. /\ UNCHANGED <<ref, type, wr, fpipe, ofile, pi, mem, plock, stranded, killed, pc, file, left, todo>>
        /\ UNCHANGED <<exiting, ff, panic>>
    BY SMT DEF vars, ftable, pipes, call
  <1>2. FileTypes' /\ PipeTypes' /\ CallTypes'
    BY <1>1 DEF IInv, Types, FileTypes, PipeTypes, CallTypes
  <1>3. CallInv'
    BY <1>1, CallSame DEF IInv, CallInv
  <1>4. FileInv' /\ RefsCounted'
    BY <1>1, FileKept
  <1>5. EndInv' /\ EndsOpen' /\ RingInv'
    BY <1>1, EndsKept
  <1>6. RwInv'
    BY <1>1, RwKept DEF RwSame
  <1> QED BY <1>2, <1>3, <1>4, <1>5, <1>6 DEF IInv, Types, RwInv

-----------------------------------------------------------------------------
(* Each step of the file table and of the descriptors. *)

(* Something is missing for a pipe: its files are closed. *)
LEMMA GiveUp ==
  ASSUME IInv, NEW p \in Procs, pc[p] \in Building, pc' = [pc EXCEPT ![p] = "fileclose"],
         UNCHANGED <<ftable, ofile, pipes, killed, file, left, todo, exiting, ff, panic>>
  PROVE  IInv'
  <1>1. /\ UNCHANGED <<ref, type, wr, fpipe, ofile, pi, mem, plock, stranded, killed, file, left, todo>>
        /\ UNCHANGED <<exiting, ff, panic>>
    BY SMT DEF ftable, pipes
  <1>2. pc \in [Procs -> Labels] /\ "fileclose" \in Labels
    BY SMT DEF IInv, Types, CallTypes, Labels
  <1>3. pc' \in [Procs -> Labels] /\ pc'[p] = "fileclose" /\ \A q \in Procs : q # p => pc'[q] = pc[q]
    BY <1>2
  <1>4. pc[p] \notin Rw /\ pc'[p] \notin Rw /\ pc'[p] \notin Building /\ pc[p] # "pipeclose"
    BY <1>3 DEF Rw, Reading, Writing, Building
  <1>5. FileTypes' /\ PipeTypes' /\ CallTypes'
    BY <1>1, <1>3 DEF IInv, Types, FileTypes, PipeTypes, CallTypes
  <1>6. CallOk(p)'
    <2>1. Len(todo[p]) \in ToDo(pc[p]) /\ ff[p] = NoFF
      BY <1>4 DEF IInv, CallInv, CallOk
    <2>2. Len(todo[p]) \in {1, 2}
      BY <2>1 DEF ToDo, Building
    <2>3. Len(todo'[p]) \in ToDo(pc'[p])
      BY SMT, <1>1, <1>3, <2>2 DEF ToDo
    <2>4. pc'[p] # "unused" /\ pc'[p] # "pipeclose"
      BY SMT, <1>3
    <2> QED BY <1>1, <1>4, <2>1, <2>3, <2>4 DEF CallOk, ToDo
  <1>7. CallInv'
    BY <1>1, <1>3, <1>6, CallSame DEF IInv, CallInv
  <1>8. FileInv' /\ RefsCounted'
    <2>1. \A q \in Procs : pc'[q] \in Building => pc'[q] = pc[q]
      BY <1>3, <1>4
    <2> QED BY <1>1, <2>1, FileKept
  <1>9. EndInv' /\ EndsOpen' /\ RingInv'
    BY <1>1, EndsKept
  <1>10. RwInv'
    BY <1>1, <1>3, <1>4, RwKept DEF RwSame
  <1> QED BY <1>5, <1>7, <1>8, <1>9, <1>10 DEF IInv, Types, RwInv

(* A page that is not in use is the pipe of no file and of no close. *)
LEMMA Fresh ==
  ASSUME IInv, NEW g \in Pipes, g \notin mem
  PROVE  /\ \A f \in File : type[f] = "pipe" => fpipe[f] # g
         /\ \A q \in Procs : ff[q].pipe # g
         /\ ~pi[g].readopen /\ ~pi[g].writeopen
  <1>1. ~pi[g].readopen /\ ~pi[g].writeopen
    BY DEF IInv, EndsOpen
  <1>2. ~Holds(g, FALSE) /\ ~Holds(g, TRUE)
    BY <1>1 DEF IInv, EndsOpen
  <1>3. \A x \in BOOLEAN : ~Holds(g, x)
    BY <1>2
  <1>4. ASSUME NEW f \in File, type[f] = "pipe", fpipe[f] = g PROVE FALSE
    <2>1. wr[f] \in BOOLEAN
      BY DEF IInv, Types, FileTypes
    <2> QED BY <1>3, <1>4, <2>1 DEF Holds
  <1>5. ASSUME NEW q \in Procs, ff[q].pipe = g PROVE FALSE
    <2>1. ff[q] \in FF
      BY DEF IInv, Types, CallTypes
    <2>2. ff[q] = [pipe |-> g, writable |-> ff[q].writable] /\ ff[q].writable \in BOOLEAN
      BY SMT, <1>5, <2>1 DEF FF
    <2> QED BY <1>3, <2>2 DEF Holds
  <1> QED BY <1>1, <1>4, <1>5

LEMMA BlankIs == Blank \in Pipe /\ [Blank EXCEPT !.readopen = TRUE, !.writeopen = TRUE] \in Pipe
  <1>1. (CHOOSE v \in Val : TRUE) \in Val
    BY FilesAssumption
  <1>2. [i \in 0 .. PIPESIZE - 1 |-> CHOOSE v \in Val : TRUE] \in [0 .. PIPESIZE - 1 -> Val]
    BY <1>1
  <1>3. 0 \in Index
    BY SMT, Sizes
  <1> DEFINE d == [i \in 0 .. PIPESIZE - 1 |-> CHOOSE v \in Val : TRUE]
  <1>4. d \in [0 .. PIPESIZE - 1 -> Val] /\ Blank = [readopen |-> FALSE, writeopen |-> FALSE, nread |-> 0, nwrite |-> 0,
                                                     data |-> d]
    BY SMT, <1>2 DEF Blank
  <1> HIDE DEF d
  <1> QED BY <1>3, <1>4 DEF Pipe

(* What pipealloc does to the files and the pipe. *)
Made(p, g, r, w) ==
  /\ pc[p] = "kalloc" /\ g \notin mem /\ mem' = mem \cup {g}
  /\ pi' \in [Pipes -> Pipe] /\ pi'[g] = [Blank EXCEPT !.readopen = TRUE, !.writeopen = TRUE]
  /\ \A j \in Pipes : j # g => pi'[j] = pi[j]
  /\ r \in File /\ w \in File /\ r # w /\ ref[r] = 1 /\ ref[w] = 1 /\ type[r] = "none" /\ type[w] = "none"
  /\ type' \in [File -> {"none", "pipe"}] /\ type'[r] = "pipe" /\ type'[w] = "pipe"
  /\ \A f \in File : f # r /\ f # w => type'[f] = type[f] /\ wr'[f] = wr[f] /\ fpipe'[f] = fpipe[f]
  /\ wr' \in [File -> BOOLEAN] /\ wr'[r] = FALSE /\ wr'[w] = TRUE
  /\ fpipe' \in [File -> Pipes \cup {NoPipe}] /\ fpipe'[r] = g /\ fpipe'[w] = g
  /\ UNCHANGED <<ref, plock, stranded, killed, file, left, exiting, ff, panic>>
  /\ Len(todo[p]) = 2

LEMMA MadePipe ==
  ASSUME IInv, NEW p \in Procs, NEW g \in Pipes, pipealloc(p, g)
  PROVE  Made(p, g, todo[p][1], todo[p][2])
  <1> DEFINE r == todo[p][1]
             w == todo[p][2]
  <1>1. /\ pc[p] = "kalloc" /\ g \notin mem /\ mem' = mem \cup {g}
        /\ UNCHANGED <<ref, plock, stranded, killed, file, left, exiting, ff, panic>>
        /\ pi' = [pi EXCEPT ![g] = [Blank EXCEPT !.readopen = TRUE, !.writeopen = TRUE]]
        /\ type' = [type EXCEPT ![r] = "pipe", ![w] = "pipe"]
        /\ wr' = [wr EXCEPT ![r] = FALSE, ![w] = TRUE]
        /\ fpipe' = [fpipe EXCEPT ![r] = g, ![w] = g]
    BY DEF pipealloc, Is
  <1>2. /\ type \in [File -> {"none", "pipe"}] /\ wr \in [File -> BOOLEAN] /\ pi \in [Pipes -> Pipe]
        /\ fpipe \in [File -> Pipes \cup {NoPipe}] /\ todo \in [Procs -> Seq(File)]
    BY DEF IInv, Types, FileTypes, PipeTypes, CallTypes
  <1>3. Len(todo[p]) \in ToDo(pc[p]) /\ BuildOk /\ PairOk
    BY DEF IInv, CallInv, CallOk, FileInv
  <1>4. Len(todo[p]) = 2
    <2>1. ToDo(pc[p]) = {2}
      BY SMT, <1>1 DEF ToDo
    <2> QED BY <1>3, <2>1
  <1>5. r \in File /\ w \in File
    <2>1. todo[p] \in Seq(File)
      BY <1>2
    <2> QED BY SMT, <1>4, <2>1
  <1>6. r # w
    BY <1>1, <1>3 DEF PairOk
  <1>7. \A i \in 1 .. Len(todo[p]) : ref[todo[p][i]] = 1 /\ type[todo[p][i]] = "none"
    BY SMT, <1>1, <1>3 DEF BuildOk, Building
  <1>8. ref[r] = 1 /\ ref[w] = 1 /\ type[r] = "none" /\ type[w] = "none"
    <2>1. 1 \in 1 .. Len(todo[p]) /\ 2 \in 1 .. Len(todo[p])
      BY SMT, <1>4
    <2> QED BY <1>7, <2>1
  <1>9. /\ type' \in [File -> {"none", "pipe"}] /\ type'[r] = "pipe" /\ type'[w] = "pipe"
        /\ \A f \in File : f # r /\ f # w => type'[f] = type[f]
    BY <1>1, <1>2, <1>5
  <1>10. /\ wr' \in [File -> BOOLEAN] /\ wr'[r] = FALSE /\ wr'[w] = TRUE
         /\ \A f \in File : f # r /\ f # w => wr'[f] = wr[f]
    BY <1>1, <1>2, <1>5, <1>6
  <1>11. /\ fpipe' \in [File -> Pipes \cup {NoPipe}] /\ fpipe'[r] = g /\ fpipe'[w] = g
         /\ \A f \in File : f # r /\ f # w => fpipe'[f] = fpipe[f]
    BY <1>1, <1>2, <1>5
  <1>12. /\ pi' \in [Pipes -> Pipe] /\ pi'[g] = [Blank EXCEPT !.readopen = TRUE, !.writeopen = TRUE]
         /\ \A j \in Pipes : j # g => pi'[j] = pi[j]
    <2> DEFINE b == [Blank EXCEPT !.readopen = TRUE, !.writeopen = TRUE]
    <2>1. b \in Pipe /\ pi' = [pi EXCEPT ![g] = b]
      BY <1>1, BlankIs
    <2> HIDE DEF b
    <2>2. pi' \in [Pipes -> Pipe] /\ pi'[g] = b /\ \A j \in Pipes : j # g => pi'[j] = pi[j]
      BY <1>2, <2>1
    <2> QED BY <2>2 DEF b
  <1> HIDE DEF r, w
  <1>13. Made(p, g, r, w)
    BY <1>1, <1>4, <1>5, <1>6, <1>8, <1>9, <1>10, <1>11, <1>12 DEF Made
  <1> QED BY <1>13 DEF r, w

LEMMA MadeEnds ==
  ASSUME IInv, NEW p \in Procs, NEW g \in Pipes, pipealloc(p, g)
  PROVE  PipeTypes' /\ EndInv' /\ EndsOpen' /\ RingInv'
  <1> DEFINE r == todo[p][1]
             w == todo[p][2]
             b == [Blank EXCEPT !.readopen = TRUE, !.writeopen = TRUE]
  <1>0. Made(p, g, r, w)
    BY MadePipe
  <1> HIDE DEF r, w
  <1>1. /\ g \notin mem /\ mem' = mem \cup {g}
        /\ pi' \in [Pipes -> Pipe] /\ pi'[g] = b
        /\ \A j \in Pipes : j # g => pi'[j] = pi[j]
    BY <1>0 DEF Made
  <1>2. /\ r \in File /\ w \in File /\ r # w /\ type[r] = "none" /\ type[w] = "none"
        /\ type'[r] = "pipe" /\ type'[w] = "pipe"
        /\ \A f \in File : f # r /\ f # w => type'[f] = type[f] /\ wr'[f] = wr[f] /\ fpipe'[f] = fpipe[f]
        /\ wr'[r] = FALSE /\ wr'[w] = TRUE /\ fpipe'[r] = g /\ fpipe'[w] = g
    BY <1>0 DEF Made
  <1>3. plock' = plock /\ stranded' = stranded /\ ff' = ff
    BY <1>0 DEF Made
  <1>4. /\ \A f \in File : type[f] = "pipe" => fpipe[f] # g
        /\ \A q \in Procs : ff[q].pipe # g
    BY <1>1, Fresh
  <1>5. b.readopen = TRUE /\ b.writeopen = TRUE /\ b.nread = 0 /\ b.nwrite = 0
    BY SMT DEF Blank
  <1>6. OneFile /\ OneHolder /\ OneCloser /\ EndsOpen /\ RingInv /\ PipeTypes
    BY DEF IInv, EndInv, Types
  <1> HIDE DEF b
  <1>7. PipeTypes'
    BY <1>1, <1>3, <1>6 DEF PipeTypes
  <1>8. \A f \in File : type'[f] = "pipe" /\ fpipe'[f] = g => f = r \/ f = w
    BY <1>2, <1>4
  <1>9. \A f \in File : type'[f] = "pipe" /\ fpipe'[f] # g =>
          type[f] = "pipe" /\ wr'[f] = wr[f] /\ fpipe'[f] = fpipe[f]
    BY <1>2
  <1>10. OneFile'
    <2>1. ASSUME NEW f \in File, NEW h \in File,
                 type'[f] = "pipe", type'[h] = "pipe", fpipe'[f] = fpipe'[h], wr'[f] = wr'[h]
          PROVE  f = h
      <3>1. CASE fpipe'[f] = g
        BY <1>2, <1>8, <2>1, <3>1
      <3>2. CASE fpipe'[f] # g
        BY <1>6, <1>9, <2>1, <3>2 DEF OneFile
      <3> QED BY SMT, <3>1, <3>2
    <2> QED BY <2>1 DEF OneFile
  <1>11. OneHolder'
    <2>1. ASSUME NEW f \in File, NEW q \in Procs, type'[f] = "pipe",
                 ff[q] = [pipe |-> fpipe'[f], writable |-> wr'[f]]
          PROVE  FALSE
      <3>1. ff[q].pipe = fpipe'[f]
        BY SMT, <2>1
      <3>2. fpipe'[f] # g
        BY <1>4, <3>1
      <3>3. type[f] = "pipe" /\ wr'[f] = wr[f] /\ fpipe'[f] = fpipe[f]
        BY <1>9, <2>1, <3>2
      <3> QED BY <1>6, <2>1, <3>3 DEF OneHolder
    <2> QED BY <1>3, <2>1 DEF OneHolder
  <1>12. OneCloser'
    BY <1>3, <1>6 DEF OneCloser
  <1>13. Holds(g, FALSE)' /\ Holds(g, TRUE)'
    BY <1>2 DEF Holds
  <1>14. ASSUME NEW j \in Pipes, j # g, NEW x \in BOOLEAN PROVE Holds(j, x)' <=> Holds(j, x)
    <2>1. \A f \in File : (type'[f] = "pipe" /\ fpipe'[f] = j /\ wr'[f] = x) <=>
                          (type[f] = "pipe" /\ fpipe[f] = j /\ wr[f] = x)
      <3> SUFFICES ASSUME NEW f \in File
                   PROVE  (type'[f] = "pipe" /\ fpipe'[f] = j /\ wr'[f] = x) <=>
                          (type[f] = "pipe" /\ fpipe[f] = j /\ wr[f] = x)
        BY SMT
      <3>1. CASE f = r \/ f = w
        BY SMT, <1>2, <1>14, <3>1
      <3>2. CASE f # r /\ f # w
        BY <1>2, <3>2
      <3> QED BY SMT, <3>1, <3>2
    <2> QED BY <1>3, <2>1 DEF Holds
  <1>15. EndsOpen'
    <2>1. ASSUME NEW j \in Pipes
          PROVE  /\ pi'[j].readopen <=> Holds(j, FALSE)'
                 /\ pi'[j].writeopen <=> Holds(j, TRUE)'
                 /\ j \in mem' <=> pi'[j].readopen \/ pi'[j].writeopen
      <3>1. CASE j = g
        BY <1>1, <1>5, <1>13, <3>1
      <3>2. CASE j # g
        <4>1. /\ pi[j].readopen <=> Holds(j, FALSE)
              /\ pi[j].writeopen <=> Holds(j, TRUE)
              /\ j \in mem <=> pi[j].readopen \/ pi[j].writeopen
          BY <1>6 DEF EndsOpen
        <4>2. pi'[j] = pi[j] /\ (j \in mem' <=> j \in mem)
          BY <1>1, <3>2
        <4>3. (Holds(j, FALSE)' <=> Holds(j, FALSE)) /\ (Holds(j, TRUE)' <=> Holds(j, TRUE))
          BY <1>14, <3>2
        <4> QED BY <4>1, <4>2, <4>3
      <3> QED BY <3>1, <3>2
    <2> QED BY <2>1 DEF EndsOpen
  <1>16. RingInv'
    <2>1. Count(0, 0) <= PIPESIZE
      <3>1. N \in Nat \ {0} /\ PIPESIZE \in Nat
        BY SMT, Sizes
      <3> HIDE DEF N
      <3> QED BY SMT, <3>1 DEF Count
    <2>2. \A j \in Pipes : Count(pi[j].nread, pi[j].nwrite) <= PIPESIZE
      BY <1>6 DEF RingInv
    <2>3. \A j \in Pipes : Count(pi'[j].nread, pi'[j].nwrite) <= PIPESIZE
      BY <1>1, <1>5, <2>1, <2>2
    <2> QED BY <2>3 DEF RingInv, Count
  <1> QED BY <1>7, <1>10, <1>11, <1>12, <1>15, <1>16 DEF EndInv

(* A step in which only p, which does not read or write, changes what it   *)
(* holds.                                                                  *)
Quiet(p) ==
  /\ UNCHANGED <<type, wr, fpipe, pi, mem, plock, stranded, file, ff>>
  /\ pc[p] \notin Rw /\ pc'[p] \notin Rw
  /\ \A q \in Procs : q # p => pc'[q] = pc[q] /\ todo'[q] = todo[q] /\ ofile'[q] = ofile[q]

LEMMA QuietStep ==
  ASSUME IInv, NEW p \in Procs, Quiet(p), CallOk(p)'
  PROVE  PipeTypes' /\ CallInv' /\ TypeOk' /\ EndInv' /\ EndsOpen' /\ RingInv' /\ RwInv'
  <1>1. /\ UNCHANGED <<type, wr, fpipe, pi, mem, plock, stranded, file, ff>>
        /\ pc[p] \notin Rw /\ pc'[p] \notin Rw
        /\ \A q \in Procs : q # p => pc'[q] = pc[q] /\ todo'[q] = todo[q] /\ ofile'[q] = ofile[q]
    BY DEF Quiet
  <1>2. PipeTypes'
    BY <1>1 DEF IInv, Types, PipeTypes
  <1>3. TypeOk'
    BY <1>1 DEF IInv, FileInv, TypeOk
  <1>4. EndInv' /\ EndsOpen' /\ RingInv'
    BY <1>1, EndsKept
  <1>5. RwInv'
    BY <1>1, RwKept DEF RwSame
  <1>6. ASSUME NEW q \in Procs PROVE CallOk(q)'
    <2>1. CASE q = p
      BY <2>1
    <2>2. CASE q # p
      <3>1. CallOk(q)
        BY DEF IInv, CallInv
      <3>2. /\ pc'[q] = pc[q] /\ todo'[q] = todo[q] /\ ofile'[q] = ofile[q] /\ ff'[q] = ff[q]
            /\ file'[q] = file[q] /\ wr'[file[q]] = wr[file[q]]
        BY <1>1, <2>2
      <3> QED BY <3>1, <3>2, CallSame
    <2> QED BY <2>1, <2>2
  <1>7. CallInv'
    BY <1>6 DEF CallInv
  <1> QED BY <1>2, <1>3, <1>4, <1>5, <1>7

LEMMA Step_NoPage == ASSUME IInv, NEW p \in Procs, NoPage(p) PROVE IInv'
  <1>1. /\ pc' = [pc EXCEPT ![p] = "fileclose"] /\ pc[p] \in Building
        /\ UNCHANGED <<ftable, ofile, pipes, killed, file, left, todo, exiting, ff, panic>>
    BY SMT DEF NoPage, Is, Goto, Building
  <1> QED BY <1>1, GiveUp

-----------------------------------------------------------------------------
(* Each step of a read or a write. *)

LEMMA CallMoves ==
  ASSUME NEW q \in Procs, CallOk(q), pc[q] \in Rw,
         todo'[q] = todo[q], ofile'[q] = ofile[q], ff'[q] = ff[q], wr' = wr,
         \/ pc'[q] = "user"
         \/ file'[q] = file[q] /\ pc'[q] \in Rw /\ (pc'[q] \in Writing <=> pc[q] \in Writing)
  PROVE  CallOk(q)'
  <1>1. ToDo(pc[q]) = {0} /\ pc[q] # "pipeclose"
    BY DEF Rw, Reading, Writing, ToDo
  <1>2. pc'[q] # "unused" /\ pc'[q] # "pipeclose" /\ ToDo(pc'[q]) = {0}
    BY DEF Rw, Reading, Writing, ToDo
  <1>3. Len(todo[q]) \in ToDo(pc'[q]) /\ ff[q] = NoFF
    BY <1>1, <1>2 DEF CallOk
  <1>4. "user" \notin Rw
    BY DEF Rw, Reading, Writing
  <1>5. ASSUME pc'[q] \in Rw
        PROVE  /\ file'[q] \in File /\ (\E d \in Fd : ofile'[q][d] = file'[q])
               /\ wr'[file'[q]] <=> pc'[q] \in Writing
    <2>1. file'[q] = file[q] /\ (pc'[q] \in Writing <=> pc[q] \in Writing)
      BY <1>4, <1>5
    <2>2. /\ file[q] \in File /\ (\E d \in Fd : ofile[q][d] = file[q])
          /\ wr[file[q]] <=> pc[q] \in Writing
      BY DEF CallOk
    <2> QED BY <2>1, <2>2
  <1> QED BY <1>2, <1>3, <1>5 DEF CallOk, ToDo

LEMMA EndsSame ==
  ASSUME IInv, UNCHANGED <<type, wr, fpipe, ff, mem>>,
         \A g \in Pipes : pi'[g].readopen = pi[g].readopen /\ pi'[g].writeopen = pi[g].writeopen
  PROVE  EndInv' /\ EndsOpen'
  <1>1. OneFile' /\ OneHolder' /\ OneCloser'
    BY DEF IInv, EndInv, OneFile, OneHolder, OneCloser
  <1>2. \A g \in Pipes, x \in BOOLEAN : Holds(g, x) <=> Holds(g, x)'
    BY DEF Holds
  <1>3. EndsOpen'
    <2>1. ASSUME NEW g \in Pipes
          PROVE  /\ pi'[g].readopen <=> Holds(g, FALSE)'
                 /\ pi'[g].writeopen <=> Holds(g, TRUE)'
                 /\ g \in mem' <=> pi'[g].readopen \/ pi'[g].writeopen
      <3>1. /\ pi[g].readopen <=> Holds(g, FALSE)
            /\ pi[g].writeopen <=> Holds(g, TRUE)
            /\ g \in mem <=> pi[g].readopen \/ pi[g].writeopen
        BY DEF IInv, EndsOpen
      <3> QED BY <1>2, <3>1
    <2> QED BY <2>1 DEF EndsOpen
  <1> QED BY <1>1, <1>3 DEF EndInv

(* What a step of p on the pipe g leaves to be shown: what it does to the  *)
(* counters, and to the sleepers on g.                                     *)
LEMMA PipeRest ==
  ASSUME IInv, NEW p \in Procs, NEW g, PipeStep(p, g), pc[p] \in Rw,
         UNCHANGED <<ref, type, wr, fpipe, ofile, todo, ff, mem, panic>>,
         \A j \in Pipes : pi'[j].readopen = pi[j].readopen /\ pi'[j].writeopen = pi[j].writeopen,
         \/ pc'[p] = "user"
         \/ file'[p] = file[p] /\ pc'[p] \in Rw /\ (pc'[p] \in Writing <=> pc[p] \in Writing)
  PROVE  CallInv' /\ FileInv' /\ RefsCounted' /\ EndInv' /\ EndsOpen'
  <1>1. \A q \in Procs : q # p => file'[q] = file[q] /\
          \/ pc'[q] = pc[q]
          \/ pc[q] = "read asleep" /\ pc'[q] = "read"
          \/ pc[q] = "write asleep" /\ pc'[q] = "write"
    BY DEF PipeStep
  <1>2. CallInv'
    <2>1. ASSUME NEW q \in Procs PROVE CallOk(q)'
      <3>1. CallOk(q)
        BY DEF IInv, CallInv
      <3>2. todo'[q] = todo[q] /\ ofile'[q] = ofile[q] /\ ff'[q] = ff[q] /\ wr' = wr
        OBVIOUS
      <3>3. CASE q = p
        BY <3>1, <3>2, <3>3, CallMoves
      <3>4. CASE q # p /\ pc'[q] = pc[q]
        <4>1. file'[q] = file[q] /\ wr'[file[q]] = wr[file[q]]
          BY <1>1, <3>4
        <4> QED BY <3>1, <3>2, <3>4, <4>1, CallSame
      <3>5. CASE q # p /\ pc'[q] # pc[q]
        <4>1. file'[q] = file[q] /\ pc[q] \in Rw /\ pc'[q] \in Rw /\ (pc'[q] \in Writing <=> pc[q] \in Writing)
          BY <1>1, <3>5 DEF Rw, Reading, Writing
        <4> QED BY <3>1, <3>2, <4>1, CallMoves
      <3> QED BY <3>3, <3>4, <3>5
    <2> QED BY <2>1 DEF CallInv
  <1>3. FileInv' /\ RefsCounted'
    <2>1. ASSUME NEW q \in Procs, pc'[q] \in Building PROVE pc'[q] = pc[q]
      BY <1>1, <2>1 DEF Building, Rw, Reading, Writing
    <2> QED BY <2>1, FileKept
  <1>4. EndInv' /\ EndsOpen'
    BY EndsSame
  <1> QED BY SMT, <1>2, <1>3, <1>4

LEMMA WakesNext ==
  ASSUME LockInv', \A q \in Procs : SleepOk(q)', \A q \in Procs : WakeOk(q)'
  PROVE  RwInv'
  <1>1. SleepInv'
    BY DEF SleepInv
  <1>2. NoLostWakeup'
    BY DEF NoLostWakeup, WakeOk
  <1> QED BY <1>1, <1>2 DEF RwInv

LEMMA PipesKept ==
  ASSUME IInv, pi' = pi
  PROVE  RingInv' /\ \A j \in Pipes : pi'[j].readopen = pi[j].readopen /\ pi'[j].writeopen = pi[j].writeopen
  BY DEF IInv, RingInv, Count

LEMMA Step_CallRw ==
  ASSUME IInv, NEW p \in Procs, NEW d \in Fd, NEW n \in Counts, NEW w \in BOOLEAN, CallRw(p, d, n, w)
  PROVE  IInv'
  <1> DEFINE f == ofile[p][d]
             l == IF w THEN "write" ELSE "read"
  <1>1. pc[p] = "user" /\ f # NoFile /\ wr[f] = w
    BY SMT DEF CallRw, User, Is
  <1>2. f \in File /\ type[f] = "pipe"
    BY <1>1, FdHasRef
  <1>3. /\ pc' = [pc EXCEPT ![p] = l] /\ file' = [file EXCEPT ![p] = f] /\ left' = [left EXCEPT ![p] = n]
        /\ panic' = panic
    BY <1>2 DEF CallRw, Goto
  <1>4. UNCHANGED <<ref, type, wr, fpipe, ofile, pi, mem, plock, stranded, killed, todo, exiting, ff>>
    BY SMT DEF CallRw, ftable, pipes
  <1>5. /\ pc \in [Procs -> Labels] /\ file \in [Procs -> File \cup {NoFile}] /\ left \in [Procs -> Nat]
        /\ n \in Nat
    BY FilesAssumption DEF IInv, Types, CallTypes
  <1>6. l \in Labels /\ l \in Rw /\ (l \in Writing <=> w) /\ l # "unused" /\ l # "pipeclose" /\ l \notin Building
        /\ l \notin Sleepy /\ ToDo(l) = {0}
    BY SMT DEF Labels, Rw, Reading, Writing, Building, Sleepy, ToDo
  <1> HIDE DEF l
  <1>7. pc' \in [Procs -> Labels] /\ pc'[p] = l /\ \A q \in Procs : q # p => pc'[q] = pc[q]
    BY <1>3, <1>5, <1>6
  <1>8. /\ file' \in [Procs -> File \cup {NoFile}] /\ file'[p] = f
        /\ \A q \in Procs : q # p => file'[q] = file[q]
    BY <1>2, <1>3, <1>5
  <1>9. left' \in [Procs -> Nat]
    BY <1>3, <1>5
  <1>10. FileTypes' /\ PipeTypes' /\ CallTypes'
    BY <1>4, <1>7, <1>8, <1>9 DEF IInv, Types, FileTypes, PipeTypes, CallTypes
  <1>11. ToDo(pc[p]) = {0} /\ pc[p] # "pipeclose" /\ pc[p] \notin Locking
    BY SMT, <1>1 DEF ToDo, Locking
  <1>12. CallOk(p)'
    <2>1. Len(todo[p]) \in ToDo(pc'[p]) /\ ff[p] = NoFF
      BY <1>6, <1>7, <1>11 DEF IInv, CallInv, CallOk
    <2>2. file'[p] \in File /\ (\E x \in Fd : ofile[p][x] = file'[p])
      BY <1>2, <1>8
    <2>3. wr[file'[p]] <=> pc'[p] \in Writing
      BY <1>1, <1>6, <1>7, <1>8
    <2>4. todo' = todo /\ ff' = ff /\ ofile' = ofile /\ wr' = wr
      BY <1>4
    <2>5. pc'[p] # "unused" /\ pc'[p] # "pipeclose"
      BY <1>6, <1>7
    <2> QED BY <2>1, <2>2, <2>3, <2>4, <2>5 DEF CallOk, ToDo
  <1> HIDE DEF f
  <1>13. CallInv'
    <2>1. ASSUME NEW q \in Procs, q # p PROVE CallOk(q)'
      <3>1. CallOk(q)
        BY DEF IInv, CallInv
      <3>2. /\ pc'[q] = pc[q] /\ todo'[q] = todo[q] /\ ofile'[q] = ofile[q] /\ ff'[q] = ff[q]
            /\ file'[q] = file[q] /\ wr'[file[q]] = wr[file[q]]
        BY <1>4, <1>7, <1>8, <2>1
      <3> QED BY <3>1, <3>2, CallSame
    <2> QED BY <1>12, <2>1 DEF CallInv
  <1>14. FileInv' /\ RefsCounted'
    <2>1. \A q \in Procs : pc'[q] \in Building => pc'[q] = pc[q]
      BY <1>6, <1>7
    <2> QED BY <1>3, <1>4, <2>1, FileKept
  <1>15. EndInv' /\ EndsOpen' /\ RingInv'
    BY <1>4, EndsKept
  <1>16. RwInv'
    <2>1. ASSUME NEW q \in Procs, pc'[q] \in Sleepy \/ pc[q] \in Locking PROVE RwSame(q)
      <3>1. q # p
        BY <1>6, <1>7, <1>11, <2>1
      <3> QED BY <1>4, <1>7, <1>8, <3>1 DEF RwSame
    <2> QED BY <1>4, <2>1, RwSleep
  <1> QED BY <1>10, <1>13, <1>14, <1>15, <1>16 DEF IInv, Types, RwInv

LEMMA Step_kill == ASSUME IInv, NEW p \in Procs, kill(p) PROVE IInv'
  <1> DEFINE l == IF pc[p] = "read asleep" THEN "read" ELSE IF pc[p] = "write asleep" THEN "write" ELSE pc[p]
  <1>1. pc \in [Procs -> Labels] /\ killed \in [Procs -> BOOLEAN]
    BY DEF IInv, Types, CallTypes
  <1>2. pc' = [pc EXCEPT ![p] = l] /\ killed' = [killed EXCEPT ![p] = TRUE]
    BY <1>1 DEF kill
  <1>3. UNCHANGED <<ref, type, wr, fpipe, ofile, pi, mem, plock, stranded, file, left, todo, exiting, ff, panic>>
    BY DEF kill, ftable, pipes
  <1>4. /\ l \in Labels /\ (l # pc[p] => pc[p] \in Rw /\ l \in Rw /\ (l \in Writing <=> pc[p] \in Writing))
        /\ (l # pc[p] => pc[p] \notin Locking /\ l \notin Sleepy /\ l \notin Building)
    <2>1. pc[p] \in Labels
      BY <1>1
    <2> QED BY <2>1 DEF Labels, Rw, Reading, Writing, Locking, Sleepy, Building
  <1> HIDE DEF l
  <1>5. pc' \in [Procs -> Labels] /\ pc'[p] = l /\ \A q \in Procs : q # p => pc'[q] = pc[q]
    BY <1>1, <1>2, <1>4
  <1>6. killed' \in [Procs -> BOOLEAN]
    BY <1>1, <1>2
  <1>7. FileTypes' /\ PipeTypes' /\ CallTypes'
    BY <1>3, <1>5, <1>6 DEF IInv, Types, FileTypes, PipeTypes, CallTypes
  <1>8. ASSUME NEW q \in Procs, pc'[q] # pc[q]
        PROVE  /\ pc[q] \in Rw /\ pc'[q] \in Rw /\ (pc'[q] \in Writing <=> pc[q] \in Writing)
               /\ pc[q] \notin Locking /\ pc'[q] \notin Sleepy /\ pc'[q] \notin Building
    BY <1>4, <1>5, <1>8
  <1>9. CallInv'
    <2>1. ASSUME NEW q \in Procs PROVE CallOk(q)'
      <3>1. CallOk(q)
        BY DEF IInv, CallInv
      <3>2. /\ todo'[q] = todo[q] /\ ofile'[q] = ofile[q] /\ ff'[q] = ff[q]
            /\ file'[q] = file[q] /\ wr'[file[q]] = wr[file[q]] /\ wr' = wr
        BY <1>3
      <3>3. CASE pc'[q] = pc[q]
        BY <3>1, <3>2, <3>3, CallSame
      <3>4. CASE pc'[q] # pc[q]
        <4>1. pc[q] \in Rw /\ pc'[q] \in Rw /\ (pc'[q] \in Writing <=> pc[q] \in Writing)
          BY <1>8, <3>4
        <4> QED BY <3>1, <3>2, <4>1, CallMoves
      <3> QED BY SMT, <3>3, <3>4
    <2> QED BY <2>1 DEF CallInv
  <1>10. FileInv' /\ RefsCounted'
    <2>1. \A q \in Procs : pc'[q] \in Building => pc'[q] = pc[q]
      BY <1>8
    <2> QED BY <1>3, <2>1, FileKept
  <1>11. EndInv' /\ EndsOpen' /\ RingInv'
    BY <1>3, EndsKept
  <1>12. RwInv'
    <2>1. ASSUME NEW q \in Procs, pc'[q] \in Sleepy \/ pc[q] \in Locking PROVE RwSame(q)
      <3>1. pc'[q] = pc[q]
        BY <1>8, <2>1
      <3> QED BY <1>3, <3>1 DEF RwSame
    <2> QED BY <1>3, <2>1, RwSleep
  <1> QED BY <1>7, <1>9, <1>10, <1>11, <1>12 DEF IInv, Types, RwInv

LEMMA Step_ReadWait == ASSUME IInv, NEW p \in Procs, ReadWait(p) PROVE IInv'
  <1> DEFINE g == PipeOf(p)
  <1>1. pc[p] = "read" /\ plock[g] \in {Nobody, p} /\ IsEmpty(pi[g]) /\ pi[g].writeopen
    BY DEF ReadWait, Is, Unlocked, PipeOf
  <1>2. pc[p] \in Rw /\ pc[p] \notin Writing /\ pc[p] \notin Locking
    BY SMT, <1>1 DEF Rw, Reading, Writing, Locking
  <1>3. g \in Pipes
    BY <1>2, RwIs
  <1>4. /\ pc \in [Procs -> Labels] /\ file \in [Procs -> File \cup {NoFile}] /\ left \in [Procs -> Nat]
        /\ plock \in [Pipes -> Procs \cup {Nobody}]
    BY DEF IInv, Types, CallTypes, PipeTypes
  <1>5. CASE killed[p]
    <2>1. /\ pc' = [pc EXCEPT ![p] = "user"] /\ file' = [file EXCEPT ![p] = NoFile] /\ left' = [left EXCEPT ![p] = 0]
          /\ UNCHANGED <<ref, type, wr, fpipe, ofile, pi, mem, plock, stranded, killed, todo, exiting, ff, panic>>
      BY SMT, <1>5 DEF ReadWait, Goto, Return, ftable, pipes
    <2>2. pc' \in [Procs -> Labels] /\ pc'[p] = "user" /\ \A q \in Procs : q # p => pc'[q] = pc[q]
      <3>1. "user" \in Labels
        BY SMT DEF Labels
      <3> QED BY <1>4, <2>1, <3>1
    <2>3. file' \in [Procs -> File \cup {NoFile}] /\ \A q \in Procs : q # p => file'[q] = file[q]
      BY <1>4, <2>1
    <2>4. left' \in [Procs -> Nat]
      BY SMT, <1>4, <2>1
    <2>5. FileTypes' /\ PipeTypes' /\ CallTypes'
      BY <2>1, <2>2, <2>3, <2>4 DEF IInv, Types, FileTypes, PipeTypes, CallTypes
    <2>6. CallInv'
      <3>1. ASSUME NEW q \in Procs PROVE CallOk(q)'
        <4>1. CallOk(q)
          BY DEF IInv, CallInv
        <4>2. /\ todo'[q] = todo[q] /\ ofile'[q] = ofile[q] /\ ff'[q] = ff[q]
              /\ wr'[file[q]] = wr[file[q]] /\ wr' = wr
          BY <2>1
        <4>3. CASE q = p
          BY <1>2, <2>2, <4>1, <4>2, <4>3, CallMoves
        <4>4. CASE q # p
          BY <2>2, <2>3, <4>1, <4>2, <4>4, CallSame
        <4> QED BY SMT, <4>3, <4>4
      <3> QED BY <3>1 DEF CallInv
    <2>7. pc'[p] \notin Building /\ pc'[p] \notin Sleepy
      BY SMT, <2>2 DEF Building, Sleepy
    <2>8. FileInv' /\ RefsCounted'
      <3>1. \A q \in Procs : pc'[q] \in Building => pc'[q] = pc[q]
        BY <2>2, <2>7
      <3> QED BY <2>1, <3>1, FileKept
    <2>9. EndInv' /\ EndsOpen' /\ RingInv'
      BY <2>1, EndsKept
    <2>10. RwInv'
      <3>1. ASSUME NEW q \in Procs, pc'[q] \in Sleepy \/ pc[q] \in Locking PROVE RwSame(q)
        <4>1. q # p
          BY <1>2, <2>7, <3>1
        <4> QED BY <2>1, <2>2, <2>3, <4>1 DEF RwSame
      <3> QED BY <2>1, <3>1, RwSleep
    <2> QED BY <2>5, <2>6, <2>8, <2>9, <2>10 DEF IInv, Types, RwInv
  <1>6. CASE ~killed[p]
    <2>1. /\ pc' = [pc EXCEPT ![p] = "read sleep"] /\ plock' = [plock EXCEPT ![g] = p]
          /\ UNCHANGED <<ref, type, wr, fpipe, ofile, pi, mem, stranded, killed, file, left, todo, exiting, ff, panic>>
      BY <1>6 DEF ReadWait, Goto, PipeOf, ftable
    <2> HIDE DEF g
    <2>2. pc' \in [Procs -> Labels] /\ pc'[p] = "read sleep" /\ \A q \in Procs : q # p => pc'[q] = pc[q]
      <3>1. "read sleep" \in Labels
        BY SMT DEF Labels, Rw, Reading
      <3> QED BY <1>4, <2>1, <3>1
    <2>3. plock' \in [Pipes -> Procs \cup {Nobody}] /\ plock'[g] = p /\ \A j \in Pipes : j # g => plock'[j] = plock[j]
      BY <1>3, <1>4, <2>1
    <2>4. FileTypes' /\ PipeTypes' /\ CallTypes'
      BY <2>1, <2>2, <2>3 DEF IInv, Types, FileTypes, PipeTypes, CallTypes
    <2>5. pc'[p] \in Rw /\ pc'[p] \notin Writing /\ pc'[p] \in Locking
      BY <2>2 DEF Rw, Reading, Writing, Locking
    <2>6. PipeOf(p)' = g /\ PipeOf(p) = g
      BY <2>1 DEF PipeOf, g
    <2>7. PipeStep(p, g)
      BY <1>1, <1>3, <2>1, <2>2, <2>3, <2>5, <2>6 DEF PipeStep
    <2>8. RingInv' /\ \A j \in Pipes : pi'[j].readopen = pi[j].readopen /\ pi'[j].writeopen = pi[j].writeopen
      BY <2>1, PipesKept
    <2>9. CallInv' /\ FileInv' /\ RefsCounted' /\ EndInv' /\ EndsOpen'
      BY <1>2, <2>1, <2>5, <2>7, <2>8, PipeRest
    <2>10. /\ LockInv' /\ \A q \in Procs : q # p => SleepOk(q)'
           /\ \A q \in Procs : q # p /\ PipeOf(q) # g => WakeOk(q)'
      BY <2>7, PipeRw
    <2>11. SleepOk(p)'
      <3>1. IsEmpty(pi'[PipeOf(p)']) /\ pi'[PipeOf(p)'].writeopen
        BY <1>1, <2>1, <2>6
      <3>2. pc'[p] # "write sleep"
        BY <2>2
      <3> QED BY <3>1, <3>2 DEF SleepOk, IsEmpty
    <2>12. WakeOk(p)'
      <3>1. pc'[p] # "write asleep" /\ pc'[p] # "read asleep"
        BY <2>2
      <3> QED BY <3>1 DEF WakeOk
    <2>13. ASSUME NEW q \in Procs, q # p, PipeOf(q) = g PROVE WakeOk(q)'
      <3>1. WakeOk(q)
        BY DEF IInv, NoLostWakeup, WakeOk
      <3>2. pc'[q] = pc[q] /\ fpipe' = fpipe /\ file' = file /\ pi' = pi /\ fpipe[file[q]] = g
        BY <2>1, <2>2, <2>13 DEF PipeOf
      <3>3. plock'[g] # Nobody
        BY <2>3, NobodyAssumption
      <3>4. pc[q] = "write asleep" => IsFull(pi[g]) /\ pi[g].readopen
        BY <3>1, <3>2 DEF WakeOk
      <3>5. pc[q] = "read asleep" => pi[g].writeopen
        BY <3>1, <3>2 DEF WakeOk
      <3> QED BY <3>2, <3>3, <3>4, <3>5 DEF WakeOk, IsFull, IsEmpty
    <2>14. RwInv'
      BY <2>10, <2>11, <2>12, <2>13, WakesNext
    <2> QED BY <2>4, <2>8, <2>9, <2>14 DEF IInv, Types, RwInv
  <1> QED BY SMT, <1>5, <1>6

LEMMA Step_Sleep == ASSUME IInv, NEW p \in Procs, Sleep(p) PROVE IInv'
  <1> DEFINE g == PipeOf(p)
             l == IF pc[p] = "read sleep" THEN "read asleep" ELSE "write asleep"
  <1>1. pc[p] = "read sleep" \/ pc[p] = "write sleep"
    BY DEF Sleep
  <1>2. /\ pc[p] \in Rw /\ l \in Labels /\ l \in Rw /\ (l \in Writing <=> pc[p] \in Writing)
        /\ l \notin {"read sleep", "write sleep"}
    BY <1>1 DEF Rw, Reading, Writing, Labels
  <1>3. g \in Pipes /\ plock[g] = p
    BY <1>1, <1>2, RwIs DEF IInv, LockInv
  <1>4. pc \in [Procs -> Labels] /\ plock \in [Pipes -> Procs \cup {Nobody}]
    BY DEF IInv, Types, CallTypes, PipeTypes
  <1>5. /\ pc' = [pc EXCEPT ![p] = l] /\ plock' = [plock EXCEPT ![g] = Nobody]
        /\ UNCHANGED <<ref, type, wr, fpipe, ofile, pi, mem, stranded, killed, file, left, todo, exiting, ff, panic>>
    BY DEF Sleep, Goto, PipeOf, ftable
  <1>6. /\ pc[p] = "read sleep" => l = "read asleep" /\ l # "write asleep"
        /\ pc[p] = "write sleep" => l = "write asleep" /\ l # "read asleep"
    OBVIOUS
  <1> HIDE DEF g, l
  <1>7. pc' \in [Procs -> Labels] /\ pc'[p] = l /\ \A q \in Procs : q # p => pc'[q] = pc[q]
    BY <1>2, <1>4, <1>5
  <1>8. /\ plock' \in [Pipes -> Procs \cup {Nobody}] /\ plock'[g] = Nobody
        /\ \A j \in Pipes : j # g => plock'[j] = plock[j]
    BY <1>3, <1>4, <1>5
  <1>9. FileTypes' /\ PipeTypes' /\ CallTypes'
    BY <1>5, <1>7, <1>8 DEF IInv, Types, FileTypes, PipeTypes, CallTypes
  <1>10. PipeOf(p)' = g /\ PipeOf(p) = g
    BY <1>5 DEF PipeOf, g
  <1>11. PipeStep(p, g)
    <2>1. plock'[g] # p
      BY <1>8, NobodyAssumption
    <2>2. \A q \in Procs : q # p => file'[q] = file[q] /\ pc'[q] = pc[q]
      BY <1>5, <1>7
    <2>3. \A j \in Pipes : j # g => pi'[j] = pi[j] /\ plock'[j] = plock[j] /\ stranded'[j] = stranded[j]
      BY <1>5, <1>8
    <2>4. pc'[p] \notin {"read sleep", "write sleep"}
      BY <1>2, <1>7
    <2> QED BY <1>3, <1>5, <1>8, <1>10, <2>1, <2>2, <2>3, <2>4 DEF PipeStep
  <1>12. RingInv' /\ \A j \in Pipes : pi'[j].readopen = pi[j].readopen /\ pi'[j].writeopen = pi[j].writeopen
    BY <1>5, PipesKept
  <1>13. CallInv' /\ FileInv' /\ RefsCounted' /\ EndInv' /\ EndsOpen'
    <2>1. file'[p] = file[p] /\ pc'[p] \in Rw /\ (pc'[p] \in Writing <=> pc[p] \in Writing)
      BY <1>2, <1>5, <1>7
    <2> QED BY <1>2, <1>5, <1>11, <1>12, <2>1, PipeRest
  <1>14. /\ LockInv' /\ \A q \in Procs : q # p => SleepOk(q)'
         /\ \A q \in Procs : q # p /\ PipeOf(q) # g => WakeOk(q)'
    BY <1>11, PipeRw
  <1>15. SleepOk(p)'
    <2>1. pc'[p] # "read sleep" /\ pc'[p] # "write sleep"
      BY <1>2, <1>7
    <2> QED BY <2>1 DEF SleepOk
  <1>16. SleepOk(p)
    BY DEF IInv, SleepInv
  <1>17. /\ pc[p] = "read sleep" => pi[g].writeopen /\ IsEmpty(pi[g])
         /\ pc[p] = "write sleep" => pi[g].readopen /\ IsFull(pi[g]) /\ \A q \in Procs : pc[q] = "read asleep" => PipeOf(q) # g
    BY <1>10, <1>16 DEF SleepOk
  <1>18. WakeOk(p)'
    <2>1. fpipe'[file'[p]] = g /\ pi' = pi
      BY <1>5, <1>10 DEF PipeOf
    <2>2. CASE pc[p] = "read sleep"
      <3>1. pc'[p] # "write asleep" /\ pi[g].writeopen /\ IsEmpty(pi[g])
        BY <1>6, <1>7, <1>17, <2>2
      <3> QED BY <2>1, <3>1 DEF WakeOk, IsEmpty
    <2>3. CASE pc[p] = "write sleep"
      <3>1. pc'[p] # "read asleep" /\ pi[g].readopen /\ IsFull(pi[g])
        BY <1>6, <1>7, <1>17, <2>3
      <3> QED BY <2>1, <3>1 DEF WakeOk, IsFull
    <2> QED BY <1>1, <2>2, <2>3
  <1>19. ASSUME NEW q \in Procs, q # p, PipeOf(q) = g PROVE WakeOk(q)'
    <2>1. WakeOk(q)
      BY DEF IInv, NoLostWakeup, WakeOk
    <2>2. pc'[q] = pc[q] /\ fpipe' = fpipe /\ file' = file /\ pi' = pi /\ fpipe[file[q]] = g
      BY <1>5, <1>7, <1>19 DEF PipeOf
    <2>3. pc[q] = "write asleep" => IsFull(pi[g]) /\ pi[g].readopen
      BY <2>1, <2>2 DEF WakeOk
    <2>4. pc[q] = "read asleep" => pi[g].writeopen
      BY <2>1, <2>2 DEF WakeOk
    <2>5. pc[q] = "read asleep" => IsEmpty(pi[g])
      BY <1>1, <1>17, <1>19
    <2> QED BY <2>2, <2>3, <2>4, <2>5 DEF WakeOk, IsFull, IsEmpty
  <1>20. RwInv'
    BY <1>14, <1>15, <1>18, <1>19, WakesNext
  <1> QED BY <1>9, <1>12, <1>13, <1>20 DEF IInv, Types, RwInv

(* What a wakeup does to the other processes. *)
LEMMA WokenReadersAre ==
  ASSUME pc \in [Procs -> Labels], NEW p \in Procs, NEW g, NEW l \in Labels, pc' = [WokenReaders(g) EXCEPT ![p] = l]
  PROVE  /\ pc' \in [Procs -> Labels] /\ pc'[p] = l
         /\ \A q \in Procs : q # p =>
              /\ \/ pc'[q] = pc[q]
                 \/ pc[q] = "read asleep" /\ pc'[q] = "read"
              /\ PipeOf(q) = g => pc'[q] # "read asleep"
              /\ PipeOf(q) # g => pc'[q] = pc[q]
  <1>1. "read" \in Labels
    BY DEF Labels, Rw, Reading
  <1>2. WokenReaders(g) = [q \in Procs |-> IF pc[q] = "read asleep" /\ PipeOf(q) = g THEN "read" ELSE pc[q]]
    BY DEF WokenReaders, Woken, PipeOf
  <1> DEFINE o == WokenReaders(g)
  <1>3. o \in [Procs -> Labels] /\ \A q \in Procs : o[q] = IF pc[q] = "read asleep" /\ PipeOf(q) = g THEN "read" ELSE pc[q]
    BY <1>1, <1>2
  <1> HIDE DEF o
  <1>4. pc' = [o EXCEPT ![p] = l]
    BY DEF o
  <1>5. pc' \in [Procs -> Labels] /\ pc'[p] = l /\ \A q \in Procs : q # p => pc'[q] = o[q]
    BY <1>3, <1>4
  <1> QED BY <1>3, <1>5

LEMMA WokenWritersAre ==
  ASSUME pc \in [Procs -> Labels], NEW p \in Procs, NEW g, NEW l \in Labels, pc' = [WokenWriters(g) EXCEPT ![p] = l]
  PROVE  /\ pc' \in [Procs -> Labels] /\ pc'[p] = l
         /\ \A q \in Procs : q # p =>
              /\ \/ pc'[q] = pc[q]
                 \/ pc[q] = "write asleep" /\ pc'[q] = "write"
              /\ PipeOf(q) = g => pc'[q] # "write asleep"
              /\ PipeOf(q) # g => pc'[q] = pc[q]
  <1>1. "write" \in Labels
    BY DEF Labels, Rw, Writing
  <1>2. WokenWriters(g) = [q \in Procs |-> IF pc[q] = "write asleep" /\ PipeOf(q) = g THEN "write" ELSE pc[q]]
    BY DEF WokenWriters, Woken, PipeOf
  <1> DEFINE o == WokenWriters(g)
  <1>3. o \in [Procs -> Labels] /\ \A q \in Procs : o[q] = IF pc[q] = "write asleep" /\ PipeOf(q) = g THEN "write" ELSE pc[q]
    BY <1>1, <1>2
  <1> HIDE DEF o
  <1>4. pc' = [o EXCEPT ![p] = l]
    BY DEF o
  <1>5. pc' \in [Procs -> Labels] /\ pc'[p] = l /\ \A q \in Procs : q # p => pc'[q] = o[q]
    BY <1>3, <1>4
  <1> QED BY <1>3, <1>5

(* A writer p goes on at l without a byte more in the pipe; s says whether *)
(* it leaves readers asleep.                                               *)
Leave(p, l, s) ==
  /\ pc[p] = "write" /\ plock[PipeOf(p)] \in {Nobody, p} /\ s \in BOOLEAN
  /\ pc' \in [Procs -> Labels] /\ pc'[p] = l
  /\ \A q \in Procs : q # p => pc'[q] = pc[q] \/ (pc[q] = "read asleep" /\ pc'[q] = "read")
  /\ stranded' = [stranded EXCEPT ![PipeOf(p)] = s]
  /\ UNCHANGED <<ref, type, wr, fpipe, ofile, pi, mem, killed, todo, exiting, ff, panic>>
  /\ \/ /\ l = "user" /\ plock' = [plock EXCEPT ![PipeOf(p)] = Nobody]
        /\ file' = [file EXCEPT ![p] = NoFile] /\ left' = [left EXCEPT ![p] = 0]
     \/ l = "write sleep" /\ plock' = [plock EXCEPT ![PipeOf(p)] = p] /\ file' = file /\ left' = left
  /\ \A q \in Procs : q # p /\ PipeOf(q) = PipeOf(p) /\ pc'[q] = "read asleep" =>
       (IsEmpty(pi[PipeOf(p)]) \/ s) /\ l # "write sleep"
  /\ l = "write sleep" => pi[PipeOf(p)].readopen /\ IsFull(pi[PipeOf(p)])

LEMMA LeaveStep == ASSUME IInv, NEW p \in Procs, NEW l, NEW s, Leave(p, l, s) PROVE IInv'
  <1> DEFINE g == PipeOf(p)
  <1>1. /\ pc[p] = "write" /\ plock[g] \in {Nobody, p} /\ s \in BOOLEAN
        /\ pc' \in [Procs -> Labels] /\ pc'[p] = l
        /\ \A q \in Procs : q # p => pc'[q] = pc[q] \/ (pc[q] = "read asleep" /\ pc'[q] = "read")
        /\ stranded' = [stranded EXCEPT ![g] = s]
        /\ UNCHANGED <<ref, type, wr, fpipe, ofile, pi, mem, killed, todo, exiting, ff, panic>>
    BY DEF Leave
  <1>2. \/ /\ l = "user" /\ plock' = [plock EXCEPT ![g] = Nobody]
           /\ file' = [file EXCEPT ![p] = NoFile] /\ left' = [left EXCEPT ![p] = 0]
        \/ l = "write sleep" /\ plock' = [plock EXCEPT ![g] = p] /\ file' = file /\ left' = left
    BY DEF Leave
  <1>3. pc[p] \in Rw /\ pc[p] \in Writing /\ "write sleep" \in Writing /\ "write sleep" \in Rw /\ "write sleep" \in Locking
    BY <1>1 DEF Rw, Writing, Locking
  <1>4. g \in Pipes
    BY <1>3, RwIs
  <1>5. /\ file \in [Procs -> File \cup {NoFile}] /\ left \in [Procs -> Nat]
        /\ plock \in [Pipes -> Procs \cup {Nobody}] /\ stranded \in [Pipes -> BOOLEAN]
    BY DEF IInv, Types, CallTypes, PipeTypes
  <1>6. /\ stranded' \in [Pipes -> BOOLEAN] /\ stranded'[g] = s
        /\ \A j \in Pipes : j # g => stranded'[j] = stranded[j]
    BY <1>1, <1>4, <1>5
  <1>7. /\ plock' \in [Pipes -> Procs \cup {Nobody}] /\ plock'[g] \in {Nobody, p}
        /\ (l = "write sleep" => plock'[g] = p) /\ (l = "user" => plock'[g] = Nobody)
        /\ \A j \in Pipes : j # g => plock'[j] = plock[j]
    <2>1. CASE l = "user" /\ plock' = [plock EXCEPT ![g] = Nobody]
      <3>1. l # "write sleep"
        BY SMT, <2>1
      <3> QED BY <1>4, <1>5, <2>1, <3>1
    <2>2. CASE l = "write sleep" /\ plock' = [plock EXCEPT ![g] = p]
      <3>1. l # "user"
        BY <2>2
      <3> QED BY <1>4, <1>5, <2>2, <3>1
    <2> QED BY <1>2, <2>1, <2>2
  <1>8. /\ file' \in [Procs -> File \cup {NoFile}] /\ left' \in [Procs -> Nat]
        /\ \A q \in Procs : q # p => file'[q] = file[q]
    <2>1. CASE file' = [file EXCEPT ![p] = NoFile] /\ left' = [left EXCEPT ![p] = 0]
      <3>1. 0 \in Nat
        BY SMT
      <3> QED BY <1>5, <2>1, <3>1
    <2>2. CASE file' = file /\ left' = left
      BY <1>5, <2>2
    <2> QED BY <1>2, <2>1, <2>2
  <1>9. FileTypes' /\ PipeTypes' /\ CallTypes'
    BY <1>1, <1>6, <1>7, <1>8 DEF IInv, Types, FileTypes, PipeTypes, CallTypes
  <1>10. l = "user" \/ (l = "write sleep" /\ file'[p] = file[p])
    BY <1>2
  <1>11. PipeOf(p) = g
    BY SMT
  <1>21. \A q \in Procs : q # p /\ PipeOf(q) = g /\ pc'[q] = "read asleep" => (IsEmpty(pi[g]) \/ s) /\ l # "write sleep"
    BY DEF Leave
  <1>22. l = "write sleep" => pi[g].readopen /\ IsFull(pi[g])
    BY DEF Leave
  <1> HIDE DEF g
  <1>12. PipeStep(p, g)
    <2>1. plock'[g] = p => pc'[p] \in Locking
      BY <1>1, <1>3, <1>7, <1>10, NobodyAssumption
    <2>2. pc'[p] \in {"read sleep", "write sleep"} => plock'[g] = p
      <3>1. "user" \notin {"read sleep", "write sleep"}
        BY SMT
      <3>2. CASE l = "user"
        BY <1>1, <3>1, <3>2
      <3>3. CASE l = "write sleep"
        BY <1>7, <3>3
      <3> QED BY <1>10, <3>2, <3>3
    <2>3. \A j \in Pipes : j # g => pi'[j] = pi[j] /\ plock'[j] = plock[j] /\ stranded'[j] = stranded[j]
      BY <1>1, <1>6, <1>7
    <2>4. \A q \in Procs : q # p => file'[q] = file[q] /\
             \/ pc'[q] = pc[q]
             \/ pc[q] = "read asleep" /\ pc'[q] = "read"
             \/ pc[q] = "write asleep" /\ pc'[q] = "write"
      BY <1>1, <1>8
    <2>5. fpipe' = fpipe /\ plock[g] \in {Nobody, p} /\ plock'[g] \in {Nobody, p}
      BY <1>1, <1>7
    <2>6. pc'[p] \in Rw => PipeOf(p)' = g
      <3>1. "user" \notin Rw
        BY SMT DEF Rw, Reading, Writing
      <3>2. CASE l = "user"
        BY <1>1, <3>1, <3>2
      <3>3. CASE l = "write sleep" /\ file'[p] = file[p]
        BY <1>1, <1>11, <3>3 DEF PipeOf
      <3> QED BY <1>10, <3>2, <3>3
    <2> QED BY <1>4, <1>11, <2>1, <2>2, <2>3, <2>4, <2>5, <2>6 DEF PipeStep
  <1>13. RingInv' /\ \A j \in Pipes : pi'[j].readopen = pi[j].readopen /\ pi'[j].writeopen = pi[j].writeopen
    BY <1>1, PipesKept
  <1>14. CallInv' /\ FileInv' /\ RefsCounted' /\ EndInv' /\ EndsOpen'
    <2>1. pc'[p] = "user" \/ (file'[p] = file[p] /\ pc'[p] \in Rw /\ (pc'[p] \in Writing <=> pc[p] \in Writing))
      BY <1>1, <1>3, <1>10
    <2> QED BY <1>1, <1>3, <1>12, <1>13, <2>1, PipeRest
  <1>15. /\ LockInv' /\ \A q \in Procs : q # p => SleepOk(q)'
         /\ \A q \in Procs : q # p /\ PipeOf(q) # g => WakeOk(q)'
    BY <1>12, PipeRw
  <1>16. pc'[p] # "read sleep" /\ pc'[p] # "read asleep" /\ pc'[p] # "write asleep"
    BY <1>1, <1>10
  <1>17. SleepOk(p)'
    <2>1. CASE l = "user"
      <3>1. pc'[p] # "write sleep"
        BY <1>1, <2>1
      <3> QED BY <1>16, <3>1 DEF SleepOk
    <2>2. CASE l = "write sleep"
      <3>1. PipeOf(p)' = g
        BY <1>1, <1>2, <1>10, <1>11, <2>2 DEF PipeOf
      <3>2. pi'[g].readopen /\ IsFull(pi'[g])
        BY <1>1, <1>22, <2>2
      <3>3. ASSUME NEW q \in Procs, pc'[q] = "read asleep", PipeOf(q)' = g PROVE FALSE
        <4>1. q # p
          BY <1>16, <3>3
        <4>2. PipeOf(q) = g
          BY <1>1, <1>8, <3>3, <4>1 DEF PipeOf
        <4> QED BY <1>21, <2>2, <3>3, <4>1, <4>2
      <3> QED BY <1>16, <3>1, <3>2, <3>3 DEF SleepOk, IsFull
    <2> QED BY <1>10, <2>1, <2>2
  <1>18. WakeOk(p)'
    BY <1>16 DEF WakeOk
  <1>19. ASSUME NEW q \in Procs, q # p, PipeOf(q) = g PROVE WakeOk(q)'
    <2>1. WakeOk(q)
      BY DEF IInv, NoLostWakeup, WakeOk
    <2>2. /\ fpipe'[file'[q]] = g /\ pi' = pi /\ fpipe[file[q]] = g /\ stranded'[g] = s
      BY <1>1, <1>6, <1>8, <1>19 DEF PipeOf
    <2>3. pc[q] = "write asleep" => IsFull(pi[g]) /\ pi[g].readopen
      BY <2>1, <2>2 DEF WakeOk
    <2>4. pc[q] = "read asleep" => pi[g].writeopen
      BY <2>1, <2>2 DEF WakeOk
    <2>5. pc'[q] = "read asleep" => IsEmpty(pi[g]) \/ s
      BY <1>19, <1>21
    <2>6. (pc'[q] = "read asleep" => pc[q] = "read asleep") /\ (pc'[q] = "write asleep" => pc[q] = "write asleep")
      <3>1. pc'[q] = pc[q] \/ pc'[q] = "read"
        BY <1>1, <1>19
      <3> QED BY <3>1
    <2> QED BY <2>2, <2>3, <2>4, <2>5, <2>6 DEF WakeOk, IsFull, IsEmpty
  <1>20. RwInv'
    BY <1>15, <1>17, <1>18, <1>19, WakesNext
  <1> QED BY <1>9, <1>13, <1>14, <1>20 DEF IInv, Types, RwInv

LEMMA Step_WriteDone == ASSUME IInv, NEW p \in Procs, WriteDone(p) PROVE IInv'
  <1> DEFINE g == PipeOf(p)
  <1>1. /\ pc[p] = "write" /\ plock[g] \in {Nobody, p} /\ pc' = [WokenReaders(g) EXCEPT ![p] = "user"]
        /\ stranded' = [stranded EXCEPT ![g] = FALSE] /\ plock' = [plock EXCEPT ![g] = Nobody]
        /\ file' = [file EXCEPT ![p] = NoFile] /\ left' = [left EXCEPT ![p] = 0]
        /\ UNCHANGED <<ref, type, wr, fpipe, ofile, pi, mem, killed, todo, exiting, ff, panic>>
    BY SMT DEF WriteDone, Is, Unlocked, Return, PipeOf, ftable
  <1> HIDE DEF g
  <1>2. pc \in [Procs -> Labels] /\ "user" \in Labels
    BY SMT DEF IInv, Types, CallTypes, Labels
  <1>3. /\ pc' \in [Procs -> Labels] /\ pc'[p] = "user"
        /\ \A q \in Procs : q # p =>
             /\ \/ pc'[q] = pc[q]
                \/ pc[q] = "read asleep" /\ pc'[q] = "read"
             /\ PipeOf(q) = g => pc'[q] # "read asleep"
             /\ PipeOf(q) # g => pc'[q] = pc[q]
    BY <1>1, <1>2, WokenReadersAre
  <1>4. PipeOf(p) = g
    BY DEF g
  <1>5. \A q \in Procs : q # p /\ PipeOf(q) = PipeOf(p) => pc'[q] # "read asleep"
    BY <1>3, <1>4
  <1>6. "user" # "write sleep"
    BY SMT
  <1>7. Leave(p, "user", FALSE)
    BY <1>1, <1>3, <1>4, <1>5, <1>6 DEF Leave
  <1> QED BY <1>7, LeaveStep

(* What putting a byte in does to the pipes. *)
PutIs(g, v) ==
  /\ g \in Pipes /\ pi[g] \in Pipe /\ pi' \in [Pipes -> Pipe] /\ \A j \in Pipes : j # g => pi'[j] = pi[j]
  /\ pi'[g] = [readopen |-> pi[g].readopen, writeopen |-> pi[g].writeopen, nread |-> pi[g].nread,
               nwrite |-> (pi[g].nwrite + 1) % N, data |-> [pi[g].data EXCEPT ![pi[g].nwrite % PIPESIZE] = v]]
  /\ Count(pi[g].nread, pi[g].nwrite) < PIPESIZE
  /\ Count(pi'[g].nread, pi'[g].nwrite) <= PIPESIZE

LEMMA NotFull ==
  ASSUME IInv, NEW g \in Pipes, ~IsFull(pi[g])
  PROVE  Count(pi[g].nread, pi[g].nwrite) < PIPESIZE
  <1>1. pi[g] \in Pipe
    BY DEF IInv, Types, PipeTypes
  <1>2. pi[g].nread \in Index /\ pi[g].nwrite \in Index
    BY SMT, <1>1 DEF Pipe
  <1> DEFINE d == Count(pi[g].nread, pi[g].nwrite)
  <1>3. d <= PIPESIZE
    BY DEF IInv, RingInv
  <1>4. (pi[g].nread + d) % N = pi[g].nwrite
    BY <1>2, CountMoves
  <1>5. d \in Index
    BY <1>2, CountIs
  <1>6. d # PIPESIZE
    BY <1>4 DEF IsFull, N
  <1> HIDE DEF d
  <1>7. d < PIPESIZE
    BY SMT, <1>3, <1>5, <1>6, Sizes
  <1> QED BY <1>7 DEF d

LEMMA PutAdds ==
  ASSUME IInv, NEW g \in Pipes, NEW v \in Val, ~IsFull(pi[g]),
         pi' = [pi EXCEPT ![g].data[pi[g].nwrite % PIPESIZE] = v, ![g].nwrite = (@ + 1) % 2 ^ W]
  PROVE  PutIs(g, v)
  <1>1. pi \in [Pipes -> Pipe]
    BY DEF IInv, Types, PipeTypes
  <1> DEFINE c == pi[g]
             i == c.nwrite % PIPESIZE
             n == (c.nwrite + 1) % N
             d == [c.data EXCEPT ![i] = v]
             e == [readopen |-> c.readopen, writeopen |-> c.writeopen, nread |-> c.nread, nwrite |-> n, data |-> d]
  <1>2. c \in Pipe
    BY <1>1
  <1>3. /\ c.readopen \in BOOLEAN /\ c.writeopen \in BOOLEAN /\ c.nread \in Index /\ c.nwrite \in Index
        /\ c.data \in [0 .. PIPESIZE - 1 -> Val]
        /\ c = [readopen |-> c.readopen, writeopen |-> c.writeopen, nread |-> c.nread, nwrite |-> c.nwrite, data |-> c.data]
    BY SMT, <1>2 DEF Pipe
  <1>4. n \in Index
    BY <1>3, Moved, Sizes
  <1>5. d \in [0 .. PIPESIZE - 1 -> Val]
    BY <1>3
  <1>6. Count(c.nread, c.nwrite) < PIPESIZE
    BY NotFull
  <1>7. Count(c.nread, n) <= PIPESIZE
    <2>1. Count(c.nread, c.nwrite) \in Index
      BY <1>3, CountIs
    <2>2. Count(c.nread, c.nwrite) + 1 < N
      <3> DEFINE m == Count(c.nread, c.nwrite)
      <3> HIDE DEF m
      <3>1. m \in Index /\ m < PIPESIZE
        BY <1>6, <2>1 DEF m
      <3>2. m + 1 < N
        <4> DEFINE M == N
        <4>1. M \in Nat /\ PIPESIZE \in Nat /\ PIPESIZE < M /\ m \in Nat
          BY <3>1, Sizes
        <4> HIDE DEF M
        <4>2. m + 1 < M
          BY SMT, <3>1, <4>1
        <4> QED BY <4>2 DEF M
      <3> QED BY <3>2 DEF m
    <2>3. Count(c.nread, n) = Count(c.nread, c.nwrite) + 1
      <3>1. c.nread \in Index /\ c.nwrite \in Index /\ 1 \in Index
        BY <1>3, Sizes
      <3> HIDE DEF c
      <3> QED BY <2>2, <3>1, CountAhead
    <2> DEFINE m == Count(c.nread, c.nwrite)
    <2>4. m \in Nat /\ PIPESIZE \in Nat /\ m < PIPESIZE
      BY <1>6, <2>1, Sizes
    <2> HIDE DEF m
    <2>5. m + 1 <= PIPESIZE
      BY SMT, <2>4
    <2> QED BY <2>3, <2>5 DEF m
  <1>8. pi' = [pi EXCEPT ![g] = e]
    <2>1. pi' = [[pi EXCEPT ![g].data[i] = v] EXCEPT ![g].nwrite = (@ + 1) % 2 ^ W]
      OBVIOUS
    <2> DEFINE o == [pi EXCEPT ![g].data[i] = v]
               b == [readopen |-> c.readopen, writeopen |-> c.writeopen, nread |-> c.nread, nwrite |-> c.nwrite, data |-> d]
    <2>2. [c EXCEPT !.data[i] = v] = b
      BY SMT, <1>3
    <2>3. o = [pi EXCEPT ![g] = [c EXCEPT !.data[i] = v]]
      OBVIOUS
    <2>4. o = [pi EXCEPT ![g] = b]
      BY <2>2, <2>3
    <2> HIDE DEF i, d
    <2>5. o[g] = b /\ DOMAIN o = Pipes /\ \A j \in Pipes : j # g => o[j] = pi[j]
      BY <1>1, <2>4
    <2> HIDE DEF o
    <2>6. pi' = [o EXCEPT ![g].nwrite = (@ + 1) % N]
      BY <2>1 DEF o, N
    <2>7. pi' = [o EXCEPT ![g] = [b EXCEPT !.nwrite = (b.nwrite + 1) % N]]
      BY <2>5, <2>6
    <2>8. [b EXCEPT !.nwrite = (b.nwrite + 1) % N] = e
      BY SMT
    <2>9. pi' = [o EXCEPT ![g] = e]
      BY <2>7, <2>8
    <2> QED BY <1>1, <2>4, <2>9 DEF o
  <1>9. e \in Pipe
    <2> HIDE DEF n, d, c
    <2> QED BY SMT, <1>3, <1>4, <1>5 DEF Pipe
  <1>10. e.nread = c.nread /\ e.nwrite = n
    BY SMT
  <1>11. Count(e.nread, e.nwrite) <= PIPESIZE
    BY <1>7, <1>10
  <1>12. pi' \in [Pipes -> Pipe] /\ pi'[g] = e /\ \A j \in Pipes : j # g => pi'[j] = pi[j]
    <2> HIDE DEF e
    <2> QED BY <1>1, <1>8, <1>9
  <1> QED BY <1>2, <1>6, <1>11, <1>12 DEF PutIs

LEMMA OthersAwake ==
  ASSUME IInv, NEW q \in Procs
  PROVE  /\ pc[q] = "write asleep" => IsFull(pi[PipeOf(q)]) /\ pi[PipeOf(q)].readopen
         /\ pc[q] = "read asleep" =>
              /\ pi[PipeOf(q)].writeopen
              /\ IsEmpty(pi[PipeOf(q)]) \/ stranded[PipeOf(q)] \/ plock[PipeOf(q)] # Nobody
  BY DEF IInv, NoLostWakeup, PipeOf

LEMMA PutByte ==
  ASSUME IInv, NEW p \in Procs, NEW v \in Val, NEW ok \in BOOLEAN, pipewrite(p, v, ok),
         ~(~pi[PipeOf(p)].readopen \/ killed[p]), ~IsFull(pi[PipeOf(p)]), ok
  PROVE  PutIs(PipeOf(p), v) /\ IInv'
  <1> DEFINE g == PipeOf(p)
  <1>1. /\ pc[p] = "write" /\ plock[g] \in {Nobody, p} /\ left[p] > 0
    BY DEF pipewrite, Is, Unlocked, PipeOf
  <1>2. /\ pi' = [pi EXCEPT ![g].data[pi[g].nwrite % PIPESIZE] = v, ![g].nwrite = (@ + 1) % 2 ^ W]
        /\ left' = [left EXCEPT ![p] = @ - 1] /\ plock' = [plock EXCEPT ![g] = p]
        /\ UNCHANGED <<ref, type, wr, fpipe, ofile, mem, stranded, killed, pc, file, todo, exiting, ff, panic>>
    BY DEF pipewrite, PipeOf, ftable
  <1>3. pc[p] \in Rw /\ pc[p] \in Locking /\ pc[p] \notin {"read sleep", "write sleep"} /\ pc[p] \notin Sleepy
    BY SMT, <1>1 DEF Rw, Writing, Locking, Sleepy
  <1>4. g \in Pipes
    BY <1>3, RwIs
  <1>5. PutIs(g, v)
    BY <1>2, <1>4, PutAdds
  <1>6. left \in [Procs -> Nat] /\ plock \in [Pipes -> Procs \cup {Nobody}]
    BY DEF IInv, Types, CallTypes, PipeTypes
  <1>7. left' \in [Procs -> Nat]
    <2>1. left[p] - 1 \in Nat
      BY SMT, <1>1, <1>6
    <2> QED BY <1>2, <1>6, <2>1
  <1>8. plock' \in [Pipes -> Procs \cup {Nobody}] /\ plock'[g] = p /\ \A j \in Pipes : j # g => plock'[j] = plock[j]
    BY <1>2, <1>4, <1>6
  <1>9. pi' \in [Pipes -> Pipe] /\ \A j \in Pipes : j # g => pi'[j] = pi[j]
    BY <1>5 DEF PutIs
  <1>10. pi'[g].readopen = pi[g].readopen /\ pi'[g].writeopen = pi[g].writeopen
    <2>1. pi'[g] = [readopen |-> pi[g].readopen, writeopen |-> pi[g].writeopen, nread |-> pi[g].nread,
               nwrite |-> (pi[g].nwrite + 1) % N, data |-> [pi[g].data EXCEPT ![pi[g].nwrite % PIPESIZE] = v]]
      BY <1>5 DEF PutIs
    <2> QED BY SMT, <2>1
  <1>11. FileTypes' /\ PipeTypes' /\ CallTypes'
    BY <1>2, <1>7, <1>8, <1>9 DEF IInv, Types, FileTypes, PipeTypes, CallTypes
  <1>12. RingInv'
    <2>1. ASSUME NEW j \in Pipes PROVE Count(pi'[j].nread, pi'[j].nwrite) <= PIPESIZE
      <3>1. CASE j = g
        BY <1>5, <3>1 DEF PutIs
      <3>2. CASE j # g
        BY <1>9, <3>2 DEF IInv, RingInv
      <3> QED BY SMT, <3>1, <3>2
    <2> QED BY <2>1 DEF RingInv, Count, N
  <1>13. PipeOf(p) = g /\ PipeOf(p)' = g
    BY <1>2 DEF PipeOf
  <1>14. ~IsFull(pi[g])
    BY SMT
  <1> HIDE DEF g
  <1>15. PipeStep(p, g)
    <2>1. \A q \in Procs : q # p => file'[q] = file[q] /\ pc'[q] = pc[q]
      BY <1>2
    <2>2. \A j \in Pipes : j # g => pi'[j] = pi[j] /\ plock'[j] = plock[j] /\ stranded'[j] = stranded[j]
      BY <1>2, <1>8, <1>9
    <2>3. pc'[p] \in Locking /\ plock'[g] = p /\ plock[g] \in {Nobody, p} /\ fpipe' = fpipe
      BY <1>1, <1>2, <1>3, <1>8
    <2> QED BY <1>4, <1>13, <2>1, <2>2, <2>3 DEF PipeStep
  <1>16. CallInv' /\ FileInv' /\ RefsCounted' /\ EndInv' /\ EndsOpen'
    <2>1. \A j \in Pipes : pi'[j].readopen = pi[j].readopen /\ pi'[j].writeopen = pi[j].writeopen
      BY <1>9, <1>10
    <2>2. file'[p] = file[p] /\ pc'[p] \in Rw /\ (pc'[p] \in Writing <=> pc[p] \in Writing)
      BY <1>2, <1>3
    <2> QED BY <1>2, <1>3, <1>15, <2>1, <2>2, PipeRest
  <1>17. /\ LockInv' /\ \A q \in Procs : q # p => SleepOk(q)'
         /\ \A q \in Procs : q # p /\ PipeOf(q) # g => WakeOk(q)'
    BY <1>15, PipeRw
  <1>18. SleepOk(p)' /\ WakeOk(p)'
    <2>1. pc'[p] # "read sleep" /\ pc'[p] # "write sleep" /\ pc'[p] # "read asleep" /\ pc'[p] # "write asleep"
      BY <1>1, <1>2
    <2> QED BY <2>1 DEF SleepOk, WakeOk
  <1>19. ASSUME NEW q \in Procs, q # p, PipeOf(q) = g PROVE WakeOk(q)'
    <2>1. pc[q] # "write asleep" /\ (pc[q] = "read asleep" => pi[g].writeopen)
      BY <1>14, <1>19, OthersAwake
    <2>2. pc'[q] = pc[q] /\ fpipe'[file'[q]] = g
      BY <1>2, <1>19 DEF PipeOf
    <2>3. plock'[g] # Nobody
      BY <1>8, NobodyAssumption
    <2> QED BY <1>10, <2>1, <2>2, <2>3 DEF WakeOk
  <1>20. RwInv'
    BY <1>17, <1>18, <1>19, WakesNext
  <1>21. IInv'
    BY <1>11, <1>12, <1>16, <1>20 DEF IInv, Types, RwInv
  <1> QED BY <1>5, <1>13, <1>21

LEMMA Step_pipewrite ==
  ASSUME IInv, NEW p \in Procs, NEW v \in Val, NEW ok \in BOOLEAN, pipewrite(p, v, ok)
  PROVE  IInv'
  <1> DEFINE g == PipeOf(p)
  <1>1. pc[p] = "write" /\ plock[g] \in {Nobody, p}
    BY DEF pipewrite, Is, Unlocked, PipeOf
  <1>2. pc \in [Procs -> Labels] /\ "user" \in Labels /\ "write sleep" \in Labels /\ "user" # "write sleep"
    BY DEF IInv, Types, CallTypes, Labels, Rw, Writing
  <1>3. pc[p] \in Rw
    BY SMT, <1>1 DEF Rw, Writing
  <1>4. g \in Pipes
    BY <1>3, RwIs
  <1>5. CASE ~pi[g].readopen \/ killed[p]
    <2> DEFINE s == stranded[g] \/ plock[g] = p
    <2>1. /\ pc' = [pc EXCEPT ![p] = "user"] /\ plock' = [plock EXCEPT ![g] = Nobody]
          /\ stranded' = [stranded EXCEPT ![g] = @ \/ plock[g] = p]
          /\ file' = [file EXCEPT ![p] = NoFile] /\ left' = [left EXCEPT ![p] = 0]
          /\ UNCHANGED <<ref, type, wr, fpipe, ofile, pi, mem, killed, todo, exiting, ff, panic>>
      BY <1>5 DEF pipewrite, Goto, Return, PipeOf, ftable
    <2>2. stranded' = [stranded EXCEPT ![g] = s]
      BY <2>1
    <2>3. pc' \in [Procs -> Labels] /\ pc'[p] = "user" /\ \A q \in Procs : q # p => pc'[q] = pc[q]
      BY <1>2, <2>1
    <2>4. ASSUME NEW q \in Procs, q # p, PipeOf(q) = PipeOf(p), pc'[q] = "read asleep" PROVE IsEmpty(pi[g]) \/ s
      <3>1. pc[q] = "read asleep" /\ PipeOf(q) = g
        BY <2>3, <2>4
      <3>2. IsEmpty(pi[g]) \/ stranded[g] \/ plock[g] # Nobody
        BY <3>1, OthersAwake
      <3> QED BY <1>1, <3>2
    <2>5. s \in BOOLEAN
      OBVIOUS
    <2> HIDE DEF s
    <2>6. Leave(p, "user", s)
      BY <1>1, <1>2, <2>1, <2>2, <2>3, <2>4, <2>5 DEF Leave
    <2> QED BY <2>6, LeaveStep
  <1>6. CASE ~(~pi[g].readopen \/ killed[p]) /\ IsFull(pi[g])
    <2>1. /\ pc' = [WokenReaders(g) EXCEPT ![p] = "write sleep"] /\ plock' = [plock EXCEPT ![g] = p]
          /\ stranded' = [stranded EXCEPT ![g] = FALSE]
          /\ UNCHANGED <<ref, type, wr, fpipe, ofile, pi, mem, killed, file, left, todo, exiting, ff, panic>>
      BY <1>6 DEF pipewrite, PipeOf, ftable
    <2>2. /\ pc' \in [Procs -> Labels] /\ pc'[p] = "write sleep"
          /\ \A q \in Procs : q # p =>
               /\ \/ pc'[q] = pc[q]
                  \/ pc[q] = "read asleep" /\ pc'[q] = "read"
               /\ PipeOf(q) = g => pc'[q] # "read asleep"
               /\ PipeOf(q) # g => pc'[q] = pc[q]
      <3> HIDE DEF g
      <3>1. pc' = [WokenReaders(g) EXCEPT ![p] = "write sleep"] /\ pc \in [Procs -> Labels] /\ "write sleep" \in Labels
        BY <1>2, <2>1
      <3> QED BY <3>1, WokenReadersAre
    <2>3. Leave(p, "write sleep", FALSE)
      BY <1>1, <1>6, <2>1, <2>2 DEF Leave
    <2> QED BY <2>3, LeaveStep
  <1>7. CASE ~(~pi[g].readopen \/ killed[p]) /\ ~IsFull(pi[g]) /\ ~ok
    <2>1. /\ pc' = [WokenReaders(g) EXCEPT ![p] = "user"] /\ plock' = [plock EXCEPT ![g] = Nobody]
          /\ stranded' = [stranded EXCEPT ![g] = FALSE]
          /\ file' = [file EXCEPT ![p] = NoFile] /\ left' = [left EXCEPT ![p] = 0]
          /\ UNCHANGED <<ref, type, wr, fpipe, ofile, pi, mem, killed, todo, exiting, ff, panic>>
      BY <1>7 DEF pipewrite, Return, PipeOf, ftable
    <2>2. /\ pc' \in [Procs -> Labels] /\ pc'[p] = "user"
          /\ \A q \in Procs : q # p =>
               /\ \/ pc'[q] = pc[q]
                  \/ pc[q] = "read asleep" /\ pc'[q] = "read"
               /\ PipeOf(q) = g => pc'[q] # "read asleep"
               /\ PipeOf(q) # g => pc'[q] = pc[q]
      <3> HIDE DEF g
      <3>1. pc' = [WokenReaders(g) EXCEPT ![p] = "user"] /\ pc \in [Procs -> Labels] /\ "user" \in Labels
        BY <1>2, <2>1
      <3> QED BY <3>1, WokenReadersAre
    <2>3. Leave(p, "user", FALSE)
      BY <1>1, <1>2, <2>1, <2>2 DEF Leave
    <2> QED BY <2>3, LeaveStep
  <1>8. CASE ~(~pi[g].readopen \/ killed[p]) /\ ~IsFull(pi[g]) /\ ok
    BY <1>8, PutByte
  <1> QED BY <1>5, <1>6, <1>7, <1>8

(* What taking k bytes out does to the pipes. *)
TakeIs(g, k) ==
  /\ g \in Pipes /\ pi[g] \in Pipe /\ pi' \in [Pipes -> Pipe] /\ \A j \in Pipes : j # g => pi'[j] = pi[j]
  /\ k \in Index /\ k <= Count(pi[g].nread, pi[g].nwrite)
  /\ pi'[g] = [readopen |-> pi[g].readopen, writeopen |-> pi[g].writeopen, nread |-> (pi[g].nread + k) % N,
               nwrite |-> pi[g].nwrite, data |-> pi[g].data]
  /\ Count(pi'[g].nread, pi'[g].nwrite) <= PIPESIZE

LEMMA LessIs ==
  ASSUME NEW a \in Nat, NEW b \in Nat
  PROVE  Less(a, b) \in Nat /\ Less(a, b) <= a /\ Less(a, b) <= b
  BY SMT DEF Less

LEMMA TakeMoves ==
  ASSUME IInv, NEW g \in Pipes, NEW n \in Nat,
         pi' = [pi EXCEPT ![g].nread = (@ + Less(n, Len(Content(pi[g])))) % 2 ^ W]
  PROVE  TakeIs(g, Less(n, Len(Content(pi[g]))))
  <1>1. pi \in [Pipes -> Pipe]
    BY DEF IInv, Types, PipeTypes
  <1> DEFINE c == pi[g]
             k == Less(n, Len(Content(pi[g])))
             m == (c.nread + k) % N
             u == Count(c.nread, c.nwrite)
             e == [readopen |-> c.readopen, writeopen |-> c.writeopen, nread |-> m, nwrite |-> c.nwrite, data |-> c.data]
  <1>2. c \in Pipe
    BY <1>1
  <1>3. /\ c.readopen \in BOOLEAN /\ c.writeopen \in BOOLEAN /\ c.nread \in Index /\ c.nwrite \in Index
        /\ c.data \in [0 .. PIPESIZE - 1 -> Val]
        /\ c = [readopen |-> c.readopen, writeopen |-> c.writeopen, nread |-> c.nread, nwrite |-> c.nwrite, data |-> c.data]
    BY SMT, <1>2 DEF Pipe
  <1>4. Len(Content(c)) = u
    BY <1>3, ContentIs, BytesAre
  <1>5. u \in Index /\ u <= PIPESIZE
    BY <1>3, CountIs DEF IInv, RingInv
  <1>6. k \in Index /\ k <= u
    <2>1. u \in Nat
      BY <1>5, Sizes
    <2>2. k = Less(n, u)
      BY <1>4
    <2>3. k \in Nat /\ k <= u
      BY <2>1, <2>2, LessIs
    <2> DEFINE M == N
    <2>4. u < M /\ M \in Nat
      BY <1>5, Sizes
    <2> HIDE DEF k, u, M
    <2>5. k \in 0 .. M - 1
      BY SMT, <2>1, <2>3, <2>4
    <2> QED BY <2>3, <2>5 DEF M, Index
  <1>7. m \in Index
    BY <1>3, <1>6, Moved
  <1>8. Count(m, c.nwrite) <= PIPESIZE
    <2>1. Count(m, c.nwrite) = u - k
      BY <1>3, <1>6, CountBehind
    <2>2. u \in Nat /\ k \in Nat /\ PIPESIZE \in Nat
      BY <1>5, <1>6, Sizes
    <2> HIDE DEF u, k
    <2>3. u - k <= PIPESIZE
      BY SMT, <1>5, <2>2
    <2> QED BY <2>1, <2>3
  <1>9. pi' = [pi EXCEPT ![g] = e]
    <2>1. [c EXCEPT !.nread = m] = e
      <3> HIDE DEF c, m
      <3> QED BY SMT, <1>3
    <2>2. pi' = [pi EXCEPT ![g] = [c EXCEPT !.nread = m]]
      BY DEF N
    <2> QED BY <2>1, <2>2
  <1>10. e \in Pipe /\ e.nread = m /\ e.nwrite = c.nwrite
    <2> HIDE DEF m, c
    <2> QED BY SMT, <1>3, <1>7 DEF Pipe
  <1>11. pi' \in [Pipes -> Pipe] /\ pi'[g] = e /\ \A j \in Pipes : j # g => pi'[j] = pi[j]
    <2> HIDE DEF e
    <2> QED BY <1>1, <1>9, <1>10
  <1>12. Count(pi'[g].nread, pi'[g].nwrite) <= PIPESIZE
    BY <1>8, <1>10, <1>11
  <1> QED BY <1>2, <1>6, <1>11, <1>12 DEF TakeIs

LEMMA Step_piperead ==
  ASSUME IInv, NEW p \in Procs, NEW ok \in BOOLEAN, piperead(p, ok)
  PROVE  IInv' /\ \E k \in Nat : TakeIs(PipeOf(p), k)
  <1> DEFINE g == PipeOf(p)
             n == IF ok THEN left[p] ELSE Less(left[p], 1)
             k == Less(n, Len(Content(pi[g])))
  <1>1. /\ pc[p] = "read" /\ plock[g] \in {Nobody, p} /\ ~(IsEmpty(pi[g]) /\ pi[g].writeopen)
    BY DEF piperead, Is, Unlocked, PipeOf
  <1>2. /\ pi' = [pi EXCEPT ![g].nread = (@ + k) % 2 ^ W]
        /\ pc' = [WokenWriters(g) EXCEPT ![p] = "user"]
        /\ file' = [file EXCEPT ![p] = NoFile] /\ left' = [left EXCEPT ![p] = 0]
        /\ UNCHANGED <<ref, type, wr, fpipe, ofile, mem, plock, stranded, killed, todo, exiting, ff, panic>>
    BY DEF piperead, Return, PipeOf, ftable
  <1>3. pc[p] \in Rw /\ pc[p] \notin Locking
    BY SMT, <1>1 DEF Rw, Reading, Locking
  <1>4. g \in Pipes
    BY <1>3, RwIs
  <1>5. /\ pc \in [Procs -> Labels] /\ file \in [Procs -> File \cup {NoFile}] /\ left \in [Procs -> Nat]
    BY DEF IInv, Types, CallTypes
  <1>6. n \in Nat
    <2>1. left[p] \in Nat /\ 1 \in Nat
      BY SMT, <1>5
    <2> QED BY <2>1, LessIs
  <1> HIDE DEF n
  <1>7. TakeIs(g, k) /\ k \in Nat
    <2>1. TakeIs(g, k)
      BY <1>2, <1>4, <1>6, TakeMoves
    <2> QED BY <2>1, Sizes DEF TakeIs
  <1> HIDE DEF k
  <1>8. pi' \in [Pipes -> Pipe] /\ \A j \in Pipes : j # g => pi'[j] = pi[j]
    BY <1>7 DEF TakeIs
  <1>9. pi'[g].readopen = pi[g].readopen /\ pi'[g].writeopen = pi[g].writeopen
    <2>1. pi'[g] = [readopen |-> pi[g].readopen, writeopen |-> pi[g].writeopen, nread |-> (pi[g].nread + k) % N,
                    nwrite |-> pi[g].nwrite, data |-> pi[g].data]
      BY <1>7 DEF TakeIs
    <2> QED BY SMT, <2>1
  <1>10. /\ pc' \in [Procs -> Labels] /\ pc'[p] = "user"
         /\ \A q \in Procs : q # p =>
              /\ \/ pc'[q] = pc[q]
                 \/ pc[q] = "write asleep" /\ pc'[q] = "write"
              /\ PipeOf(q) = g => pc'[q] # "write asleep"
              /\ PipeOf(q) # g => pc'[q] = pc[q]
    <2>1. "user" \in Labels
      BY SMT DEF Labels
    <2> HIDE DEF g
    <2>2. pc' = [WokenWriters(g) EXCEPT ![p] = "user"] /\ pc \in [Procs -> Labels]
      BY <1>2, <1>5
    <2> QED BY <2>1, <2>2, WokenWritersAre
  <1>11. /\ file' \in [Procs -> File \cup {NoFile}] /\ left' \in [Procs -> Nat]
         /\ \A q \in Procs : q # p => file'[q] = file[q]
    <2>1. 0 \in Nat
      BY SMT
    <2> QED BY <1>2, <1>5, <2>1
  <1>12. FileTypes' /\ PipeTypes' /\ CallTypes'
    BY <1>2, <1>8, <1>10, <1>11 DEF IInv, Types, FileTypes, PipeTypes, CallTypes
  <1>13. RingInv'
    <2>1. ASSUME NEW j \in Pipes PROVE Count(pi'[j].nread, pi'[j].nwrite) <= PIPESIZE
      <3>1. CASE j = g
        BY <1>7, <3>1 DEF TakeIs
      <3>2. CASE j # g
        BY <1>8, <3>2 DEF IInv, RingInv
      <3> QED BY SMT, <3>1, <3>2
    <2> QED BY <2>1 DEF RingInv, Count, N
  <1>14. plock[g] = Nobody
    <2>1. plock[g] # p
      BY <1>3, <1>4 DEF IInv, LockInv, Locking
    <2> QED BY <1>1, <2>1
  <1>15. PipeOf(p) = g
    BY SMT
  <1> HIDE DEF g
  <1>16. PipeStep(p, g)
    <2>1. \A q \in Procs : q # p => file'[q] = file[q] /\
             \/ pc'[q] = pc[q]
             \/ pc[q] = "read asleep" /\ pc'[q] = "read"
             \/ pc[q] = "write asleep" /\ pc'[q] = "write"
      BY <1>10, <1>11
    <2>2. \A j \in Pipes : j # g => pi'[j] = pi[j] /\ plock'[j] = plock[j] /\ stranded'[j] = stranded[j]
      BY <1>2, <1>8
    <2>3. fpipe' = fpipe /\ plock'[g] = Nobody /\ plock'[g] # p
      BY <1>2, <1>14, NobodyAssumption
    <2>4. pc'[p] \notin Rw /\ pc'[p] \notin {"read sleep", "write sleep"}
      BY <1>10 DEF Rw, Reading, Writing
    <2> QED BY <1>4, <1>14, <1>15, <2>1, <2>2, <2>3, <2>4 DEF PipeStep
  <1>17. CallInv' /\ FileInv' /\ RefsCounted' /\ EndInv' /\ EndsOpen'
    <2>1. \A j \in Pipes : pi'[j].readopen = pi[j].readopen /\ pi'[j].writeopen = pi[j].writeopen
      BY <1>8, <1>9
    <2> QED BY <1>2, <1>3, <1>10, <1>16, <2>1, PipeRest
  <1>18. /\ LockInv' /\ \A q \in Procs : q # p => SleepOk(q)'
         /\ \A q \in Procs : q # p /\ PipeOf(q) # g => WakeOk(q)'
    BY <1>16, PipeRw
  <1>19. SleepOk(p)' /\ WakeOk(p)'
    <2>1. pc'[p] # "read sleep" /\ pc'[p] # "write sleep" /\ pc'[p] # "read asleep" /\ pc'[p] # "write asleep"
      BY <1>10
    <2> QED BY <2>1 DEF SleepOk, WakeOk
  <1>20. ASSUME NEW q \in Procs, q # p, PipeOf(q) = g PROVE WakeOk(q)'
    <2>1. pc[q] = "read asleep" => pi[g].writeopen /\ (IsEmpty(pi[g]) \/ stranded[g] \/ plock[g] # Nobody)
      BY <1>20, OthersAwake
    <2>2. pc[q] = "read asleep" => pi[g].writeopen /\ stranded[g]
      BY <1>1, <1>14, <2>1
    <2>3. pc'[q] # "write asleep" /\ (pc'[q] = "read asleep" => pc[q] = "read asleep")
      <3>1. pc'[q] # "write asleep" /\ (pc'[q] = pc[q] \/ pc'[q] = "write")
        BY <1>10, <1>20
      <3> QED BY <3>1
    <2>4. fpipe'[file'[q]] = g /\ stranded' = stranded
      BY <1>2, <1>11, <1>20 DEF PipeOf
    <2> QED BY <1>9, <2>2, <2>3, <2>4 DEF WakeOk
  <1>21. RwInv'
    BY <1>18, <1>19, <1>20, WakesNext
  <1>22. IInv'
    BY <1>12, <1>13, <1>17, <1>21 DEF IInv, Types, RwInv
  <1> QED BY <1>7, <1>15, <1>22

(* What pipeclose does to the pipe g, whose end w it closes. *)
CloseIs(p, g, w) ==
  /\ g \in Pipes /\ w \in BOOLEAN /\ ff[p] = [pipe |-> g, writable |-> w] /\ pi[g] \in Pipe
  /\ pi' \in [Pipes -> Pipe] /\ \A j \in Pipes : j # g => pi'[j] = pi[j]
  /\ pi'[g].readopen = (pi[g].readopen /\ w) /\ pi'[g].writeopen = (pi[g].writeopen /\ ~w)
  /\ IF pi'[g].readopen \/ pi'[g].writeopen
     THEN /\ mem' = mem /\ pi'[g].nread = pi[g].nread /\ pi'[g].nwrite = pi[g].nwrite /\ pi'[g].data = pi[g].data
     ELSE mem' = mem \ {g} /\ pi'[g] = Blank
  /\ ff' \in [Procs -> FF] /\ ff'[p] = NoFF /\ \A q \in Procs : q # p => ff'[q] = ff[q]

LEMMA CloseMoves ==
  ASSUME IInv, NEW p \in Procs, pipeclose(p)
  PROVE  CloseIs(p, ff[p].pipe, ff[p].writable)
  <1> DEFINE g == ff[p].pipe
             w == ff[p].writable
             c == pi[g]
             d == [c EXCEPT !.readopen = @ /\ w, !.writeopen = @ /\ ~w]
             e == [readopen |-> c.readopen /\ w, writeopen |-> c.writeopen /\ ~w, nread |-> c.nread, nwrite |-> c.nwrite,
                   data |-> c.data]
  <1>1. pi \in [Pipes -> Pipe] /\ ff \in [Procs -> FF] /\ mem \subseteq Pipes
    BY DEF IInv, Types, PipeTypes, CallTypes
  <1>2. pc[p] = "pipeclose"
    BY SMT DEF pipeclose, Is
  <1>3. g \in Pipes
    BY <1>2 DEF IInv, CallInv, CallOk
  <1>4. ff[p] \in FF
    BY <1>1
  <1>5. w \in BOOLEAN /\ ff[p] = [pipe |-> g, writable |-> w]
    BY SMT, <1>4 DEF FF
  <1>6. c \in Pipe
    BY <1>1, <1>3
  <1>7. /\ c.readopen \in BOOLEAN /\ c.writeopen \in BOOLEAN /\ c.nread \in Index /\ c.nwrite \in Index
        /\ c.data \in [0 .. PIPESIZE - 1 -> Val]
        /\ c = [readopen |-> c.readopen, writeopen |-> c.writeopen, nread |-> c.nread, nwrite |-> c.nwrite, data |-> c.data]
    BY SMT, <1>6 DEF Pipe
  <1>8. d = e
    <2> DEFINE a == c.readopen /\ w
               b == c.writeopen /\ ~w
    <2>1. d = [[c EXCEPT !.readopen = a] EXCEPT !.writeopen = [c EXCEPT !.readopen = a].writeopen /\ ~w]
      OBVIOUS
    <2>2. \A x : [c EXCEPT !.readopen = x].writeopen = c.writeopen
      <3> HIDE DEF c, w
      <3> QED BY SMT, <1>7
    <2>3. d = [[c EXCEPT !.readopen = a] EXCEPT !.writeopen = b]
      BY <2>1, <2>2
    <2> HIDE DEF a, b, c, d
    <2>4. d = [readopen |-> a, writeopen |-> b, nread |-> c.nread, nwrite |-> c.nwrite, data |-> c.data]
      BY <1>7, <2>3
    <2> QED BY <2>4 DEF a, b
  <1>9. /\ pi' = [pi EXCEPT ![g] = IF Gone(d) THEN Blank ELSE d]
        /\ mem' = IF Gone(d) THEN mem \ {g} ELSE mem
        /\ ff' = [ff EXCEPT ![p] = NoFF]
    BY DEF pipeclose
  <1> HIDE DEF d
  <1>10. /\ e.readopen = (c.readopen /\ w) /\ e.writeopen = (c.writeopen /\ ~w) /\ e.nread = c.nread
         /\ e.nwrite = c.nwrite /\ e.data = c.data
    BY SMT
  <1>11. e \in Pipe
    <2> DEFINE a == c.readopen /\ w
               b == c.writeopen /\ ~w
    <2>1. a \in BOOLEAN /\ b \in BOOLEAN
      OBVIOUS
    <2>2. e = [readopen |-> a, writeopen |-> b, nread |-> c.nread, nwrite |-> c.nwrite, data |-> c.data]
      OBVIOUS
    <2> HIDE DEF a, b, c, e
    <2> QED BY SMT, <1>7, <2>1, <2>2 DEF Pipe
  <1>12. Gone(e) <=> ~(c.readopen /\ w) /\ ~(c.writeopen /\ ~w)
    BY <1>10 DEF Gone
  <1>13. ff' \in [Procs -> FF] /\ ff'[p] = NoFF /\ \A q \in Procs : q # p => ff'[q] = ff[q]
    <2>1. NoFF \in FF
      BY SMT DEF NoFF, FF
    <2> QED BY <1>1, <1>9, <2>1
  <1>14. Blank \in Pipe
    BY BlankIs
  <1>15. ~Blank.readopen /\ ~Blank.writeopen
    BY SMT DEF Blank
  <1> HIDE DEF e
  <1>16. CASE Gone(e)
    <2>1. pi' = [pi EXCEPT ![g] = Blank] /\ mem' = mem \ {g}
      BY <1>8, <1>9, <1>16
    <2>2. pi' \in [Pipes -> Pipe] /\ pi'[g] = Blank /\ \A j \in Pipes : j # g => pi'[j] = pi[j]
      BY <1>1, <1>3, <1>14, <2>1
    <2>3. Blank.readopen = (c.readopen /\ w) /\ Blank.writeopen = (c.writeopen /\ ~w)
      <3>1. Blank.readopen \in BOOLEAN /\ Blank.writeopen \in BOOLEAN
        BY SMT, <1>14 DEF Pipe
      <3> QED BY <1>12, <1>15, <1>16, <3>1
    <2>4. ~(pi'[g].readopen \/ pi'[g].writeopen)
      BY <1>15, <2>2
    <2>5. pi'[g].readopen = (pi[g].readopen /\ w) /\ pi'[g].writeopen = (pi[g].writeopen /\ ~w)
      BY <2>2, <2>3
    <2> HIDE DEF g, w
    <2> QED BY <1>3, <1>5, <1>6, <1>13, <2>1, <2>2, <2>4, <2>5 DEF CloseIs, g, w
  <1>17. CASE ~Gone(e)
    <2>1. pi' = [pi EXCEPT ![g] = e] /\ mem' = mem
      BY <1>8, <1>9, <1>17
    <2>2. pi' \in [Pipes -> Pipe] /\ pi'[g] = e /\ \A j \in Pipes : j # g => pi'[j] = pi[j]
      BY <1>1, <1>3, <1>11, <2>1
    <2>3. pi'[g].readopen \/ pi'[g].writeopen
      BY <1>17, <2>2 DEF Gone
    <2>4. pi'[g].readopen = (pi[g].readopen /\ w) /\ pi'[g].writeopen = (pi[g].writeopen /\ ~w)
      BY <1>10, <2>2
    <2>5. pi'[g].nread = pi[g].nread /\ pi'[g].nwrite = pi[g].nwrite /\ pi'[g].data = pi[g].data
      BY <1>10, <2>2
    <2> HIDE DEF g, w
    <2> QED BY <1>3, <1>5, <1>6, <1>13, <2>1, <2>2, <2>3, <2>4, <2>5 DEF CloseIs, g, w
  <1> QED BY <1>16, <1>17

LEMMA CloseEnds ==
  ASSUME IInv, NEW p \in Procs, NEW g, NEW w, CloseIs(p, g, w), UNCHANGED <<type, wr, fpipe>>
  PROVE  EndInv' /\ EndsOpen' /\ RingInv' /\ (w = TRUE => pi[g].writeopen) /\ (w = FALSE => pi[g].readopen)
  <1>1. /\ g \in Pipes /\ w \in BOOLEAN /\ ff[p] = [pipe |-> g, writable |-> w]
        /\ pi' \in [Pipes -> Pipe] /\ \A j \in Pipes : j # g => pi'[j] = pi[j]
        /\ pi'[g].readopen = (pi[g].readopen /\ w) /\ pi'[g].writeopen = (pi[g].writeopen /\ ~w)
        /\ ff' \in [Procs -> FF] /\ ff'[p] = NoFF /\ \A q \in Procs : q # p => ff'[q] = ff[q]
    BY DEF CloseIs
  <1>2. NoFF.pipe = NoPipe /\ NoPipe \notin Pipes
    BY SMT, FilesAssumption DEF NoFF
  <1>3. ASSUME NEW j \in Pipes, NEW x PROVE NoFF # [pipe |-> j, writable |-> x]
    <2>1. [pipe |-> j, writable |-> x].pipe = j
      BY SMT
    <2> QED BY <1>2, <2>1
  <1>4. EndInv'
    <2>1. OneFile'
      BY DEF IInv, EndInv, OneFile
    <2>2. OneHolder'
      <3>1. ASSUME NEW f \in File, NEW q \in Procs, type[f] = "pipe"
            PROVE  ff'[q] # [pipe |-> fpipe[f], writable |-> wr[f]]
        <4>1. CASE q = p
          <5>1. fpipe[f] \in Pipes
            BY <3>1 DEF IInv, FileInv, TypeOk
          <5> QED BY <1>1, <1>3, <4>1, <5>1
        <4>2. CASE q # p
          BY <1>1, <3>1, <4>2 DEF IInv, EndInv, OneHolder
        <4> QED BY SMT, <4>1, <4>2
      <3>2. type' = type /\ wr' = wr /\ fpipe' = fpipe
        OBVIOUS
      <3> QED BY <3>1, <3>2 DEF OneHolder
    <2>3. OneCloser'
      <3>1. ASSUME NEW x \in Procs, NEW y \in Procs, ff'[x].pipe \in Pipes, ff'[x] = ff'[y] PROVE x = y
        <4>1. x # p
          BY <1>1, <1>2, <3>1
        <4>2. ff'[y].pipe \in Pipes
          BY <3>1
        <4>3. y # p
          BY <1>1, <1>2, <4>2
        <4>4. ff[x].pipe \in Pipes /\ ff[x] = ff[y]
          BY <1>1, <3>1, <4>1, <4>3
        <4> QED BY <4>4 DEF IInv, EndInv, OneCloser
      <3> QED BY <3>1 DEF OneCloser
    <2> QED BY <2>1, <2>2, <2>3 DEF EndInv
  <1>5. Holds(g, w)
    BY <1>1 DEF Holds
  <1>6. ASSUME NEW j \in Pipes, NEW x \in BOOLEAN, j # g \/ x # w PROVE Holds(j, x)' <=> Holds(j, x)
    <2>1. [pipe |-> j, writable |-> x] # ff[p]
      <3>1. ff[p].pipe = g /\ ff[p].writable = w
        BY SMT, <1>1
      <3>2. [pipe |-> j, writable |-> x].pipe = j /\ [pipe |-> j, writable |-> x].writable = x
        BY SMT
      <3> QED BY <1>6, <3>1, <3>2
    <2>2. [pipe |-> j, writable |-> x] # ff'[p]
      BY <1>1, <1>3
    <2>3. \A q \in Procs : ff'[q] = [pipe |-> j, writable |-> x] <=> ff[q] = [pipe |-> j, writable |-> x]
      BY <1>1, <2>1, <2>2
    <2>4. type' = type /\ wr' = wr /\ fpipe' = fpipe
      OBVIOUS
    <2> QED BY <2>3, <2>4 DEF Holds
  <1>7. ~Holds(g, w)'
    <2>1. ASSUME NEW f \in File, type[f] = "pipe", fpipe[f] = g, wr[f] = w PROVE FALSE
      BY <1>1, <2>1 DEF IInv, EndInv, OneHolder
    <2>2. ASSUME NEW q \in Procs, ff'[q] = [pipe |-> g, writable |-> w] PROVE FALSE
      <3>1. q # p
        BY <1>1, <1>3, <2>2
      <3>2. ff[q] = ff[p]
        BY <1>1, <2>2, <3>1
      <3>3. ff[p].pipe = g
        BY SMT, <1>1
      <3> QED BY <1>1, <3>1, <3>2, <3>3 DEF IInv, EndInv, OneCloser
    <2>3. type' = type /\ wr' = wr /\ fpipe' = fpipe
      OBVIOUS
    <2> QED BY <2>1, <2>2, <2>3 DEF Holds
  <1>8. \A j \in Pipes : /\ pi[j].readopen <=> Holds(j, FALSE)
                         /\ pi[j].writeopen <=> Holds(j, TRUE)
                         /\ j \in mem <=> pi[j].readopen \/ pi[j].writeopen
    BY DEF IInv, EndsOpen
  <1>9. (w => pi[g].writeopen) /\ (~w => pi[g].readopen)
    BY <1>1, <1>5, <1>8
  <1>10. \A j \in Pipes : pi'[j].readopen \in BOOLEAN /\ pi'[j].writeopen \in BOOLEAN
                          /\ pi[j].readopen \in BOOLEAN /\ pi[j].writeopen \in BOOLEAN
    <2>1. pi \in [Pipes -> Pipe]
      BY DEF IInv, Types, PipeTypes
    <2>2. \A c \in Pipe : c.readopen \in BOOLEAN /\ c.writeopen \in BOOLEAN
      BY SMT DEF Pipe
    <2> QED BY <1>1, <2>1, <2>2
  <1>11. mem' = IF pi'[g].readopen \/ pi'[g].writeopen THEN mem ELSE mem \ {g}
    BY DEF CloseIs
  <1>12. ASSUME NEW j \in Pipes
         PROVE  /\ pi'[j].readopen <=> Holds(j, FALSE)'
                /\ pi'[j].writeopen <=> Holds(j, TRUE)'
                /\ j \in mem' <=> pi'[j].readopen \/ pi'[j].writeopen
    <2>1. CASE j # g
      <3>1. (Holds(j, TRUE)' <=> Holds(j, TRUE)) /\ (Holds(j, FALSE)' <=> Holds(j, FALSE))
        BY <1>6, <2>1
      <3>2. pi'[j] = pi[j]
        BY <1>1, <2>1
      <3>3. j \in mem' <=> j \in mem
        BY <1>11, <2>1
      <3> QED BY <1>8, <3>1, <3>2, <3>3
    <2>2. CASE j = g /\ w
      <3>1. w = TRUE /\ FALSE # w
        BY <1>1, <2>2
      <3>2. Holds(g, FALSE)' <=> Holds(g, FALSE)
        BY <1>1, <1>6, <3>1
      <3>3. ~Holds(g, TRUE)'
        BY <1>7, <3>1
      <3>4. (pi'[g].readopen <=> pi[g].readopen) /\ ~pi'[g].writeopen
        BY <1>1, <2>2
      <3>5. g \in mem
        BY <1>1, <1>8, <1>9, <2>2
      <3>6. g \in mem' <=> pi'[g].readopen \/ pi'[g].writeopen
        BY <1>11, <3>5
      <3> QED BY <1>1, <1>8, <2>2, <3>2, <3>3, <3>4, <3>6
    <2>3. CASE j = g /\ ~w
      <3>1. w = FALSE /\ TRUE # w
        BY <1>1, <2>3
      <3>2. Holds(g, TRUE)' <=> Holds(g, TRUE)
        BY <1>1, <1>6, <3>1
      <3>3. ~Holds(g, FALSE)'
        BY <1>7, <3>1
      <3>4. (pi'[g].writeopen <=> pi[g].writeopen) /\ ~pi'[g].readopen
        BY <1>1, <2>3
      <3>5. g \in mem
        BY <1>1, <1>8, <1>9, <2>3
      <3>6. g \in mem' <=> pi'[g].readopen \/ pi'[g].writeopen
        BY <1>11, <3>5
      <3> QED BY <1>1, <1>8, <2>3, <3>2, <3>3, <3>4, <3>6
    <2> QED BY <2>1, <2>2, <2>3
  <1>13. EndsOpen'
    BY <1>12 DEF EndsOpen
  <1>14. RingInv'
    <2>1. ASSUME NEW j \in Pipes PROVE Count(pi'[j].nread, pi'[j].nwrite) <= PIPESIZE
      <3>1. CASE pi'[j].nread = pi[j].nread /\ pi'[j].nwrite = pi[j].nwrite
        BY <3>1 DEF IInv, RingInv
      <3>2. CASE pi'[j] = Blank
        <4>1. Blank.nread = 0 /\ Blank.nwrite = 0
          BY SMT DEF Blank
        <4>2. Count(0, 0) = 0
          BY Sizes, CountMoves
        <4>3. 0 <= PIPESIZE
          BY SMT, Sizes
        <4> QED BY <3>2, <4>1, <4>2, <4>3
      <3>3. CASE j = g
        BY <3>1, <3>2, <3>3 DEF CloseIs
      <3>4. CASE j # g
        BY <1>1, <3>1, <3>4
      <3> QED BY SMT, <3>3, <3>4
    <2> QED BY <2>1 DEF RingInv, Count, N
  <1> QED BY <1>4, <1>9, <1>13, <1>14

LEMMA Step_pipeclose == ASSUME IInv, NEW p \in Procs, pipeclose(p) PROVE IInv'
  <1> DEFINE g == ff[p].pipe
             w == ff[p].writable
             l == After(p, todo[p])
  <1>1. pc[p] = "pipeclose" /\ plock[g] \in {Nobody, p}
    BY DEF pipeclose, Is, Unlocked
  <1>2. /\ stranded' = [stranded EXCEPT ![g] = @ /\ ~w]
        /\ pc' = [(IF w THEN WokenReaders(g) ELSE WokenWriters(g)) EXCEPT ![p] = l]
        /\ UNCHANGED <<ref, type, wr, fpipe, ofile, plock, killed, file, left, todo, exiting, panic>>
    BY DEF pipeclose, ftable
  <1>3. CloseIs(p, g, w)
    BY CloseMoves
  <1>4. CallOk(p)
    BY DEF IInv, CallInv
  <1>5. /\ pc \in [Procs -> Labels] /\ stranded \in [Pipes -> BOOLEAN] /\ todo \in [Procs -> Seq(File)]
        /\ mem \subseteq Pipes
    BY DEF IInv, Types, CallTypes, PipeTypes
  <1>6. /\ l \in {"fileclose", "exit", "user"} /\ Len(todo[p]) \in ToDo(l)
    <2>1. ToDo(pc[p]) = {0, 1} /\ ToDo("fileclose") = {1, 2} /\ ToDo("exit") = {0} /\ ToDo("user") = {0}
      BY SMT, <1>1 DEF ToDo
    <2>2. Len(todo[p]) \in {0, 1}
      BY <1>4, <2>1 DEF CallOk
    <2>3. todo[p] \in Seq(File)
      BY <1>5
    <2>4. CASE todo[p] = <<>>
      <3>1. Len(todo[p]) = 0
        BY SMT, <2>4
      <3>2. l \in {"exit", "user"}
        BY SMT, <2>4 DEF After
      <3> QED BY SMT, <2>1, <3>1, <3>2
    <2>5. CASE todo[p] # <<>>
      <3>1. Len(todo[p]) # 0
        BY SMT, <2>3, <2>5
      <3>2. l = "fileclose"
        BY SMT, <2>5 DEF After
      <3> QED BY <2>1, <2>2, <3>1, <3>2
    <2> QED BY SMT, <2>4, <2>5
  <1> HIDE DEF l, g, w
  <1>7. l \in Labels /\ l \notin Rw /\ l \notin Building /\ l \notin {"read sleep", "write sleep"} /\ l \notin Sleepy
        /\ l # "unused" /\ l # "pipeclose" /\ pc[p] \notin Rw /\ pc[p] \notin Locking /\ pc[p] \notin Building
    BY <1>1, <1>6 DEF Labels, Rw, Reading, Writing, Building, Locking, Sleepy
  <1>8. /\ g \in Pipes /\ w \in BOOLEAN /\ ff[p] = [pipe |-> g, writable |-> w]
        /\ pi' \in [Pipes -> Pipe] /\ \A j \in Pipes : j # g => pi'[j] = pi[j]
        /\ ff' \in [Procs -> FF] /\ ff'[p] = NoFF /\ \A q \in Procs : q # p => ff'[q] = ff[q]
    BY <1>3 DEF CloseIs
  <1>9. mem' \subseteq Pipes
    <2>1. mem' = mem \/ mem' = mem \ {g}
      BY <1>3 DEF CloseIs
    <2> QED BY <1>5, <2>1
  <1>10. /\ stranded' \in [Pipes -> BOOLEAN]
         /\ \A j \in Pipes : j # g => stranded'[j] = stranded[j]
    <2> DEFINE x == stranded[g] /\ ~w
    <2>1. x \in BOOLEAN
      OBVIOUS
    <2>2. stranded' = [stranded EXCEPT ![g] = x]
      BY <1>2
    <2> HIDE DEF x
    <2> QED BY <1>5, <1>8, <2>1, <2>2
  <1>11. /\ pc' \in [Procs -> Labels] /\ pc'[p] = l
         /\ \A q \in Procs : q # p =>
              /\ \/ pc'[q] = pc[q]
                 \/ pc[q] = "read asleep" /\ pc'[q] = "read"
                 \/ pc[q] = "write asleep" /\ pc'[q] = "write"
              /\ PipeOf(q) = g => pc'[q] # IF w THEN "read asleep" ELSE "write asleep"
    <2>1. CASE w
      <3>1. pc' = [WokenReaders(g) EXCEPT ![p] = l]
        BY <1>2, <2>1
      <3>2. /\ pc' \in [Procs -> Labels] /\ pc'[p] = l
            /\ \A q \in Procs : q # p =>
                 /\ \/ pc'[q] = pc[q]
                    \/ pc[q] = "read asleep" /\ pc'[q] = "read"
                 /\ PipeOf(q) = g => pc'[q] # "read asleep"
                 /\ PipeOf(q) # g => pc'[q] = pc[q]
        BY <1>5, <1>7, <3>1, WokenReadersAre
      <3> QED BY <2>1, <3>2
    <2>2. CASE ~w
      <3>1. pc' = [WokenWriters(g) EXCEPT ![p] = l]
        BY <1>2, <2>2
      <3>2. /\ pc' \in [Procs -> Labels] /\ pc'[p] = l
            /\ \A q \in Procs : q # p =>
                 /\ \/ pc'[q] = pc[q]
                    \/ pc[q] = "write asleep" /\ pc'[q] = "write"
                 /\ PipeOf(q) = g => pc'[q] # "write asleep"
                 /\ PipeOf(q) # g => pc'[q] = pc[q]
        BY <1>5, <1>7, <3>1, WokenWritersAre
      <3> QED BY <2>2, <3>2
    <2> QED BY <2>1, <2>2
  <1>12. FileTypes' /\ PipeTypes' /\ CallTypes'
    BY <1>2, <1>8, <1>9, <1>10, <1>11 DEF IInv, Types, FileTypes, PipeTypes, CallTypes
  <1>13. /\ "read asleep" \in Rw /\ "read" \in Rw /\ "write asleep" \in Rw /\ "write" \in Rw
         /\ "read asleep" \notin Writing /\ "read" \notin Writing /\ "write asleep" \in Writing /\ "write" \in Writing
         /\ "read" \notin Building /\ "write" \notin Building
    BY SMT DEF Rw, Reading, Writing, Building
  <1>14. CallInv'
    <2>1. CallOk(p)'
      <3>1. todo' = todo /\ ff'[p] = NoFF
        BY <1>2, <1>8
      <3> QED BY <1>6, <1>7, <1>11, <3>1 DEF CallOk, ToDo
    <2>2. ASSUME NEW q \in Procs, q # p PROVE CallOk(q)'
      <3>1. CallOk(q)
        BY DEF IInv, CallInv
      <3>2. /\ todo'[q] = todo[q] /\ ofile'[q] = ofile[q] /\ ff'[q] = ff[q]
            /\ file'[q] = file[q] /\ wr'[file[q]] = wr[file[q]] /\ wr' = wr
        BY <1>2, <1>8, <2>2
      <3>3. CASE pc'[q] = pc[q]
        BY <3>1, <3>2, <3>3, CallSame
      <3>4. CASE pc'[q] # pc[q]
        <4>1. pc[q] \in Rw /\ pc'[q] \in Rw /\ (pc'[q] \in Writing <=> pc[q] \in Writing)
          BY <1>11, <1>13, <2>2, <3>4
        <4> QED BY <3>1, <3>2, <4>1, CallMoves
      <3> QED BY SMT, <3>3, <3>4
    <2> QED BY <2>1, <2>2 DEF CallInv
  <1>15. FileInv' /\ RefsCounted'
    <2>1. \A q \in Procs : pc'[q] \in Building => pc'[q] = pc[q]
      BY <1>7, <1>11, <1>13
    <2> QED BY <1>2, <2>1, FileKept
  <1>16. EndInv' /\ EndsOpen' /\ RingInv'
    BY <1>2, <1>3, CloseEnds
  <1>17. plock[g] = Nobody
    <2>1. plock[g] # p
      BY <1>7, <1>8 DEF IInv, LockInv, Locking
    <2> QED BY <1>1, <2>1
  <1>18. PipeStep(p, g)
    <2>1. \A q \in Procs : q # p => file'[q] = file[q] /\
             \/ pc'[q] = pc[q]
             \/ pc[q] = "read asleep" /\ pc'[q] = "read"
             \/ pc[q] = "write asleep" /\ pc'[q] = "write"
      BY <1>2, <1>11
    <2>2. \A j \in Pipes : j # g => pi'[j] = pi[j] /\ plock'[j] = plock[j] /\ stranded'[j] = stranded[j]
      BY <1>2, <1>8, <1>10
    <2>3. fpipe' = fpipe /\ plock'[g] = Nobody /\ plock'[g] # p
      BY <1>2, <1>17, NobodyAssumption
    <2>4. pc'[p] \notin Rw /\ pc'[p] \notin {"read sleep", "write sleep"} /\ pc[p] \notin Rw
      BY <1>7, <1>11
    <2> QED BY <1>8, <1>17, <2>1, <2>2, <2>3, <2>4 DEF PipeStep
  <1>19. /\ LockInv' /\ \A q \in Procs : q # p => SleepOk(q)'
         /\ \A q \in Procs : q # p /\ PipeOf(q) # g => WakeOk(q)'
    BY <1>18, PipeRw
  <1>20. SleepOk(p)' /\ WakeOk(p)'
    <2>1. pc'[p] # "read sleep" /\ pc'[p] # "write sleep" /\ pc'[p] # "read asleep" /\ pc'[p] # "write asleep"
      BY <1>6, <1>11
    <2> QED BY <2>1 DEF SleepOk, WakeOk
  <1>21. ASSUME NEW q \in Procs, q # p, PipeOf(q) = g PROVE WakeOk(q)'
    <2>1. ASSUME pc[q] \in Rw PROVE w <=> pc[q] \notin Writing
      <3>1. file[q] \in File /\ type[file[q]] = "pipe" /\ (wr[file[q]] <=> pc[q] \in Writing)
        BY <2>1, RwIs
      <3>2. fpipe[file[q]] = g
        BY <1>21 DEF PipeOf
      <3>3. wr[file[q]] # w
        <4>1. ff[p] # [pipe |-> fpipe[file[q]], writable |-> wr[file[q]]]
          BY <3>1 DEF IInv, EndInv, OneHolder
        <4>2. ff[p] = [pipe |-> g, writable |-> w]
          BY <1>8
        <4> QED BY <3>2, <4>1, <4>2
      <3>4. wr[file[q]] \in BOOLEAN
        BY <3>1 DEF IInv, Types, FileTypes
      <3> QED BY <1>8, <3>1, <3>3, <3>4
    <2>2. (pc'[q] = "read asleep" => pc[q] = "read asleep") /\ (pc'[q] = "write asleep" => pc[q] = "write asleep")
      <3>1. pc'[q] = pc[q] \/ pc'[q] = "read" \/ pc'[q] = "write"
        BY <1>11, <1>21
      <3> QED BY <3>1
    <2>3. pc'[q] # "read asleep"
      BY <1>11, <1>13, <1>21, <2>1, <2>2
    <2>4. pc'[q] # "write asleep"
      BY <1>11, <1>13, <1>21, <2>1, <2>2
    <2> QED BY <2>3, <2>4 DEF WakeOk
  <1>22. RwInv'
    BY <1>19, <1>20, <1>21, WakesNext
  <1> QED BY <1>12, <1>14, <1>15, <1>16, <1>22 DEF IInv, Types, RwInv

-----------------------------------------------------------------------------
(* A pipe implements the bounded queue. *)

OpenEnds(c) == {e \in {"r", "w"} : IF e = "r" THEN c.readopen ELSE c.writeopen}
Ends == [g \in Pipes |-> {e \in {"r", "w"} : IF e = "r" THEN pi[g].readopen ELSE pi[g].writeopen}]
Queues == [g \in Pipes |-> Content(pi[g])]

LEMMA QueuesAre ==
  /\ \A g \in Pipes : Ends[g] = OpenEnds(pi[g]) /\ Queues[g] = Content(pi[g])
  /\ \A g \in Pipes : Ends'[g] = OpenEnds(pi'[g]) /\ Queues'[g] = Content(pi'[g])
  BY DEF Ends, Queues, OpenEnds, Content

LEMMA QueuesSame == ASSUME pi' = pi PROVE Ends' = Ends /\ Queues' = Queues
  BY DEF Ends, Queues, Content

LEMMA QueuesMove ==
  ASSUME NEW g \in Pipes, \A j \in Pipes : j # g => pi'[j] = pi[j]
  PROVE  /\ Ends' = [Ends EXCEPT ![g] = OpenEnds(pi'[g])]
         /\ Queues' = [Queues EXCEPT ![g] = Content(pi'[g])]
  <1>1. Ends' = [j \in Pipes |-> OpenEnds(pi'[j])] /\ Queues' = [j \in Pipes |-> Content(pi'[j])]
    BY DEF Ends, Queues, OpenEnds, Content
  <1>2. Ends = [j \in Pipes |-> OpenEnds(pi[j])] /\ Queues = [j \in Pipes |-> Content(pi[j])]
    BY DEF Ends, Queues, OpenEnds
  <1>3. Ends' = [Ends EXCEPT ![g] = OpenEnds(pi'[g])]
    BY <1>1, <1>2
  <1>4. Queues' = [Queues EXCEPT ![g] = Content(pi'[g])]
    BY <1>1, <1>2
  <1> QED BY SMT, <1>3, <1>4

LEMMA EndsSet ==
  ASSUME NEW c
  PROVE  /\ "r" \in OpenEnds(c) <=> c.readopen
         /\ "w" \in OpenEnds(c) <=> c.writeopen
         /\ c.readopen /\ c.writeopen => OpenEnds(c) = {"r", "w"}
         /\ ~c.readopen /\ ~c.writeopen <=> OpenEnds(c) = {}
  <1>1. "w" # "r"
    BY SMT
  <1>2. "r" \in OpenEnds(c) <=> c.readopen
    BY DEF OpenEnds
  <1>3. "w" \in OpenEnds(c) <=> c.writeopen
    BY <1>1 DEF OpenEnds
  <1>4. \A e \in OpenEnds(c) : e = "r" \/ e = "w"
    BY DEF OpenEnds
  <1>5. c.readopen /\ c.writeopen => OpenEnds(c) = {"r", "w"}
    BY <1>2, <1>3, <1>4
  <1>6. ~c.readopen /\ ~c.writeopen <=> OpenEnds(c) = {}
    BY <1>2, <1>3, <1>4
  <1> QED BY <1>2, <1>3, <1>5, <1>6

LEMMA BlankEmpty ==
  /\ Content(Blank) = <<>>
  /\ Content([Blank EXCEPT !.readopen = TRUE, !.writeopen = TRUE]) = <<>>
  <1> DEFINE b == [Blank EXCEPT !.readopen = TRUE, !.writeopen = TRUE]
  <1>1. Blank.nread = 0 /\ Blank.nwrite = 0 /\ b.nread = 0 /\ b.nwrite = 0
    BY SMT DEF Blank
  <1>2. Blank.data \in [0 .. PIPESIZE - 1 -> Val] /\ b.data \in [0 .. PIPESIZE - 1 -> Val]
    <2>1. Blank \in Pipe /\ b \in Pipe
      BY BlankIs
    <2>2. \A c \in Pipe : c.data \in [0 .. PIPESIZE - 1 -> Val]
      BY SMT DEF Pipe
    <2> QED BY <2>1, <2>2
  <1> HIDE DEF b
  <1>3. ASSUME NEW c, c.nread = 0, c.nwrite = 0, c.data \in [0 .. PIPESIZE - 1 -> Val]
        PROVE  Content(c) = <<>>
    <2>1. Content(c) = Bytes(c.data, 0, 0)
      BY <1>3, ContentIs
    <2>2. Count(0, 0) = 0
      BY Sizes, CountMoves
    <2>3. Content(c) \in Seq(Val) /\ Len(Content(c)) = 0
      <3>1. 0 \in Index
        BY SMT, Sizes
      <3>2. Bytes(c.data, 0, 0) \in Seq(Val) /\ Len(Bytes(c.data, 0, 0)) = Count(0, 0)
        BY <1>3, <3>1, BytesAre
      <3> QED BY <2>1, <2>2, <3>2
    <2> DEFINE s == Content(c)
    <2> HIDE DEF s
    <2>4. s \in Seq(Val) /\ Len(s) = 0
      BY <2>3 DEF s
    <2>5. s = <<>>
      BY SMT, <2>4
    <2> QED BY <2>5 DEF s
  <1>4. Content(Blank) = <<>> /\ Content(b) = <<>>
    BY <1>1, <1>2, <1>3
  <1> QED BY <1>4 DEF b

LEMMA CreateStep ==
  ASSUME IInv, NEW p \in Procs, NEW g \in Pipes, pipealloc(p, g)
  PROVE  F!Create(g)
  <1> DEFINE b == [Blank EXCEPT !.readopen = TRUE, !.writeopen = TRUE]
  <1>1. g \notin mem /\ pi' = [pi EXCEPT ![g] = b]
    BY DEF pipealloc
  <1>2. pi \in [Pipes -> Pipe]
    BY DEF IInv, Types, PipeTypes
  <1>3. b.readopen /\ b.writeopen
    BY SMT DEF Blank
  <1>4. Content(b) = <<>>
    BY BlankEmpty
  <1> HIDE DEF b
  <1>5. pi'[g] = b /\ \A j \in Pipes : j # g => pi'[j] = pi[j]
    BY <1>1, <1>2
  <1>6. ~pi[g].readopen /\ ~pi[g].writeopen
    BY <1>1, Fresh
  <1>7. Ends[g] = {}
    BY <1>6, EndsSet, QueuesAre
  <1>8. Ends' = [Ends EXCEPT ![g] = {"r", "w"}]
    <2>1. OpenEnds(b) = {"r", "w"}
      BY <1>3, EndsSet
    <2>2. Ends' = [Ends EXCEPT ![g] = OpenEnds(pi'[g])]
      BY <1>5, QueuesMove
    <2> QED BY <1>5, <2>1, <2>2
  <1>9. Queues' = [Queues EXCEPT ![g] = <<>>]
    BY <1>4, <1>5, QueuesMove
  <1> QED BY <1>7, <1>8, <1>9 DEF F!Create, Ends, Queues

LEMMA PutQueue ==
  ASSUME IInv, NEW g, NEW v \in Val, PutIs(g, v), pi[g].readopen, pi[g].writeopen
  PROVE  F!Put(g, v)
  <1> DEFINE c == pi[g]
             i == c.nwrite % PIPESIZE
             n == (c.nwrite + 1) % N
  <1>1. /\ g \in Pipes /\ c \in Pipe /\ \A j \in Pipes : j # g => pi'[j] = pi[j]
        /\ pi'[g] = [readopen |-> c.readopen, writeopen |-> c.writeopen, nread |-> c.nread,
                     nwrite |-> n, data |-> [c.data EXCEPT ![i] = v]]
        /\ Count(c.nread, c.nwrite) < PIPESIZE
    BY DEF PutIs
  <1>2. /\ pi'[g].readopen = c.readopen /\ pi'[g].writeopen = c.writeopen /\ pi'[g].nread = c.nread
        /\ pi'[g].nwrite = n /\ pi'[g].data = [c.data EXCEPT ![i] = v]
    BY SMT, <1>1
  <1>3. c.nread \in Index /\ c.nwrite \in Index /\ c.data \in [0 .. PIPESIZE - 1 -> Val]
    BY SMT, <1>1 DEF Pipe
  <1>4. Content(pi'[g]) = Append(Content(c), v)
    <2>1. Count(c.nread, c.nwrite) < PIPESIZE
      BY <1>1
    <2> HIDE DEF c
    <2>2. Bytes([c.data EXCEPT ![i] = v], c.nread, n) = Append(Bytes(c.data, c.nread, c.nwrite), v)
      BY <1>3, <2>1, BytePut
    <2> QED BY <1>2, <2>2, ContentIs
  <1>5. Len(Content(c)) < PIPESIZE
    <2>1. Len(Bytes(c.data, c.nread, c.nwrite)) = Count(c.nread, c.nwrite)
      BY <1>3, BytesAre
    <2> QED BY <1>1, <2>1, ContentIs
  <1>6. OpenEnds(pi'[g]) = OpenEnds(c) /\ OpenEnds(c) = {"r", "w"}
    BY <1>2, EndsSet
  <1>7. Ends[g] = {"r", "w"} /\ Queues[g] = Content(c)
    BY <1>1, <1>6, QueuesAre
  <1>8. Ends' = [Ends EXCEPT ![g] = OpenEnds(pi'[g])] /\ Queues' = [Queues EXCEPT ![g] = Content(pi'[g])]
    BY <1>1, QueuesMove
  <1>9. Ends' = Ends
    <2>1. Ends' = [Ends EXCEPT ![g] = Ends[g]]
      BY <1>6, <1>7, <1>8
    <2> QED BY <1>1, <2>1 DEF Ends
  <1>10. Queues' = [Queues EXCEPT ![g] = Append(Queues[g], v)] /\ Len(Queues[g]) < PIPESIZE
    BY <1>4, <1>5, <1>7, <1>8
  <1> QED BY <1>7, <1>9, <1>10 DEF F!Put, Ends, Queues

LEMMA PutStep ==
  ASSUME IInv, NEW p \in Procs, NEW v \in Val, NEW ok \in BOOLEAN, pipewrite(p, v, ok),
         NEW g, g = PipeOf(p)
  PROVE  pi' = pi \/ (g \in Pipes /\ F!Put(g, v))
  <1>1. CASE ~pi[g].readopen \/ killed[p] \/ IsFull(pi[g]) \/ ~ok
    BY <1>1 DEF pipewrite, PipeOf
  <1>2. CASE ~(~pi[g].readopen \/ killed[p]) /\ ~IsFull(pi[g]) /\ ok
    <2>1. PutIs(g, v)
      <3>1. PutIs(PipeOf(p), v)
        BY <1>2, PutByte
      <3> QED BY <3>1 DEF PutIs
    <2>2. pc[p] \in Rw /\ pc[p] \in Writing
      <3>1. pc[p] = "write"
        BY DEF pipewrite, Is
      <3> QED BY SMT, <3>1 DEF Rw, Writing
    <2>3. pi[g].readopen /\ pi[g].writeopen /\ g \in Pipes
      BY <1>2, <2>2, RwIs
    <2>4. F!Put(g, v)
      BY <2>1, <2>3, PutQueue
    <2> QED BY <2>3, <2>4
  <1> QED BY <1>1, <1>2

LEMMA TakeStep ==
  ASSUME IInv, NEW g, NEW k \in Nat, TakeIs(g, k), pi[g].readopen
  PROVE  (Ends' = Ends /\ Queues' = Queues) \/ (k \in 1 .. PIPESIZE /\ F!Take(g, k))
  <1> DEFINE c == pi[g]
             n == (c.nread + k) % N
             u == Count(c.nread, c.nwrite)
  <1>1. /\ g \in Pipes /\ c \in Pipe /\ k \in Index /\ k <= u /\ \A j \in Pipes : j # g => pi'[j] = pi[j]
        /\ pi'[g] = [readopen |-> c.readopen, writeopen |-> c.writeopen, nread |-> n, nwrite |-> c.nwrite, data |-> c.data]
    BY DEF TakeIs
  <1>2. /\ pi'[g].readopen = c.readopen /\ pi'[g].writeopen = c.writeopen /\ pi'[g].nread = n
        /\ pi'[g].nwrite = c.nwrite /\ pi'[g].data = c.data
    BY SMT, <1>1
  <1>3. c.nread \in Index /\ c.nwrite \in Index /\ c.data \in [0 .. PIPESIZE - 1 -> Val]
    BY SMT, <1>1 DEF Pipe
  <1>4. OpenEnds(pi'[g]) = OpenEnds(c)
    BY <1>2 DEF OpenEnds
  <1>5. Ends' = Ends
    <2>1. Ends' = [Ends EXCEPT ![g] = Ends[g]]
      <3>1. Ends' = [Ends EXCEPT ![g] = OpenEnds(pi'[g])]
        BY <1>1, QueuesMove
      <3>2. Ends[g] = OpenEnds(c)
        BY <1>1, QueuesAre
      <3> QED BY <1>4, <3>1, <3>2
    <2> QED BY <1>1, <2>1 DEF Ends
  <1>6. Queues' = [Queues EXCEPT ![g] = Content(pi'[g])] /\ Queues[g] = Content(c)
    BY <1>1, QueuesMove, QueuesAre
  <1>7. CASE k = 0
    <2>1. n = c.nread
      <3> DEFINE i == c.nread
                 M == N
      <3>1. i \in Nat /\ M \in Nat /\ i < M
        BY <1>3, Sizes
      <3>2. i + k < N => (i + k) % N = i + k
        BY <1>1, <1>3, Moved
      <3> HIDE DEF i, M
      <3>3. i + k = i /\ i + k < M
        BY SMT, <1>7, <3>1
      <3> QED BY <3>2, <3>3 DEF i, M
    <2>2. Content(pi'[g]) = Content(c)
      BY <1>2, <2>1, ContentIs
    <2>3. Queues' = [Queues EXCEPT ![g] = Queues[g]]
      BY <1>6, <2>2
    <2>4. Queues' = Queues
      BY <1>1, <2>3 DEF Queues
    <2> QED BY <1>5, <2>4
  <1>8. CASE k # 0
    <2>1. u \in Nat /\ Len(Content(c)) = u /\ u <= PIPESIZE
      <3>1. u \in Nat /\ Len(Content(c)) = u
        BY <1>3, BytesAre, ContentIs
      <3>2. u <= PIPESIZE
        BY <1>1 DEF IInv, RingInv
      <3> QED BY SMT, <3>1, <3>2
    <2>2. Bytes(c.data, n, c.nwrite) =
            SubSeq(Bytes(c.data, c.nread, c.nwrite), k + 1, Len(Bytes(c.data, c.nread, c.nwrite)))
      <3>1. k \in Index /\ k <= Count(c.nread, c.nwrite)
        BY <1>1
      <3> QED BY <1>3, <3>1, BytesTaken
    <2>3. Content(pi'[g]) = SubSeq(Content(c), k + 1, Len(Content(c)))
      BY <1>2, <2>2, ContentIs
    <2>4. Queues' = [Queues EXCEPT ![g] = SubSeq(Queues[g], k + 1, Len(Queues[g]))] /\ k <= Len(Queues[g])
      BY <1>1, <1>6, <2>1, <2>3
    <2>5. "r" \in Ends[g]
      BY <1>1, <1>8, EndsSet, QueuesAre
    <2>6. F!Take(g, k)
      BY <1>5, <2>4, <2>5 DEF F!Take, Ends, Queues
    <2>7. k \in 1 .. PIPESIZE
      <3> HIDE DEF u
      <3> QED BY SMT, <1>1, <1>8, <2>1, Sizes
    <2> QED BY <2>6, <2>7
  <1> QED BY SMT, <1>7, <1>8

LEMMA EndQueue ==
  ASSUME IInv, NEW p \in Procs, NEW g, NEW w, CloseIs(p, g, w), UNCHANGED <<type, wr, fpipe>>
  PROVE  g \in Pipes /\ \E e \in {"r", "w"} : F!Close(g, e)
  <1> DEFINE e == IF w THEN "w" ELSE "r"
             c == pi[g]
  <1>2. (w = TRUE => c.writeopen) /\ (w = FALSE => c.readopen)
    BY CloseEnds
  <1>3. /\ g \in Pipes /\ w \in BOOLEAN /\ \A j \in Pipes : j # g => pi'[j] = pi[j]
        /\ pi'[g].readopen = (c.readopen /\ w) /\ pi'[g].writeopen = (c.writeopen /\ ~w)
        /\ IF pi'[g].readopen \/ pi'[g].writeopen
           THEN /\ mem' = mem /\ pi'[g].nread = c.nread /\ pi'[g].nwrite = c.nwrite /\ pi'[g].data = c.data
           ELSE mem' = mem \ {g} /\ pi'[g] = Blank
    BY DEF CloseIs
  <1>4. Ends' = [Ends EXCEPT ![g] = OpenEnds(pi'[g])] /\ Queues' = [Queues EXCEPT ![g] = Content(pi'[g])]
    BY <1>3, QueuesMove
  <1>5. /\ Ends[g] = OpenEnds(c) /\ Ends'[g] = OpenEnds(pi'[g]) /\ Queues[g] = Content(c)
    BY <1>3, QueuesAre
  <1>6. "r" # "w" /\ e \in {"r", "w"}
    BY SMT
  <1>7. e \in OpenEnds(c)
    <2>1. (w => c.writeopen) /\ (~w => c.readopen)
      BY <1>2, <1>3
    <2> QED BY <2>1, EndsSet
  <1>8. OpenEnds(pi'[g]) = OpenEnds(c) \ {e}
    <2>1. \A b : ("r" \in OpenEnds(b) <=> b.readopen) /\ ("w" \in OpenEnds(b) <=> b.writeopen)
      BY EndsSet
    <2>2. \A b, x : x \in OpenEnds(b) => x = "r" \/ x = "w"
      BY DEF OpenEnds
    <2>3. CASE w
      <3>1. e = "w"
        BY <2>3
      <3>2. ("r" \in OpenEnds(pi'[g]) <=> "r" \in OpenEnds(c)) /\ "w" \notin OpenEnds(pi'[g])
        BY <1>3, <2>1, <2>3
      <3> HIDE DEF c, e
      <3> QED BY <1>6, <2>2, <3>1, <3>2
    <2>4. CASE ~w
      <3>1. e = "r"
        BY <2>4
      <3>2. ("w" \in OpenEnds(pi'[g]) <=> "w" \in OpenEnds(c)) /\ "r" \notin OpenEnds(pi'[g])
        BY <1>3, <2>1, <2>4
      <3> HIDE DEF c, e
      <3> QED BY <1>6, <2>2, <3>1, <3>2
    <2> QED BY SMT, <2>3, <2>4
  <1> HIDE DEF e
  <1>9. Content(pi'[g]) = IF Ends'[g] = {} THEN <<>> ELSE Queues[g]
    <2>1. CASE pi'[g].readopen \/ pi'[g].writeopen
      <3>1. Ends'[g] # {}
        BY <1>5, <2>1, EndsSet
      <3>2. Content(pi'[g]) = Content(c)
        BY <1>3, <2>1, ContentIs
      <3> QED BY <1>5, <3>1, <3>2
    <2>2. CASE ~(pi'[g].readopen \/ pi'[g].writeopen)
      <3>1. Ends'[g] = {}
        BY <1>5, <2>2, EndsSet
      <3>2. pi'[g] = Blank
        BY <1>3, <2>2
      <3> QED BY <3>1, <3>2, BlankEmpty
    <2> QED BY SMT, <2>1, <2>2
  <1>10. /\ e \in Ends[g] /\ Ends' = [Ends EXCEPT ![g] = Ends[g] \ {e}]
         /\ Queues' = [Queues EXCEPT ![g] = IF Ends'[g] = {} THEN <<>> ELSE Queues[g]]
    BY <1>4, <1>5, <1>7, <1>8, <1>9
  <1>11. F!Close(g, e)
    BY <1>10 DEF F!Close, Ends, Queues
  <1>12. g \in Pipes /\ e \in {"r", "w"}
    BY <1>3, <1>6
  <1> HIDE DEF c
  <1> QED BY SMT, <1>11, <1>12

LEMMA EndStep ==
  ASSUME IInv, NEW p \in Procs, pipeclose(p), NEW g, g = ff[p].pipe, NEW w, w = ff[p].writable
  PROVE  g \in Pipes /\ \E e \in {"r", "w"} : F!Close(g, e)
  <1>1. CloseIs(p, ff[p].pipe, ff[p].writable) /\ UNCHANGED <<type, wr, fpipe>>
    BY CloseMoves DEF pipeclose, ftable
  <1>2. CloseIs(p, g, w)
    BY <1>1 DEF CloseIs
  <1> QED BY <1>1, <1>2, EndQueue

LEMMA Refines == IInv /\ [Next]_vars => [F!Next]_<<Ends, Queues>>
  <1> SUFFICES ASSUME IInv, [Next]_vars PROVE F!Next \/ (Ends' = Ends /\ Queues' = Queues)
    OBVIOUS
  <1>1. CASE pi' = pi
    BY <1>1, QueuesSame
  <1>2. CASE UNCHANGED vars
    BY <1>1, <1>2 DEF vars, pipes
  <1>3. CASE Next
    <2>1. PICK p \in Procs :
            \/ filealloc(p) \/ NoPage(p) \/ fileclose(p) \/ pipeclose(p) \/ exit(p) \/ kill(p)
            \/ \E g \in Pipes : pipealloc(p, g)
            \/ \E d \in Fd : sys_dup(p, d) \/ sys_close(p, d)
            \/ \E d \in Fd, n \in Counts, w \in BOOLEAN : CallRw(p, d, n, w)
            \/ \E q \in Procs : fork(p, q)
            \/ ReadWait(p) \/ Sleep(p) \/ WriteDone(p)
            \/ \E ok \in BOOLEAN : piperead(p, ok) \/ \E v \in Val : pipewrite(p, v, ok)
      BY <1>3 DEF Next
    <2>2. CASE filealloc(p) \/ NoPage(p) \/ fileclose(p) \/ exit(p) \/ kill(p)
      <3>1. pi' = pi
        BY <2>2 DEF filealloc, NoPage, fileclose, exit, kill, pipes
      <3> QED BY <1>1, <3>1
    <2>3. CASE pipeclose(p)
      <3>1. PICK g, w : g = ff[p].pipe /\ w = ff[p].writable
        OBVIOUS
      <3>2. g \in Pipes /\ \E e \in {"r", "w"} : F!Close(g, e)
        BY <2>3, <3>1, EndStep
      <3> QED BY <3>2 DEF F!Next
    <2>4. CASE \E g \in Pipes : pipealloc(p, g)
      BY <2>4, CreateStep DEF F!Next
    <2>5. CASE \E d \in Fd : sys_dup(p, d) \/ sys_close(p, d)
      <3>1. pi' = pi
        BY <2>5 DEF sys_dup, sys_close, pipes
      <3> QED BY <1>1, <3>1
    <2>6. CASE \E d \in Fd, n \in Counts, w \in BOOLEAN : CallRw(p, d, n, w)
      <3>1. pi' = pi
        BY <2>6 DEF CallRw, pipes
      <3> QED BY <1>1, <3>1
    <2>7. CASE \E q \in Procs : fork(p, q)
      <3>1. pi' = pi
        BY <2>7 DEF fork, pipes
      <3> QED BY <1>1, <3>1
    <2>8. CASE ReadWait(p) \/ Sleep(p) \/ WriteDone(p)
      <3>1. pi' = pi
        BY <2>8 DEF ReadWait, Sleep, WriteDone, pipes
      <3> QED BY <1>1, <3>1
    <2>9. CASE \E ok \in BOOLEAN : piperead(p, ok)
      <3>1. PICK ok \in BOOLEAN : piperead(p, ok)
        BY <2>9
      <3>2. PICK k \in Nat : TakeIs(PipeOf(p), k)
        BY <3>1, Step_piperead
      <3>3. PICK g : g = PipeOf(p)
        OBVIOUS
      <3>4. TakeIs(g, k)
        BY <3>2, <3>3 DEF TakeIs
      <3>5. pi[g].readopen
        <4>1. pc[p] = "read"
          BY <3>1 DEF piperead, Is
        <4>2. pc[p] \in Rw /\ pc[p] \in Reading
          BY SMT, <4>1 DEF Rw, Reading
        <4> QED BY <3>3, <4>2, RwIs
      <3>6. (Ends' = Ends /\ Queues' = Queues) \/ (k \in 1 .. PIPESIZE /\ F!Take(g, k))
        BY <3>4, <3>5, TakeStep
      <3>7. g \in Pipes
        BY <3>4 DEF TakeIs
      <3> QED BY <3>6, <3>7 DEF F!Next
    <2>10. CASE \E ok \in BOOLEAN : \E v \in Val : pipewrite(p, v, ok)
      <3>1. PICK ok \in BOOLEAN, v \in Val : pipewrite(p, v, ok)
        BY <2>10
      <3>2. PICK g : g = PipeOf(p)
        OBVIOUS
      <3>3. pi' = pi \/ (g \in Pipes /\ F!Put(g, v))
        BY <3>1, <3>2, PutStep
      <3> QED BY <1>1, <3>3 DEF F!Next
    <2> QED BY <2>1, <2>2, <2>3, <2>4, <2>5, <2>6, <2>7, <2>8, <2>9, <2>10
  <1> QED BY <1>2, <1>3

-----------------------------------------------------------------------------
(* The references to a file. *)

LEMMA FdFinite == ASSUME SetFacts PROVE IsFiniteSet(Fd)
  <1>1. 0 \in Int /\ NOFILE - 1 \in Int
    BY SMT, FilesAssumption
  <1> QED BY <1>1 DEF Fd, SetFacts, FinInterval

LEMMA FiniteRefs ==
  ASSUME SetFacts, NEW o, NEW f
  PROVE  /\ IsFiniteSet(FdRefs(o, f)) /\ Cardinality(FdRefs(o, f)) \in Nat
         /\ IsFiniteSet(ToDoRefs(o, f)) /\ Cardinality(ToDoRefs(o, f)) \in Nat
  <1>1. IsFiniteSet(Fd)
    BY FdFinite
  <1>2. IsFiniteSet({1, 2})
    <2>1. IsFiniteSet({1} \cup {2})
      BY DEF SetFacts, FinSingle, FinAdd
    <2>2. {1} \cup {2} = {1, 2}
      OBVIOUS
    <2> QED BY <2>1, <2>2
  <1>3. IsFiniteSet(Procs \X Fd) /\ IsFiniteSet(Procs \X {1, 2})
    BY <1>1, <1>2, FilesAssumption DEF SetFacts, FinProduct
  <1>4. IsFiniteSet(FdRefs(o, f)) /\ IsFiniteSet(ToDoRefs(o, f))
    <2>1. FdRefs(o, f) \in SUBSET (Procs \X Fd) /\ ToDoRefs(o, f) \in SUBSET (Procs \X {1, 2})
      BY DEF FdRefs, ToDoRefs
    <2> QED BY <1>3, <2>1 DEF SetFacts, FinSubset
  <1> QED BY <1>4 DEF SetFacts, FinCard

(* Putting an element in or taking it out. *)
LEMMA CountOne ==
  ASSUME SetFacts, NEW S, NEW T, IsFiniteSet(S), IsFiniteSet(T), NEW x, S \ {x} = T \ {x}
  PROVE  /\ Cardinality(T) + One(x \in S) = Cardinality(S) + One(x \in T)
         /\ Cardinality(S) \in Nat /\ Cardinality(T) \in Nat
  <1> DEFINE n == Cardinality(S \ {x})
             a == Cardinality(S)
             b == Cardinality(T)
  <1>1. a \in Nat /\ b \in Nat
    BY DEF SetFacts, FinCard
  <1>2. n = IF x \in S THEN a - 1 ELSE a
    BY DEF SetFacts, FinRemove
  <1>3. n = IF x \in T THEN b - 1 ELSE b
    BY DEF SetFacts, FinRemove
  <1> HIDE DEF n, a, b
  <1>4. b + One(x \in S) = a + One(x \in T)
    BY SMT, <1>1, <1>2, <1>3 DEF One
  <1> QED BY <1>1, <1>4 DEF a, b

(* A descriptor changes. *)
LEMMA FdSet ==
  ASSUME SetFacts, NEW o \in [Procs -> [Fd -> File \cup {NoFile}]], NEW p \in Procs, NEW d \in Fd, NEW v, NEW f
  PROVE  /\ Cardinality(FdRefs([o EXCEPT ![p][d] = v], f)) + One(o[p][d] = f)
              = Cardinality(FdRefs(o, f)) + One(v = f)
         /\ Cardinality(FdRefs(o, f)) \in Nat
         /\ Cardinality(FdRefs([o EXCEPT ![p][d] = v], f)) \in Nat
  <1> DEFINE a == [o EXCEPT ![p][d] = v]
             x == <<p, d>>
             S == FdRefs(o, f)
             T == FdRefs(a, f)
  <1>1. \A q \in Procs, e \in Fd : a[q][e] = IF q = p /\ e = d THEN v ELSE o[q][e]
    <2> DEFINE c == [o[p] EXCEPT ![d] = v]
    <2>1. o[p] \in [Fd -> File \cup {NoFile}] /\ a = [o EXCEPT ![p] = c]
      OBVIOUS
    <2>2. \A e \in Fd : c[e] = IF e = d THEN v ELSE o[p][e]
      BY <2>1
    <2> HIDE DEF a, c
    <2>3. \A q \in Procs : a[q] = IF q = p THEN c ELSE o[q]
      BY <2>1
    <2> QED BY <2>2, <2>3
  <1> HIDE DEF a
  <1>2. \A y \in Procs \X Fd : y[1] \in Procs /\ y[2] \in Fd /\ (y # x => ~(y[1] = p /\ y[2] = d))
    BY SMT
  <1>3. x \in Procs \X Fd /\ x[1] = p /\ x[2] = d
    BY SMT
  <1> HIDE DEF x
  <1>4. S \ {x} = T \ {x}
    <2>1. \A y \in Procs \X Fd : y # x => a[y[1]][y[2]] = o[y[1]][y[2]]
      BY <1>1, <1>2
    <2> QED BY <2>1 DEF FdRefs
  <1>5. (x \in S <=> o[p][d] = f) /\ (x \in T <=> v = f)
    BY <1>1, <1>3 DEF FdRefs
  <1>6. IsFiniteSet(S) /\ IsFiniteSet(T)
    BY FiniteRefs
  <1> HIDE DEF S, T
  <1>7. /\ Cardinality(T) + One(x \in S) = Cardinality(S) + One(x \in T)
        /\ Cardinality(S) \in Nat /\ Cardinality(T) \in Nat
    BY <1>4, <1>6, CountOne
  <1>8. One(x \in S) = One(o[p][d] = f) /\ One(x \in T) = One(v = f)
    BY <1>5 DEF One
  <1> QED BY <1>7, <1>8 DEF S, T, a

(* What a process has yet to close changes. *)
LEMMA ToDoSet ==
  ASSUME SetFacts, NEW t \in [Procs -> Seq(File)], NEW p \in Procs, NEW s \in Seq(File), NEW f
  PROVE  /\ Cardinality(ToDoRefs([t EXCEPT ![p] = s], f)) + Occurs(t[p], f)
              = Cardinality(ToDoRefs(t, f)) + Occurs(s, f)
         /\ Cardinality(ToDoRefs(t, f)) \in Nat
         /\ Cardinality(ToDoRefs([t EXCEPT ![p] = s], f)) \in Nat
  <1> DEFINE a == [t EXCEPT ![p] = s]
             x == <<p, 1>>
             y == <<p, 2>>
             S == ToDoRefs(t, f)
             T == ToDoRefs(a, f)
             R == (S \ {x}) \cup (T \cap {x})
  <1>1. \A q \in Procs : a[q] = IF q = p THEN s ELSE t[q]
    OBVIOUS
  <1> HIDE DEF a
  <1>2. \A z \in Procs \X {1, 2} : z[1] \in Procs /\ (z # x /\ z # y => z[1] # p)
    BY SMT
  <1>3. /\ x \in Procs \X {1, 2} /\ x[1] = p /\ x[2] = 1
        /\ y \in Procs \X {1, 2} /\ y[1] = p /\ y[2] = 2 /\ x # y
    BY SMT
  <1> HIDE DEF x, y
  <1>4. \A z : z # x /\ z # y => (z \in S <=> z \in T)
    BY <1>1, <1>2 DEF ToDoRefs
  <1>5. /\ x \in S <=> 1 <= Len(t[p]) /\ t[p][1] = f
        /\ y \in S <=> 2 <= Len(t[p]) /\ t[p][2] = f
        /\ x \in T <=> 1 <= Len(s) /\ s[1] = f
        /\ y \in T <=> 2 <= Len(s) /\ s[2] = f
    BY <1>1, <1>3 DEF ToDoRefs
  <1>6. IsFiniteSet(S) /\ IsFiniteSet(T)
    BY FiniteRefs
  <1> HIDE DEF S, T
  <1>7. IsFiniteSet(R)
    <2>1. R \subseteq S \cup {x}
      OBVIOUS
    <2>2. IsFiniteSet(S \cup {x})
      BY <1>6 DEF SetFacts, FinAdd
    <2> QED BY <2>1, <2>2 DEF SetFacts, FinSubset
  <1>8. S \ {x} = R \ {x} /\ R \ {y} = T \ {y}
    BY <1>3, <1>4
  <1>9. (x \in R <=> x \in T) /\ (y \in R <=> y \in S)
    BY <1>3
  <1> HIDE DEF R
  <1>10. /\ Cardinality(R) + One(x \in S) = Cardinality(S) + One(x \in R)
         /\ Cardinality(S) \in Nat /\ Cardinality(R) \in Nat
    BY <1>6, <1>7, <1>8, CountOne
  <1>11. /\ Cardinality(T) + One(y \in R) = Cardinality(R) + One(y \in T)
         /\ Cardinality(T) \in Nat
    BY <1>6, <1>7, <1>8, CountOne
  <1>12. /\ One(x \in S) = One(1 <= Len(t[p]) /\ t[p][1] = f)
         /\ One(y \in R) = One(2 <= Len(t[p]) /\ t[p][2] = f)
         /\ One(x \in R) = One(1 <= Len(s) /\ s[1] = f)
         /\ One(y \in T) = One(2 <= Len(s) /\ s[2] = f)
    BY <1>5, <1>9 DEF One
  <1>13. One(x \in S) \in Nat /\ One(y \in R) \in Nat /\ One(x \in R) \in Nat /\ One(y \in T) \in Nat
    BY SMT DEF One
  <1>14. Cardinality(T) + (One(x \in S) + One(y \in R)) = Cardinality(S) + (One(x \in R) + One(y \in T))
    <2> DEFINE cs == Cardinality(S)
               cr == Cardinality(R)
               ct == Cardinality(T)
               xs == One(x \in S)
               yr == One(y \in R)
               xr == One(x \in R)
               yt == One(y \in T)
    <2>1. cs \in Nat /\ cr \in Nat /\ ct \in Nat /\ xs \in Nat /\ yr \in Nat /\ xr \in Nat /\ yt \in Nat
      BY <1>10, <1>11, <1>13
    <2>2. cr + xs = cs + xr /\ ct + yr = cr + yt
      BY <1>10, <1>11
    <2> HIDE DEF cs, cr, ct, xs, yr, xr, yt
    <2>3. ct + (xs + yr) = cs + (xr + yt)
      BY SMT, <2>1, <2>2
    <2> QED BY <2>3 DEF cs, cr, ct, xs, yr, xr, yt
  <1>15. Cardinality(T) + Occurs(t[p], f) = Cardinality(S) + Occurs(s, f)
    BY <1>12, <1>14 DEF Occurs
  <1> QED BY <1>10, <1>11, <1>15 DEF S, T, a

(* fork copies the descriptors of p to q, which has none. *)
FdsOf(o, p, f) == {d \in Fd : o[p][d] = f}

LEMMA FdCopy ==
  ASSUME SetFacts, NEW o \in [Procs -> [Fd -> File \cup {NoFile}]], NEW p \in Procs, NEW q \in Procs,
         \A d \in Fd : o[q][d] = NoFile, NEW f \in File
  PROVE  /\ Cardinality(FdRefs([o EXCEPT ![q] = o[p]], f))
              = Cardinality(FdRefs(o, f)) + Cardinality(FdsOf(o, p, f))
         /\ Cardinality(FdsOf(o, p, f)) \in Nat
  <1> DEFINE a == [o EXCEPT ![q] = o[p]]
             S == FdRefs(o, f)
             T == FdRefs(a, f)
             D == FdsOf(o, p, f)
             U == {x \in {q} \X Fd : o[p][x[2]] = f}
             h == [d \in D |-> <<q, d>>]
  <1>1. f # NoFile
    BY SMT DEF File, NoFile
  <1>2. \A y \in Procs : a[y] = IF y = q THEN o[p] ELSE o[y]
    OBVIOUS
  <1> HIDE DEF a
  <1>3. \A x \in Procs \X Fd : /\ x[1] \in Procs /\ x[2] \in Fd
                               /\ x \in {q} \X Fd <=> x[1] = q
    BY SMT
  <1>4. \A x \in {q} \X Fd : x \in Procs \X Fd
    BY SMT
  <1>5. T = S \cup U /\ S \cap U = {}
    <2>1. \A x \in S : x \in Procs \X Fd /\ o[x[1]][x[2]] = f /\ x[1] # q
      BY <1>1, <1>3 DEF FdRefs
    <2>2. \A x \in U : x \in Procs \X Fd /\ x[1] = q /\ o[p][x[2]] = f
      BY <1>3, <1>4
    <2>3. \A x \in T : x \in Procs \X Fd /\ (IF x[1] = q THEN o[p][x[2]] = f ELSE o[x[1]][x[2]] = f)
      BY <1>2, <1>3 DEF FdRefs
    <2>4. T \subseteq S \cup U
      BY <1>3, <2>3 DEF FdRefs
    <2>5. S \subseteq T /\ U \subseteq T
      BY <1>2, <1>3, <2>1, <2>2 DEF FdRefs
    <2>6. S \cap U = {}
      BY <2>1, <2>2
    <2> HIDE DEF S, T, U
    <2> QED BY <2>4, <2>5, <2>6
  <1>6. U \subseteq T
    BY <1>5
  <1>7. IsFiniteSet(S) /\ IsFiniteSet(T)
    BY FiniteRefs
  <1>8. IsFiniteSet(U)
    BY <1>6, <1>7 DEF SetFacts, FinSubset
  <1>9. IsFiniteSet(D)
    BY FdFinite DEF FdsOf, SetFacts, FinSubset
  <1>10. Cardinality(U) = Cardinality(D)
    <2>1. \A d \in D : <<q, d>> \in U
      BY SMT DEF FdsOf
    <2>2. \A x \in U : \E d \in D : x = <<q, d>>
      BY SMT DEF FdsOf
    <2>3. \A c, d \in D : <<q, c>> = <<q, d>> => c = d
      BY SMT
    <2> HIDE DEF U, D
    <2>4. h \in [D -> U] /\ \A d \in D : h[d] = <<q, d>>
      BY <2>1
    <2> HIDE DEF h
    <2>5. \A c, d \in D : h[c] = h[d] => c = d
      BY <2>3, <2>4
    <2>6. \A x \in U : \E d \in D : h[d] = x
      BY <2>2, <2>4
    <2> QED BY <1>9, <2>4, <2>5, <2>6 DEF SetFacts, FinImage
  <1> HIDE DEF S, T, U, D
  <1>11. Cardinality(T) = Cardinality(S) + Cardinality(U) - Cardinality(S \cap U)
    BY <1>5, <1>7, <1>8 DEF SetFacts, FinUnion
  <1>12. Cardinality(S \cap U) = 0 /\ Cardinality(S) \in Nat /\ Cardinality(D) \in Nat
    BY <1>5, <1>7, <1>9 DEF SetFacts, FinEmpty, FinCard
  <1>13. Cardinality(T) = Cardinality(S) + Cardinality(D)
    BY SMT, <1>10, <1>11, <1>12
  <1> QED BY <1>12, <1>13 DEF S, T, D, a

(* A file with one reference has no second one. *)
LEMMA OnlyRef ==
  ASSUME SetFacts, NEW o, NEW t, NEW f, Cardinality(FdRefs(o, f)) + Cardinality(ToDoRefs(t, f)) = 1
  PROVE  /\ \A x, y \in ToDoRefs(t, f) : x = y
         /\ \A x \in FdRefs(o, f), y \in ToDoRefs(t, f) : FALSE
  <1> DEFINE S == FdRefs(o, f)
             T == ToDoRefs(t, f)
  <1>1. /\ IsFiniteSet(S) /\ IsFiniteSet(T) /\ Cardinality(S) \in Nat /\ Cardinality(T) \in Nat
        /\ Cardinality(S) + Cardinality(T) = 1
    BY FiniteRefs
  <1> HIDE DEF S, T
  <1>2. (Cardinality(S) = 0 /\ Cardinality(T) = 1) \/ (Cardinality(S) = 1 /\ Cardinality(T) = 0)
    BY SMT, <1>1
  <1>3. CASE Cardinality(S) = 0 /\ Cardinality(T) = 1
    <2>1. S = {} /\ \E x : T = {x}
      BY <1>1, <1>3 DEF SetFacts, FinEmpty, FinSingle
    <2> QED BY <2>1 DEF S, T
  <1>4. CASE Cardinality(S) = 1 /\ Cardinality(T) = 0
    <2>1. T = {}
      BY <1>1, <1>4 DEF SetFacts, FinEmpty
    <2> QED BY <2>1 DEF T
  <1> QED BY SMT, <1>2, <1>3, <1>4

(* and one without has none. *)
LEMMA NoRef ==
  ASSUME SetFacts, NEW o, NEW t, NEW f, Cardinality(FdRefs(o, f)) + Cardinality(ToDoRefs(t, f)) = 0
  PROVE  FdRefs(o, f) = {} /\ ToDoRefs(t, f) = {}
  <1> DEFINE S == FdRefs(o, f)
             T == ToDoRefs(t, f)
  <1>1. /\ IsFiniteSet(S) /\ IsFiniteSet(T) /\ Cardinality(S) \in Nat /\ Cardinality(T) \in Nat
        /\ Cardinality(S) + Cardinality(T) = 0
    BY FiniteRefs
  <1> HIDE DEF S, T
  <1>2. Cardinality(S) = 0 /\ Cardinality(T) = 0
    BY SMT, <1>1
  <1> QED BY <1>1, <1>2 DEF S, T, SetFacts, FinEmpty

-----------------------------------------------------------------------------
(* filealloc and fdalloc take the first of what is free. *)

LEMMA LowestIn == ASSUME SetFacts, NEW S \in SUBSET Fd, S # {} PROVE Lowest(S) \in S
  <1>1. \E d \in S : \A e \in S : d <= e
    BY FdsAre DEF SetFacts, NatLeast
  <1> QED BY <1>1 DEF Lowest

LEMMA FirstFreeIn == ASSUME SetFacts, FreeFiles # {} PROVE FirstFree \in File /\ ref[FirstFree] = 0
  <1>1. FreeFiles \subseteq Nat
    BY FdsAre DEF FreeFiles
  <1>2. \E f \in FreeFiles : \A g \in FreeFiles : f <= g
    BY <1>1 DEF SetFacts, NatLeast
  <1>3. FirstFree \in FreeFiles
    BY <1>2 DEF FirstFree
  <1> QED BY <1>3 DEF FreeFiles

LEMMA TwoLowest ==
  ASSUME SetFacts, NEW p \in Procs, Cardinality(FreeFds(p)) >= 2
  PROVE  LET d == Lowest(FreeFds(p))
             e == Lowest(FreeFds(p) \ {d})
         IN  d \in Fd /\ e \in Fd /\ d # e /\ ofile[p][d] = NoFile /\ ofile[p][e] = NoFile
  <1> DEFINE S == FreeFds(p)
             d == Lowest(S)
             R == S \ {d}
  <1>1. S \subseteq Fd
    BY DEF FreeFds
  <1> HIDE DEF S
  <1>2. IsFiniteSet(S)
    BY <1>1, FdFinite DEF SetFacts, FinSubset
  <1>3. Cardinality(S) \in Nat /\ Cardinality(S) >= 2
    BY <1>2 DEF S, SetFacts, FinCard
  <1>4. S # {}
    <2>1. Cardinality(S) # 0
      BY SMT, <1>3
    <2> QED BY <2>1 DEF SetFacts, FinEmpty
  <1>5. d \in S
    BY <1>1, <1>4, LowestIn
  <1> HIDE DEF d
  <1>6. Cardinality(R) = Cardinality(S) - 1
    BY <1>2, <1>5 DEF SetFacts, FinRemove
  <1>7. R # {}
    <2>1. Cardinality(R) # 0
      BY SMT, <1>3, <1>6
    <2> QED BY <2>1 DEF SetFacts, FinEmpty
  <1>8. Lowest(R) \in R
    <2>1. R \subseteq Fd
      BY <1>1
    <2> HIDE DEF R
    <2> QED BY <1>7, <2>1, LowestIn
  <1>9. \A x \in S : x \in Fd /\ ofile[p][x] = NoFile
    BY DEF S, FreeFds
  <1>10. d \in Fd /\ Lowest(R) \in Fd /\ d # Lowest(R) /\ ofile[p][d] = NoFile /\ ofile[p][Lowest(R)] = NoFile
    BY <1>5, <1>8, <1>9
  <1> QED BY <1>10 DEF d, S

LEMMA ToDoHasRef ==
  ASSUME SetFacts, IInv, NEW p \in Procs, NEW i \in {1, 2}, i <= Len(todo[p])
  PROVE  /\ todo[p][i] \in File /\ ref[todo[p][i]] \in Nat /\ ref[todo[p][i]] >= 1
         /\ ref[todo[p][i]] = 1 =>
              /\ \A q \in Procs, d \in Fd : ofile[q][d] # todo[p][i]
              /\ \A q \in Procs, j \in {1, 2} :
                   j <= Len(todo[q]) /\ todo[q][j] = todo[p][i] => q = p /\ j = i
  <1> DEFINE f == todo[p][i]
  <1>1. todo[p] \in Seq(File) /\ ref \in [File -> Nat]
    BY DEF IInv, Types, FileTypes, CallTypes
  <1>2. f \in File
    BY SMT, <1>1
  <1>3. ref[f] \in Nat /\ ref[f] = Cardinality(FdRefs(ofile, f)) + Cardinality(ToDoRefs(todo, f))
    BY <1>1, <1>2, RefsAre DEF IInv
  <1>4. \A q \in Procs, j \in {1, 2} :
          j <= Len(todo[q]) /\ todo[q][j] = f => <<q, j>> \in ToDoRefs(todo, f)
    BY SMT DEF ToDoRefs
  <1>5. \A q \in Procs, d \in Fd : ofile[q][d] = f => <<q, d>> \in FdRefs(ofile, f)
    BY SMT DEF FdRefs
  <1>6. <<p, i>> \in ToDoRefs(todo, f)
    BY <1>4
  <1> HIDE DEF f
  <1>7. ref[f] # 0
    BY <1>3, <1>6, NoRef
  <1>8. ref[f] >= 1
    BY SMT, <1>3, <1>7
  <1>9. ASSUME ref[f] = 1
        PROVE  /\ \A q \in Procs, d \in Fd : ofile[q][d] # f
               /\ \A q \in Procs, j \in {1, 2} : j <= Len(todo[q]) /\ todo[q][j] = f => q = p /\ j = i
    <2>1. /\ \A x, y \in ToDoRefs(todo, f) : x = y
          /\ \A x \in FdRefs(ofile, f), y \in ToDoRefs(todo, f) : FALSE
      BY <1>3, <1>9, OnlyRef
    <2>2. \A q, j : <<q, j>> = <<p, i>> => q = p /\ j = i
      BY SMT
    <2>3. \A q \in Procs, d \in Fd : ofile[q][d] # f
      BY <1>5, <1>6, <2>1
    <2>4. \A q \in Procs, j \in {1, 2} : j <= Len(todo[q]) /\ todo[q][j] = f => q = p /\ j = i
      BY <1>4, <1>6, <2>1, <2>2
    <2> QED BY SMT, <2>3, <2>4
  <1> QED BY <1>2, <1>3, <1>8, <1>9 DEF f

-----------------------------------------------------------------------------
(* What a step that leaves a part of the state alone keeps. *)

LEMMA ToDoOnce ==
  ASSUME SetFacts, IInv, NEW p \in Procs, NEW i \in Slot, i <= Len(todo[p]), ref[todo[p][i]] = 1,
         NEW q \in Procs, NEW j \in Slot, j <= Len(todo[q]), todo[q][j] = todo[p][i]
  PROVE  q = p /\ j = i
  <1>1. \A x \in Procs, y \in Slot : y <= Len(todo[x]) /\ todo[x][y] = todo[p][i] => x = p /\ y = i
    BY ToDoHasRef DEF Slot
  <1> QED BY <1>1

LEMMA ToDoAlone ==
  ASSUME SetFacts, IInv, NEW p \in Procs, NEW i \in Slot, i <= Len(todo[p]), ref[todo[p][i]] = 1,
         NEW q \in Procs, NEW d \in Fd
  PROVE  ofile[q][d] # todo[p][i]
  <1>1. \A x \in Procs, y \in Fd : ofile[x][y] # todo[p][i]
    BY ToDoHasRef DEF Slot
  <1> QED BY <1>1

-----------------------------------------------------------------------------
(* The files of a new pipe: from the table to pipealloc's hands, and on to *)
(* the descriptors.                                                        *)

(* filealloc takes a file. *)
LEMMA Allocate ==
  ASSUME SetFacts, IInv, NEW p \in Procs, filealloc(p), FreeFiles # {}
  PROVE  IInv'
  <1>1. /\ UNCHANGED <<type, wr, fpipe, ofile, pi, mem, plock, stranded, killed, file, left, exiting, ff, panic>>
        /\ pc[p] \in {"user", "pipealloc"}
    BY SMT DEF filealloc, pipes, User, Is
  <1> DEFINE h == FirstFree
             t == Append(todo[p], h)
             l == IF todo[p] = <<>> THEN "pipealloc" ELSE "kalloc"
  <1>2. h \in File /\ ref[h] = 0
    BY FirstFreeIn
  <1>3. /\ ref \in [File -> Nat] /\ todo \in [Procs -> Seq(File)] /\ pc \in [Procs -> Labels]
        /\ type \in [File -> {"none", "pipe"}] /\ ofile \in [Procs -> [Fd -> File \cup {NoFile}]]
    BY DEF IInv, Types, FileTypes, CallTypes
  <1>4. /\ ref' = [ref EXCEPT ![h] = 1] /\ todo' = [todo EXCEPT ![p] = t]
        /\ pc' = [pc EXCEPT ![p] = l]
    <2>1. /\ ref' = [ref EXCEPT ![h] = 1] /\ todo' = [todo EXCEPT ![p] = Append(@, h)]
          /\ pc' = [pc EXCEPT ![p] = l]
      BY DEF filealloc, Goto
    <2> QED BY <1>3, <2>1
  <1> HIDE DEF h
  <1>5. todo[p] \in Seq(File) /\ Len(todo[p]) \in ToDo(pc[p]) /\ ff[p] = NoFF
    <2>1. pc[p] # "pipeclose"
      BY SMT, <1>1
    <2> QED BY <1>3, <2>1 DEF IInv, CallInv, CallOk
  <1>6. \/ todo[p] = <<>> /\ pc[p] = "user"
        \/ Len(todo[p]) = 1 /\ pc[p] = "pipealloc"
    <2>1. pc[p] = "user" => ToDo(pc[p]) = {0}
      BY SMT DEF ToDo
    <2>2. pc[p] = "pipealloc" => ToDo(pc[p]) = {1}
      BY SMT DEF ToDo
    <2>3. Len(todo[p]) = 0 => todo[p] = <<>>
      BY SMT, <1>5
    <2> QED BY <1>1, <1>5, <2>1, <2>2, <2>3
  <1>7. /\ t \in Seq(File) /\ Len(t) = Len(todo[p]) + 1 /\ t[Len(t)] = h
        /\ \A i \in 1 .. Len(todo[p]) : t[i] = todo[p][i]
    BY SMT, <1>2, <1>5
  <1>8. l \in Building /\ Len(t) \in ToDo(l) /\ Len(todo[p]) \in {0, 1} /\ (l = "kalloc" => Len(todo[p]) = 1)
        /\ (Len(todo[p]) = 1 => pc[p] \in Building)
    <2>1. CASE todo[p] = <<>> /\ pc[p] = "user"
      <3>1. l = "pipealloc" /\ Len(todo[p]) = 0
        BY SMT, <2>1
      <3>2. Len(t) = 1
        BY SMT, <1>7, <3>1
      <3> HIDE DEF l, t
      <3> QED BY SMT, <3>1, <3>2 DEF Building, ToDo
    <2>2. CASE Len(todo[p]) = 1 /\ pc[p] = "pipealloc"
      <3>1. l = "kalloc"
        <4>1. Len(<<>>) # 1
          BY SMT
        <4> QED BY <2>2, <4>1
      <3>2. Len(t) = 2
        BY SMT, <1>7, <2>2
      <3> HIDE DEF l, t
      <3> QED BY SMT, <2>2, <3>1, <3>2 DEF Building, ToDo
    <2> QED BY <1>6, <2>1, <2>2
  <1>9. l \in Labels /\ l \notin Rw /\ pc[p] \notin Rw /\ l # "unused" /\ l # "pipeclose"
    BY <1>6 DEF Labels, Building, Rw, Reading, Writing
  <1> HIDE DEF t, l
  <1>10. /\ pc' \in [Procs -> Labels] /\ pc'[p] = l /\ todo' \in [Procs -> Seq(File)] /\ todo'[p] = t
         /\ \A q \in Procs : q # p => pc'[q] = pc[q] /\ todo'[q] = todo[q]
    <2>1. pc' \in [Procs -> Labels] /\ pc'[p] = l /\ \A q \in Procs : q # p => pc'[q] = pc[q]
      BY <1>3, <1>4, <1>9
    <2>2. todo' \in [Procs -> Seq(File)] /\ todo'[p] = t /\ \A q \in Procs : q # p => todo'[q] = todo[q]
      BY <1>3, <1>4, <1>7
    <2> QED BY <2>1, <2>2
  <1>11. ref' \in [File -> Nat] /\ ref'[h] = 1 /\ \A f \in File : f # h => ref'[f] = ref[f]
    BY SMT, <1>2, <1>3, <1>4
  <1>12. FileTypes' /\ PipeTypes' /\ CallTypes'
    BY <1>1, <1>10, <1>11 DEF IInv, Types, FileTypes, PipeTypes, CallTypes
  <1>13. CallInv'
    <2>1. CallOk(p)'
      BY <1>1, <1>5, <1>8, <1>9, <1>10 DEF CallOk, ToDo
    <2> QED BY <1>1, <1>10, <2>1, CallSame DEF IInv, CallInv
  <1>14. RefsCounted /\ panic = "none"
    BY DEF IInv, RefsCounted
  <1>15. FdRefs(ofile, h) = {} /\ ToDoRefs(todo, h) = {}
    <2>1. Cardinality(FdRefs(ofile, h)) + Cardinality(ToDoRefs(todo, h)) = 0
      BY <1>2, <1>14, RefsAre
    <2> QED BY <2>1, NoRef
  <1>16. RefsCounted'
    <2>1. ASSUME NEW f \in File
          PROVE  ref'[f] = Cardinality(FdRefs(ofile, f)) + Cardinality(ToDoRefs(todo', f))
      <3> DEFINE a == Cardinality(FdRefs(ofile, f))
                 b == Cardinality(ToDoRefs(todo, f))
                 c == Cardinality(ToDoRefs(todo', f))
      <3>1. ref[f] = a + b
        BY <1>14, RefsAre
      <3>2. a \in Nat
        BY FiniteRefs
      <3>3. c + Occurs(todo[p], f) = b + Occurs(t, f) /\ b \in Nat /\ c \in Nat
        <4>1. todo' = [todo EXCEPT ![p] = t] /\ todo \in [Procs -> Seq(File)] /\ t \in Seq(File)
          BY <1>3, <1>4, <1>7
        <4> QED BY <4>1, ToDoSet
      <3>4. Occurs(t, f) = Occurs(todo[p], f) + One(f = h) /\ Occurs(todo[p], f) \in Nat
        BY SMT, <1>7, <1>8 DEF Occurs, One
      <3> HIDE DEF a, b, c
      <3>5. c = b + One(f = h)
        BY SMT, <3>3, <3>4 DEF One
      <3>6. CASE f = h
        BY SMT, <1>2, <1>11, <3>1, <3>2, <3>3, <3>5, <3>6 DEF One, a, c
      <3>7. CASE f # h
        BY SMT, <1>11, <3>1, <3>2, <3>3, <3>5, <3>7 DEF One, a, c
      <3> QED BY SMT, <3>6, <3>7
    <2>2. panic' = "none" /\ ofile' = ofile
      BY SMT, <1>1, <1>14
    <2>3. \A f \in File : ref'[f] = Cardinality(FdRefs(ofile', f)) + Cardinality(ToDoRefs(todo', f))
      BY <2>1, <2>2
    <2> QED BY <2>2, <2>3, RefsNext
  <1>17. FileInv'
    <2>1. /\ \A f \in File : type[f] = "pipe" <=> fpipe[f] \in Pipes
          /\ \A f \in File : ref[f] = 0 => type[f] = "none"
          /\ \A q \in Procs, d \in Fd : ofile[q][d] # NoFile => type[ofile[q][d]] = "pipe"
          /\ \A q \in Procs : pc[q] \in Building =>
               \A i \in 1 .. Len(todo[q]) : ref[todo[q][i]] = 1 /\ type[todo[q][i]] = "none"
          /\ \A q \in Procs : pc[q] = "kalloc" => todo[q][1] # todo[q][2]
      BY DEF IInv, FileInv, TypeOk, FreeOk, FdOk, BuildOk, PairOk
    <2>2. type[h] = "none"
      BY <1>2, <2>1
    <2>3. \A f \in File : ref'[f] = 0 => type[f] = "none"
      <3>1. ref'[h] # 0
        BY SMT, <1>11
      <3>2. \A f \in File : ref[f] = 0 => type[f] = "none"
        BY <2>1
      <3> QED BY <1>11, <2>2, <3>1, <3>2
    <2>4. ASSUME NEW q \in Procs, pc'[q] \in Building, NEW i \in 1 .. Len(todo'[q])
          PROVE  ref'[todo'[q][i]] = 1 /\ type[todo'[q][i]] = "none"
      <3>1. CASE i \in 1 .. Len(todo[q]) /\ pc[q] \in Building /\ todo'[q][i] = todo[q][i]
        <4>1. ref[todo[q][i]] = 1 /\ type[todo[q][i]] = "none"
          BY <2>1, <3>1
        <4>2. todo[q][i] \in File
          BY SMT, <1>3, <3>1
        <4>3. todo[q][i] # h
          BY SMT, <1>2, <4>1
        <4> QED BY <1>11, <3>1, <4>1, <4>2, <4>3
      <3>2. CASE q # p
        BY <1>10, <2>4, <3>1, <3>2
      <3>3. CASE q = p
        <4>1. i \in 1 .. Len(todo[p]) \/ i = Len(t)
          BY SMT, <1>5, <1>7, <1>10, <2>4, <3>3
        <4>2. CASE i = Len(t)
          BY <1>7, <1>10, <1>11, <2>2, <3>3, <4>2
        <4>3. CASE i \in 1 .. Len(todo[p])
          <5>1. Len(todo[p]) = 1
            BY SMT, <1>5, <1>8, <4>3
          <5> QED BY <1>7, <1>8, <1>10, <3>1, <3>3, <4>3, <5>1
        <4> QED BY <4>1, <4>2, <4>3
      <3> QED BY SMT, <3>2, <3>3
    <2>5. ASSUME NEW q \in Procs, pc'[q] = "kalloc"
          PROVE  todo'[q][1] # todo'[q][2]
      <3>1. CASE q # p
        <4>1. pc[q] = "kalloc" /\ todo'[q] = todo[q]
          BY <1>10, <2>5, <3>1
        <4> QED BY <2>1, <4>1
      <3>2. CASE q = p
        <4>1. Len(todo[p]) = 1
          BY <1>8, <1>10, <2>5, <3>2
        <4>2. t[1] = todo[p][1] /\ t[2] = h
          BY SMT, <1>7, <4>1
        <4>3. ref[todo[p][1]] = 1
          <5>1. 1 \in 1 .. Len(todo[p]) /\ pc[p] \in Building
            BY SMT, <1>8, <4>1
          <5> QED BY <2>1, <5>1
        <4>4. h # todo[p][1]
          BY SMT, <1>2, <4>3
        <4> QED BY <1>10, <3>2, <4>2, <4>4
      <3> QED BY SMT, <3>1, <3>2
    <2>6. type' = type /\ fpipe' = fpipe /\ ofile' = ofile
      BY SMT, <1>1
    <2>7. \A f \in File : type'[f] = "pipe" <=> fpipe'[f] \in Pipes
      BY <2>1, <2>6
    <2>8. \A q \in Procs, d \in Fd : ofile'[q][d] # NoFile => type'[ofile'[q][d]] = "pipe"
      BY <2>1, <2>6
    <2>9. /\ \A f \in File : ref'[f] = 0 => type'[f] = "none"
          /\ \A q \in Procs : pc'[q] \in Building =>
               \A i \in 1 .. Len(todo'[q]) : ref'[todo'[q][i]] = 1 /\ type'[todo'[q][i]] = "none"
      BY <2>3, <2>4, <2>6
    <2> HIDE <2>1, <2>3, <2>4
    <2> QED BY <2>5, <2>7, <2>8, <2>9 DEF FileInv, TypeOk, FreeOk, FdOk, BuildOk, PairOk
  <1>18. EndInv' /\ EndsOpen' /\ RingInv'
    BY <1>1, EndsKept
  <1>19. RwInv'
    BY <1>1, <1>9, <1>10, RwKept DEF RwSame
  <1> QED BY <1>12, <1>13, <1>16, <1>17, <1>18, <1>19 DEF IInv, Types, RwInv

(* The two files go from the hands of pipealloc to the descriptors, or     *)
(* stay there to be closed.                                                *)
Given(p, r, w) ==
  /\ ofile' \in [Procs -> [Fd -> File \cup {NoFile}]] /\ todo' \in [Procs -> Seq(File)]
  /\ \A q \in Procs : q # p => ofile'[q] = ofile[q] /\ todo'[q] = todo[q] /\ pc'[q] = pc[q]
  /\ \A x \in Fd : ofile'[p][x] = ofile[p][x] \/ ofile'[p][x] = r \/ ofile'[p][x] = w
  /\ pc' \in [Procs -> Labels] /\ pc'[p] \in {"user", "fileclose"} /\ Len(todo'[p]) \in ToDo(pc'[p])
  /\ \A f \in File : Cardinality(FdRefs(ofile', f)) + Cardinality(ToDoRefs(todo', f))
                       = Cardinality(FdRefs(ofile, f)) + Cardinality(ToDoRefs(todo, f))

LEMMA GivenFiles ==
  ASSUME SetFacts, IInv, NEW p \in Procs, NEW g \in Pipes, pipealloc(p, g)
  PROVE  Given(p, todo[p][1], todo[p][2])
  <1> DEFINE r == todo[p][1]
             w == todo[p][2]
             d == Lowest(FreeFds(p))
             e == Lowest(FreeFds(p) \ {d})
             Fits == /\ Cardinality(FreeFds(p)) >= 2
                     /\ ofile' = [ofile EXCEPT ![p][d] = r, ![p][e] = w]
                     /\ todo' = [todo EXCEPT ![p] = <<>>]
                     /\ pc' = [pc EXCEPT ![p] = "user"]
             Fails == pc' = [pc EXCEPT ![p] = "fileclose"] /\ ofile' = ofile /\ todo' = todo
  <1>1. Fits \/ Fails
    BY SMT DEF pipealloc, Goto
  <1>2. Made(p, g, r, w)
    BY MadePipe
  <1>3. /\ ofile \in [Procs -> [Fd -> File \cup {NoFile}]] /\ todo \in [Procs -> Seq(File)]
        /\ pc \in [Procs -> Labels]
    BY DEF IInv, Types, FileTypes, CallTypes
  <1>4. "user" \in Labels /\ "fileclose" \in Labels /\ 0 \in ToDo("user") /\ 2 \in ToDo("fileclose")
    BY SMT DEF Labels, ToDo
  <1>5. r \in File /\ w \in File /\ r # w /\ Len(todo[p]) = 2
    BY <1>2 DEF Made
  <1>6. CASE Fails
    <2> HIDE DEF r, w
    <2>1. pc' = [pc EXCEPT ![p] = "fileclose"] /\ ofile' = ofile /\ todo' = todo
      BY <1>6
    <2>2. /\ pc' \in [Procs -> Labels] /\ pc'[p] = "fileclose"
          /\ \A q \in Procs : q # p => pc'[q] = pc[q]
      BY <1>3, <1>4, <2>1
    <2>3. pc'[p] \in {"user", "fileclose"} /\ Len(todo'[p]) \in ToDo(pc'[p])
      BY <1>4, <1>5, <2>1, <2>2
    <2> HIDE DEF Fails
    <2>4. Given(p, r, w)
      BY <1>3, <2>1, <2>2, <2>3 DEF Given
    <2> QED BY <2>4 DEF r, w
  <1>7. CASE Fits
    <2>1. d \in Fd /\ e \in Fd /\ d # e /\ ofile[p][d] = NoFile /\ ofile[p][e] = NoFile
      BY <1>7, TwoLowest
    <2> HIDE DEF d, e
    <2>2. /\ ofile' = [ofile EXCEPT ![p][d] = r, ![p][e] = w]
          /\ todo' = [todo EXCEPT ![p] = <<>>] /\ pc' = [pc EXCEPT ![p] = "user"]
      BY <1>7
    <2> HIDE DEF Fits
    <2> DEFINE o == [ofile EXCEPT ![p][d] = r]
    <2>3. o \in [Procs -> [Fd -> File \cup {NoFile}]] /\ ofile' = [o EXCEPT ![p][e] = w] /\ o[p][e] = NoFile
      BY SMT, <1>3, <1>5, <2>1, <2>2
    <2>4. /\ \A q \in Procs : q # p => o[q] = ofile[q]
          /\ \A x \in Fd : o[p][x] = ofile[p][x] \/ o[p][x] = r
      BY SMT, <1>3, <2>1
    <2> HIDE DEF r, w
    <2>5. ASSUME NEW f \in File
          PROVE  /\ Cardinality(FdRefs(o, f)) + One(ofile[p][d] = f) = Cardinality(FdRefs(ofile, f)) + One(r = f)
                 /\ Cardinality(FdRefs(ofile, f)) \in Nat /\ Cardinality(FdRefs(o, f)) \in Nat
      BY <1>3, <2>1, FdSet
    <2> HIDE DEF o
    <2>6. ASSUME NEW f \in File
          PROVE  /\ Cardinality(FdRefs(ofile', f)) + One(o[p][e] = f) = Cardinality(FdRefs(o, f)) + One(w = f)
                 /\ Cardinality(FdRefs(ofile', f)) \in Nat
      <3>1. o \in [Procs -> [Fd -> File \cup {NoFile}]] /\ e \in Fd
        BY <2>1, <2>3
      <3>2. /\ Cardinality(FdRefs([o EXCEPT ![p][e] = w], f)) + One(o[p][e] = f)
                 = Cardinality(FdRefs(o, f)) + One(w = f)
            /\ Cardinality(FdRefs(o, f)) \in Nat
            /\ Cardinality(FdRefs([o EXCEPT ![p][e] = w], f)) \in Nat
        BY <3>1, FdSet
      <3>3. ofile' = [o EXCEPT ![p][e] = w]
        BY <2>3
      <3> QED BY <3>2, <3>3
    <2>7. /\ ofile' \in [Procs -> [Fd -> File \cup {NoFile}]]
          /\ \A q \in Procs : q # p => ofile'[q] = o[q]
          /\ \A x \in Fd : ofile'[p][x] = o[p][x] \/ ofile'[p][x] = w
      BY SMT, <1>5, <2>1, <2>3
    <2>8. /\ pc' \in [Procs -> Labels] /\ pc'[p] = "user"
          /\ \A q \in Procs : q # p => pc'[q] = pc[q]
      BY <1>3, <1>4, <2>2
    <2>9. /\ todo' \in [Procs -> Seq(File)] /\ todo'[p] = <<>>
          /\ \A q \in Procs : q # p => todo'[q] = todo[q]
      BY SMT, <1>3, <2>2
    <2>10. pc'[p] \in {"user", "fileclose"} /\ Len(todo'[p]) \in ToDo(pc'[p])
      BY SMT, <1>4, <2>8, <2>9
    <2>11. ASSUME NEW f \in File
           PROVE  Cardinality(FdRefs(ofile', f)) + Cardinality(ToDoRefs(todo', f))
                    = Cardinality(FdRefs(ofile, f)) + Cardinality(ToDoRefs(todo, f))
      <3> DEFINE a == Cardinality(FdRefs(ofile, f))
                 b == Cardinality(FdRefs(o, f))
                 c == Cardinality(FdRefs(ofile', f))
                 s == Cardinality(ToDoRefs(todo, f))
                 t == Cardinality(ToDoRefs(todo', f))
      <3>1. b + 0 = a + One(r = f) /\ a \in Nat /\ b \in Nat
        <4>1. One(ofile[p][d] = f) = 0
          BY SMT, <2>1, FdsAre DEF One
        <4> QED BY <2>5, <4>1
      <3>2. c + 0 = b + One(w = f) /\ c \in Nat
        <4>1. One(o[p][e] = f) = 0
          BY SMT, <2>3, FdsAre DEF One
        <4> QED BY <2>6, <4>1
      <3>3. t + Occurs(todo[p], f) = s + Occurs(<<>>, f) /\ s \in Nat /\ t \in Nat
        <4>1. <<>> \in Seq(File) /\ todo' = [todo EXCEPT ![p] = <<>>]
          BY SMT, <2>2
        <4> QED BY <1>3, <4>1, ToDoSet
      <3>4. Occurs(<<>>, f) = 0
        BY SMT DEF Occurs, One
      <3>5. Occurs(todo[p], f) = One(r = f) + One(w = f)
        <4>1. 1 <= Len(todo[p]) /\ 2 <= Len(todo[p])
          BY SMT, <1>5
        <4> QED BY SMT, <4>1 DEF Occurs, One, r, w
      <3>6. One(r = f) \in Nat /\ One(w = f) \in Nat
        BY SMT DEF One
      <3> DEFINE y == One(r = f)
                 z == One(w = f)
      <3>8. t + (y + z) = s + 0
        BY <3>3, <3>4, <3>5
      <3>9. b + 0 = a + y /\ c + 0 = b + z /\ y \in Nat /\ z \in Nat /\ a \in Nat /\ b \in Nat /\ c \in Nat
            /\ s \in Nat /\ t \in Nat
        BY <3>1, <3>2, <3>3, <3>6
      <3> HIDE DEF a, b, c, s, t, y, z
      <3>10. c + t = a + s
        BY SMT, <3>8, <3>9
      <3> QED BY <3>10 DEF a, c, s, t
    <2>12. \A x \in Fd : ofile'[p][x] = ofile[p][x] \/ ofile'[p][x] = r \/ ofile'[p][x] = w
      BY <2>4, <2>7
    <2>13. Given(p, r, w)
      BY <2>4, <2>7, <2>8, <2>9, <2>10, <2>11, <2>12 DEF Given
    <2> QED BY <2>13 DEF r, w
  <1> QED BY <1>1, <1>6, <1>7
=============================================================================
