--------------------------- MODULE ConsoleProofs ----------------------------
(***************************************************************************)
(* The console of module Console, for any number of processes, any sizes   *)
(* of the two rings and any width of their indices: no sleeper is          *)
(* forgotten, and the ring implements the line discipline of module Tty.   *)
(***************************************************************************)
EXTENDS Console, SequenceTheorems, WellFoundedInduction, TLAPS

Stored == {"x", "nl", "^D"}
Index == 0 .. M - 1
TxIndex == 0 .. TxM - 1
Labels == {"user", "read", "read sleep", "read asleep", "put", "put asleep"}

Types ==
  /\ buf \in [0 .. Size - 1 -> Stored]
  /\ r \in Index /\ w \in Index /\ e \in Index
  /\ txr \in TxIndex /\ txw \in TxIndex
  /\ lock \in Readers \cup {Free, Intr}
  /\ pc \in [Readers \cup Writers -> Labels]
  /\ hpc = "cons" => hc \in Stored \cup {"^U", "^H", "^P"}

(* How many characters are complete, and how many are being edited. *)
Done == (w - r) % M

(* The handler has cons.lock from uartgetc to the end of consoleintr, and  *)
(* a process from its last test of r and w to the sleep.                   *)
LockInv ==
  /\ hpc = "cons" => lock = Intr
  /\ \A p \in Readers : pc[p] = "read sleep" => lock = p /\ r = w

(* Going round from r one comes to w and then to e, and not round to r.    *)
RingInv == Done + Pending = (e - r) % M /\ (e - r) % M <= Size

CInv == Types /\ LockInv /\ RingInv /\ NoLostWakeup
-----------------------------------------------------------------------------
(* The indices. *)

LEMMA ModRange == ASSUME NEW m \in Nat \ {0}, NEW a \in Int PROVE a % m \in 0 .. m - 1
  BY SMT

LEMMA DivMod ==
  ASSUME NEW m \in Nat \ {0}, NEW a \in Int
  PROVE  a \div m \in Int /\ a = m * (a \div m) + (a % m)
  BY SMT

LEMMA ModIs ==
  ASSUME NEW m \in Nat \ {0}, NEW a \in Int, NEW q \in Int, NEW x \in 0 .. m - 1, a = m * q + x
  PROVE  a % m = x
  BY SMT

LEMMA ModSmall == ASSUME NEW m \in Nat \ {0}, NEW a \in 0 .. m - 1 PROVE a % m = a
  BY SMT

(* The distance between two indices, and the index after one. *)
LEMMA Distance ==
  ASSUME NEW m \in Nat \ {0}, NEW i \in 0 .. m - 1, NEW j \in 0 .. m - 1
  PROVE  /\ (j - i) % m \in 0 .. m - 1
         /\ i <= j => (j - i) % m = j - i
         /\ j < i => (j - i) % m = j - i + m
  <1>1. (j - i) % m \in 0 .. m - 1
    BY SMT
  <1>2. i <= j => (j - i) % m = j - i
    BY SMT
  <1>3. j < i => (j - i) % m = j - i + m
    BY SMT
  <1> QED BY <1>1, <1>2, <1>3

LEMMA Wraps ==
  ASSUME NEW m \in Nat \ {0}, NEW i \in 0 .. m - 1, NEW k \in 0 .. m - 1
  PROVE  /\ i + k < m => (i + k) % m = i + k
         /\ m <= i + k => (i + k) % m = i + k - m
         /\ k <= i => (i - k) % m = i - k
         /\ i < k => (i - k) % m = i - k + m
         /\ (i + k) % m \in 0 .. m - 1 /\ (i - k) % m \in 0 .. m - 1
  <1>1. i + k < m => (i + k) % m = i + k
    BY SMT
  <1>2. m <= i + k => (i + k) % m = i + k - m
    BY SMT
  <1>3. k <= i => (i - k) % m = i - k
    BY SMT
  <1>4. i < k => (i - k) % m = i - k + m
    BY SMT
  <1>5. (i + k) % m \in 0 .. m - 1 /\ (i - k) % m \in 0 .. m - 1
    BY SMT
  <1> QED BY <1>1, <1>2, <1>3, <1>4, <1>5

(* The place of an index in the ring does not change when it wraps. *)
LEMMA Place == ASSUME NEW x \in Int PROVE (x % M) % Size = x % Size /\ x % Size \in 0 .. Size - 1
  <1>1. Size \in Nat \ {0} /\ M \in Nat \ {0} /\ M % Size = 0
    BY ConsoleAssumption
  <1>2. M = Size * (M \div Size) /\ M \div Size \in Int
    BY <1>1, DivMod
  <1>3. x \div M \in Int /\ x = M * (x \div M) + (x % M) /\ x % M \in Int
    BY <1>1, DivMod, ModRange
  <1>4. /\ x \div Size \in Int /\ x = Size * (x \div Size) + (x % Size)
        /\ x % Size \in 0 .. Size - 1
    BY <1>1, DivMod, ModRange
  <1> DEFINE a == x \div M
             b == x \div Size
             c == M \div Size
             y == x % M
             z == x % Size
             s == Size
  <1>5. a \in Int /\ b \in Int /\ c \in Int /\ y \in Int /\ z \in Int /\ s \in Int
    BY <1>1, <1>2, <1>3, <1>4
  <1>6. M = s * c /\ x = M * a + y /\ x = s * b + z
    BY <1>2, <1>3, <1>4
  <1> HIDE DEF a, b, c, y, z, s
  <1>7. PICK q \in Int : y = s * q + z
    <2>1. y = s * (b - c * a) + z /\ b - c * a \in Int
      BY <1>5, <1>6
    <2> QED BY Zenon, <2>1
  <1>8. s \in Nat \ {0} /\ z \in 0 .. s - 1
    BY <1>1, <1>4 DEF s, z
  <1>9. y % s = z
    BY Zenon, <1>5, <1>7, <1>8, ModIs
  <1> QED BY Zenon, <1>4, <1>9 DEF y, z, s

LEMMA PlaceSum == ASSUME NEW x \in Int, NEW z \in Int PROVE (x + z) % Size = ((x % M) + z) % Size
  <1>1. Size \in Nat \ {0} /\ M \in Nat \ {0} /\ M % Size = 0
    BY ConsoleAssumption
  <1> DEFINE a == x \div M
             c == M \div Size
             y == x % M
             s == Size
             d == (y + z) \div s
             v == (y + z) % s
  <1>2. c \in Int /\ M = s * c
    BY <1>1, DivMod
  <1>3. a \in Int /\ y \in Int /\ x = M * a + y
    BY <1>1, DivMod, ModRange
  <1>4. s \in Nat \ {0} /\ y + z \in Int
    BY <1>1, <1>3
  <1> HIDE DEF a, c, y, s
  <1>5. d \in Int /\ v \in 0 .. s - 1 /\ y + z = s * d + v
    BY <1>4, DivMod, ModRange
  <1> HIDE DEF d, v
  <1>6. PICK q \in Int : x + z = s * q + v
    <2>1. x + z = s * (c * a + d) + v /\ c * a + d \in Int
      BY <1>2, <1>3, <1>4, <1>5
    <2> QED BY Zenon, <2>1
  <1>7. x + z \in Int
    OBVIOUS
  <1>8. (x + z) % s = v
    BY Zenon, <1>4, <1>5, <1>6, <1>7, ModIs
  <1> QED BY Zenon, <1>8 DEF v, s, y

(* Two indices that are less than a round apart have different places. *)
LEMMA Apart ==
  ASSUME NEW x \in Int, NEW y \in Int, x < y, y - x < Size PROVE x % Size # y % Size
  <1>1. Size \in Nat \ {0}
    BY ConsoleAssumption
  <1> SUFFICES ASSUME x % Size = y % Size PROVE FALSE
    OBVIOUS
  <1> DEFINE a == x \div Size
             b == y \div Size
             z == x % Size
             s == Size
  <1>2. a \in Int /\ b \in Int /\ z \in Int /\ x = s * a + z /\ y = s * b + z
    BY <1>1, DivMod, ModRange
  <1>3. s \in Nat \ {0} /\ y - x < s
    BY <1>1
  <1> HIDE DEF a, b, z, s
  <1>4. y - x = s * (b - a) /\ b - a \in Int
    BY <1>2, <1>3
  <1>5. \A d, k \in Int : ~(d = s * k /\ 0 < d /\ d < s)
    BY <1>3
  <1> QED BY <1>3, <1>4, <1>5

(* The distance from i to j, and what it becomes when one end moves. *)
LEMMA DistanceIs ==
  ASSUME NEW i \in Index, NEW j \in Index
  PROVE  /\ (j - i) % M \in Index
         /\ i <= j => (j - i) % M = j - i
         /\ j < i => (j - i) % M = j - i + M
  BY ConsoleAssumption, Distance DEF Index

LEMMA WrapsIs ==
  ASSUME NEW i \in Index, NEW k \in Index
  PROVE  /\ (i + k) % M \in Index /\ (i - k) % M \in Index
         /\ i + k < M => (i + k) % M = i + k
         /\ M <= i + k => (i + k) % M = i + k - M
         /\ k <= i => (i - k) % M = i - k
         /\ i < k => (i - k) % M = i - k + M
  <1>1. M \in Nat \ {0}
    BY ConsoleAssumption
  <1> QED BY Zenon, <1>1, Wraps DEF Index

LEMMA Reached ==
  ASSUME NEW i \in Index, NEW j \in Index
  PROVE  (i + ((j - i) % M)) % M = j /\ ((j - i) % M = 0 <=> i = j)
  <1> DEFINE d == (j - i) % M
  <1>1. d \in Index /\ (i <= j => d = j - i) /\ (j < i => d = j - i + M)
    BY Zenon, DistanceIs
  <1> HIDE DEF d
  <1>2. (i + d < M => (i + d) % M = i + d) /\ (M <= i + d => (i + d) % M = i + d - M)
    BY Zenon, <1>1, WrapsIs
  <1>3. (i + d) % M = j /\ (d = 0 <=> i = j)
    BY <1>1, <1>2, ConsoleAssumption DEF Index
  <1> QED BY Zenon, <1>3 DEF d

LEMMA Longer ==
  ASSUME NEW i \in Index, NEW j \in Index, NEW k \in Index, ((j - i) % M) + k < M
  PROVE  (((j + k) % M) - i) % M = ((j - i) % M) + k
  <1> DEFINE d == (j - i) % M
             x == (j + k) % M
  <1>1. d \in Index /\ (i <= j => d = j - i) /\ (j < i => d = j - i + M) /\ d + k < M
    BY Zenon, DistanceIs
  <1>2. x \in Index /\ (j + k < M => x = j + k) /\ (M <= j + k => x = j + k - M)
    BY Zenon, WrapsIs
  <1> HIDE DEF d, x
  <1>3. (i <= x => (x - i) % M = x - i) /\ (x < i => (x - i) % M = x - i + M)
    BY Zenon, <1>2, DistanceIs
  <1>4. (x - i) % M = d + k
    BY <1>1, <1>2, <1>3, ConsoleAssumption DEF Index
  <1> QED BY Zenon, <1>4 DEF d, x

LEMMA Shorter ==
  ASSUME NEW i \in Index, NEW j \in Index, NEW k \in Index, k <= (j - i) % M
  PROVE  (((j - k) % M) - i) % M = ((j - i) % M) - k /\ (j - ((i + k) % M)) % M = ((j - i) % M) - k
  <1> DEFINE d == (j - i) % M
             x == (j - k) % M
             y == (i + k) % M
  <1>1. d \in Index /\ (i <= j => d = j - i) /\ (j < i => d = j - i + M) /\ k <= d
    BY Zenon, DistanceIs
  <1>2. x \in Index /\ (k <= j => x = j - k) /\ (j < k => x = j - k + M)
    BY Zenon, WrapsIs
  <1>3. y \in Index /\ (i + k < M => y = i + k) /\ (M <= i + k => y = i + k - M)
    BY Zenon, WrapsIs
  <1> HIDE DEF d, x, y
  <1>4. (i <= x => (x - i) % M = x - i) /\ (x < i => (x - i) % M = x - i + M)
    BY Zenon, <1>2, DistanceIs
  <1>5. (y <= j => (j - y) % M = j - y) /\ (j < y => (j - y) % M = j - y + M)
    BY Zenon, <1>3, DistanceIs
  <1>6. (x - i) % M = d - k
    BY <1>1, <1>2, <1>4, ConsoleAssumption DEF Index
  <1>7. (j - y) % M = d - k
    BY <1>1, <1>3, <1>5, ConsoleAssumption DEF Index
  <1> QED BY Zenon, <1>6, <1>7 DEF d, x, y

-----------------------------------------------------------------------------
(* The characters from one index to another, as sequences. *)

CharsOf(b, i, j) == [k \in 1 .. (j - i) % M |-> b[((i + k - 1) % M) % Size]]

LEMMA CharsAre ==
  ASSUME NEW b \in [0 .. Size - 1 -> Stored], NEW i \in Index, NEW j \in Index
  PROVE  /\ CharsOf(b, i, j) \in Seq(Stored) /\ Len(CharsOf(b, i, j)) = (j - i) % M
         /\ \A k \in 1 .. (j - i) % M : CharsOf(b, i, j)[k] = b[(i + k - 1) % Size]
  <1> DEFINE d == (j - i) % M
  <1>1. M \in Nat \ {0} /\ i \in Int /\ d \in Nat
    BY ConsoleAssumption, DistanceIs DEF Index
  <1>2. CharsOf(b, i, j) = [k \in 1 .. d |-> b[((i + k - 1) % M) % Size]]
    BY Zenon DEF CharsOf
  <1> HIDE DEF d
  <1>3. \A k \in 1 .. d : k \in Int /\ i + k - 1 \in Int
    BY <1>1
  <1>4. \A k \in 1 .. d : /\ ((i + k - 1) % M) % Size = (i + k - 1) % Size
                          /\ (i + k - 1) % Size \in 0 .. Size - 1
    BY Zenon, <1>3, Place
  <1>5. \A k \in 1 .. d : CharsOf(b, i, j)[k] = b[(i + k - 1) % Size]
    BY Zenon, <1>2, <1>4
  <1>6. CharsOf(b, i, j) \in [1 .. d -> Stored]
    BY Zenon, <1>2, <1>4
  <1>7. CharsOf(b, i, j) \in Seq(Stored) /\ Len(CharsOf(b, i, j)) = d
    BY <1>1, <1>6
  <1> QED BY Zenon, <1>5, <1>7 DEF d

LEMMA CharAt ==
  ASSUME NEW b \in [0 .. Size - 1 -> Stored], NEW i \in Index, NEW j \in Index,
         NEW k \in 1 .. (j - i) % M
  PROVE  CharsOf(b, i, j)[k] = b[(i + k - 1) % Size]
  BY Zenon, CharsAre

(* consoleintr stores a character after the last one, *)
LEMMA CharStored ==
  ASSUME NEW b \in [0 .. Size - 1 -> Stored], NEW i \in Index, NEW j \in Index,
         (j - i) % M < Size, NEW c \in Stored
  PROVE  CharsOf([b EXCEPT ![j % Size] = c], i, (j + 1) % M) = Append(CharsOf(b, i, j), c)
  <1> DEFINE d == (j - i) % M
             s == CharsOf(b, i, j)
             a == [b EXCEPT ![j % Size] = c]
             t == CharsOf(a, i, (j + 1) % M)
  <1>1. Size \in Nat /\ M \in Nat /\ Size < M /\ 1 \in Index /\ i \in Int /\ j \in Int
    BY ConsoleAssumption DEF Index
  <1>2. d \in Nat /\ (i + d) % M = j /\ (j + 1) % M \in Index /\ (((j + 1) % M) - i) % M = d + 1
    <2>1. d \in Index /\ (i + d) % M = j /\ (j + 1) % M \in Index
      BY Zenon, <1>1, DistanceIs, Reached, WrapsIs
    <2>2. d \in Nat /\ d + 1 < M
      BY <1>1, <2>1 DEF Index
    <2>3. (((j + 1) % M) - i) % M = d + 1
      BY Zenon, <1>1, <2>2, Longer
    <2> QED BY Zenon, <2>1, <2>2, <2>3
  <1>3. d < Size
    OBVIOUS
  <1>4. a \in [0 .. Size - 1 -> Stored]
    BY Zenon
  <1>5. /\ s \in Seq(Stored) /\ Len(s) = d
        /\ \A k \in 1 .. d : s[k] = b[(i + k - 1) % Size]
    BY Zenon, CharsAre
  <1>6. /\ t \in Seq(Stored) /\ Len(t) = d + 1
        /\ \A k \in 1 .. d + 1 : t[k] = a[(i + k - 1) % Size]
    <2> DEFINE x == (j + 1) % M
               m == d + 1
    <2>1. x \in Index /\ (x - i) % M = m
      BY Zenon, <1>2
    <2> HIDE DEF a, x, m
    <2>2. CharsOf(a, i, x) \in Seq(Stored)
      BY Zenon, <1>4, <2>1, CharsAre
    <2>3. Len(CharsOf(a, i, x)) = m
      BY Zenon, <1>4, <2>1, CharsAre
    <2>4. \A k \in 1 .. m : CharsOf(a, i, x)[k] = a[(i + k - 1) % Size]
      BY Zenon, <1>4, <2>1, CharAt
    <2> QED BY Zenon, <2>2, <2>3, <2>4 DEF x, m
  <1> HIDE DEF d
  <1>7. (i + d) % Size = j % Size /\ j % Size \in 0 .. Size - 1
    <2>1. i + d \in Int
      BY <1>1, <1>2
    <2> QED BY Zenon, <1>1, <1>2, <2>1, Place
  <1>8. ASSUME NEW k \in 1 .. d
        PROVE  (i + k - 1) % Size \in 0 .. Size - 1 /\ (i + k - 1) % Size # j % Size
    <2>1. i + k - 1 \in Int /\ i + d \in Int /\ i + k - 1 < i + d /\ (i + d) - (i + k - 1) < Size
      BY <1>1, <1>2, <1>3
    <2> QED BY Zenon, <1>7, <2>1, Apart, Place
  <1>9. \A k \in 1 .. d : t[k] = s[k]
    <2>1. ASSUME NEW k \in 1 .. d PROVE k \in 1 .. d + 1
      BY <1>2
    <2> HIDE DEF s, t
    <2> QED BY Zenon, <1>5, <1>6, <1>8, <2>1
  <1>10. t[d + 1] = c
    <2>1. d + 1 \in 1 .. d + 1 /\ i + (d + 1) - 1 = i + d
      BY <1>1, <1>2
    <2> HIDE DEF t
    <2> QED BY Zenon, <1>6, <1>7, <2>1
  <1> HIDE DEF s, t
  <1>11. /\ Append(s, c) \in Seq(Stored) /\ Len(Append(s, c)) = d + 1
         /\ \A k \in 1 .. d : Append(s, c)[k] = s[k]
         /\ Append(s, c)[d + 1] = c
    BY <1>5, AppendProperties
  <1>12. \A k \in 1 .. Len(t) : k \in 1 .. d \/ k = d + 1
    BY <1>2, <1>6
  <1>13. t = Append(s, c)
    BY Zenon, <1>6, <1>9, <1>10, <1>11, <1>12, SeqEqual
  <1> QED BY Zenon, <1>13 DEF s, t

(* which leaves the characters before it alone: x is less than a round     *)
(* from i, and j is on the way.                                            *)
LEMMA CharsKept ==
  ASSUME NEW b \in [0 .. Size - 1 -> Stored], NEW i \in Index, NEW j \in Index, NEW x \in Index,
         (j - i) % M <= (x - i) % M, (x - i) % M < Size, NEW c \in Stored
  PROVE  CharsOf([b EXCEPT ![x % Size] = c], i, j) = CharsOf(b, i, j)
  <1> DEFINE d == (j - i) % M
             f == (x - i) % M
             a == [b EXCEPT ![x % Size] = c]
             s == CharsOf(b, i, j)
             t == CharsOf(a, i, j)
  <1>1. Size \in Nat /\ i \in Int /\ x \in Int
    BY ConsoleAssumption DEF Index
  <1>2. d \in Nat /\ f \in Nat
    BY DistanceIs DEF Index
  <1>3. d <= f /\ f < Size /\ (i + f) % M = x
    BY Zenon, Reached
  <1>4. a \in [0 .. Size - 1 -> Stored]
    BY Zenon
  <1>5. /\ s \in Seq(Stored) /\ Len(s) = d
        /\ \A k \in 1 .. d : s[k] = b[(i + k - 1) % Size]
    BY Zenon, CharsAre
  <1>6. /\ t \in Seq(Stored) /\ Len(t) = d
        /\ \A k \in 1 .. d : t[k] = a[(i + k - 1) % Size]
    BY Zenon, <1>4, CharsAre
  <1> HIDE DEF d, f, s, t
  <1>7. (i + f) % Size = x % Size
    <2>1. i + f \in Int
      BY <1>1, <1>2
    <2> QED BY Zenon, <1>1, <1>3, <2>1, Place
  <1>8. ASSUME NEW k \in 1 .. d
        PROVE  (i + k - 1) % Size \in 0 .. Size - 1 /\ (i + k - 1) % Size # x % Size
    <2>1. i + k - 1 \in Int /\ i + f \in Int /\ i + k - 1 < i + f /\ (i + f) - (i + k - 1) < Size
      BY <1>1, <1>2, <1>3
    <2> QED BY Zenon, <1>7, <2>1, Apart, Place
  <1>9. \A k \in 1 .. d : t[k] = s[k]
    BY Zenon, <1>5, <1>6, <1>8
  <1>10. t = s
    BY Zenon, <1>5, <1>6, <1>9, SeqEqual
  <1> QED BY Zenon, <1>10 DEF s, t

(* Two stretches that meet are one. *)
LEMMA CharsJoin ==
  ASSUME NEW b \in [0 .. Size - 1 -> Stored], NEW i \in Index, NEW j \in Index, NEW x \in Index,
         ((j - i) % M) + ((x - j) % M) = (x - i) % M
  PROVE  CharsOf(b, i, x) = CharsOf(b, i, j) \o CharsOf(b, j, x)
  <1> DEFINE d == (j - i) % M
             f == (x - j) % M
             s == CharsOf(b, i, j)
             t == CharsOf(b, j, x)
             u == CharsOf(b, i, x)
  <1>1. Size \in Nat /\ i \in Int /\ j \in Int
    BY ConsoleAssumption DEF Index
  <1>2. d \in Nat /\ f \in Nat /\ (i + d) % M = j
    BY DistanceIs, Reached DEF Index
  <1>3. /\ s \in Seq(Stored) /\ Len(s) = d
        /\ \A k \in 1 .. d : s[k] = b[(i + k - 1) % Size]
    BY Zenon, CharsAre
  <1>4. /\ t \in Seq(Stored) /\ Len(t) = f
        /\ \A k \in 1 .. f : t[k] = b[(j + k - 1) % Size]
    BY Zenon, CharsAre
  <1>5. u \in Seq(Stored) /\ Len(u) = d + f
    BY Zenon, CharsAre
  <1>6. \A k \in 1 .. d + f : u[k] = b[(i + k - 1) % Size]
    <2>1. \A k \in 1 .. (x - i) % M : u[k] = b[(i + k - 1) % Size]
      BY Zenon, CharsAre
    <2>2. (x - i) % M = d + f
      BY Zenon
    <2> HIDE DEF d, f, u
    <2> QED BY Zenon, <2>1, <2>2
  <1> HIDE DEF d, f, s, t, u
  <1>7. ASSUME NEW k \in 1 .. d + f, ~(k <= d)
        PROVE  (i + k - 1) % Size = (j + (k - d) - 1) % Size /\ k - d \in 1 .. f
    <2> DEFINE y == i + d
               z == k - d - 1
    <2>1. y \in Int /\ z \in Int /\ i + k - 1 = y + z /\ j + (k - d) - 1 = j + z /\ k - d \in 1 .. f
      BY <1>1, <1>2, <1>7
    <2>2. y % M = j
      BY Zenon, <1>2
    <2> HIDE DEF y, z
    <2>3. (y + z) % Size = ((y % M) + z) % Size
      BY Zenon, <2>1, PlaceSum
    <2> QED BY Zenon, <2>1, <2>2, <2>3
  <1>8. /\ s \o t \in Seq(Stored) /\ Len(s \o t) = d + f
        /\ \A k \in 1 .. d + f : (s \o t)[k] = IF k <= d THEN s[k] ELSE t[k - d]
    BY <1>3, <1>4, ConcatProperties
  <1>9. \A k \in 1 .. d + f : k <= d => k \in 1 .. d
    BY <1>2
  <1>10. ASSUME NEW k \in 1 .. d + f PROVE u[k] = (s \o t)[k]
    <2>1. CASE k <= d
      BY Zenon, <1>3, <1>6, <1>8, <1>9, <2>1
    <2>2. CASE ~(k <= d)
      <3>1. (s \o t)[k] = t[k - d]
        BY Zenon, <1>8, <2>2
      <3> QED BY Zenon, <1>4, <1>6, <1>7, <2>2, <3>1
    <2> QED BY Zenon, <2>1, <2>2
  <1>11. u = s \o t
    BY Zenon, <1>5, <1>8, <1>10, SeqEqual
  <1> QED BY Zenon, <1>11 DEF s, t, u

(* consoleintr erases the last k characters, *)
LEMMA CharsCut ==
  ASSUME NEW b \in [0 .. Size - 1 -> Stored], NEW i \in Index, NEW j \in Index, NEW k \in Index,
         k <= (j - i) % M
  PROVE  CharsOf(b, i, (j - k) % M) = SubSeq(CharsOf(b, i, j), 1, ((j - i) % M) - k)
  <1> DEFINE d == (j - i) % M
             x == (j - k) % M
             s == CharsOf(b, i, j)
             t == CharsOf(b, i, x)
             u == SubSeq(s, 1, d - k)
  <1>1. d \in Nat /\ k \in Nat /\ k <= d
    BY DistanceIs DEF Index
  <1>2. x \in Index /\ (x - i) % M = d - k
    BY Zenon, WrapsIs, Shorter
  <1>3. /\ s \in Seq(Stored) /\ Len(s) = d
        /\ \A m \in 1 .. d : s[m] = b[(i + m - 1) % Size]
    BY Zenon, CharsAre
  <1> HIDE DEF d, x, s
  <1>4. t \in Seq(Stored) /\ Len(t) = d - k
    BY Zenon, <1>2, CharsAre
  <1>5. \A m \in 1 .. d - k : t[m] = b[(i + m - 1) % Size]
    <2>1. \A m \in 1 .. (x - i) % M : t[m] = b[(i + m - 1) % Size]
      BY Zenon, <1>2, CharsAre
    <2> HIDE DEF t
    <2> QED BY Zenon, <1>2, <2>1
  <1>6. u \in Seq(Stored) /\ Len(u) = d - k /\ \A m \in 1 .. d - k : u[m] = s[m]
    BY <1>1, <1>3, SubSeqProperties
  <1>7. \A m \in 1 .. d - k : m \in 1 .. d
    BY <1>1
  <1> HIDE DEF t, u
  <1>8. \A m \in 1 .. Len(t) : t[m] = u[m]
    BY Zenon, <1>3, <1>4, <1>5, <1>6, <1>7
  <1>9. t = u
    BY Zenon, <1>4, <1>6, <1>8, SeqEqual
  <1> QED BY Zenon, <1>9 DEF t, u, s, x, d

(* and consoleread takes the first one. *)
LEMMA CharsTail ==
  ASSUME NEW b \in [0 .. Size - 1 -> Stored], NEW i \in Index, NEW j \in Index, i # j
  PROVE  /\ CharsOf(b, (i + 1) % M, j) = Tail(CharsOf(b, i, j))
         /\ CharsOf(b, i, j) # <<>>
  <1> DEFINE d == (j - i) % M
             x == (i + 1) % M
             s == CharsOf(b, i, j)
             t == CharsOf(b, x, j)
  <1>1. d \in Nat /\ 1 \in Index /\ i \in Int /\ 1 <= d
    BY DistanceIs, Reached, ConsoleAssumption DEF Index
  <1>2. x \in Index /\ (j - x) % M = d - 1
    BY Zenon, <1>1, WrapsIs, Shorter
  <1>3. /\ s \in Seq(Stored) /\ Len(s) = d
        /\ \A m \in 1 .. d : s[m] = b[(i + m - 1) % Size]
    BY Zenon, CharsAre
  <1>4. \A z \in Int : (i + 1 + z) % Size = (x + z) % Size
    <2>1. i + 1 \in Int
      BY <1>1
    <2> QED BY Zenon, <2>1, PlaceSum
  <1> HIDE DEF d, x, s
  <1>5. t \in Seq(Stored) /\ Len(t) = d - 1
    BY Zenon, <1>2, CharsAre
  <1>6. \A m \in 1 .. d - 1 : t[m] = b[(x + m - 1) % Size]
    <2>1. \A m \in 1 .. (j - x) % M : t[m] = b[(x + m - 1) % Size]
      BY Zenon, <1>2, CharsAre
    <2> HIDE DEF t
    <2> QED BY Zenon, <1>2, <2>1
  <1>7. s # <<>>
    BY <1>1, <1>3
  <1>8. Tail(s) \in Seq(Stored) /\ Len(Tail(s)) = d - 1 /\ \A m \in 1 .. d - 1 : Tail(s)[m] = s[m + 1]
    BY <1>1, <1>3, <1>7, HeadTailProperties
  <1>9. ASSUME NEW m \in 1 .. d - 1 PROVE t[m] = s[m + 1]
    <2>1. /\ m + 1 \in 1 .. d /\ m - 1 \in Int /\ x \in Int
          /\ i + (m + 1) - 1 = i + 1 + (m - 1) /\ x + m - 1 = x + (m - 1)
      BY <1>1, <1>2, ConsoleAssumption DEF Index
    <2> QED BY Zenon, <1>3, <1>4, <1>6, <2>1
  <1> HIDE DEF t
  <1>10. t = Tail(s)
    BY Zenon, <1>5, <1>8, <1>9, SeqEqual
  <1> QED BY Zenon, <1>7, <1>10 DEF t, s, x

LEMMA CharsNone == ASSUME NEW b \in [0 .. Size - 1 -> Stored], NEW i \in Index PROVE CharsOf(b, i, i) = <<>>
  <1> DEFINE s == CharsOf(b, i, i)
  <1>1. (i - i) % M = 0
    BY Zenon, Reached
  <1>2. s \in Seq(Stored) /\ Len(s) = (i - i) % M
    BY Zenon, CharsAre
  <1> HIDE DEF s
  <1>3. s = <<>>
    BY <1>1, <1>2, EmptySeq
  <1> QED BY Zenon, <1>3 DEF s
-----------------------------------------------------------------------------
(* The ring in a step. *)

LEMMA RingTypes ==
  ASSUME Types
  PROVE  /\ buf \in [0 .. Size - 1 -> Stored] /\ r \in Index /\ w \in Index /\ e \in Index
         /\ Done \in Index /\ Pending \in Index
         /\ Done \in Nat /\ Pending \in Nat /\ (e - r) % M \in Nat /\ (e - r) % M < M
         /\ 1 \in Index /\ Size \in Nat /\ Size < M
  <1>1. /\ buf \in [0 .. Size - 1 -> Stored] /\ r \in Index /\ w \in Index /\ e \in Index
    BY DEF Types
  <1>2. (w - r) % M \in Index /\ (e - w) % M \in Index /\ (e - r) % M \in Index
    BY Zenon, <1>1, DistanceIs
  <1>3. 1 \in Index /\ Size \in Nat /\ Size < M /\ Index \subseteq Nat /\ \A i \in Index : i < M
    BY ConsoleAssumption DEF Index
  <1> QED BY Zenon, <1>1, <1>2, <1>3 DEF Done, Pending

(* ^U erases no more than the line that is being edited. *)
LEMMA ErasedIs == ASSUME Types PROVE Erased \in 0 .. Pending
  <1> DEFINE R == OpToRel(<, Nat)
             S == {k \in 0 .. Pending : k = Pending \/ At(e - k - 1) = "nl"}
             Good(k) == /\ k = Pending \/ At(e - k - 1) = "nl"
                        /\ \A j \in 1 .. k : At(e - j) # "nl"
  <1>1. Pending \in Nat /\ e \in Int
    BY RingTypes DEF Index
  <1> HIDE DEF R
  <1>2. IsWellFoundedOn(R, Nat)
    BY Zenon, NatLessThanWellFounded DEF R
  <1>3. S \subseteq Nat /\ Pending \in S
    BY <1>1
  <1>4. PICK m \in S : \A y \in S : ~(<<y, m>> \in R)
    <2>1. S # {}
      BY Zenon, <1>3
    <2> HIDE DEF S
    <2> QED BY Zenon, <1>2, <1>3, <2>1, WFMin
  <1>5. m \in 0 .. Pending /\ (m = Pending \/ At(e - m - 1) = "nl")
    BY Zenon, <1>4
  <1>6. \A y \in S : ~(y < m)
    BY Zenon, <1>3, <1>4 DEF R, OpToRel
  <1>7. ASSUME NEW j \in 1 .. m PROVE At(e - j) # "nl"
    <2>1. j - 1 \in 0 .. Pending /\ j - 1 < m /\ e - (j - 1) - 1 = e - j
      BY <1>1, <1>5
    <2>2. j - 1 \notin S
      BY Zenon, <1>6, <2>1
    <2> QED BY Zenon, <2>1, <2>2
  <1>8. \E k \in 0 .. Pending : Good(k)
    BY Zenon, <1>5, <1>7
  <1> QED BY Zenon, <1>8 DEF Erased

(* What a step does to the ring. *)
Kept == UNCHANGED <<buf, r, w, e>>
Put(c) ==
  /\ Room /\ buf' = [buf EXCEPT ![e % Size] = c] /\ e' = (e + 1) % M
  /\ r' = r /\ w' \in {w, e'}
Cut(k) == e' = (e - k) % M /\ UNCHANGED <<buf, r, w>>
Take == r # w /\ r' = (r + 1) % M /\ UNCHANGED <<buf, w, e>>
RingStep == Kept \/ (\E c \in Stored : Put(c)) \/ (\E k \in 1 .. Pending : Cut(k)) \/ Take

LEMMA RingSteps == ASSUME CInv, [Next]_vars PROVE RingStep
  <1> USE DEF RingStep, Kept, cons
  <1>1. CASE UNCHANGED vars
    BY <1>1 DEF vars
  <1>2. CASE Receive
    BY <1>2 DEF Receive
  <1>3. CASE Sent
    BY <1>3 DEF Sent
  <1>4. CASE Claim
    BY <1>4 DEF Claim
  <1>5. ASSUME NEW c \in Typed, uartgetc(c) PROVE RingStep
    BY <1>5 DEF uartgetc
  <1>6. CASE NoChar
    BY <1>6 DEF NoChar
  <1>7. CASE consputc
    BY <1>7 DEF consputc
  <1>8. CASE consoleintr
    <2>1. /\ hc \in Stored \cup {"^U", "^H", "^P"}
          /\ Erased \in 0 .. Pending /\ Pending \in Nat /\ e \in Index /\ w \in Index
      BY <1>8, ErasedIs, RingTypes DEF CInv, Types, consoleintr
    <2>2. CASE hc = "^U"
      <3>1. e' = (e - Erased) % M /\ UNCHANGED <<buf, r, w>>
        BY <1>8, <2>2 DEF consoleintr
      <3>2. CASE Erased = 0
        <4>1. e - 0 = e /\ e \in 0 .. M - 1 /\ M \in Nat \ {0}
          BY <2>1, ConsoleAssumption DEF Index
        <4>2. e' = e
          BY Zenon, <3>1, <3>2, <4>1, ModSmall
        <4> QED BY <3>1, <4>2
      <3>3. CASE Erased # 0
        <4>1. Erased \in 1 .. Pending
          BY <2>1, <3>3
        <4> QED BY Zenon, <3>1, <4>1 DEF Cut
      <3> QED BY <3>2, <3>3
    <2>3. CASE hc = "^H"
      <3>1. e' = (IF e # w THEN (e - 1) % M ELSE e) /\ UNCHANGED <<buf, r, w>>
        BY <1>8, <2>3 DEF consoleintr
      <3>2. e # w => 1 \in 1 .. Pending
        <4>1. Pending = 0 <=> w = e
          BY Zenon, <2>1, Reached DEF Pending
        <4> QED BY <2>1, <4>1
      <3> QED BY Zenon, <3>1, <3>2 DEF Cut
    <2>4. CASE hc \notin {"^U", "^H", "^P"} /\ Room
      <3>1. Store(hc) /\ r' = r /\ hc \in Stored
        BY <1>8, <2>1, <2>4 DEF consoleintr
      <3> QED BY <2>4, <3>1 DEF Store, LineEnd, Put
    <2>5. CASE hc = "^P" \/ (hc \notin {"^U", "^H", "^P"} /\ ~Room)
      BY <1>8, <2>5 DEF consoleintr
    <2> QED BY <2>2, <2>3, <2>4, <2>5
  <1>9. CASE Start
    BY <1>9 DEF Start
  <1>10. ASSUME NEW p \in Writers, uartputc(p) PROVE RingStep
    BY <1>10 DEF uartputc
  <1>11. ASSUME NEW p \in Readers, NEW k \in Counts, Read(p, k) PROVE RingStep
    BY <1>11 DEF Read
  <1>12. ASSUME NEW p \in Readers, ReadWait(p) PROVE RingStep
    BY <1>12 DEF ReadWait
  <1>13. ASSUME NEW p \in Readers, Sleep(p) PROVE RingStep
    BY <1>13 DEF Sleep
  <1>14. ASSUME NEW p \in Readers, kill(p) PROVE RingStep
    BY <1>14 DEF kill
  <1>15. ASSUME NEW p \in Readers, NEW ok \in BOOLEAN, consoleread(p, ok) PROVE RingStep
    BY <1>15 DEF consoleread, Take
  <1> QED BY Zenon, <1>1, <1>2, <1>3, <1>4, <1>5, <1>6, <1>7, <1>8, <1>9, <1>10, <1>11, <1>12, <1>13,
             <1>14, <1>15 DEF Next, Handler

(* A character is stored where there is room, which is not where a reader  *)
(* may look.                                                               *)
LEMMA PutStep ==
  ASSUME Types, RingInv, NEW c \in Stored, Put(c)
  PROVE  /\ buf' \in [0 .. Size - 1 -> Stored] /\ r' \in Index /\ w' \in Index /\ e' \in Index
         /\ (e' - r) % M = ((e - r) % M) + 1 /\ (e' - w) % M = Pending + 1
         /\ (e - r) % M < Size /\ Done + Pending = (e - r) % M /\ Pending < Size
  <1>1. /\ buf \in [0 .. Size - 1 -> Stored] /\ r \in Index /\ w \in Index /\ e \in Index
        /\ Done \in Nat /\ Pending \in Nat /\ (e - r) % M \in Nat
        /\ 1 \in Index /\ Size \in Nat /\ Size < M
    BY Zenon, RingTypes
  <1>2. (e - r) % M < Size /\ Done + Pending = (e - r) % M
    BY Zenon DEF Put, Room, RingInv
  <1>3. Pending < Size /\ Pending + 1 < M /\ ((e - r) % M) + 1 < M
    BY <1>1, <1>2, ConsoleAssumption
  <1>4. ((e - w) % M) + 1 < M
    BY Zenon, <1>3 DEF Pending
  <1>5. (((e + 1) % M) - r) % M = ((e - r) % M) + 1 /\ (((e + 1) % M) - w) % M = Pending + 1
    BY Zenon, <1>1, <1>3, <1>4, Longer DEF Pending
  <1>6. e' = (e + 1) % M /\ (e + 1) % M \in Index /\ r' = r /\ w' \in {w, e'}
    BY Zenon, <1>1, WrapsIs DEF Put
  <1>7. buf' \in [0 .. Size - 1 -> Stored]
    BY <1>1 DEF Put
  <1> QED BY Zenon, <1>1, <1>2, <1>3, <1>5, <1>6, <1>7

LEMMA RingKept ==
  ASSUME Types, RingInv, RingStep
  PROVE  /\ buf' \in [0 .. Size - 1 -> Stored] /\ r' \in Index /\ w' \in Index /\ e' \in Index
         /\ RingInv'
  <1>1. /\ buf \in [0 .. Size - 1 -> Stored] /\ r \in Index /\ w \in Index /\ e \in Index
        /\ Done \in Nat /\ Pending \in Nat /\ (e - r) % M \in Nat /\ Pending \in Index
        /\ 1 \in Index /\ Size \in Nat /\ Size < M
    BY Zenon, RingTypes
  <1>2. Done + Pending = (e - r) % M /\ (e - r) % M <= Size
    BY DEF RingInv
  <1>3. CASE Kept
    BY <1>1, <1>2, <1>3 DEF Kept, RingInv, Done, Pending
  <1>4. ASSUME NEW c \in Stored, Put(c) PROVE RingInv'
    <2>1. /\ e' \in Index /\ (e' - r) % M = ((e - r) % M) + 1 /\ (e' - w) % M = Pending + 1
          /\ (e - r) % M < Size
      BY Zenon, <1>4, PutStep
    <2>2. r' = r /\ (w' = w \/ w' = e')
      BY Zenon, <1>4 DEF Put
    <2>3. (e' - e') % M = 0
      BY Zenon, <2>1, Reached
    <2>4. (e' - r') % M = ((e - r) % M) + 1
      BY Zenon, <2>1, <2>2
    <2>5. CASE w' = w
      <3>1. (w' - r') % M = Done /\ (e' - w') % M = Pending + 1
        BY Zenon, <2>1, <2>2, <2>5 DEF Done
      <3> QED BY <1>1, <1>2, <2>1, <2>4, <3>1 DEF RingInv, Done, Pending
    <2>6. CASE w' = e'
      <3>1. (w' - r') % M = ((e - r) % M) + 1 /\ (e' - w') % M = 0
        BY Zenon, <2>1, <2>2, <2>3, <2>6
      <3> QED BY <1>1, <1>2, <2>1, <2>4, <3>1 DEF RingInv, Done, Pending
    <2> QED BY <2>2, <2>5, <2>6
  <1>5. ASSUME NEW k \in 1 .. Pending, Cut(k) PROVE e' \in Index /\ RingInv'
    <2>1. e' = (e - k) % M /\ r' = r /\ w' = w
      BY <1>5 DEF Cut
    <2>2. k \in Index /\ k \in Nat /\ k <= Pending /\ k <= (e - r) % M
      <3> DEFINE d == (e - r) % M
      <3>1. Pending \in 0 .. M - 1 /\ Done + Pending = d /\ Done \in Nat /\ M \in Nat
        BY Zenon, <1>1, <1>2, ConsoleAssumption DEF Index
      <3> HIDE DEF d
      <3>2. k \in 0 .. M - 1 /\ k \in Nat /\ k <= Pending /\ k <= d
        BY <3>1
      <3> QED BY Zenon, <3>2 DEF d, Index
    <2>3. k <= (e - w) % M
      BY Zenon, <2>2 DEF Pending
    <2>4. /\ (((e - k) % M) - r) % M = ((e - r) % M) - k /\ (((e - k) % M) - w) % M = Pending - k
          /\ (e - k) % M \in Index
      <3>1. (((e - k) % M) - r) % M = ((e - r) % M) - k
        BY Zenon, <1>1, <2>2, Shorter
      <3>2. (((e - k) % M) - w) % M = ((e - w) % M) - k
        BY Zenon, <1>1, <2>2, <2>3, Shorter
      <3>3. (e - k) % M \in Index
        BY Zenon, <1>1, <2>2, WrapsIs
      <3> QED BY Zenon, <3>1, <3>2, <3>3 DEF Pending
    <2>5. (e' - r') % M = ((e - r) % M) - k /\ (e' - w') % M = Pending - k /\ (w' - r') % M = Done
      BY Zenon, <2>1, <2>4 DEF Done
    <2>6. Done + (Pending - k) = ((e - r) % M) - k /\ ((e - r) % M) - k <= Size
      <3> DEFINE d == (e - r) % M
      <3>1. d \in Nat /\ Done + Pending = d /\ d <= Size
        BY Zenon, <1>1, <1>2
      <3> HIDE DEF d
      <3>2. Done + (Pending - k) = d - k /\ d - k <= Size
        BY <1>1, <2>2, <3>1
      <3> QED BY Zenon, <3>2 DEF d
    <2> QED BY Zenon, <2>1, <2>4, <2>5, <2>6 DEF RingInv, Done, Pending
  <1>6. ASSUME Take PROVE RingInv'
    <2>1. r # w /\ r' = (r + 1) % M /\ w' = w /\ e' = e
      BY <1>6 DEF Take
    <2>2. (w - r) % M # 0 /\ (w - r) % M \in Nat
      BY Zenon, <1>1, <2>1, Reached DEF Done
    <2>3. 1 <= (w - r) % M /\ 1 <= (e - r) % M
      BY <1>1, <1>2, <2>2 DEF Done
    <2>4. /\ (w - ((r + 1) % M)) % M = Done - 1 /\ (e - ((r + 1) % M)) % M = ((e - r) % M) - 1
          /\ (r + 1) % M \in Index
      <3>1. (w - ((r + 1) % M)) % M = ((w - r) % M) - 1
        BY Zenon, <1>1, <2>3, Shorter
      <3>2. (e - ((r + 1) % M)) % M = ((e - r) % M) - 1
        BY Zenon, <1>1, <2>3, Shorter
      <3>3. (r + 1) % M \in Index
        BY Zenon, <1>1, WrapsIs
      <3> QED BY Zenon, <3>1, <3>2, <3>3 DEF Done
    <2>5. (w' - r') % M = Done - 1 /\ (e' - r') % M = ((e - r) % M) - 1 /\ (e' - w') % M = Pending
      BY Zenon, <2>1, <2>4 DEF Pending
    <2>6. (Done - 1) + Pending = ((e - r) % M) - 1 /\ ((e - r) % M) - 1 <= Size
      <3> DEFINE d == (e - r) % M
      <3>1. d \in Nat /\ Done + Pending = d /\ d <= Size
        BY Zenon, <1>1, <1>2
      <3> HIDE DEF d
      <3>2. (Done - 1) + Pending = d - 1 /\ d - 1 <= Size
        BY <1>1, <3>1
      <3> QED BY Zenon, <3>2 DEF d
    <2>7. Done' = Done - 1 /\ Pending' = Pending /\ ((e - r) % M)' = ((e - r) % M) - 1
      BY Zenon, <2>5 DEF Done, Pending
    <2> QED BY Zenon, <2>6, <2>7 DEF RingInv
  <1>7. RingInv'
    BY Zenon, <1>3, <1>4, <1>5, <1>6 DEF RingStep
  <1>8. ASSUME NEW c \in Stored, Put(c)
        PROVE  buf' \in [0 .. Size - 1 -> Stored] /\ r' \in Index /\ w' \in Index /\ e' \in Index
    BY Zenon, <1>8, PutStep
  <1>9. buf' \in [0 .. Size - 1 -> Stored] /\ r' \in Index /\ w' \in Index /\ e' \in Index
    <2>1. CASE Kept
      BY <1>1, <2>1 DEF Kept
    <2>2. ASSUME NEW k \in 1 .. Pending, Cut(k)
          PROVE  buf' \in [0 .. Size - 1 -> Stored] /\ r' \in Index /\ w' \in Index /\ e' \in Index
      BY Zenon, <1>1, <1>5, <2>2 DEF Cut
    <2>3. CASE Take
      BY Zenon, <1>1, <2>3, WrapsIs DEF Take
    <2> QED BY Zenon, <1>8, <2>1, <2>2, <2>3 DEF RingStep
  <1> QED BY <1>7, <1>9
-----------------------------------------------------------------------------
(* The ring as a line discipline. *)

LEMMA CharsIs ==
  /\ Chars(w, e) = CharsOf(buf, w, e) /\ Chars(r, w) = CharsOf(buf, r, w)
  /\ Chars(w, e)' = CharsOf(buf', w', e') /\ Chars(r, w)' = CharsOf(buf', r', w')
  BY DEF Chars, CharsOf, At

LEMMA Refines == ASSUME CInv, RingStep PROVE [T!Next]_<<Chars(w, e), Chars(r, w)>>
  <1> DEFINE edit == CharsOf(buf, w, e)
             lines == CharsOf(buf, r, w)
             edit1 == CharsOf(buf', w', e')
             lines1 == CharsOf(buf', r', w')
             Type(c) == \/ edit1 = Append(edit, c) /\ lines1 = lines
                        \/ lines1 = lines \o Append(edit, c) /\ edit1 = <<>>
  <1>1. /\ buf \in [0 .. Size - 1 -> Stored] /\ r \in Index /\ w \in Index /\ e \in Index
        /\ Done \in Nat /\ Pending \in Nat /\ (e - r) % M \in Nat /\ Pending \in Index
        /\ 1 \in Index /\ Size \in Nat /\ Size < M /\ (e - r) % M < M
    BY Zenon, RingTypes DEF CInv
  <1>2. Done + Pending = (e - r) % M /\ (e - r) % M <= Size
    BY DEF CInv, RingInv
  <1>3. Len(edit) = Pending /\ Len(lines) = Done
    BY Zenon, <1>1, CharsAre DEF Pending, Done
  <1>4. CASE Kept
    <2>1. edit1 = edit /\ lines1 = lines
      BY Zenon, <1>4 DEF Kept
    <2> QED BY Zenon, <2>1, CharsIs
  <1>5. ASSUME NEW c \in Stored, Put(c) PROVE Len(edit) + Len(lines) < INPUT_BUF_SIZE /\ Type(c)
    <2> DEFINE b == [buf EXCEPT ![e % Size] = c]
               x == (e + 1) % M
    <2>1. b \in [0 .. Size - 1 -> Stored] /\ x \in Index
      BY Zenon, <1>1, WrapsIs
    <2>2. buf' = b /\ e' = x /\ r' = r /\ (w' = w \/ w' = x)
      BY Zenon, <1>5 DEF Put
    <2>3. (e - r) % M < Size /\ Pending < Size /\ (x - r) % M = ((e - r) % M) + 1 /\ (x - w) % M = Pending + 1
      BY Zenon, <1>5, <2>2, PutStep DEF CInv
    <2>4. CharsOf(b, w, x) = Append(edit, c)
      BY Zenon, <1>1, <2>3, CharStored DEF Pending
    <2>5. CharsOf(b, r, w) = lines
      <3>1. Done <= (e - r) % M
        <4> DEFINE d == (e - r) % M
        <4>1. Done + Pending = d
          BY Zenon, <1>2
        <4> HIDE DEF d
        <4>2. Done <= d
          BY <1>1, <4>1
        <4> QED BY Zenon, <4>2 DEF d
      <3>2. (w - r) % M <= (e - r) % M
        BY Zenon, <3>1 DEF Done
      <3>3. /\ buf \in [0 .. Size - 1 -> Stored]
            /\ r \in Index /\ w \in Index /\ e \in Index /\ (e - r) % M < Size
        BY Zenon, <1>1, <2>3
      <3>4. CharsOf([buf EXCEPT ![e % Size] = c], r, w) = CharsOf(buf, r, w)
        BY Zenon, <3>2, <3>3, CharsKept
      <3> QED BY Zenon, <3>4
    <2> HIDE DEF b, x
    <2>6. CharsOf(b, r, x) = lines \o Append(edit, c)
      <3>1. Done + (Pending + 1) = ((e - r) % M) + 1
        <4> DEFINE d == (e - r) % M
        <4>1. Done + Pending = d
          BY Zenon, <1>2
        <4> HIDE DEF d
        <4>2. Done + (Pending + 1) = d + 1
          BY <1>1, <4>1
        <4> QED BY Zenon, <4>2 DEF d
      <3>2. ((w - r) % M) + ((x - w) % M) = (x - r) % M
        BY Zenon, <2>3, <3>1 DEF Done
      <3>3. CharsOf(b, r, x) = CharsOf(b, r, w) \o CharsOf(b, w, x)
        <4>1. r \in Index /\ w \in Index
          BY Zenon, <1>1
        <4> QED BY Zenon, <2>1, <3>2, <4>1, CharsJoin
      <3> QED BY Zenon, <2>4, <2>5, <3>3
    <2>7. CharsOf(b, x, x) = <<>>
      BY Zenon, <2>1, CharsNone
    <2>8. Type(c)
      BY Zenon, <2>2, <2>4, <2>5, <2>6, <2>7
    <2>9. Len(edit) + Len(lines) < INPUT_BUF_SIZE
      <3> DEFINE d == (e - r) % M
      <3>1. Done + Pending = d /\ d < Size
        BY Zenon, <1>2, <2>3
      <3> HIDE DEF d
      <3>2. Pending + Done < Size
        BY <1>1, <3>1
      <3> QED BY Zenon, <1>3, <3>2 DEF Size
    <2> QED BY <2>8, <2>9
  <1>6. ASSUME NEW k \in 1 .. Pending, Cut(k)
        PROVE  lines1 = lines /\ \E m \in 0 .. Len(edit) - 1 : edit1 = SubSeq(edit, 1, m)
    <2>1. k \in Index /\ k <= Pending /\ Pending - k \in 0 .. Pending - 1
      <3>1. k <= Pending /\ Pending - k \in 0 .. Pending - 1 /\ Pending \in 0 .. M - 1 /\ M \in Nat
        BY <1>1, ConsoleAssumption DEF Index
      <3> QED BY <3>1 DEF Index
    <2>2. buf' = buf /\ r' = r /\ w' = w /\ e' = (e - k) % M
      BY Zenon, <1>6 DEF Cut
    <2>3. CharsOf(buf, w, (e - k) % M) = SubSeq(edit, 1, Pending - k)
      <3>1. /\ buf \in [0 .. Size - 1 -> Stored] /\ w \in Index /\ e \in Index /\ k \in Index
            /\ k <= (e - w) % M
        BY Zenon, <1>1, <2>1 DEF Pending
      <3>2. CharsOf(buf, w, (e - k) % M) = SubSeq(CharsOf(buf, w, e), 1, ((e - w) % M) - k)
        BY Zenon, <3>1, CharsCut
      <3> QED BY Zenon, <3>2 DEF Pending
    <2> HIDE DEF edit
    <2> QED BY Zenon, <1>3, <2>1, <2>2, <2>3
  <1>7. CASE Take
    <2>1. lines # <<>> /\ lines1 = Tail(lines) /\ edit1 = edit
      BY Zenon, <1>1, <1>7, CharsTail DEF Take
    <2> HIDE DEF lines, edit, lines1, edit1
    <2>2. Chars(w, e) = edit /\ Chars(r, w) = lines /\ Chars(w, e)' = edit1 /\ Chars(r, w)' = lines1
      BY Zenon, CharsIs DEF lines, edit, lines1, edit1
    <2> QED BY Zenon, <2>1, <2>2 DEF T!Next, T!Read
  <1>8. Chars(w, e) = edit /\ Chars(r, w) = lines /\ Chars(w, e)' = edit1 /\ Chars(r, w)' = lines1
    BY Zenon, CharsIs
  <1> HIDE DEF lines, edit, lines1, edit1
  <1>9. ASSUME NEW c \in Stored, Put(c) PROVE T!Next
    <2>1. T!Type(c)
      BY Zenon, <1>5, <1>8, <1>9 DEF T!Type
    <2> QED BY Zenon, <2>1 DEF T!Next, Stored
  <1>10. ASSUME NEW k \in 1 .. Pending, Cut(k) PROVE T!Next
    <2>1. T!Erase
      BY Zenon, <1>6, <1>8, <1>10 DEF T!Erase
    <2> QED BY Zenon, <2>1 DEF T!Next
  <1> QED BY Zenon, <1>4, <1>7, <1>9, <1>10 DEF RingStep
-----------------------------------------------------------------------------
(* The lock, and the sleepers. *)

LEMMA ProcTypes ==
  ASSUME CInv
  PROVE  /\ pc \in [Readers \cup Writers -> Labels] /\ lock \in Readers \cup {Free, Intr}
         /\ \A p \in Readers : pc[p] = "read asleep" \/ pc[p] = "read sleep" => r = w
         /\ \A p \in Readers : pc[p] = "read sleep" => lock = p
         /\ \A p \in Readers : p # Free /\ p # Intr
  BY HolderAssumption DEF CInv, Types, LockInv, NoLostWakeup

(* What the processes do, and what wakes them. *)
WokenIs(l, m) ==
  /\ pc' \in [Readers \cup Writers -> Labels]
  /\ \A p \in Readers \cup Writers : pc'[p] = (IF pc[p] = l THEN m ELSE pc[p])

LEMMA WokenAre ==
  ASSUME CInv, NEW l \in Labels, NEW m \in Labels, pc' = Woken(l, m) PROVE WokenIs(l, m)
  <1>1. pc \in [Readers \cup Writers -> Labels]
    BY Zenon, ProcTypes
  <1> QED BY Zenon, <1>1 DEF Woken, WokenIs

(* Everything but the ring of characters. *)
TxTypes == txr \in TxIndex /\ txw \in TxIndex
HandlerInv ==
  /\ lock \in Readers \cup {Free, Intr}
  /\ hpc = "cons" => hc \in Stored \cup {"^U", "^H", "^P"} /\ lock = Intr
PcInv ==
  /\ pc \in [Readers \cup Writers -> Labels]
  /\ \A p \in Readers : pc[p] = "read sleep" => lock = p /\ r = w
  /\ \A p \in Readers : pc[p] = "read asleep" => r = w
  /\ \A p \in Writers : pc[p] = "put asleep" => Full

LEMMA Parts ==
  /\ CInv => TxTypes /\ HandlerInv /\ PcInv
  /\ /\ buf \in [0 .. Size - 1 -> Stored] /\ r \in Index /\ w \in Index /\ e \in Index
     /\ RingInv /\ TxTypes /\ HandlerInv /\ PcInv
     => CInv
  BY Zenon DEF CInv, Types, LockInv, NoLostWakeup, TxTypes, HandlerInv, PcInv

LEMMA TxTypesKept == ASSUME CInv, [Next]_vars PROVE TxTypes'
  <1>1. txr \in TxIndex /\ txw \in TxIndex
    BY DEF CInv, Types
  <1>2. (txr + 1) % TxM \in TxIndex /\ (txw + 1) % TxM \in TxIndex
    <2>1. TxM \in Nat \ {0} /\ txr + 1 \in Int /\ txw + 1 \in Int
      BY <1>1, ConsoleAssumption DEF TxIndex
    <2> QED BY Zenon, <2>1, ModRange DEF TxIndex
  <1> USE <1>1 DEF TxTypes, tx
  <1>3. CASE UNCHANGED vars
    BY <1>3 DEF vars
  <1>4. CASE Receive \/ Sent \/ Claim \/ NoChar \/ consputc \/ consoleintr
    BY <1>4 DEF Receive, Sent, Claim, NoChar, consputc, consoleintr
  <1>5. CASE Start
    BY Zenon, <1>2, <1>5 DEF Start
  <1>6. ASSUME NEW p \in Writers, uartputc(p) PROVE TxTypes'
    BY Zenon, <1>2, <1>6 DEF uartputc
  <1>7. ASSUME NEW c \in Typed, uartgetc(c) PROVE TxTypes'
    BY <1>7 DEF uartgetc
  <1>8. ASSUME NEW p \in Readers, NEW k \in Counts, Read(p, k) PROVE TxTypes'
    BY <1>8 DEF Read
  <1>9. ASSUME NEW p \in Readers, ReadWait(p) \/ Sleep(p) \/ kill(p) PROVE TxTypes'
    BY <1>9 DEF ReadWait, Sleep, kill
  <1>10. ASSUME NEW p \in Readers, NEW ok \in BOOLEAN, consoleread(p, ok) PROVE TxTypes'
    BY <1>10 DEF consoleread
  <1> QED BY Zenon, <1>3, <1>4, <1>5, <1>6, <1>7, <1>8, <1>9, <1>10 DEF Next, Handler

(* The handler has cons.lock from uartgetc to the end of consoleintr. *)
LEMMA HandlerKept == ASSUME CInv, [Next]_vars PROVE HandlerInv'
  <1>1. HandlerInv
    BY Zenon, Parts
  <1> USE DEF HandlerInv, cons, handler
  <1>2. CASE UNCHANGED vars
    BY <1>1, <1>2 DEF vars
  <1>3. CASE Receive \/ Sent \/ consputc
    BY <1>1, <1>3 DEF Receive, Sent, consputc
  <1>4. CASE Claim \/ NoChar \/ Start
    BY <1>1, <1>4 DEF Claim, NoChar, Start
  <1>5. CASE consoleintr
    BY <1>5 DEF consoleintr
  <1>6. ASSUME NEW p \in Writers, uartputc(p) PROVE HandlerInv'
    BY <1>1, <1>6 DEF uartputc
  <1>7. ASSUME NEW c \in Typed, uartgetc(c) PROVE HandlerInv'
    BY <1>7, ConsoleAssumption DEF uartgetc, Stored
  <1>8. ASSUME NEW p \in Readers, NEW k \in Counts, Read(p, k) PROVE HandlerInv'
    BY <1>1, <1>8 DEF Read
  <1>9. ASSUME NEW p \in Readers, kill(p) PROVE HandlerInv'
    BY <1>1, <1>9 DEF kill
  <1>10. ASSUME NEW p \in Readers, lock \in {Free, p} PROVE hpc # "cons"
    <2>1. Free # Intr /\ p # Intr
      BY HolderAssumption DEF Free, Intr
    <2> QED BY Zenon, <1>1, <1>10, <2>1
  <1>11. ASSUME NEW p \in Readers, ReadWait(p) PROVE HandlerInv'
    <2>1. hpc # "cons"
      BY Zenon, <1>10, <1>11 DEF ReadWait
    <2>2. lock' \in {Free, p} /\ hpc' = hpc
      BY <1>11 DEF ReadWait, Return
    <2> QED BY Zenon, <2>1, <2>2
  <1>12. ASSUME NEW p \in Readers, Sleep(p) PROVE HandlerInv'
    <2>1. hpc # "cons"
      BY Zenon, <1>10, <1>12, ProcTypes DEF Sleep
    <2>2. lock' \in {Free, p} /\ hpc' = hpc
      BY <1>12 DEF Sleep
    <2> QED BY Zenon, <2>1, <2>2
  <1>13. ASSUME NEW p \in Readers, NEW ok \in BOOLEAN, consoleread(p, ok) PROVE HandlerInv'
    <2>1. hpc # "cons"
      BY Zenon, <1>10, <1>13 DEF consoleread
    <2>2. lock' \in {Free, p} /\ hpc' = hpc
      BY <1>13 DEF consoleread, Return
    <2> QED BY Zenon, <2>1, <2>2
  <1> QED BY Zenon, <1>2, <1>3, <1>4, <1>5, <1>6, <1>7, <1>8, <1>9, <1>11, <1>12, <1>13
          DEF Next, Handler

(* A process is woken by the step that ends what it waits for, and none    *)
(* goes to sleep but for it.                                               *)
LEMMA PcKept == ASSUME CInv, [Next]_vars PROVE PcInv'
  <1>1. PcInv
    BY Zenon, Parts
  <1> DEFINE P == Readers \cup Writers
             Same == r' = r /\ w' = w
             SameTx == txr' = txr /\ txw' = txw
  <1>2. pc \in [P -> Labels] /\ \A l, m \in Labels : Woken(l, m) \in [P -> Labels]
    BY Zenon, <1>1 DEF PcInv, Woken
  <1>3. SameTx /\ Full => Full'
    BY Zenon DEF Full
  <1>4. ASSUME lock \in {Free, Intr}, NEW p \in Readers PROVE pc[p] # "read sleep"
    BY Zenon, <1>4, ProcTypes
  <1>5. ASSUME pc' = pc, Same, SameTx, lock' = lock PROVE PcInv'
    BY Zenon, <1>1, <1>3, <1>5 DEF PcInv
  <1>6. CASE UNCHANGED vars
    BY <1>5, <1>6 DEF vars, cons, tx, procs
  <1>7. CASE Receive \/ Sent \/ Claim \/ NoChar \/ consputc
    BY <1>5, <1>7 DEF Receive, Sent, Claim, NoChar, consputc, cons, tx, procs
  <1>8. ASSUME NEW c \in Typed, uartgetc(c) PROVE PcInv'
    <2>1. pc' = pc /\ Same /\ SameTx /\ lock = Free
      BY <1>8 DEF uartgetc, tx, procs
    <2> QED BY Zenon, <1>1, <1>3, <1>4, <2>1 DEF PcInv
  <1>9. CASE consoleintr
    <2>1. r' = r /\ SameTx /\ lock = Intr
      BY <1>9 DEF consoleintr, CInv, LockInv, tx
    <2>2. (w' = w /\ pc' = pc) \/ pc' = Woken("read asleep", "read")
      BY <1>9 DEF consoleintr, Store
    <2>3. CASE w' = w /\ pc' = pc
      BY Zenon, <1>1, <1>3, <1>4, <2>1, <2>3 DEF PcInv
    <2>4. CASE pc' = Woken("read asleep", "read")
      <3>1. "read asleep" \in Labels /\ "read" \in Labels /\ "read" # "read sleep" /\ "read" # "put asleep"
            /\ "read asleep" # "read"
        BY DEF Labels
      <3>2. WokenIs("read asleep", "read")
        BY Zenon, <2>4, <3>1, WokenAre
      <3>3. \A p \in Readers : pc'[p] # "read sleep" /\ pc'[p] # "read asleep"
        BY Zenon, <1>4, <2>1, <3>1, <3>2 DEF WokenIs
      <3>4. \A p \in Writers : pc'[p] = "put asleep" => pc[p] = "put asleep"
        BY Zenon, <3>1, <3>2 DEF WokenIs
      <3> QED BY Zenon, <1>1, <1>3, <2>1, <3>2, <3>3, <3>4 DEF PcInv, WokenIs
    <2> QED BY <2>2, <2>3, <2>4
  <1>10. CASE Start
    <2>1. Same /\ lock' = lock /\ ((pc' = pc /\ SameTx) \/ pc' = Woken("put asleep", "put"))
      BY <1>10 DEF Start, cons
    <2>2. CASE pc' = Woken("put asleep", "put")
      <3>1. /\ "put asleep" \in Labels /\ "put" \in Labels /\ "put" # "read sleep" /\ "put" # "read asleep"
            /\ "put asleep" # "put"
        BY DEF Labels
      <3>2. WokenIs("put asleep", "put")
        BY Zenon, <2>2, <3>1, WokenAre
      <3> QED BY Zenon, <1>1, <2>1, <3>1, <3>2 DEF PcInv, WokenIs
    <2> QED BY Zenon, <1>5, <2>1, <2>2
  <1>11. ASSUME NEW p \in Writers, uartputc(p) PROVE PcInv'
    <2>1. Same /\ lock' = lock
      BY <1>11 DEF uartputc, cons
    <2>2. CASE Full
      <3>1. pc' = [pc EXCEPT ![p] = "put asleep"] /\ SameTx
        BY <1>11, <2>2 DEF uartputc, tx
      <3>2. "put asleep" \in Labels /\ "put asleep" # "read sleep" /\ "put asleep" # "read asleep"
        BY DEF Labels
      <3> QED BY Zenon, <1>1, <1>2, <1>3, <2>1, <2>2, <3>1, <3>2 DEF PcInv
    <2>3. CASE ~Full
      <3>1. pc' = [(IF busy THEN pc ELSE Woken("put asleep", "put")) EXCEPT ![p] = "user"]
        BY <1>11, <2>3 DEF uartputc
      <3>2. /\ "user" \in Labels /\ "user" # "put asleep" /\ "user" # "read sleep" /\ "user" # "read asleep"
            /\ "put asleep" \in Labels /\ "put" \in Labels /\ "put" # "read sleep" /\ "put" # "read asleep"
            /\ "put asleep" # "put"
        BY DEF Labels
      <3>3. \A q \in Writers : pc[q] # "put asleep"
        BY Zenon, <1>1, <2>3 DEF PcInv
      <3>4. Woken("put asleep", "put") \in [P -> Labels]
        BY Zenon, <1>2, <3>2
      <3>5. \A q \in P : Woken("put asleep", "put")[q] = (IF pc[q] = "put asleep" THEN "put" ELSE pc[q])
        BY Zenon, <1>2 DEF Woken
      <3>6. pc' \in [P -> Labels]
        BY Zenon, <1>2, <3>1, <3>2, <3>4
      <3>7. \A q \in P : \/ q = p /\ pc'[q] = "user"
                         \/ pc'[q] = pc[q]
                         \/ pc[q] = "put asleep" /\ pc'[q] = "put"
        BY Zenon, <1>2, <3>1, <3>4, <3>5
      <3>8. \A q \in Writers : pc'[q] # "put asleep"
        BY Zenon, <3>2, <3>3, <3>7
      <3>9. \A q \in Readers : pc'[q] \in {"read sleep", "read asleep"} => pc[q] = pc'[q]
        BY Zenon, <3>2, <3>7
      <3> QED BY Zenon, <1>1, <2>1, <3>6, <3>8, <3>9 DEF PcInv
    <2> QED BY <2>2, <2>3
  <1>12. ASSUME NEW p \in Readers, NEW l \in {"user", "read"}, pc' = [pc EXCEPT ![p] = l], Same, SameTx,
                lock' = lock \/ pc[p] = "read sleep" \/ lock \in {Free, p}
         PROVE  PcInv'
    <2>1. l \in Labels /\ l # "read sleep" /\ l # "read asleep" /\ l # "put asleep"
      BY <1>12 DEF Labels
    <2>2. pc' \in [P -> Labels] /\ \A q \in P : (q = p /\ pc'[q] = l) \/ (q # p /\ pc'[q] = pc[q])
      BY Zenon, <1>2, <1>12, <2>1
    <2>3. ASSUME NEW q \in Readers, pc'[q] = "read sleep" PROVE lock' = q
      <3>1. q # p /\ pc[q] = "read sleep" /\ lock = q
        BY Zenon, <1>1, <2>1, <2>2, <2>3 DEF PcInv
      <3>2. lock # Free /\ lock # p /\ pc[p] # "read sleep"
        BY Zenon, <3>1, ProcTypes
      <3> QED BY Zenon, <1>12, <3>1, <3>2
    <2> QED BY Zenon, <1>1, <1>3, <1>12, <2>1, <2>2, <2>3 DEF PcInv
  <1>13. ASSUME NEW p \in Readers, NEW k \in Counts, Read(p, k) PROVE PcInv'
    <2>1. pc' = [pc EXCEPT ![p] = "read"] /\ Same /\ SameTx /\ lock' = lock
      BY <1>13 DEF Read, cons, tx
    <2> QED BY Zenon, <1>12, <2>1
  <1>14. ASSUME NEW p \in Readers, NEW l \in {"read sleep", "read asleep"}, pc' = [pc EXCEPT ![p] = l],
                Same, SameTx, r = w, lock \in {Free, p}, l = "read sleep" => lock' = p
         PROVE  PcInv'
    <2>1. l \in Labels /\ l # "put asleep"
      BY <1>14 DEF Labels
    <2>2. pc' \in [P -> Labels] /\ \A q \in P : (q = p /\ pc'[q] = l) \/ (q # p /\ pc'[q] = pc[q])
      BY Zenon, <1>2, <1>14, <2>1
    <2>3. ASSUME NEW q \in Readers, pc'[q] = "read sleep" PROVE lock' = q
      <3>1. CASE q = p
        BY Zenon, <1>14, <2>2, <2>3, <3>1
      <3>2. CASE q # p
        <4>1. lock = q /\ lock # Free /\ lock # p
          BY Zenon, <1>1, <2>2, <2>3, <3>2, ProcTypes DEF PcInv
        <4> QED BY Zenon, <1>14, <4>1
      <3> QED BY <3>1, <3>2
    <2> QED BY Zenon, <1>1, <1>3, <1>14, <2>1, <2>2, <2>3 DEF PcInv
  <1>15. ASSUME NEW p \in Readers, ReadWait(p) PROVE PcInv'
    <2>1. lock \in {Free, p} /\ r = w /\ Same /\ SameTx
      BY <1>15 DEF ReadWait, tx
    <2>2. CASE killed[p]
      <3>1. pc' = [pc EXCEPT ![p] = "user"]
        BY <1>15, <2>2 DEF ReadWait, Return
      <3> QED BY Zenon, <1>12, <2>1, <3>1
    <2>3. CASE ~killed[p]
      <3>1. pc' = [pc EXCEPT ![p] = "read sleep"] /\ lock' = p
        BY <1>15, <2>3 DEF ReadWait
      <3> QED BY Zenon, <1>14, <2>1, <3>1
    <2> QED BY <2>2, <2>3
  <1>16. ASSUME NEW p \in Readers, Sleep(p) PROVE PcInv'
    <2>1. pc[p] = "read sleep" /\ pc' = [pc EXCEPT ![p] = "read asleep"] /\ Same /\ SameTx
      BY <1>16 DEF Sleep, tx
    <2>2. lock = p /\ r = w
      BY Zenon, <1>1, <2>1 DEF PcInv
    <2>3. "read asleep" # "read sleep"
      OBVIOUS
    <2> QED BY Zenon, <1>14, <2>1, <2>2, <2>3
  <1>17. ASSUME NEW p \in Readers, kill(p) PROVE PcInv'
    <2>1. Same /\ SameTx /\ lock' = lock
      BY <1>17 DEF kill, cons, tx
    <2>2. pc' = [pc EXCEPT ![p] = IF pc[p] = "read asleep" THEN "read" ELSE pc[p]]
      BY <1>17 DEF kill
    <2>3. CASE pc[p] = "read asleep"
      <3>1. pc' = [pc EXCEPT ![p] = "read"]
        BY Zenon, <2>2, <2>3
      <3> QED BY Zenon, <1>12, <2>1, <3>1
    <2>4. CASE pc[p] # "read asleep"
      <3>1. pc' = pc
        BY Zenon, <1>2, <2>2, <2>4
      <3> QED BY Zenon, <1>5, <2>1, <3>1
    <2> QED BY <2>3, <2>4
  <1>18. ASSUME NEW p \in Readers, NEW ok \in BOOLEAN, consoleread(p, ok) PROVE PcInv'
    <2>1. lock \in {Free, p} /\ r # w /\ w' = w /\ SameTx
      BY <1>18 DEF consoleread, tx
    <2>2. pc' = pc \/ pc' = [pc EXCEPT ![p] = "user"]
      BY <1>18 DEF consoleread, Return
    <2>3. "user" \in Labels /\ "user" # "put asleep" /\ "user" # "read sleep" /\ "user" # "read asleep"
      BY DEF Labels
    <2>4. pc' \in [P -> Labels] /\ \A q \in P : pc'[q] = pc[q] \/ pc'[q] = "user"
      BY Zenon, <1>2, <2>2, <2>3
    <2>5. \A q \in Readers : pc[q] # "read sleep" /\ pc[q] # "read asleep"
      BY Zenon, <1>1, <2>1 DEF PcInv
    <2>6. \A q \in Readers : pc'[q] # "read sleep" /\ pc'[q] # "read asleep"
      BY Zenon, <2>3, <2>4, <2>5
    <2> QED BY Zenon, <1>1, <1>3, <2>1, <2>3, <2>4, <2>6 DEF PcInv
  <1> QED BY Zenon, <1>6, <1>7, <1>8, <1>9, <1>10, <1>11, <1>13, <1>15, <1>16, <1>17, <1>18
          DEF Next, Handler
-----------------------------------------------------------------------------
LEMMA InitInv == Init => CInv
  <1> SUFFICES ASSUME Init PROVE CInv
    OBVIOUS
  <1>1. 0 \in Index /\ 0 \in TxIndex /\ Size \in Nat /\ 0 - 0 = 0 /\ 0 % M = 0
    BY ConsoleAssumption DEF Index, TxIndex
  <1>2. r = 0 /\ w = 0 /\ e = 0 /\ txr = 0 /\ txw = 0 /\ lock = Free /\ hpc # "cons"
    BY DEF Init
  <1>3. buf \in [0 .. Size - 1 -> Stored]
    BY DEF Init, Stored
  <1>4. pc \in [Readers \cup Writers -> Labels] /\ \A p \in Readers \cup Writers : pc[p] = "user"
    BY DEF Init, Labels
  <1>5. RingInv
    BY <1>1, <1>2 DEF RingInv, Done, Pending
  <1>6. \A p \in Readers \cup Writers :
          pc[p] # "read sleep" /\ pc[p] # "read asleep" /\ pc[p] # "put asleep"
    BY <1>4
  <1>7. PcInv
    BY Zenon, <1>4, <1>6 DEF PcInv
  <1> QED BY Zenon, <1>1, <1>2, <1>3, <1>5, <1>7, Parts DEF TxTypes, HandlerInv

LEMMA StepInv == CInv /\ [Next]_vars => CInv'
  <1> SUFFICES ASSUME CInv, [Next]_vars PROVE CInv'
    OBVIOUS
  <1>1. RingStep /\ Types /\ RingInv
    BY Zenon, RingSteps DEF CInv
  <1>2. /\ buf' \in [0 .. Size - 1 -> Stored] /\ r' \in Index /\ w' \in Index /\ e' \in Index
        /\ RingInv'
    BY Zenon, <1>1, RingKept
  <1>3. TxTypes' /\ HandlerInv' /\ PcInv'
    BY Zenon, TxTypesKept, HandlerKept, PcKept
  <1> QED BY Zenon, <1>2, <1>3 DEF CInv, Types, LockInv, NoLostWakeup, TxTypes, HandlerInv, PcInv

(* The lock, the ring and the sleepers are as CInv says, always. *)
THEOREM ConsoleInvariant == Spec => []CInv
  <1>1. Init => CInv
    BY InitInv
  <1>2. CInv /\ [Next]_vars => CInv'
    BY StepInv
  <1> QED BY <1>1, <1>2, PTL DEF Spec

(* No reader of consoleread and no writer of uartputc sleeps on after what *)
(* it waits for has come about.                                            *)
THEOREM ConsoleNoLostWakeup == Spec => []NoLostWakeup
  <1>1. CInv => NoLostWakeup
    BY DEF CInv
  <1> QED BY <1>1, ConsoleInvariant, PTL

(* cons.buf with its three indices is a line discipline: what is typed can *)
(* be edited until the line is complete, and is then read in order and     *)
(* once, however often the indices wrap.                                   *)
THEOREM ConsoleRefinesTty == Spec => IsTty
  <1>1. Init => T!Init
    <2> SUFFICES ASSUME Init PROVE T!Init
      OBVIOUS
    <2>1. CInv /\ r = 0 /\ w = 0 /\ e = 0
      BY InitInv DEF Init
    <2>2. CharsOf(buf, w, e) = <<>> /\ CharsOf(buf, r, w) = <<>>
      BY Zenon, <2>1, RingTypes, CharsNone DEF CInv
    <2> QED BY Zenon, <2>2, CharsIs DEF T!Init
  <1>2. CInv /\ [Next]_vars => [T!Next]_<<Chars(w, e), Chars(r, w)>>
    BY Zenon, RingSteps, Refines
  <1> QED BY <1>1, <1>2, ConsoleInvariant, PTL DEF Spec, IsTty, T!Spec
=============================================================================
