----------------------------- MODULE LogProofs ------------------------------
(***************************************************************************)
(* The log of module Log implements the atomic journal of module Journal,  *)
(* for any number of processes and blocks and any sizes of the log; and    *)
(* with the space that begin_op reserves, it never overflows.              *)
(***************************************************************************)
EXTENDS Log, FiniteSetTheorems, TLAPS

CommitLabels == {"commit", "wlog", "install", "done"}
Looping == {"wlog", "install", "rinstall"}

Inj(s) == \A i, j \in 1 .. Len(s) : s[i] = s[j] => i = j

(* One process commits, and only when no system call is in progress; while *)
(* the log is recovered nothing else happens.                              *)
ControlInv ==
  /\ outstanding = Cardinality(Active)
  /\ \A p \in Procs :
       /\ pc[p] \in CommitLabels => /\ committing
                                    /\ \A q \in Procs : pc[q] \notin {"op", "dirty"}
                                    /\ \A q \in Procs : pc[q] \in CommitLabels => q = p
       /\ pc[p] \in Recovering => p = InitProc /\ \A q \in Procs : q # p => pc[q] = "idle"
       /\ pc[p] \in Looping => tail[p] <= Len(lh)
       /\ pc[p] \notin Looping => tail[p] = 0
       /\ buf[p] # NoBlock <=> pc[p] = "dirty"
  /\ \A p, q \in Procs : buf[p] = buf[q] /\ buf[p] # NoBlock => p = q

(* A block of the current transaction is pinned until it is installed. *)
PinInv ==
  /\ Inj(lh) /\ Inj(head)
  /\ \A b \in Blocks : pins[b] # 0 => InLog(b)
  /\ pc[InitProc] \in Recovering => \A b \in Blocks : pins[b] = 0
  /\ (\A p \in Procs : pc[p] \notin Recovering \cup {"install"})
       => \A i \in 1 .. Len(lh) : pins[lh[i]] = 1
  /\ \A p \in Procs : pc[p] = "install" =>
       \A i \in 1 .. Len(lh) : pins[lh[i]] = IF i <= tail[p] THEN 0 ELSE 1

(* A pinned or locked block is in the cache; any other cached block is     *)
(* what the disk has.                                                      *)
CacheInv ==
  /\ \A b \in Blocks : pins[b] = 1 \/ ~Unlocked(b) => cache[b] # NoVal
  /\ \A b \in Blocks : cache[b] # NoVal /\ pins[b] = 0 /\ Unlocked(b) => cache[b] = disk[b]

(* How far a commit or a recovery has come. *)
WorkInv ==
  /\ (\A p \in Procs : pc[p] \notin Recovering \cup {"install"}) => head = <<>>
  /\ \A p \in Procs :
       /\ pc[p] = "wlog" => \A i \in 1 .. tail[p] : ldata[i] = cache[lh[i]]
       /\ pc[p] \in {"install", "rinstall"} =>
            /\ lh = head
            /\ \A i \in 1 .. tail[p] : disk[lh[i]] = ldata[i]
       /\ pc[p] = "install" =>
            \A i \in 1 .. Len(lh) : i > tail[p] => cache[lh[i]] = ldata[i]

(* The inductive invariant. *)
LInv == TypeOK /\ ControlInv /\ PinInv /\ CacheInv /\ WorkInv
-----------------------------------------------------------------------------
(* Counting the calls in progress. *)

LEMMA ActiveFinite == IsFiniteSet(Active) /\ Cardinality(Active) \in Nat
<1>1. IsFiniteSet(Active)
  BY Zenon, LogAssumption, FS_Subset DEF Active
<1> QED BY Zenon, <1>1, FS_CardinalityType

LEMMA ActiveAdds ==
  ASSUME NEW p \in Procs, p \notin Active, Active' = Active \cup {p}
  PROVE  Cardinality(Active') = Cardinality(Active) + 1
BY Zenon, ActiveFinite, FS_AddElement

LEMMA ActiveLeaves ==
  ASSUME NEW p \in Procs, p \in Active, Active' = Active \ {p}
  PROVE  Cardinality(Active') = Cardinality(Active) - 1
BY Zenon, ActiveFinite, FS_RemoveElement

LEMMA ActiveLast ==
  ASSUME NEW p \in Procs, p \in Active, Cardinality(Active) = 1
  PROVE  Active = {p}
<1>1. IsFiniteSet(Active \ {p}) /\ Cardinality(Active \ {p}) = 0
  BY ActiveFinite, FS_RemoveElement
<1>2. Active \ {p} = {}
  BY Zenon, <1>1, FS_EmptySet
<1> QED BY Zenon, <1>2

(* A panic, like a step that changes nothing, keeps the invariant. *)
LEMMA SameState ==
  ASSUME LInv, UNCHANGED <<diskVars, logVars, cacheVars, procVars>>, panic' \in Messages
  PROVE  LInv'
<1> USE DEF diskVars, logVars, cacheVars, procVars
<1>1. TypeOK'
  BY Zenon DEF LInv, TypeOK
<1>2. ControlInv'
  BY Zenon DEF LInv, ControlInv, Active
<1>3. PinInv' /\ CacheInv' /\ WorkInv'
  BY DEF LInv, PinInv, CacheInv, WorkInv, InLog, Unlocked, Inj
<1> QED BY Zenon, <1>1, <1>2, <1>3 DEF LInv

(* Processes that move between labels outside of commit and recovery. *)
LEMMA SameData ==
  ASSUME LInv, UNCHANGED <<disk, head, ldata, lh, pins, cache, buf, tail>>,
         \A q \in Procs : \/ pc'[q] = pc[q]
                          \/ /\ pc[q] \notin Looping \cup Recovering
                             /\ pc'[q] \notin Looping \cup Recovering
  PROVE  PinInv' /\ CacheInv' /\ WorkInv'
<1>1. \A q \in Procs :
        /\ pc'[q] \in Recovering \cup {"install"} <=> pc[q] \in Recovering \cup {"install"}
        /\ pc'[q] = "install" <=> pc[q] = "install"
        /\ pc'[q] = "rinstall" <=> pc[q] = "rinstall"
        /\ pc'[q] = "wlog" <=> pc[q] = "wlog"
        /\ pc'[q] \in Recovering <=> pc[q] \in Recovering
  BY Zenon DEF Looping, Recovering
<1>2. PinInv'
  BY <1>1, LogAssumption DEF LInv, PinInv, InLog, Inj
<1>3. CacheInv'
  BY Zenon DEF LInv, CacheInv, Unlocked
<1>4. WorkInv'
  BY <1>1 DEF LInv, WorkInv
<1> QED BY Zenon, <1>2, <1>3, <1>4
-----------------------------------------------------------------------------
(* One lemma for each group of actions. *)

LEMMA InvRecover ==
  ASSUME LInv, Recover
  PROVE  LInv'
<1> USE LogAssumption DEF At, diskVars, logVars, cacheVars, procVars
<1>1. TypeOK /\ ControlInv /\ PinInv /\ CacheInv /\ WorkInv
  BY Zenon DEF LInv
<1>2. /\ disk \in [Blocks -> Val] /\ cache \in [Blocks -> Val \cup {NoVal}]
      /\ pins \in [Blocks -> 0 .. 1] /\ ldata \in [1 .. LOGSIZE -> Val]
      /\ lh \in Seq(Blocks) /\ head \in Seq(Blocks) /\ Len(lh) <= LOGSIZE /\ Len(head) <= LOGSIZE
      /\ pc \in [Procs -> Labels] /\ buf \in [Procs -> Blocks \cup {NoBlock}]
      /\ tail \in [Procs -> 0 .. LOGSIZE] /\ mine \in [Procs -> SUBSET Blocks]
  BY Zenon, <1>1 DEF TypeOK
<1>3. CASE ReadHead
  <2>1. Active' = Active
    BY Zenon, <1>3, <1>2 DEF ReadHead, Active, Goto
  <2>2. /\ pc[InitProc] = "rhead" /\ tail'[InitProc] = 0
        /\ \A q \in Procs : q # InitProc => pc[q] = "idle" /\ pc'[q] = "idle" /\ tail'[q] = tail[q]
        /\ pc'[InitProc] = "rinstall"
    BY Zenon, <1>3, <1>1, <1>2
       DEF ReadHead, Goto, ControlInv, Recovering, CommitLabels, Looping
  <2>11. TypeOK'
    BY Zenon, <1>3, <1>1, <1>2
       DEF ReadHead, Goto, TypeOK, Labels, Messages
  <2>12. ControlInv'
    <3>1. /\ outstanding' = outstanding /\ buf' = buf
          /\ \A q \in Procs : pc'[q] \notin CommitLabels /\ buf[q] = NoBlock
      BY Zenon, <1>3, <1>1, <2>2 DEF ReadHead, ControlInv, CommitLabels
    <3>2. tail'[InitProc] <= Len(lh')
      BY <1>3, <1>2, <2>2 DEF ReadHead
    <3>3. \A q \in Procs : q # InitProc => tail'[q] = 0
      BY Zenon, <1>1, <2>2 DEF ControlInv, Looping
    <3> QED BY Zenon, <1>1, <2>1, <2>2, <3>1, <3>2, <3>3 DEF ControlInv, Looping, Recovering
  <2>13. PinInv'
    <3>1. lh' = head /\ head' = head /\ pins' = pins /\ pc'[InitProc] = "rinstall"
      BY Zenon, <1>3, <1>2 DEF ReadHead, Goto
    <3>2. \A b \in Blocks : pins[b] = 0
      BY Zenon, <1>1, <2>2 DEF PinInv, Recovering
    <3>3. Inj(lh)' /\ Inj(head)'
      BY Zenon, <1>1, <3>1 DEF PinInv, Inj
    <3>4. \A q \in Procs : pc'[q] # "install"
      BY Zenon, <2>2, <3>1
    <3> QED BY Zenon, <3>1, <3>2, <3>3, <3>4, LogAssumption DEF PinInv, Recovering
  <2>14. CacheInv'
    BY Zenon, <1>3, <1>1, <1>2
       DEF ReadHead, Goto, CacheInv, Unlocked
  <2>15. WorkInv'
    BY <1>3, <1>1, <1>2, <2>2
       DEF ReadHead, Goto, WorkInv, Recovering
  <2> QED BY Zenon, <2>11, <2>12, <2>13, <2>14, <2>15 DEF LInv
<1>4. CASE RInstall
  <2>1. Active' = Active
    BY Zenon, <1>4, <1>2 DEF RInstall, InstallBlock, Active, Goto
  <2>2. /\ pc[InitProc] = "rinstall" /\ tail'[InitProc] = tail[InitProc] + 1
        /\ \A q \in Procs : q # InitProc => pc[q] = "idle" /\ pc'[q] = "idle" /\ tail'[q] = tail[q]
        /\ pc'[InitProc] = "rinstall"
    BY Zenon, <1>4, <1>1, <1>2
       DEF RInstall, InstallBlock, ControlInv, Recovering, CommitLabels, Looping
  <2>11. TypeOK'
    BY <1>4, <1>1, <1>2
       DEF RInstall, InstallBlock, TypeOK, Labels, Messages
  <2>12. ControlInv'
    BY <1>4, <1>1, <1>2, <2>1
       DEF RInstall, InstallBlock, ControlInv, CommitLabels, Looping, Recovering
  <2>13. PinInv'
    BY <1>4, <1>1, <1>2, <2>2
       DEF RInstall, InstallBlock, PinInv, InLog, Inj, Recovering
  <2>14. CacheInv'
    BY <1>4, <1>1, <1>2
       DEF RInstall, InstallBlock, CacheInv, Unlocked
  <2>15. WorkInv'
    <3>1. /\ lh = head /\ Inj(lh) /\ tail[InitProc] \in Nat
          /\ tail[InitProc] + 1 \in 1 .. Len(lh) /\ Len(lh) \in Nat
      BY <1>4, <1>1, <1>2, <2>2 DEF WorkInv, PinInv, RInstall, InstallBlock
    <3>2. \A i \in 1 .. tail[InitProc] + 1 : disk'[lh[i]] = ldata[i]
      <4>1. \A i \in 1 .. tail[InitProc] :
              i \in 1 .. Len(lh) /\ lh[i] # lh[tail[InitProc] + 1] /\ disk[lh[i]] = ldata[i]
        BY <1>1, <2>2, <3>1 DEF WorkInv, Inj
      <4>2. \A i \in 1 .. Len(lh) : lh[i] \in Blocks
        BY <1>2
      <4>3. \A b \in Blocks : disk'[b] = IF b = lh[tail[InitProc] + 1]
                                         THEN ldata[tail[InitProc] + 1] ELSE disk[b]
        BY Zenon, <1>4, <1>2 DEF RInstall, InstallBlock
      <4>4. \A i \in 1 .. tail[InitProc] + 1 : i = tail[InitProc] + 1 \/ i \in 1 .. tail[InitProc]
        BY <3>1
      <4> QED BY Zenon, <3>1, <4>1, <4>2, <4>3, <4>4
    <3> QED BY <1>4, <1>1, <1>2, <2>2, <3>1, <3>2 DEF WorkInv, RInstall, InstallBlock, Recovering
  <2> QED BY Zenon, <2>11, <2>12, <2>13, <2>14, <2>15 DEF LInv
<1>5. CASE RClear
  <2>1. Active' = Active
    BY Zenon, <1>5, <1>2 DEF RClear, EraseLog, Active, Goto
  <2>2. /\ pc[InitProc] = "rinstall" /\ tail'[InitProc] = 0
        /\ \A q \in Procs : q # InitProc => pc[q] = "idle" /\ pc'[q] = "idle" /\ tail'[q] = tail[q]
        /\ pc'[InitProc] = "idle"
    BY Zenon, <1>5, <1>1, <1>2
       DEF RClear, EraseLog, Goto, ControlInv, Recovering, CommitLabels, Looping
  <2>11. TypeOK'
    BY <1>5, <1>1, <1>2
       DEF RClear, EraseLog, Goto, TypeOK, Labels, Messages
  <2>12. ControlInv'
    BY Zenon, <1>5, <1>1, <1>2, <2>1
       DEF RClear, EraseLog, Goto, ControlInv, CommitLabels, Looping, Recovering
  <2>13. PinInv'
    BY <1>5, <1>1, <1>2, <2>2
       DEF RClear, EraseLog, Goto, PinInv, InLog, Inj, Recovering
  <2>14. CacheInv'
    BY Zenon, <1>5, <1>1, <1>2
       DEF RClear, EraseLog, Goto, CacheInv, Unlocked
  <2>15. WorkInv'
    BY Zenon, <1>5, <1>1, <1>2, <2>2
       DEF RClear, EraseLog, Goto, WorkInv, Recovering
  <2> QED BY Zenon, <2>11, <2>12, <2>13, <2>14, <2>15 DEF LInv
<1> QED BY Zenon, <1>3, <1>4, <1>5 DEF Recover

LEMMA InvCall ==
  ASSUME LInv, NEW p \in Procs,
         \/ begin_op(p) \/ log_write(p) \/ end_op(p)
         \/ \E b \in Blocks, v \in Val : Modify(p, b, v)
  PROVE  LInv'
<1> USE LogAssumption DEF At, diskVars, logVars, cacheVars, procVars
<1>1. TypeOK /\ ControlInv /\ PinInv /\ CacheInv /\ WorkInv
  BY Zenon DEF LInv
<1>2. /\ disk \in [Blocks -> Val] /\ cache \in [Blocks -> Val \cup {NoVal}]
      /\ pins \in [Blocks -> 0 .. 1] /\ ldata \in [1 .. LOGSIZE -> Val]
      /\ lh \in Seq(Blocks) /\ head \in Seq(Blocks) /\ Len(lh) <= LOGSIZE /\ Len(head) <= LOGSIZE
      /\ pc \in [Procs -> Labels] /\ buf \in [Procs -> Blocks \cup {NoBlock}]
      /\ tail \in [Procs -> 0 .. LOGSIZE] /\ mine \in [Procs -> SUBSET Blocks]
  BY Zenon, <1>1 DEF TypeOK
<1>3. CASE begin_op(p)
  <2>1. \A q \in Procs : pc[q] \notin Recovering
    BY Zenon, <1>3, <1>1 DEF begin_op, Up, ControlInv
  <2>2. /\ pc[p] \in {"idle", "woken"} /\ pc'[p] \in {"asleep", "op"}
        /\ \A q \in Procs : q # p => pc'[q] = pc[q]
        /\ pc' \in [Procs -> Labels]
        /\ UNCHANGED <<disk, head, ldata, lh, pins, cache, buf, tail, mine, committing, panic>>
    BY Zenon, <1>3, <1>2 DEF begin_op, Goto, Labels
  <2>3. PinInv' /\ CacheInv' /\ WorkInv'
    <3>1. \A q \in Procs : \/ pc'[q] = pc[q]
                           \/ /\ pc[q] \notin Looping \cup Recovering
                              /\ pc'[q] \notin Looping \cup Recovering
      BY Zenon, <2>2 DEF Looping, Recovering
    <3> QED BY Zenon, <2>2, <3>1, SameData
  <2>4. outstanding' \in Nat /\ outstanding' = Cardinality(Active')
    <3>1. CASE committing \/ NoSpace
      <4>1. Active' = Active
        BY Zenon, <1>3, <1>2, <3>1 DEF begin_op, Active, Goto
      <4> QED BY Zenon, <1>3, <1>1, <3>1, <4>1 DEF begin_op, ControlInv, TypeOK
    <3>2. CASE ~(committing \/ NoSpace)
      <4>1. p \notin Active /\ Active' = Active \cup {p}
        BY <1>3, <1>2, <3>2 DEF begin_op, Active, Goto
      <4>2. Cardinality(Active') = Cardinality(Active) + 1 /\ Cardinality(Active) \in Nat
        BY Zenon, <4>1, ActiveAdds, ActiveFinite
      <4>3. outstanding = Cardinality(Active) /\ outstanding' = outstanding + 1
        BY Zenon, <1>3, <1>1, <3>2 DEF begin_op, ControlInv
      <4> QED BY <4>2, <4>3
    <3> QED BY Zenon, <3>1, <3>2
  <2>5. pc'[p] = "op" => ~committing
    BY Zenon, <1>3, <1>2 DEF begin_op, Goto
  <2>6. ControlInv'
    BY <1>1, <2>1, <2>2, <2>4, <2>5 DEF ControlInv, CommitLabels, Looping, Recovering
  <2>7. TypeOK'
    BY Zenon, <1>1, <2>2, <2>4 DEF TypeOK
  <2> QED BY Zenon, <2>3, <2>6, <2>7 DEF LInv
<1>4. ASSUME NEW b \in Blocks, NEW v \in Val, Modify(p, b, v) PROVE LInv'
  <2>1. /\ \A q \in Procs : pc[q] \notin Recovering \cup CommitLabels
        /\ pc[p] = "op"
    BY Zenon, <1>4, <1>1 DEF Modify, ControlInv, Recovering
  <2>2. /\ pc' = [pc EXCEPT ![p] = "dirty"] /\ buf' = [buf EXCEPT ![p] = b]
        /\ cache' = [cache EXCEPT ![b] = v] /\ mine' \in [Procs -> SUBSET Blocks]
        /\ Unlocked(b) /\ v # NoVal
        /\ UNCHANGED <<disk, head, ldata, lh, pins, tail, outstanding, committing, panic>>
    BY <1>4, <1>2 DEF Modify, Goto
  <2>3. \A q \in Procs : pc'[q] \notin Recovering \cup CommitLabels
    BY Zenon, <1>2, <2>1, <2>2 DEF Recovering, CommitLabels
  <2>4. Active' = Active
    BY Zenon, <1>2, <2>1, <2>2 DEF Active
  <2>5. TypeOK'
    BY Zenon, <1>1, <2>2 DEF TypeOK, Labels
  <2>6. ControlInv'
    <3>1. \A q \in Procs : buf'[q] # NoBlock <=> pc'[q] = "dirty"
      BY Zenon, <1>1, <1>2, <1>4, <2>1, <2>2 DEF ControlInv
    <3>2. \A q, r \in Procs : buf'[q] = buf'[r] /\ buf'[q] # NoBlock => q = r
      BY <1>1, <1>2, <2>2 DEF ControlInv, Unlocked
    <3>3. \A q \in Procs : tail'[q] = 0 /\ pc'[q] \notin Looping
      BY Zenon, <1>1, <2>1, <2>2, <2>3 DEF ControlInv, Looping, Recovering, CommitLabels
    <3> QED BY Zenon, <1>1, <2>2, <2>3, <2>4, <3>1, <3>2, <3>3 DEF ControlInv
  <2>7. PinInv'
    BY Zenon, <1>1, <2>1, <2>2, <2>3 DEF PinInv, InLog, CommitLabels
  <2>8. CacheInv'
    <3>1. \A c \in Blocks : c # b => (Unlocked(c)' <=> Unlocked(c)) /\ cache'[c] = cache[c]
      BY Zenon, <1>1, <1>2, <2>1, <2>2 DEF Unlocked, ControlInv
    <3>2. ~Unlocked(b)' /\ cache'[b] # NoVal
      BY Zenon, <1>2, <2>2 DEF Unlocked
    <3> QED BY Zenon, <1>1, <2>2, <3>1, <3>2 DEF CacheInv
  <2>9. WorkInv'
    BY Zenon, <1>1, <2>1, <2>2, <2>3 DEF WorkInv, CommitLabels, Recovering
  <2> QED BY Zenon, <2>5, <2>6, <2>7, <2>8, <2>9 DEF LInv
<1>5. CASE log_write(p)
  <2>1. CASE \E m \in Messages : Panic(m)
    BY Zenon, <2>1, SameState DEF Panic
  <2>2. CASE ~\E m \in Messages : Panic(m)
    <3> DEFINE b == buf[p]
    <3>1. /\ pc[p] = "dirty" /\ b \in Blocks
          /\ \A q \in Procs : pc[q] \notin Recovering \cup CommitLabels
      BY ZenonT(30), <1>5, <1>1, <1>2 DEF log_write, ControlInv, Recovering
    <3>2. /\ pc' = [pc EXCEPT ![p] = "op"] /\ buf' = [buf EXCEPT ![p] = NoBlock]
          /\ Len(lh) < LOGSIZE
          /\ InLog(b) => lh' = lh /\ pins' = pins
          /\ ~InLog(b) => lh' = Append(lh, b) /\ pins' = [pins EXCEPT ![b] = @ + 1]
          /\ UNCHANGED <<disk, head, ldata, cache, tail, mine, outstanding, committing, panic>>
      <4>1. ~(Len(lh) >= LOGSIZE \/ Len(lh) >= LogArea - 1) /\ ~(outstanding < 1)
        BY Zenon, <1>5, <2>2 DEF log_write, Messages
      <4>2. Len(lh) < LOGSIZE
        BY <1>2, <4>1
      <4> QED BY Zenon, <1>5, <4>1, <4>2 DEF log_write, Goto
    <3>3. /\ \A q \in Procs : pc'[q] \notin Recovering \cup CommitLabels
          /\ Active' = Active
      BY Zenon, <1>2, <3>1, <3>2 DEF Recovering, CommitLabels, Active
    <3>4. \A c \in Blocks : pins[c] = IF InLog(c) THEN 1 ELSE 0
      <4>1. \A i \in 1 .. Len(lh) : pins[lh[i]] = 1
        BY Zenon, <1>1, <3>1 DEF PinInv, CommitLabels
      <4> QED BY Zenon, <1>1, <1>2, <4>1 DEF PinInv, InLog
    <3>5. /\ lh' \in Seq(Blocks) /\ Len(lh') <= LOGSIZE /\ Inj(lh)'
          /\ pins' \in [Blocks -> 0 .. 1]
          /\ \A c \in Blocks : pins'[c] = IF InLog(c)' THEN 1 ELSE 0
          /\ \A c \in Blocks : InLog(c)' <=> InLog(c) \/ c = b
      <4>1. CASE InLog(b)
        <5>1. lh' = lh /\ pins' = pins
          BY Zenon, <3>2, <4>1
        <5>2. \A c \in Blocks : InLog(c)' <=> InLog(c)
          BY Zenon, <5>1 DEF InLog
        <5>3. Inj(lh)'
          BY Zenon, <1>1, <5>1 DEF PinInv, Inj
        <5> QED BY Zenon, <1>2, <3>4, <4>1, <5>1, <5>2, <5>3
      <4>2. CASE ~InLog(b)
        <5>1. /\ lh' \in Seq(Blocks) /\ Len(lh') = Len(lh) + 1 /\ Len(lh) \in Nat
              /\ lh'[Len(lh) + 1] = b /\ \A i \in 1 .. Len(lh) : lh'[i] = lh[i]
          <6>1. lh' = Append(lh, b)
            BY Zenon, <3>2, <4>2
          <6> HIDE DEF b
          <6> QED BY <1>2, <3>1, <6>1
        <5>2. Inj(lh)'
          BY <1>1, <4>2, <5>1 DEF PinInv, Inj, InLog
        <5>3. \A c \in Blocks : InLog(c)' <=> InLog(c) \/ c = b
          BY <5>1 DEF InLog
        <5>4. pins[b] = 0 /\ pins' = [pins EXCEPT ![b] = 1]
          BY <3>1, <3>2, <3>4, <4>2
        <5>5. \A c \in Blocks : pins'[c] = IF InLog(c)' THEN 1 ELSE 0
          BY Zenon, <1>2, <3>1, <3>4, <5>3, <5>4
        <5> QED BY <1>2, <3>2, <5>1, <5>2, <5>3, <5>4, <5>5
      <4> QED BY Zenon, <4>1, <4>2
    <3>6. TypeOK'
      BY Zenon, <1>1, <3>2, <3>5 DEF TypeOK, Labels
    <3>7. ControlInv'
      <4>1. \A q \in Procs : buf'[q] # NoBlock <=> pc'[q] = "dirty"
        BY Zenon, <1>1, <1>2, <3>1, <3>2 DEF ControlInv
      <4>2. \A q, r \in Procs : buf'[q] = buf'[r] /\ buf'[q] # NoBlock => q = r
        BY <1>1, <1>2, <3>2 DEF ControlInv
      <4>3. \A q \in Procs : tail'[q] = 0 /\ pc'[q] \notin Looping
        BY Zenon, <1>1, <3>1, <3>2, <3>3 DEF ControlInv, Looping, Recovering, CommitLabels
      <4> QED BY Zenon, <1>1, <3>2, <3>3, <4>1, <4>2, <4>3 DEF ControlInv
    <3>8. PinInv'
      <4>1. \A i \in 1 .. Len(lh') : pins'[lh'[i]] = 1
        BY SMTT(20), <3>5 DEF InLog
      <4> QED BY Zenon, <1>1, <3>2, <3>3, <3>5, <4>1, LogAssumption DEF PinInv, CommitLabels
    <3>9. CacheInv'
      <4>1. \A c \in Blocks : c # b => (Unlocked(c)' <=> Unlocked(c))
        BY Zenon, <1>2, <3>2 DEF Unlocked
      <4>2. cache[b] # NoVal /\ pins'[b] = 1
        BY Zenon, <1>1, <3>1, <3>5 DEF CacheInv, Unlocked
      <4> QED BY <1>1, <3>2, <3>4, <3>5, <4>1, <4>2 DEF CacheInv
    <3>10. WorkInv'
      BY Zenon, <1>1, <3>1, <3>2, <3>3 DEF WorkInv, CommitLabels, Recovering
    <3> QED BY Zenon, <3>6, <3>7, <3>8, <3>9, <3>10 DEF LInv
  <2> QED BY Zenon, <2>1, <2>2
<1>6. CASE end_op(p)
  <2>1. CASE \E m \in Messages : Panic(m)
    BY Zenon, <2>1, SameState DEF Panic
  <2>2. CASE ~\E m \in Messages : Panic(m)
    <3>1. /\ pc[p] = "op" /\ p \in Active /\ ~committing
          /\ \A q \in Procs : pc[q] \notin Recovering \cup CommitLabels
      BY Zenon, <1>6, <1>1, <1>2, <2>2 DEF end_op, ControlInv, Recovering, Messages, Active
    <3>2. /\ outstanding' = outstanding - 1
          /\ UNCHANGED <<disk, head, ldata, lh, pins, cache, buf, tail, panic>>
          /\ outstanding = 1 => committing' = TRUE /\ pc' = [pc EXCEPT ![p] = "commit"]
          /\ outstanding # 1 => committing' = FALSE /\ pc' = [Wakeup(pc) EXCEPT ![p] = "idle"]
          /\ mine' \in [Procs -> SUBSET Blocks]
      BY Zenon, <1>6, <1>2, <3>1 DEF end_op, Goto
    <3>3. /\ pc' \in [Procs -> Labels] /\ committing' \in BOOLEAN
          /\ \A q \in Procs : \/ q # p /\ pc'[q] = pc[q]
                              \/ q # p /\ pc[q] = "asleep" /\ pc'[q] = "woken"
                              \/ q = p /\ pc'[q] \in {"idle", "commit"}
      BY Zenon, <1>2, <3>2 DEF Wakeup, Labels
    <3>4. Active' = Active \ {p}
      BY Zenon, <3>3 DEF Active
    <3>5. outstanding' = Cardinality(Active') /\ outstanding' \in Nat
      <4>1. Cardinality(Active') = Cardinality(Active) - 1 /\ Cardinality(Active') \in Nat
        <5>1. IsFiniteSet(Active \ {p})
          BY Zenon, ActiveFinite, FS_Subset
        <5> QED BY Zenon, <3>1, <3>4, <5>1, ActiveLeaves, FS_CardinalityType
      <4> QED BY Zenon, <1>1, <3>2, <4>1 DEF ControlInv
    <3>6. pc'[p] = "commit" => committing' /\ Active' = {}
      <4>1. outstanding = 1 => Active = {p}
        BY Zenon, <1>1, <3>1, ActiveLast DEF ControlInv
      <4> QED BY Zenon, <1>2, <3>2, <3>4, <4>1 DEF Wakeup
    <3>7. TypeOK'
      BY Zenon, <1>1, <3>2, <3>3, <3>5 DEF TypeOK
    <3>8. ControlInv'
      <4>1. \A q \in Procs :
              /\ pc'[q] \in CommitLabels => q = p /\ pc'[p] = "commit"
              /\ pc'[q] \notin Looping /\ pc'[q] \notin Recovering /\ tail'[q] = 0
        BY Zenon, <1>1, <3>1, <3>2, <3>3 DEF ControlInv, CommitLabels, Looping, Recovering
      <4>2. \A q \in Procs : buf'[q] # NoBlock <=> pc'[q] = "dirty"
        BY Zenon, <1>1, <3>1, <3>2, <3>3 DEF ControlInv
      <4>3. pc'[p] = "commit" => \A q \in Procs : pc'[q] \notin {"op", "dirty"}
        BY Zenon, <3>6 DEF Active
      <4> QED BY SMTT(20), <1>1, <3>2, <3>5, <3>6, <4>1, <4>2, <4>3 DEF ControlInv
    <3>9. PinInv' /\ CacheInv' /\ WorkInv'
      <4>1. \A q \in Procs : /\ pc[q] \notin Looping \cup Recovering
                             /\ pc'[q] \notin Looping \cup Recovering
        BY Zenon, <3>1, <3>3 DEF Looping, Recovering, CommitLabels
      <4> QED BY Zenon, <3>2, <4>1, SameData
    <3> QED BY Zenon, <3>7, <3>8, <3>9 DEF LInv
  <2> QED BY Zenon, <2>1, <2>2
<1> QED BY Zenon, <1>3, <1>4, <1>5, <1>6

(* A step of write_log or install_trans moves the loop variable only. *)
LEMMA TailStep ==
  ASSUME TypeOK, ControlInv, NEW p \in Procs, pc[p] \in Looping,
         NEW n \in 1 .. Len(lh), tail' = [tail EXCEPT ![p] = n],
         UNCHANGED <<lh, outstanding, committing, pc, buf>>
  PROVE  ControlInv'
<1>1. \A q \in Procs : tail'[q] = IF q = p THEN n ELSE tail[q]
  BY Zenon DEF TypeOK
<1>2. \A q \in Procs : /\ pc[q] \in Looping => tail'[q] <= Len(lh)
                       /\ pc[q] \notin Looping => tail'[q] = 0
  BY <1>1 DEF ControlInv
<1>3. Active' = Active
  BY Zenon DEF Active
<1> QED BY Zenon, <1>2, <1>3 DEF ControlInv

(* The steps of the one process that commits. *)
LEMMA InvCommit ==
  ASSUME LInv, NEW p \in Procs, CommitStep(p)
  PROVE  LInv'
<1> USE LogAssumption DEF At, diskVars, logVars, cacheVars, procVars
<1>1. TypeOK /\ ControlInv /\ PinInv /\ CacheInv /\ WorkInv
  BY Zenon DEF LInv
<1>2. /\ disk \in [Blocks -> Val] /\ cache \in [Blocks -> Val \cup {NoVal}]
      /\ pins \in [Blocks -> 0 .. 1] /\ ldata \in [1 .. LOGSIZE -> Val]
      /\ lh \in Seq(Blocks) /\ head \in Seq(Blocks) /\ Len(lh) <= LOGSIZE /\ Len(head) <= LOGSIZE
      /\ pc \in [Procs -> Labels] /\ buf \in [Procs -> Blocks \cup {NoBlock}]
      /\ tail \in [Procs -> 0 .. LOGSIZE] /\ mine \in [Procs -> SUBSET Blocks]
  BY Zenon, <1>1 DEF TypeOK
<1>3. /\ pc[p] \in CommitLabels
      /\ \A q \in Procs : /\ pc[q] \notin Recovering \cup {"op", "dirty"}
                          /\ q # p => pc[q] \notin CommitLabels /\ tail[q] = 0
                          /\ buf[q] = NoBlock
      /\ \A b \in Blocks : Unlocked(b)
      /\ tail[p] \in Nat /\ Len(lh) \in Nat
  <2>1. pc[p] \in CommitLabels
    BY Zenon DEF CommitStep, StartCommit, WriteLog, WriteHead, Install, Clear, Done, CommitLabels
  <2>2. \A q \in Procs : pc[q] \notin Recovering \cup {"op", "dirty"}
    BY Zenon, <1>1, <2>1 DEF ControlInv, CommitLabels, Recovering
  <2>3. \A q \in Procs : q # p => pc[q] \notin CommitLabels /\ tail[q] = 0
    BY Zenon, <1>1, <2>1, <2>2 DEF ControlInv, CommitLabels, Recovering, Looping
  <2>4. \A q \in Procs : buf[q] = NoBlock
    BY Zenon, <1>1, <2>2 DEF ControlInv
  <2> QED BY <1>2, <2>1, <2>2, <2>3, <2>4 DEF Unlocked
<1>4. CASE StartCommit(p) \/ Done(p)
  <2>1. /\ UNCHANGED <<disk, head, ldata, lh, pins, cache, buf, tail, mine, outstanding, panic>>
        /\ pc' \in [Procs -> Labels] /\ committing' \in BOOLEAN
        /\ \A q \in Procs : q # p => \/ pc'[q] = pc[q]
                                     \/ pc[q] = "asleep" /\ pc'[q] = "woken"
        /\ \/ pc[p] = "commit" /\ pc'[p] \in {"done", "wlog"} /\ committing' = committing
           \/ pc[p] = "done" /\ pc'[p] = "idle"
    <3>1. CASE StartCommit(p)
      BY Zenon, <3>1, <1>1, <1>2 DEF StartCommit, Goto, Labels, TypeOK
    <3>2. CASE Done(p)
      BY Zenon, <3>2, <1>1, <1>2 DEF Done, Wakeup, Labels, TypeOK
    <3> QED BY Zenon, <1>4, <3>1, <3>2
  <2>2. tail[p] = 0
    BY Zenon, <1>1, <2>1 DEF ControlInv, Looping
  <2>3. TypeOK'
    BY Zenon, <1>1, <2>1 DEF TypeOK
  <2>4. ControlInv'
    <3>1. Active' = Active
      BY Zenon, <1>3, <2>1 DEF Active
    <3>2. \A q \in Procs : /\ pc'[q] \notin Recovering \cup {"op", "dirty"}
                           /\ q # p => pc'[q] \notin CommitLabels
      BY Zenon, <1>3, <2>1 DEF CommitLabels, Recovering
    <3>3. \A q \in Procs : tail[q] = 0
      BY Zenon, <1>3, <2>2
    <3>4. pc'[p] \in CommitLabels => committing'
      <4>1. committing
        BY Zenon, <1>1, <1>3 DEF ControlInv
      <4>2. "idle" \notin CommitLabels
        BY Zenon DEF CommitLabels
      <4> QED BY Zenon, <2>1, <4>1, <4>2
    <3> QED BY <1>1, <1>2, <1>3, <2>1, <3>1, <3>2, <3>3, <3>4 DEF ControlInv
  <2>5. \A q \in Procs : /\ pc[q] \notin Recovering \cup {"install"}
                         /\ pc'[q] \notin Recovering \cup {"install"}
    BY Zenon, <1>3, <2>1 DEF Recovering, CommitLabels
  <2>6. PinInv'
    BY Zenon, <1>1, <2>1, <2>5 DEF PinInv, InLog
  <2>7. CacheInv'
    BY Zenon, <1>1, <2>1 DEF CacheInv, Unlocked
  <2>8. WorkInv'
    <3>1. \A q \in Procs : pc'[q] = "wlog" => tail'[q] = 0
      BY Zenon, <1>3, <2>1, <2>2 DEF CommitLabels
    <3> QED BY SMTT(20), <1>1, <2>1, <2>5, <3>1 DEF WorkInv, Recovering
  <2> QED BY Zenon, <2>3, <2>4, <2>6, <2>7, <2>8 DEF LInv
<1>5. CASE WriteLog(p)
  <2> DEFINE n == tail[p] + 1
  <2>1. /\ pc[p] = "wlog" /\ n \in 1 .. Len(lh) /\ lh[n] \in Blocks
        /\ cache' = [cache EXCEPT ![lh[n]] = View(lh[n])]
        /\ ldata' = [ldata EXCEPT ![n] = View(lh[n])]
        /\ tail' = [tail EXCEPT ![p] = n]
        /\ UNCHANGED <<disk, head, lh, outstanding, committing, pins, pc, buf, mine, panic>>
    BY <1>5, <1>2, <1>3 DEF WriteLog
  <2>2. head = <<>> /\ \A i \in 1 .. Len(lh) : pins[lh[i]] = 1 /\ cache[lh[i]] # NoVal
    <3>1. \A q \in Procs : pc[q] \notin Recovering \cup {"install"}
      BY Zenon, <1>3, <2>1 DEF CommitLabels
    <3> QED BY SMTT(20), <1>1, <1>2, <3>1 DEF PinInv, WorkInv, CacheInv
  <2>3. View(lh[n]) = cache[lh[n]] /\ View(lh[n]) \in Val /\ cache' = cache
    BY Zenon, <1>2, <2>1, <2>2 DEF View
  <2>4. TypeOK'
    BY <1>1, <1>2, <2>1, <2>3 DEF TypeOK
  <2>5. ControlInv'
    BY Zenon, <1>1, <2>1, TailStep DEF Looping
  <2>6. PinInv' /\ CacheInv'
    BY ZenonT(30), <1>1, <1>3, <2>1, <2>3 DEF PinInv, InLog, CacheInv, Unlocked, CommitLabels
  <2>7. WorkInv'
    <3>1. \A i \in 1 .. n : ldata'[i] = cache'[lh'[i]]
      <4>1. \A i \in 1 .. n : i \in 1 .. LOGSIZE /\ (i = n \/ i \in 1 .. tail[p])
        BY <1>2, <1>3, <2>1
      <4> QED BY Zenon, <1>1, <1>2, <2>1, <2>3, <4>1 DEF WorkInv
    <3> QED BY <1>1, <1>2, <1>3, <2>1, <2>2, <2>3, <3>1 DEF WorkInv, CommitLabels, Recovering
  <2> QED BY Zenon, <2>4, <2>5, <2>6, <2>7 DEF LInv
<1>6. CASE WriteHead(p)
  <2>1. /\ pc[p] = "wlog" /\ tail[p] = Len(lh) /\ head' = lh
        /\ pc' = [pc EXCEPT ![p] = "install"] /\ tail' = [tail EXCEPT ![p] = 0]
        /\ UNCHANGED <<disk, ldata, lh, outstanding, committing, pins, cache, buf, mine, panic>>
    BY Zenon, <1>6 DEF WriteHead, Goto
  <2>2. \A i \in 1 .. Len(lh) : pins[lh[i]] = 1 /\ ldata[i] = cache[lh[i]]
    <3>1. \A q \in Procs : pc[q] \notin Recovering \cup {"install"}
      BY Zenon, <1>3, <2>1 DEF CommitLabels
    <3> QED BY Zenon, <1>1, <2>1, <3>1 DEF PinInv, WorkInv
  <2>3. \A q \in Procs : pc'[q] \in Looping \cup Recovering \cup CommitLabels => q = p
    BY Zenon, <1>2, <1>3, <2>1 DEF Looping, CommitLabels, Recovering
  <2>4. TypeOK'
    BY <1>1, <2>1 DEF TypeOK, Labels
  <2>5. ControlInv'
    <3>1. Active' = Active
      BY Zenon, <1>2, <1>3, <2>1 DEF Active
    <3> QED BY <1>1, <1>2, <1>3, <2>1, <2>3, <3>1 DEF ControlInv, Looping, CommitLabels, Recovering
  <2>6. PinInv'
    BY <1>1, <1>2, <1>3, <2>1, <2>2, <2>3 DEF PinInv, InLog, Inj, Recovering, Looping
  <2>7. CacheInv'
    BY Zenon, <1>1, <2>1 DEF CacheInv, Unlocked
  <2>8. WorkInv'
    BY <1>1, <1>2, <1>3, <2>1, <2>2, <2>3 DEF WorkInv, Looping
  <2> QED BY Zenon, <2>4, <2>5, <2>6, <2>7, <2>8 DEF LInv
<1>7. CASE Install(p)
  <2> DEFINE n == tail[p] + 1
  <2>1. /\ pc[p] = "install" /\ n \in 1 .. Len(lh) /\ n \in 1 .. LOGSIZE /\ lh[n] \in Blocks
        /\ cache' = [cache EXCEPT ![lh[n]] = ldata[n]]
        /\ disk' = [disk EXCEPT ![lh[n]] = ldata[n]]
        /\ pins' = [pins EXCEPT ![lh[n]] = @ - 1]
        /\ tail' = [tail EXCEPT ![p] = n]
        /\ UNCHANGED <<head, ldata, lh, outstanding, committing, pc, buf, mine, panic>>
    BY SMTT(20), <1>7, <1>2, <1>3 DEF Install, InstallBlock
  <2>2. /\ lh = head /\ Inj(lh) /\ pins[lh[n]] = 1
        /\ \A i \in 1 .. Len(lh) : pins[lh[i]] = IF i <= tail[p] THEN 0 ELSE 1
        /\ \A i \in 1 .. tail[p] : disk[lh[i]] = ldata[i]
        /\ \A i \in 1 .. Len(lh) : i > tail[p] => cache[lh[i]] = ldata[i]
    BY SMTT(20), <1>1, <1>3, <2>1 DEF PinInv, WorkInv
  <2>3. \A i \in 1 .. Len(lh) : lh[i] \in Blocks /\ (lh[i] = lh[n] => i = n)
    BY SMTT(20), <1>2, <2>1, <2>2 DEF Inj
  <2>4. pins' = [pins EXCEPT ![lh[n]] = 0]
    BY SMTT(20), <2>1, <2>2
  <2>5. \A q \in Procs : q # p => pc[q] \notin Looping \cup Recovering
    BY Zenon, <1>3 DEF Looping, CommitLabels, Recovering
  <2>6. TypeOK'
    BY <1>1, <1>2, <2>1, <2>4 DEF TypeOK
  <2>7. ControlInv'
    BY Zenon, <1>1, <2>1, TailStep DEF Looping
  <2>8. PinInv'
    <3>1. \A i \in 1 .. Len(lh) : pins'[lh[i]] = IF i <= n THEN 0 ELSE 1
      BY <1>2, <1>3, <2>1, <2>2, <2>3, <2>4
    <3>2. \A b \in Blocks : pins'[b] # 0 => InLog(b)
      BY Zenon, <1>1, <1>2, <2>1, <2>4 DEF PinInv
    <3> QED BY SMTT(20), <1>1, <1>2, <1>3, <2>1, <2>5, <3>1, <3>2 DEF PinInv, InLog, Looping, Recovering
  <2>9. CacheInv'
    <3>1. \A b \in Blocks : Unlocked(b)' <=> Unlocked(b)
      BY Zenon, <2>1 DEF Unlocked
    <3>2. \A b \in Blocks : b # lh[n] => pins'[b] = pins[b] /\ disk'[b] = disk[b]
      BY Zenon, <1>2, <2>1, <2>4
    <3> QED BY <1>1, <1>2, <2>1, <2>2, <2>4, <3>1, <3>2 DEF CacheInv
  <2>10. WorkInv'
    <3>1. \A i \in 1 .. n : disk'[lh[i]] = ldata[i]
      <4>1. \A i \in 1 .. n : i \in 1 .. Len(lh) /\ (i = n \/ i \in 1 .. tail[p])
        <5>1. tail[p] \in Nat /\ Len(lh) \in Nat /\ n <= Len(lh)
          BY <1>2, <2>1
        <5> QED BY <5>1
      <4> QED BY Zenon, <1>2, <2>1, <2>2, <2>3, <4>1
    <3>2. ASSUME NEW i \in 1 .. Len(lh), i > n PROVE cache'[lh[i]] = ldata[i]
      <4>1. lh[i] \in Blocks /\ lh[i] # lh[n] /\ i > tail[p]
        BY <1>2, <2>1, <2>3, <3>2
      <4>2. cache'[lh[i]] = cache[lh[i]]
        BY Zenon, <1>2, <2>1, <4>1
      <4> QED BY Zenon, <2>2, <4>1, <4>2
    <3> QED BY SMTT(20), <1>1, <1>2, <2>1, <2>2, <2>5, <3>1, <3>2 DEF WorkInv, Looping
  <2> QED BY Zenon, <2>6, <2>7, <2>8, <2>9, <2>10 DEF LInv
<1>8. CASE Clear(p)
  <2>1. /\ pc[p] = "install" /\ tail[p] = Len(lh) /\ lh' = <<>> /\ head' = <<>>
        /\ pc' = [pc EXCEPT ![p] = "done"] /\ tail' = [tail EXCEPT ![p] = 0]
        /\ UNCHANGED <<disk, ldata, cache, pins, outstanding, committing, buf, mine, panic>>
    BY Zenon, <1>8 DEF Clear, EraseLog, Goto
  <2>2. \A b \in Blocks : pins[b] = 0
    BY <1>1, <1>2, <1>3, <2>1 DEF PinInv, InLog
  <2>3. \A q \in Procs : pc'[q] \notin Looping \cup Recovering /\ (pc'[q] \in CommitLabels => q = p)
    BY Zenon, <1>2, <1>3, <2>1 DEF Looping, CommitLabels, Recovering
  <2>4. TypeOK'
    BY <1>1, <2>1 DEF TypeOK, Labels
  <2>5. ControlInv'
    <3>1. Active' = Active
      BY Zenon, <1>2, <1>3, <2>1 DEF Active
    <3> QED BY <1>1, <1>2, <1>3, <2>1, <2>3, <3>1 DEF ControlInv, Looping, CommitLabels
  <2>6. PinInv'
    BY <1>1, <2>1, <2>2, <2>3 DEF PinInv, InLog, Inj, Recovering, Looping
  <2>7. CacheInv'
    BY Zenon, <1>1, <2>1 DEF CacheInv, Unlocked
  <2>8. WorkInv'
    BY Zenon, <1>1, <2>1, <2>3 DEF WorkInv, Looping, Recovering
  <2> QED BY Zenon, <2>4, <2>5, <2>6, <2>7, <2>8 DEF LInv
<1> QED BY Zenon, <1>4, <1>5, <1>6, <1>7, <1>8 DEF CommitStep

(* The cache: reads and evictions. *)
LEMMA InvCache ==
  ASSUME LInv, NEW b \in Blocks, Fill(b) \/ Evict(b)
  PROVE  LInv'
<1> USE LogAssumption DEF At, diskVars, logVars, cacheVars, procVars
<1>1. TypeOK /\ ControlInv /\ PinInv /\ CacheInv /\ WorkInv
  BY Zenon DEF LInv
<1>2. /\ disk \in [Blocks -> Val] /\ cache \in [Blocks -> Val \cup {NoVal}]
      /\ pins \in [Blocks -> 0 .. 1] /\ ldata \in [1 .. LOGSIZE -> Val]
      /\ lh \in Seq(Blocks) /\ head \in Seq(Blocks) /\ Len(lh) <= LOGSIZE /\ Len(head) <= LOGSIZE
      /\ pc \in [Procs -> Labels] /\ buf \in [Procs -> Blocks \cup {NoBlock}]
      /\ tail \in [Procs -> 0 .. LOGSIZE] /\ mine \in [Procs -> SUBSET Blocks]
  BY Zenon, <1>1 DEF TypeOK
<1>3. /\ UNCHANGED <<disk, head, ldata, lh, outstanding, committing, pins, pc, buf, mine, tail, panic>>
      /\ pins[b] = 0 /\ Unlocked(b)
      /\ cache' = [cache EXCEPT ![b] = NoVal] \/ cache' = [cache EXCEPT ![b] = disk[b]]
  <2>1. CASE Fill(b)
    BY <2>1, <1>1, <1>2 DEF Fill, CacheInv
  <2>2. CASE Evict(b)
    BY Zenon, <2>2 DEF Evict
  <2> QED BY Zenon, <2>1, <2>2
<1>4. \A c \in Blocks : c # b => cache'[c] = cache[c]
  BY Zenon, <1>2, <1>3
<1>5. TypeOK'
  BY Zenon, <1>1, <1>3 DEF TypeOK
<1>6. ControlInv' /\ PinInv'
  BY SMTT(20), <1>1, <1>3 DEF ControlInv, Active, PinInv, InLog
<1>7. CacheInv'
  <2>1. \A c \in Blocks : Unlocked(c)' <=> Unlocked(c)
    BY Zenon, <1>3 DEF Unlocked
  <2>2. cache'[b] # NoVal => cache'[b] = disk'[b]
    BY Zenon, <1>2, <1>3
  <2>3. pins' = pins /\ disk' = disk
    BY Zenon, <1>3
  <2>4. pins[b] = 0 /\ Unlocked(b)
    BY Zenon, <1>3
  <2> QED BY SMTT(20), <1>1, <1>4, <2>1, <2>2, <2>3, <2>4 DEF CacheInv
<1>8. WorkInv'
  <2>1. ASSUME NEW p \in Procs, pc[p] = "wlog", NEW i \in 1 .. tail[p] PROVE lh[i] \in Blocks /\ lh[i] # b
    <3>1. \A q \in Procs : pc[q] \notin Recovering \cup {"install"}
      BY Zenon, <1>1, <2>1 DEF ControlInv, CommitLabels, Recovering
    <3>2. i \in 1 .. Len(lh)
      BY <1>1, <1>2, <2>1 DEF ControlInv, Looping
    <3> QED BY <1>1, <1>2, <1>3, <3>1, <3>2 DEF PinInv
  <2>2. ASSUME NEW p \in Procs, pc[p] = "install", NEW i \in 1 .. Len(lh), i > tail[p]
        PROVE  lh[i] \in Blocks /\ lh[i] # b
    BY <1>1, <1>2, <1>3, <2>2 DEF PinInv
  <2> QED BY <1>1, <1>3, <1>4, <2>1, <2>2 DEF WorkInv
<1> QED BY Zenon, <1>5, <1>6, <1>7, <1>8 DEF LInv

(* At boot, and after a crash, the memory is empty. *)
LEMMA InvBoot ==
  ASSUME TypeOK, Inj(head),
         pc = [p \in Procs |-> IF p = InitProc THEN "rhead" ELSE "idle"],
         cache = [b \in Blocks |-> NoVal], pins = [b \in Blocks |-> 0], lh = <<>>,
         outstanding = 0, buf = [p \in Procs |-> NoBlock], tail = [p \in Procs |-> 0]
  PROVE  LInv
<1>1. ControlInv
  <2>1. Active = {}
    BY Zenon DEF Active
  <2>2. Cardinality(Active) = 0
    BY Zenon, <2>1, FS_EmptySet
  <2> QED BY Zenon, <2>2 DEF ControlInv, CommitLabels, Recovering, Looping
<1>2. PinInv
  BY LogAssumption DEF PinInv, Inj, Recovering
<1>3. CacheInv
  BY LogAssumption DEF CacheInv, Unlocked
<1>4. WorkInv
  BY Zenon, LogAssumption DEF WorkInv, Recovering
<1> QED BY Zenon, <1>1, <1>2, <1>3, <1>4 DEF LInv

LEMMA InvInit == Init => LInv
<1> SUFFICES ASSUME Init PROVE LInv
  OBVIOUS
<1>1. TypeOK
  <2>1. pc \in [Procs -> Labels] /\ panic \in Messages
    BY Zenon DEF Init, Labels, Messages
  <2>2. pins \in [Blocks -> 0 .. 1] /\ tail \in [Procs -> 0 .. LOGSIZE]
    BY LogAssumption DEF Init
  <2>3. lh \in Seq(Blocks) /\ head \in Seq(Blocks) /\ Len(lh) <= LOGSIZE /\ Len(head) <= LOGSIZE
    BY LogAssumption DEF Init
  <2>4. ldata \in [1 .. LOGSIZE -> Val]
    BY LogAssumption DEF Init
  <2> QED BY Zenon, <2>1, <2>2, <2>3, <2>4 DEF Init, TypeOK
<1>2. Inj(head)
  BY DEF Init, Inj
<1> QED BY Zenon, <1>1, <1>2, InvBoot DEF Init

LEMMA InvCrash ==
  ASSUME LInv, Crash
  PROVE  LInv'
<1>1. TypeOK'
  <2>1. pc' \in [Procs -> Labels] /\ panic' \in Messages
    BY Zenon DEF Crash, Labels, Messages
  <2>2. pins' \in [Blocks -> 0 .. 1] /\ tail' \in [Procs -> 0 .. LOGSIZE]
    BY LogAssumption DEF Crash
  <2>3. lh' \in Seq(Blocks) /\ Len(lh') <= LOGSIZE
    BY LogAssumption DEF Crash
  <2>4. UNCHANGED <<disk, head, ldata>>
    BY Zenon DEF Crash, diskVars
  <2> QED BY Zenon, <2>1, <2>2, <2>3, <2>4 DEF LInv, Crash, TypeOK
<1>2. Inj(head)'
  BY Zenon DEF LInv, PinInv, Crash, diskVars, Inj
<1>3. /\ pc' = [p \in Procs |-> IF p = InitProc THEN "rhead" ELSE "idle"]
      /\ cache' = [b \in Blocks |-> NoVal] /\ pins' = [b \in Blocks |-> 0] /\ lh' = <<>>
      /\ outstanding' = 0 /\ buf' = [p \in Procs |-> NoBlock] /\ tail' = [p \in Procs |-> 0]
  BY Zenon DEF Crash
<1>4. ControlInv'
  <2>1. Active' = {}
    BY Zenon, <1>3 DEF Active
  <2>2. Cardinality(Active') = 0
    BY Zenon, <2>1, FS_EmptySet
  <2> QED BY Zenon, <1>3, <2>2 DEF ControlInv, CommitLabels, Recovering, Looping
<1>5. PinInv'
  BY <1>2, <1>3, LogAssumption DEF PinInv, Inj, Recovering
<1>6. CacheInv'
  BY SMTT(20), <1>3, LogAssumption DEF CacheInv, Unlocked
<1>7. WorkInv'
  BY Zenon, <1>3, LogAssumption DEF WorkInv, Recovering
<1> QED BY Zenon, <1>1, <1>4, <1>5, <1>6, <1>7 DEF LInv

LEMMA InvNext == LInv /\ [Next]_vars => LInv'
<1> SUFFICES ASSUME LInv, [Next]_vars PROVE LInv'
  OBVIOUS
<1>1. CASE UNCHANGED vars
  BY Zenon, <1>1, SameState DEF vars, LInv, TypeOK
<1> QED BY Zenon, <1>1, InvCrash, InvRecover, InvCall, InvCommit, InvCache DEF Next

(* What holds of the log, its cache and its processes at every moment. *)
THEOREM LogInvariant == Spec => []LInv
BY InvInit, InvNext, PTL DEF Spec

(* Every variable of the model keeps its type: the log never outgrows its  *)
(* blocks and no buffer is pinned twice or unpinned twice.                 *)
THEOREM LogTypeOK == Spec => []TypeOK
<1>1. LInv => TypeOK
  BY Zenon DEF LInv
<1> QED BY <1>1, LogInvariant, PTL
-----------------------------------------------------------------------------
(* The refinement. *)

(* A block of the committed transaction comes back from the log. *)
LEMMA HomeInLog ==
  ASSUME NEW h, NEW l, NEW d, Inj(h), NEW i \in 1 .. Len(h)
  PROVE  Home(h, l, d, h[i]) = l[i]
<1>1. \A j \in 1 .. Len(h) : h[j] = h[i] => j = i
  BY Zenon DEF Inj
<1>2. (CHOOSE j \in 1 .. Len(h) : h[j] = h[i]) = i
  BY Zenon, <1>1
<1> QED BY Zenon, <1>2 DEF Home

LEMMA HomeOnDisk ==
  ASSUME NEW h, NEW l, NEW d, NEW b, \A i \in 1 .. Len(h) : h[i] # b
  PROVE  Home(h, l, d, b) = d[b]
BY Zenon DEF Home

LEMMA HomeCommitted ==
  ASSUME LInv
  PROVE  \A i \in 1 .. Len(head) : Home(head, ldata, disk, head[i]) = ldata[i]
<1>1. Inj(head)
  BY Zenon DEF LInv, PinInv
<1> QED BY Zenon, <1>1, HomeInLog

(* Installing a block that the log has changes nothing for recovery. *)
LEMMA InstallHome ==
  ASSUME LInv, NEW n \in 1 .. Len(head), disk' = [disk EXCEPT ![head[n]] = ldata[n]],
         head' = head, ldata' = ldata
  PROVE  Recovered' = Recovered
<1> SUFFICES ASSUME NEW b \in Blocks
             PROVE  Home(head, ldata, disk', b) = Home(head, ldata, disk, b)
  BY Zenon DEF Recovered
<1>1. Inj(head) /\ disk \in [Blocks -> Val] /\ head \in Seq(Blocks)
  BY Zenon DEF LInv, PinInv, TypeOK
<1>2. CASE \E i \in 1 .. Len(head) : head[i] = b
  <2>1. PICK i \in 1 .. Len(head) : head[i] = b
    BY Zenon, <1>2
  <2>2. Home(head, ldata, disk', head[i]) = ldata[i] /\ Home(head, ldata, disk, head[i]) = ldata[i]
    BY Zenon, <1>1, HomeInLog
  <2> QED BY Zenon, <2>1, <2>2
<1>3. CASE \A i \in 1 .. Len(head) : head[i] # b
  <2>1. disk'[b] = disk[b]
    BY Zenon, <1>1, <1>3
  <2>2. Home(head, ldata, disk', b) = disk'[b] /\ Home(head, ldata, disk, b) = disk[b]
    BY Zenon, <1>3 DEF Home
  <2> QED BY Zenon, <2>1, <2>2
<1> QED BY Zenon, <1>2, <1>3

(* Erasing a log whose blocks are all at home changes nothing either. *)
LEMMA EraseHome ==
  ASSUME LInv, \A i \in 1 .. Len(head) : disk[head[i]] = ldata[i],
         disk' = disk, head' = <<>>
  PROVE  Recovered' = Recovered /\ Recovered = [b \in Blocks |-> disk[b]]
<1>1. Inj(head) /\ head \in Seq(Blocks)
  BY Zenon DEF LInv, PinInv, TypeOK
<1>2. ASSUME NEW b \in Blocks PROVE Home(head', ldata', disk', b) = disk[b]
  BY HomeOnDisk
<1>3. ASSUME NEW b \in Blocks PROVE Home(head, ldata, disk, b) = disk[b]
  <2>1. CASE \E i \in 1 .. Len(head) : head[i] = b
    <3>1. PICK i \in 1 .. Len(head) : head[i] = b
      BY Zenon, <2>1
    <3>2. \A j \in 1 .. Len(head) : Home(head, ldata, disk, head[j]) = ldata[j]
      BY Zenon, HomeCommitted, Zenon
    <3> QED BY Zenon, <3>1, <3>2
  <2>2. CASE \A i \in 1 .. Len(head) : head[i] # b
    BY <2>2, HomeOnDisk
  <2> QED BY Zenon, <2>1, <2>2
<1> QED BY Zenon, <1>2, <1>3 DEF Recovered

LEMMA SameDisk ==
  ASSUME UNCHANGED <<disk, head, ldata>>
  PROVE  Recovered' = Recovered
BY Zenon DEF Recovered

(* A step of a running kernel that leaves every block as it is seen. *)
LEMMA SameView ==
  ASSUME pc[InitProc] \notin Recovering, pc'[InitProc] \notin Recovering,
         \A b \in Blocks : View(b)' = View(b)
  PROVE  Current' = Current
BY Zenon DEF Current

LEMMA StepRecover ==
  ASSUME LInv, Recover
  PROVE  UNCHANGED J!vars
<1> USE LogAssumption DEF At, diskVars, logVars, cacheVars, procVars
<1>1. TypeOK /\ ControlInv /\ PinInv /\ CacheInv /\ WorkInv
  BY Zenon DEF LInv
<1>2. /\ pc \in [Procs -> Labels] /\ tail \in [Procs -> 0 .. LOGSIZE]
      /\ lh \in Seq(Blocks) /\ Len(lh) \in Nat /\ buf \in [Procs -> Blocks \cup {NoBlock}]
  BY SMTT(20), <1>1 DEF TypeOK
<1>3. pc[InitProc] \in Recovering /\ \A p \in Procs : p # InitProc => pc[p] = "idle"
  BY Zenon, <1>1 DEF ControlInv, Recover, ReadHead, RInstall, RClear, Recovering
<1>4. Active = {} /\ Active' = {}
  BY Zenon, <1>2, <1>3 DEF Recover, ReadHead, RInstall, InstallBlock, RClear, EraseLog, Goto, Active,
                    Recovering
<1>5. CASE ReadHead
  <2>1. Recovered' = Recovered
    BY Zenon, <1>5, SameDisk DEF ReadHead
  <2>2. pc'[InitProc] \in Recovering
    BY Zenon, <1>5, <1>2 DEF ReadHead, Goto, Recovering
  <2> QED BY Zenon, <1>3, <1>4, <2>1, <2>2 DEF J!vars, Current
<1>6. CASE RInstall
  <2>1. lh = head /\ tail[InitProc] + 1 \in 1 .. Len(head)
    BY SMTT(20), <1>6, <1>1, <1>2 DEF RInstall, InstallBlock, WorkInv
  <2>2. Recovered' = Recovered
    BY Zenon, <1>6, <2>1, InstallHome DEF RInstall, InstallBlock
  <2>3. pc' = pc
    BY Zenon, <1>6 DEF RInstall, InstallBlock
  <2> QED BY Zenon, <1>3, <1>4, <2>2, <2>3 DEF J!vars, Current
<1>7. CASE RClear
  <2>1. /\ \A i \in 1 .. Len(head) : disk[head[i]] = ldata[i]
        /\ disk' = disk /\ cache' = cache /\ head' = <<>>
    BY SMTT(20), <1>7, <1>1, <1>2 DEF RClear, EraseLog, WorkInv
  <2>2. Recovered' = Recovered /\ Recovered = [b \in Blocks |-> disk[b]]
    BY Zenon, <2>1, EraseHome
  <2>3. pc'[InitProc] = "idle"
    BY Zenon, <1>7, <1>2 DEF RClear, EraseLog, Goto
  <2>4. \A b \in Blocks : View(b)' = disk[b]
    <3>1. \A b \in Blocks : pins[b] = 0 /\ Unlocked(b)
      BY <1>1, <1>2, <1>3 DEF PinInv, ControlInv, Unlocked, Recovering
    <3> QED BY Zenon, <1>1, <2>1, <3>1 DEF View, CacheInv
  <2>5. Current' = [b \in Blocks |-> disk[b]]
    BY Zenon, <2>3, <2>4 DEF Current, Recovering
  <2> QED BY Zenon, <1>3, <1>4, <2>2, <2>5 DEF J!vars, Current
<1> QED BY Zenon, <1>5, <1>6, <1>7 DEF Recover

(* A system call: its writes are the journal's. *)
LEMMA StepCall ==
  ASSUME LInv, NEW p \in Procs,
         begin_op(p) \/ log_write(p) \/ end_op(p) \/ \E b \in Blocks, v \in Val : Modify(p, b, v)
  PROVE  J!Next \/ UNCHANGED J!vars
<1> USE LogAssumption DEF At, diskVars, logVars, cacheVars, procVars
<1>1. TypeOK /\ ControlInv
  BY Zenon DEF LInv
<1>2. /\ pc \in [Procs -> Labels] /\ cache \in [Blocks -> Val \cup {NoVal}]
      /\ disk \in [Blocks -> Val]
  BY Zenon, <1>1 DEF TypeOK
<1>3. pc[InitProc] \notin Recovering
  BY Zenon, <1>1 DEF begin_op, log_write, end_op, Modify, Up, ControlInv, Recovering
<1>4. Recovered' = Recovered
  BY Zenon, SameDisk DEF begin_op, log_write, end_op, Modify, Panic
<1>5. pc'[InitProc] \notin Recovering
  BY Zenon, <1>2, <1>3 DEF begin_op, log_write, end_op, Modify, Panic, Goto, Wakeup, Recovering
<1>6. CASE cache' = cache
  <2>1. Current' = Current
    <3>1. \A b \in Blocks : View(b)' = View(b)
      BY Zenon, <1>6 DEF View, begin_op, log_write, end_op, Modify, Panic
    <3> QED BY Zenon, <1>3, <1>5, <3>1, SameView
  <2>2. \/ Active' = Active
        \/ p \notin Active /\ Active' = Active \cup {p}
        \/ p \in Active /\ Active' = Active \ {p}
    <3>1. CASE begin_op(p)
      BY Zenon, <3>1, <1>2 DEF begin_op, Goto, Active
    <3>2. CASE log_write(p)
      BY Zenon, <3>2, <1>2 DEF log_write, Panic, Goto, Active
    <3>3. CASE end_op(p)
      <4>1. CASE pc' = pc
        BY Zenon, <4>1 DEF Active
      <4>2. CASE pc' # pc
        <5>1. p \in Active /\ pc'[p] \in {"idle", "commit"}
          BY Zenon, <4>2, <3>3, <1>2 DEF end_op, Panic, Goto, Wakeup, Active
        <5>2. \A q \in Procs : q # p => pc'[q] = pc[q] \/ (pc[q] = "asleep" /\ pc'[q] = "woken")
          BY Zenon, <4>2, <3>3, <1>2 DEF end_op, Panic, Goto, Wakeup
        <5> QED BY Zenon, <5>1, <5>2 DEF Active
      <4> QED BY Zenon, <4>1, <4>2
    <3>4. CASE \E b \in Blocks, v \in Val : Modify(p, b, v)
      BY Zenon, <3>4, <1>2 DEF Modify, Goto, Active
    <3> QED BY Zenon, <3>1, <3>2, <3>3, <3>4
  <2> QED BY Zenon, <1>4, <2>1, <2>2 DEF J!Next, J!Begin, J!End, J!vars
<1>7. CASE cache' # cache
  <2>1. PICK b \in Blocks, v \in Val : Modify(p, b, v)
    BY Zenon, <1>7 DEF begin_op, log_write, end_op, Panic
  <2>2. p \in Active /\ Active' = Active
    BY Zenon, <2>1, <1>2 DEF Modify, Goto, Active
  <2>3. /\ View(b)' = v
        /\ \A c \in Blocks : c # b => View(c)' = View(c)
    BY Zenon, <2>1, <1>2 DEF Modify, View
  <2>4. Current' = [Current EXCEPT ![b] = v]
    BY Zenon, <1>3, <1>5, <2>3 DEF Current
  <2> QED BY Zenon, <1>4, <2>2, <2>4 DEF J!Next, J!Write
<1> QED BY Zenon, <1>6, <1>7

(* The cache may fetch and drop blocks unseen. *)
LEMMA StepCache ==
  ASSUME LInv, NEW b \in Blocks, Fill(b) \/ Evict(b)
  PROVE  UNCHANGED J!vars
<1> USE DEF diskVars, logVars, cacheVars, procVars
<1>1. TypeOK /\ CacheInv
  BY Zenon DEF LInv
<1>2. /\ cache \in [Blocks -> Val \cup {NoVal}] /\ disk \in [Blocks -> Val]
      /\ pc[InitProc] \notin Recovering
  BY Zenon, <1>1 DEF TypeOK, Fill, Evict, Up
<1>3. pc' = pc /\ disk' = disk
  BY Zenon DEF Fill, Evict
<1>4. \A c \in Blocks : View(c)' = View(c)
  BY Zenon, <1>1, <1>2, <1>3, LogAssumption DEF Fill, Evict, View, CacheInv
<1>5. Current' = Current
  BY Zenon, <1>2, <1>3, <1>4, SameView
<1>6. Recovered' = Recovered
  BY Zenon, SameDisk DEF Fill, Evict
<1> QED BY Zenon, <1>3, <1>5, <1>6 DEF J!vars, Active

(* Writing the header commits; nothing else of a commit can be seen. *)
LEMMA StepCommit ==
  ASSUME LInv, NEW p \in Procs, CommitStep(p)
  PROVE  J!Next \/ UNCHANGED J!vars
<1> USE LogAssumption DEF At, diskVars, logVars, cacheVars, procVars
<1>1. TypeOK /\ ControlInv /\ PinInv /\ CacheInv /\ WorkInv
  BY Zenon DEF LInv
<1>2. /\ pc \in [Procs -> Labels] /\ cache \in [Blocks -> Val \cup {NoVal}]
      /\ disk \in [Blocks -> Val] /\ tail \in [Procs -> 0 .. LOGSIZE]
      /\ ldata \in [1 .. LOGSIZE -> Val] /\ pins \in [Blocks -> 0 .. 1]
      /\ lh \in Seq(Blocks) /\ Len(lh) \in Nat /\ Len(lh) <= LOGSIZE
      /\ head \in Seq(Blocks) /\ buf \in [Procs -> Blocks \cup {NoBlock}]
  BY SMTT(20), <1>1 DEF TypeOK
<1>3. pc[p] \in CommitLabels
  BY Zenon DEF CommitStep, StartCommit, WriteLog, WriteHead, Install, Clear, Done, CommitLabels
<1>4. /\ \A q \in Procs : pc[q] \notin {"op", "dirty"} /\ pc[q] \notin Recovering
      /\ \A q \in Procs : q # p => pc[q] \notin CommitLabels
  BY Zenon, <1>1, <1>3 DEF ControlInv, CommitLabels, Recovering
<1>5. /\ \A q \in Procs : pc'[q] \notin {"op", "dirty"} /\ pc'[q] \notin Recovering
  BY Zenon, <1>2, <1>4 DEF CommitStep, StartCommit, WriteLog, WriteHead, Install, InstallBlock, Clear,
                    EraseLog, Done, Goto, Wakeup, Recovering
<1>6. Active = {} /\ Active' = {}
  BY Zenon, <1>4, <1>5 DEF Active
<1>7. \A b \in Blocks : Unlocked(b)
  BY Zenon, <1>1, <1>2, <1>4 DEF ControlInv, Unlocked
<1>8. ASSUME UNCHANGED <<disk, cache>> PROVE Current' = Current
  <2>1. \A b \in Blocks : View(b)' = View(b)
    BY Zenon, <1>8 DEF View
  <2> QED BY Zenon, <2>1, <1>4, <1>5, SameView
<1>9. CASE StartCommit(p) \/ Done(p)
  <2>1. Recovered' = Recovered
    BY Zenon, <1>9, SameDisk DEF StartCommit, Done
  <2> QED BY Zenon, <1>9, <1>6, <1>8, <2>1 DEF StartCommit, Done, J!vars
<1>10. CASE WriteLog(p)
  <2>1. head = <<>> /\ head' = <<>>
    BY Zenon, <1>10, <1>1, <1>4 DEF WorkInv, WriteLog, CommitLabels
  <2>2. Recovered' = Recovered
    <3>1. \A b \in Blocks : /\ Home(head, ldata, disk, b) = disk[b]
                            /\ Home(head', ldata', disk', b) = disk[b]
      BY SMTT(20), <1>10, <2>1 DEF Home, WriteLog
    <3> QED BY Zenon, <3>1 DEF Recovered
  <2>3. \A b \in Blocks : View(b)' = View(b)
    BY Zenon, <1>10, <1>2 DEF WriteLog, View
  <2>4. Current' = Current
    BY Zenon, <2>3, <1>4, <1>5, SameView
  <2> QED BY Zenon, <1>6, <2>2, <2>4 DEF J!vars
<1>11. CASE WriteHead(p)
  <2>1. pc[p] = "wlog" /\ tail[p] = Len(lh) /\ head' = lh /\ UNCHANGED <<disk, ldata, cache>>
    BY Zenon, <1>11 DEF WriteHead
  <2>2. \A q \in Procs : pc[q] \notin Recovering \cup {"install"}
    BY Zenon, <1>4, <2>1 DEF CommitLabels
  <2>3. \A i \in 1 .. Len(lh) : /\ lh[i] \in Blocks /\ pins[lh[i]] = 1
                                /\ ldata[i] = cache[lh[i]]
    BY <1>1, <1>2, <2>1, <2>2 DEF PinInv, WorkInv
  <2>4. ASSUME NEW b \in Blocks PROVE Home(lh, ldata, disk, b) = View(b)
    <3>1. CASE \E i \in 1 .. Len(lh) : lh[i] = b
      <4>1. PICK i \in 1 .. Len(lh) : lh[i] = b
        BY Zenon, <3>1
      <4>2. Inj(lh)
        BY Zenon, <1>1 DEF PinInv
      <4>3. Home(lh, ldata, disk, lh[i]) = ldata[i]
        BY <4>2, HomeInLog, Zenon
      <4>4. cache[b] # NoVal
        BY Zenon, <1>1, <2>3, <4>1 DEF CacheInv
      <4> QED BY Zenon, <2>3, <4>1, <4>3, <4>4 DEF View
    <3>2. CASE \A i \in 1 .. Len(lh) : lh[i] # b
      <4>1. pins[b] = 0
        BY Zenon, <1>1, <3>2 DEF PinInv, InLog
      <4>2. View(b) = disk[b]
        BY Zenon, <1>1, <1>7, <4>1 DEF View, CacheInv
      <4> QED BY <3>2, <4>2, HomeOnDisk
    <3> QED BY Zenon, <3>1, <3>2
  <2>5. Recovered' = Current
    BY Zenon, <1>4, <2>1, <2>4 DEF Recovered, Current
  <2> QED BY Zenon, <1>6, <1>8, <2>1, <2>5 DEF J!Next, J!Commit
<1>12. CASE Install(p)
  <2>1. /\ lh = head /\ tail[p] + 1 \in 1 .. Len(head) /\ lh[tail[p] + 1] \in Blocks
        /\ tail[p] + 1 \in 1 .. LOGSIZE
    BY <1>12, <1>1, <1>2 DEF Install, InstallBlock, WorkInv
  <2>2. Recovered' = Recovered
    BY Zenon, <1>12, <2>1, InstallHome DEF Install, InstallBlock
  <2>3. cache[lh[tail[p] + 1]] = ldata[tail[p] + 1] /\ ldata[tail[p] + 1] \in Val
    BY SMTT(20), <1>12, <1>1, <1>2, <2>1 DEF Install, WorkInv
  <2>4. \A b \in Blocks : View(b)' = View(b)
    BY Zenon, <1>12, <1>2, <2>1, <2>3 DEF Install, InstallBlock, View
  <2>5. Current' = Current
    BY Zenon, <2>4, <1>4, <1>5, SameView
  <2> QED BY Zenon, <1>6, <2>2, <2>5 DEF J!vars
<1>13. CASE Clear(p)
  <2>1. /\ \A i \in 1 .. Len(head) : disk[head[i]] = ldata[i]
        /\ disk' = disk /\ cache' = cache /\ head' = <<>>
    BY <1>13, <1>1, <1>2 DEF Clear, EraseLog, WorkInv
  <2>2. Recovered' = Recovered
    BY Zenon, <2>1, EraseHome
  <2> QED BY Zenon, <1>6, <1>8, <2>1, <2>2 DEF J!vars
<1> QED BY Zenon, <1>9, <1>10, <1>11, <1>12, <1>13 DEF CommitStep

LEMMA StepCrash ==
  ASSUME Crash
  PROVE  J!Crash
<1>1. Recovered' = Recovered
  BY Zenon, SameDisk DEF Crash, diskVars
<1>2. pc' = [p \in Procs |-> IF p = InitProc THEN "rhead" ELSE "idle"]
  BY Zenon DEF Crash
<1>3. Current' = Recovered' /\ Active' = {}
  BY Zenon, <1>2, LogAssumption DEF Current, Active, Recovering
<1> QED BY Zenon, <1>1, <1>3 DEF J!Crash

LEMMA RefinesInit == Init => J!Init
<1> SUFFICES ASSUME Init PROVE J!Init
  OBVIOUS
<1>1. /\ head = <<>> /\ disk \in [Blocks -> Val]
      /\ pc = [p \in Procs |-> IF p = InitProc THEN "rhead" ELSE "idle"]
  BY Zenon DEF Init
<1>2. \A b \in Blocks : Home(head, ldata, disk, b) = disk[b]
  BY <1>1 DEF Home
<1>3. Recovered \in [Blocks -> Val]
  BY Zenon, <1>1, <1>2 DEF Recovered
<1>4. Current = Recovered /\ Active = {}
  BY Zenon, <1>1, LogAssumption DEF Current, Active, Recovering
<1> QED BY Zenon, <1>3, <1>4 DEF J!Init

LEMMA RefinesNext == LInv /\ [Next]_vars => [J!Next]_(J!vars)
<1> SUFFICES ASSUME LInv, [Next]_vars PROVE J!Next \/ UNCHANGED J!vars
  OBVIOUS
<1>1. CASE UNCHANGED vars
  <2>1. Recovered' = Recovered
    BY Zenon, <1>1, SameDisk DEF vars, diskVars
  <2>2. Current' = Current /\ Active' = Active
    BY Zenon, <1>1, <2>1 DEF vars, diskVars, cacheVars, procVars, Current, View, Active
  <2> QED BY Zenon, <2>1, <2>2 DEF J!vars
<1>2. CASE Crash
  BY Zenon, <1>2, StepCrash DEF J!Next
<1>3. CASE Recover
  BY Zenon, <1>3, StepRecover
<1>4. CASE \E p \in Procs : \/ begin_op(p) \/ log_write(p) \/ end_op(p) \/ CommitStep(p)
                            \/ \E b \in Blocks, v \in Val : Modify(p, b, v)
  BY Zenon, <1>4, StepCall, StepCommit
<1>5. CASE \E b \in Blocks : Fill(b) \/ Evict(b)
  BY Zenon, <1>5, StepCache
<1> QED BY Zenon, <1>1, <1>2, <1>3, <1>4, <1>5 DEF Next

(* The log implements the atomic journal, however many processes, blocks   *)
(* and crashes there are: recovery always brings back the contents of the  *)
(* last commit, with all the writes of every call in it and of no other.   *)
THEOREM LogAtomic == Spec => Atomic
BY LogInvariant, RefinesInit, RefinesNext, PTL DEF Spec, Atomic, J!Spec
-----------------------------------------------------------------------------
(* The reservations of begin_op.  Reserved has an element for every block  *)
(* that a call in progress may still add to the log.                       *)

Pending(p) == pc[p] = "dirty" /\ ~InLog(buf[p])
Logged(p) == Cardinality(mine[p]) - (IF Pending(p) THEN 1 ELSE 0)
Reserved == {r \in Active \X (1 .. OpBlocks) : r[2] > Logged(r[1])}

(* What a call has changed is in the log, but for the block it has at      *)
(* hand; between transactions the log is empty; and what the log has and   *)
(* what is reserved leaves the block that log_write's test wants, and      *)
(* another.                                                                *)
SpaceInv ==
  /\ \A p \in Procs :
       /\ IsFiniteSet(mine[p]) /\ Cardinality(mine[p]) <= OpBlocks
       /\ p \notin Active => mine[p] = {}
       /\ \A b \in mine[p] : InLog(b) \/ buf[p] = b
       /\ pc[p] = "dirty" => buf[p] \in mine[p]
       /\ pc[p] = "done" => lh = <<>>
  /\ Active = {} /\ (\A p \in Procs : pc[p] \notin CommitLabels \cup Recovering) => lh = <<>>
  /\ Active # {} => Len(lh) + Cardinality(Reserved) <= LOGSIZE - 2
  /\ committing => \E p \in Procs : pc[p] \in CommitLabels

LEMMA ReservedBound ==
  ASSUME NEW A, IsFiniteSet(A), NEW R \in SUBSET (A \X (1 .. OpBlocks))
  PROVE  /\ IsFiniteSet(R) /\ Cardinality(R) \in Nat
         /\ Cardinality(R) <= Cardinality(A) * OpBlocks
<1>1. OpBlocks \in Nat /\ IsFiniteSet(1 .. OpBlocks) /\ Cardinality(1 .. OpBlocks) = OpBlocks
  BY LogAssumption, FS_Interval
<1>2. /\ IsFiniteSet(A \X (1 .. OpBlocks))
      /\ Cardinality(A \X (1 .. OpBlocks)) = Cardinality(A) * OpBlocks
  BY Zenon, <1>1, FS_Product
<1>3. IsFiniteSet(R) /\ Cardinality(R) <= Cardinality(A \X (1 .. OpBlocks))
  BY Zenon, <1>2, FS_Subset
<1> QED BY Zenon, <1>2, <1>3, FS_CardinalityType

LEMMA ReservedFinite == IsFiniteSet(Reserved) /\ Cardinality(Reserved) \in Nat
BY Zenon, ActiveFinite, ReservedBound DEF Reserved

LEMMA Product ==
  ASSUME NEW n \in Nat, NEW a \in Nat, NEW m \in Nat, a < m
  PROVE  n * a + n <= n * m
<1>1. PICK d \in Nat : m = a + 1 + d
  <2>1. m - a - 1 \in Nat /\ m = a + 1 + (m - a - 1)
    OBVIOUS
  <2> QED BY <2>1
<1>2. n * m = n * a + n + n * d /\ n * d \in Nat /\ n * a \in Nat
  BY <1>1
<1> QED BY <1>2

(* Reservations that are given up or used. *)
LEMMA ReservedShrinks ==
  ASSUME SpaceInv, Reserved' \subseteq Reserved, lh' = lh, Active # {}, lh \in Seq(Blocks)
  PROVE  Len(lh') + Cardinality(Reserved') <= LOGSIZE - 2
<1>1. Cardinality(Reserved') <= Cardinality(Reserved) /\ IsFiniteSet(Reserved')
  BY Zenon, ReservedFinite, FS_Subset
<1>2. Cardinality(Reserved') \in Nat /\ Len(lh) \in Nat
  BY <1>1, FS_CardinalityType
<1> QED BY <1>1, <1>2, ReservedFinite, LogAssumption DEF SpaceInv

(* Steps of the commit and of recovery, and those that leave the calls     *)
(* alone.                                                                  *)
LEMMA SpaceSame ==
  ASSUME SpaceInv, LInv, UNCHANGED <<lh, buf, mine>>,
         \A q \in Procs : pc'[q] = pc[q] \/ (pc[q] \notin {"op", "dirty"} /\ pc'[q] \notin {"op", "dirty"}),
         \A q \in Procs : pc'[q] = "done" => pc[q] = "done" \/ lh = <<>>,
         (\A q \in Procs : pc'[q] \notin CommitLabels \cup Recovering)
           => lh = <<>> \/ \A q \in Procs : pc[q] \notin CommitLabels \cup Recovering,
         committing' => \E q \in Procs : pc'[q] \in CommitLabels
  PROVE  SpaceInv'
<1>1. Active' = Active /\ \A q \in Procs : pc'[q] = "dirty" <=> pc[q] = "dirty"
  BY Zenon DEF Active
<1>2. \A b : InLog(b)' <=> InLog(b)
  BY Zenon DEF InLog
<1>3. Reserved' = Reserved
  BY <1>1, <1>2 DEF Reserved, Logged, Pending, Active
<1> QED BY Zenon, <1>1, <1>2, <1>3 DEF SpaceInv

(* While no call is in progress nothing is reserved. *)
LEMMA SpaceIdle ==
  ASSUME \A q \in Procs : mine'[q] = {} /\ pc'[q] \notin {"op", "dirty"},
         \A q \in Procs : pc'[q] = "done" => lh' = <<>>,
         (\A q \in Procs : pc'[q] \notin CommitLabels \cup Recovering) => lh' = <<>>,
         committing' => \E q \in Procs : pc'[q] \in CommitLabels
  PROVE  SpaceInv'
<1>1. \A q \in Procs : IsFiniteSet(mine'[q]) /\ Cardinality(mine'[q]) = 0
  BY Zenon, FS_EmptySet
<1>2. \A q \in Procs : Cardinality(mine'[q]) <= OpBlocks
  BY <1>1, LogAssumption
<1>3. Active' = {}
  BY Zenon DEF Active
<1> QED BY Zenon, <1>1, <1>2, <1>3 DEF SpaceInv

LEMMA SpaceBegin ==
  ASSUME LInv, SpaceInv, NEW p \in Procs, begin_op(p)
  PROVE  SpaceInv'
<1> USE LogAssumption
<1>1. /\ TypeOK /\ ControlInv /\ lh \in Seq(Blocks) /\ pc \in [Procs -> Labels]
      /\ UNCHANGED <<lh, buf, mine>> /\ pc[p] \in {"idle", "woken"}
  BY Zenon DEF LInv, TypeOK, begin_op
<1>2. CASE committing \/ NoSpace
  <2>1. pc' = [pc EXCEPT ![p] = "asleep"]
    BY Zenon, <1>2 DEF begin_op, Goto
  <2>2. \A q \in Procs : pc'[q] = IF q = p THEN "asleep" ELSE pc[q]
    BY Zenon, <1>1, <2>1
  <2>3. committing' => \E q \in Procs : pc'[q] \in CommitLabels
    BY Zenon, <1>1, <2>2 DEF SpaceInv, CommitLabels, begin_op
  <2> QED BY Zenon, <1>1, <2>2, <2>3, SpaceSame DEF CommitLabels, Recovering
<1>3. CASE ~(committing \/ NoSpace)
  <2>1. pc' = [pc EXCEPT ![p] = "op"]
    BY Zenon, <1>3 DEF begin_op, Goto
  <2>2. \A q \in Procs : pc'[q] = IF q = p THEN "op" ELSE pc[q]
    BY Zenon, <1>1, <2>1
  <2>3. Active' = Active \cup {p} /\ p \notin Active
    BY Zenon, <1>1, <2>2 DEF Active
  <2>4. Cardinality(Active') = outstanding + 1 /\ outstanding = Cardinality(Active) /\ outstanding \in Nat
    BY Zenon, <1>1, <2>3, ActiveAdds, ActiveFinite DEF ControlInv
  <2>5. Len(lh) + (outstanding + 1) * MAXOPBLOCKS <= LOGSIZE
    BY <1>3, <1>1, <2>4 DEF NoSpace
  <2>6. Cardinality(Reserved') \in Nat /\ Cardinality(Reserved') <= (outstanding + 1) * OpBlocks
    <3>1. Reserved' \subseteq Active' \X (1 .. OpBlocks)
      BY Zenon DEF Reserved
    <3>2. IsFiniteSet(Active')
      BY Zenon, <2>3, ActiveFinite, FS_AddElement
    <3> QED BY Zenon, <3>1, <3>2, <2>4, ReservedBound
  <2>7. /\ Len(lh) + Cardinality(Reserved') <= LOGSIZE - 2
        /\ lh' = lh
    <3>1. (outstanding + 1) * OpBlocks + (outstanding + 1) <= (outstanding + 1) * MAXOPBLOCKS
      BY <2>4, Product, SpaceAssumption
    <3>2. CASE outstanding = 0
      <4>1. Active = {}
        BY Zenon, <3>2, <2>4, ActiveFinite, FS_EmptySet
      <4>2. \A q \in Procs : pc[q] \notin CommitLabels \cup Recovering
        BY Zenon, <1>1, <1>3 DEF ControlInv, begin_op, Up
      <4>3. lh = <<>>
        BY Zenon, <4>1, <4>2 DEF SpaceInv
      <4>4. Len(lh) = 0 /\ Cardinality(Reserved') <= OpBlocks
        BY <4>3, <2>6, <3>2
      <4> QED BY <4>4, <2>6, <1>1, SpaceAssumption
    <3>3. CASE outstanding >= 1
      <4> DEFINE x == (outstanding + 1) * OpBlocks
                 y == (outstanding + 1) * MAXOPBLOCKS
      <4>1. x \in Nat /\ y \in Nat
        BY <2>4
      <4>2. x + (outstanding + 1) <= y /\ Len(lh) + y <= LOGSIZE /\ Cardinality(Reserved') <= x
        BY Zenon, <2>5, <2>6, <3>1
      <4>3. Len(lh) \in Nat
        BY <1>1
      <4> HIDE DEF x, y
      <4> QED BY <4>1, <4>2, <4>3, <3>3, <1>1, <2>4, <2>6
    <3> QED BY <3>2, <3>3, <2>4
  <2>8. \A q \in Procs : pc'[q] = "done" => pc[q] = "done"
    BY Zenon, <2>2
  <2>9. \A b : InLog(b)' <=> InLog(b)
    BY Zenon, <1>1 DEF InLog
  <2>10. \A q \in Procs : pc'[q] = "dirty" <=> pc[q] = "dirty"
    BY Zenon, <1>1, <2>2
  <2>11. ~committing'
    BY Zenon, <1>3 DEF begin_op
  <2> QED BY Zenon, <1>1, <2>3, <2>7, <2>8, <2>9, <2>10, <2>11 DEF SpaceInv
<1> QED BY Zenon, <1>2, <1>3

LEMMA SpaceModify ==
  ASSUME LInv, SpaceInv, NEW p \in Procs, NEW b \in Blocks, NEW v \in Val, Modify(p, b, v)
  PROVE  SpaceInv'
<1> USE LogAssumption
<1>1. /\ TypeOK /\ ControlInv /\ lh \in Seq(Blocks) /\ pc \in [Procs -> Labels] /\ buf \in [Procs -> Blocks \cup {NoBlock}]
      /\ mine \in [Procs -> SUBSET Blocks] /\ lh' = lh /\ pc[p] = "op"
  BY Zenon DEF LInv, TypeOK, Modify, logVars, At
<1>2. \A q \in Procs : /\ pc'[q] = IF q = p THEN "dirty" ELSE pc[q]
                       /\ buf'[q] = IF q = p THEN b ELSE buf[q]
                       /\ mine'[q] = IF q = p THEN mine[p] \cup {b} ELSE mine[q]
  BY Zenon, <1>1 DEF Modify, Goto
<1>3. Active' = Active /\ p \in Active
  BY Zenon, <1>1, <1>2 DEF Active
<1>4. \A c : InLog(c)' <=> InLog(c)
  BY Zenon, <1>1 DEF InLog
<1>5. buf[p] = NoBlock /\ \A c \in mine[p] : InLog(c)
  <2>1. buf[p] = NoBlock
    BY Zenon, <1>1 DEF ControlInv
  <2>2. \A c \in mine[p] : c # NoBlock
    BY <1>1
  <2> QED BY Zenon, <2>1, <2>2 DEF SpaceInv
<1>6. /\ IsFiniteSet(mine'[p]) /\ Cardinality(mine'[p]) <= OpBlocks
      /\ Cardinality(mine'[p]) = IF b \in mine[p] THEN Cardinality(mine[p]) ELSE Cardinality(mine[p]) + 1
      /\ Cardinality(mine[p]) \in Nat
  <2>1. IsFiniteSet(mine[p])
    BY Zenon DEF SpaceInv
  <2>2. mine'[p] = mine[p] \cup {b}
    BY Zenon, <1>2
  <2>3. Cardinality(mine[p] \cup {b}) <= OpBlocks
    BY Zenon DEF Modify
  <2>4. /\ IsFiniteSet(mine[p] \cup {b})
        /\ Cardinality(mine[p] \cup {b}) = IF b \in mine[p] THEN Cardinality(mine[p]) ELSE Cardinality(mine[p]) + 1
    BY Zenon, <2>1, FS_AddElement
  <2>5. Cardinality(mine[p]) \in Nat
    BY Zenon, <2>1, FS_CardinalityType
  <2> QED BY Zenon, <2>2, <2>3, <2>4, <2>5
<1>7. Reserved' \subseteq Reserved
  <2>1. Logged(p)' >= Logged(p) /\ \A q \in Procs : q # p => Logged(q)' = Logged(q)
    <3>1. Logged(p) = Cardinality(mine[p])
      BY <1>1, <1>6 DEF Logged, Pending
    <3>2. b \in mine[p] => Logged(p)' = Cardinality(mine[p])
      BY <1>2, <1>4, <1>5, <1>6 DEF Logged, Pending
    <3>3. b \notin mine[p] => Logged(p)' >= Cardinality(mine[p])
      BY <1>6 DEF Logged
    <3>4. \A q \in Procs : q # p => Logged(q)' = Logged(q)
      BY Zenon, <1>2, <1>4 DEF Logged, Pending
    <3> QED BY <3>1, <3>2, <3>3, <3>4, <1>6
  <2>2. Logged(p) \in Int /\ Logged(p)' \in Int
    BY <1>6 DEF Logged
  <2>3. \A r \in Active \X (1 .. OpBlocks) : r[1] \in Procs /\ r[2] \in Int
    BY DEF Active
  <2>4. \A r \in Active \X (1 .. OpBlocks) : r[2] > Logged(r[1])' => r[2] > Logged(r[1])
    BY <2>1, <2>2, <2>3
  <2> QED BY Zenon, <1>3, <2>4 DEF Reserved
<1>8. Len(lh') + Cardinality(Reserved') <= LOGSIZE - 2
  BY Zenon, <1>1, <1>3, <1>7, ReservedShrinks
<1>9. \A q \in Procs : pc'[q] = "done" => pc[q] = "done"
  BY Zenon, <1>2
<1>10. \A q \in Procs :
       /\ IsFiniteSet(mine'[q]) /\ Cardinality(mine'[q]) <= OpBlocks
       /\ q \notin Active => mine'[q] = {}
       /\ \A c \in mine'[q] : InLog(c)' \/ buf'[q] = c
       /\ pc'[q] = "dirty" => buf'[q] \in mine'[q]
  BY Zenon, <1>2, <1>3, <1>4, <1>5, <1>6 DEF SpaceInv
<1>11. ~committing'
  <2>1. ~committing
    BY Zenon, <1>1 DEF SpaceInv, ControlInv
  <2> QED BY Zenon, <2>1 DEF Modify, logVars
<1> QED BY Zenon, <1>1, <1>3, <1>8, <1>9, <1>10, <1>11 DEF SpaceInv

LEMMA SpaceLogWrite ==
  ASSUME LInv, SpaceInv, NoPanic, NEW p \in Procs, log_write(p)
  PROVE  SpaceInv' /\ NoPanic'
<1>1. /\ TypeOK /\ ControlInv /\ lh \in Seq(Blocks) /\ pc \in [Procs -> Labels] /\ buf \in [Procs -> Blocks \cup {NoBlock}]
      /\ pc[p] = "dirty"
  BY Zenon DEF LInv, TypeOK, log_write, At
<1>2. p \in Active /\ buf[p] \in mine[p] /\ buf[p] # NoBlock /\ Len(lh) \in Nat
  <2>1. p \in Active /\ buf[p] \in mine[p] /\ buf[p] # NoBlock
    BY Zenon, <1>1 DEF Active, SpaceInv, ControlInv
  <2> QED BY <1>1, <2>1
<1>3. outstanding \in Nat /\ outstanding # 0
  <2>1. outstanding = Cardinality(Active) /\ Active # {}
    BY Zenon, <1>1, <1>2 DEF ControlInv
  <2> QED BY Zenon, <2>1, ActiveFinite, FS_EmptySet
<1>4. Len(lh) + Cardinality(Reserved) <= LOGSIZE - 2
  BY Zenon, <1>2 DEF SpaceInv
<1>5. ~(Len(lh) >= LOGSIZE \/ Len(lh) >= LogArea - 1) /\ ~(outstanding < 1)
  BY <1>2, <1>3, <1>4, ReservedFinite, LogAssumption, SpaceAssumption
<1>6. /\ IF InLog(buf[p]) THEN lh' = lh ELSE lh' = Append(lh, buf[p])
      /\ buf' = [buf EXCEPT ![p] = NoBlock] /\ pc' = [pc EXCEPT ![p] = "op"]
      /\ mine' = mine /\ panic' = panic
  BY Zenon, <1>5 DEF log_write, Goto
<1>7. \A q \in Procs : /\ pc'[q] = IF q = p THEN "op" ELSE pc[q]
                       /\ buf'[q] = IF q = p THEN NoBlock ELSE buf[q]
  BY Zenon, <1>1, <1>6
<1>8. Active' = Active
  BY Zenon, <1>1, <1>7 DEF Active
<1>9. \A c \in Blocks : InLog(c)' <=> InLog(c) \/ c = buf[p]
  <2>1. CASE InLog(buf[p])
    BY Zenon, <2>1, <1>6 DEF InLog
  <2>2. CASE ~InLog(buf[p])
    <3>1. lh' = Append(lh, buf[p]) /\ buf[p] \in Blocks
      BY Zenon, <2>2, <1>1, <1>2, <1>6
    <3>2. /\ Len(lh') = Len(lh) + 1 /\ lh'[Len(lh) + 1] = buf[p]
          /\ \A i \in 1 .. Len(lh) : lh'[i] = lh[i]
      BY <3>1, <1>1
    <3> QED BY <3>2, <1>2 DEF InLog
  <2> QED BY Zenon, <2>1, <2>2
<1>10. IsFiniteSet(mine[p]) /\ Cardinality(mine[p]) \in Nat /\ Cardinality(mine[p]) # 0 /\ Cardinality(mine[p]) <= OpBlocks
  <2>1. IsFiniteSet(mine[p]) /\ mine[p] # {} /\ Cardinality(mine[p]) <= OpBlocks
    BY Zenon, <1>2 DEF SpaceInv
  <2> QED BY Zenon, <2>1, FS_CardinalityType, FS_EmptySet
<1>11. \A q \in Procs : Logged(q)' = IF q = p THEN Cardinality(mine[p]) ELSE Logged(q)
  <2>1. \A q \in Procs : q # p /\ pc[q] = "dirty" => buf[q] # buf[p] /\ buf[q] \in Blocks
    BY <1>1, <1>2 DEF ControlInv
  <2>2. \A q \in Procs : q # p => Pending(q)' = Pending(q)
    <3>1. TAKE q \in Procs
    <3>2. CASE pc[q] = "dirty"
      BY Zenon, <3>2, <2>1, <1>7, <1>9 DEF Pending
    <3>3. CASE pc[q] # "dirty"
      BY Zenon, <3>3, <1>7 DEF Pending
    <3> QED BY Zenon, <3>2, <3>3
  <2>3. ~Pending(p)'
    BY Zenon, <1>7 DEF Pending
  <2>4. \A q \in Procs : q # p => Logged(q)' = Logged(q)
    BY Zenon, <2>2, <1>6 DEF Logged
  <2>5. Logged(p)' = Cardinality(mine[p])
    BY <2>3, <1>6, <1>10 DEF Logged
  <2> QED BY Zenon, <2>4, <2>5
<1>12. Len(lh') + Cardinality(Reserved') <= LOGSIZE - 2
  <2>1. CASE InLog(buf[p])
    <3>1. Logged(p) = Cardinality(mine[p])
      BY <2>1, <1>10 DEF Logged, Pending
    <3>2. \A r \in Active \X (1 .. OpBlocks) : Logged(r[1])' = Logged(r[1])
      BY <1>11, <3>1 DEF Active
    <3>3. Reserved' = Reserved
      BY Zenon, <3>2, <1>8 DEF Reserved
    <3> QED BY Zenon, <2>1, <3>3, <1>4, <1>6
  <2>2. CASE ~InLog(buf[p])
    <3> DEFINE n == Cardinality(mine[p])
    <3>1. Logged(p) = n - 1
      BY <1>1, <2>2 DEF Logged, Pending
    <3>2. <<p, n>> \in Reserved
      BY <3>1, <1>2, <1>10, LogAssumption DEF Reserved
    <3>3. Reserved' \subseteq Reserved \ {<<p, n>>}
      <4>1. SUFFICES ASSUME NEW r \in Active \X (1 .. OpBlocks), r[2] > Logged(r[1])'
                     PROVE  r[2] > Logged(r[1]) /\ r # <<p, n>>
        BY Zenon, <1>8 DEF Reserved
      <4>2. r[1] \in Procs /\ r[2] \in Int
        BY DEF Active
      <4>3. r = <<r[1], r[2]>> /\ Logged(r[1])' = IF r[1] = p THEN n ELSE Logged(r[1])
        BY <4>2, <1>11
      <4>4. CASE r[1] = p
        BY <4>1, <4>2, <4>3, <4>4, <1>10, <3>1
      <4>5. CASE r[1] # p
        BY <4>1, <4>3, <4>5
      <4> QED BY Zenon, <4>4, <4>5
    <3>4. /\ IsFiniteSet(Reserved \ {<<p, n>>})
          /\ Cardinality(Reserved \ {<<p, n>>}) = Cardinality(Reserved) - 1
      BY Zenon, <3>2, ReservedFinite, FS_RemoveElement
    <3>5. IsFiniteSet(Reserved') /\ Cardinality(Reserved') <= Cardinality(Reserved) - 1
      <4>1. Reserved' \in SUBSET (Reserved \ {<<p, n>>}) /\ IsFiniteSet(Reserved \ {<<p, n>>})
        BY Zenon, <3>3, <3>4
      <4>2. IsFiniteSet(Reserved') /\ Cardinality(Reserved') <= Cardinality(Reserved \ {<<p, n>>})
        BY Zenon, <4>1, FS_Subset
      <4> QED BY <3>4, <4>2
    <3>6. Len(lh') = Len(lh) + 1
      BY <1>1, <1>2, <1>6, <2>2
    <3>7. Cardinality(Reserved') \in Nat /\ Cardinality(Reserved) \in Nat
      BY Zenon, <3>5, ReservedFinite, FS_CardinalityType
    <3> QED BY <3>5, <3>6, <3>7, <1>2, <1>4, LogAssumption
  <2> QED BY Zenon, <2>1, <2>2
<1>13. \A q \in Procs : \A c \in mine[q] : InLog(c)' \/ buf'[q] = c
  <2>1. \A q \in Procs : \A c \in mine[q] : c \in Blocks
    BY Zenon, <1>1 DEF TypeOK
  <2> QED BY Zenon, <2>1, <1>7, <1>9 DEF SpaceInv
<1>14. \A q \in Procs : /\ pc'[q] = "dirty" => buf'[q] \in mine[q]
                        /\ pc'[q] # "done"
  BY Zenon, <1>1, <1>2, <1>7 DEF SpaceInv, ControlInv, CommitLabels, Active
<1>15. ~committing'
  <2>1. ~committing
    BY Zenon, <1>1 DEF SpaceInv, ControlInv
  <2> QED BY Zenon, <2>1, <1>5 DEF log_write
<1> QED BY Zenon, <1>2, <1>6, <1>8, <1>12, <1>13, <1>14, <1>15 DEF SpaceInv, NoPanic

LEMMA SpaceEndOp ==
  ASSUME LInv, SpaceInv, NoPanic, NEW p \in Procs, end_op(p)
  PROVE  SpaceInv' /\ NoPanic'
<1>1. /\ TypeOK /\ ControlInv /\ lh \in Seq(Blocks) /\ pc \in [Procs -> Labels]
      /\ mine \in [Procs -> SUBSET Blocks] /\ pc[p] = "op"
  BY Zenon DEF LInv, TypeOK, end_op, At
<1>2. p \in Active /\ ~committing /\ \A q \in Procs : pc[q] \notin CommitLabels
  BY Zenon, <1>1 DEF Active, ControlInv, SpaceInv
<1>3. /\ outstanding' = outstanding - 1 /\ mine' = [mine EXCEPT ![p] = {}]
      /\ IF outstanding = 1
         THEN pc' = [pc EXCEPT ![p] = "commit"]
         ELSE committing' = FALSE /\ pc' = [Wakeup(pc) EXCEPT ![p] = "idle"]
      /\ UNCHANGED <<lh, buf, panic>>
  BY Zenon, <1>2 DEF end_op, Goto
<1>4. \A q \in Procs : /\ mine'[q] = IF q = p THEN {} ELSE mine[q]
                       /\ q # p => pc'[q] = pc[q] \/ (pc[q] = "asleep" /\ pc'[q] = "woken")
  BY Zenon, <1>1, <1>3 DEF Wakeup
<1>5. pc'[p] = IF outstanding = 1 THEN "commit" ELSE "idle"
  BY Zenon, <1>1, <1>3 DEF Wakeup
<1>6. Active' = Active \ {p}
  BY Zenon, <1>4, <1>5 DEF Active
<1>7. outstanding # 1 => Active' # {}
  <2>1. Cardinality(Active') = outstanding - 1
    BY Zenon, <1>1, <1>2, <1>6, ActiveLeaves DEF ControlInv
  <2>2. outstanding \in Nat
    BY Zenon, <1>1, ActiveFinite DEF ControlInv
  <2>3. Active' = {} => outstanding - 1 = 0
    BY Zenon, <2>1, FS_EmptySet
  <2> QED BY <2>2, <2>3
<1>8. Reserved' \subseteq Reserved
  <2>1. \A q \in Active' : q \in Active /\ q \in Procs /\ Logged(q)' = Logged(q)
    <3>1. \A q \in Active' : q # p /\ q \in Procs /\ q \in Active /\ pc'[q] = pc[q]
      BY Zenon, <1>4, <1>6 DEF Active
    <3>2. \A q \in Active' : mine'[q] = mine[q] /\ buf'[q] = buf[q] /\ lh' = lh
      BY Zenon, <1>3, <1>4, <3>1
    <3> QED BY Zenon, <3>1, <3>2 DEF Logged, Pending, InLog
  <2>2. \A r \in Active' \X (1 .. OpBlocks) :
          r \in Active \X (1 .. OpBlocks) /\ Logged(r[1])' = Logged(r[1])
    BY <2>1
  <2> QED BY Zenon, <2>2 DEF Reserved
<1>9. Len(lh') + Cardinality(Reserved') <= LOGSIZE - 2
  BY Zenon, <1>1, <1>2, <1>3, <1>8, ReservedShrinks
<1>10. \A q \in Procs :
       /\ IsFiniteSet(mine'[q]) /\ Cardinality(mine'[q]) <= OpBlocks
       /\ q \notin Active' => mine'[q] = {}
       /\ \A c \in mine'[q] : InLog(c)' \/ buf'[q] = c
  <2>1. IsFiniteSet({}) /\ Cardinality({}) <= OpBlocks
    BY LogAssumption, FS_EmptySet
  <2>2. \A c : InLog(c)' <=> InLog(c)
    BY Zenon, <1>3 DEF InLog
  <2>3. TAKE q \in Procs
  <2>4. CASE q = p
    BY Zenon, <2>1, <2>4, <1>4
  <2>5. CASE q # p
    <3>1. mine'[q] = mine[q] /\ buf'[q] = buf[q] /\ (q \notin Active' => q \notin Active)
      BY Zenon, <2>5, <1>3, <1>4, <1>6
    <3> QED BY Zenon, <2>2, <3>1 DEF SpaceInv
  <2> QED BY Zenon, <2>4, <2>5
<1>11. \A q \in Procs : /\ pc'[q] = "dirty" => buf'[q] \in mine'[q]
                        /\ pc'[q] # "done"
  BY Zenon, <1>2, <1>3, <1>4, <1>5 DEF SpaceInv, CommitLabels
<1>12. /\ Active' = {} => pc'[p] \in CommitLabels
       /\ committing' => pc'[p] \in CommitLabels
  BY Zenon, <1>3, <1>5, <1>7 DEF CommitLabels
<1> QED BY Zenon, <1>3, <1>9, <1>10, <1>11, <1>12 DEF SpaceInv, NoPanic

LEMMA SpaceCommit ==
  ASSUME LInv, SpaceInv, NEW p \in Procs, CommitStep(p)
  PROVE  SpaceInv' /\ panic' = panic
<1>1. pc[p] \in CommitLabels /\ pc \in [Procs -> Labels]
  BY Zenon DEF LInv, TypeOK, CommitStep, StartCommit, WriteLog, WriteHead, Install, Clear, Done, At, CommitLabels
<1>2. \A q \in Procs : pc[q] \notin {"op", "dirty"} /\ mine[q] = {} /\ (pc[q] \in CommitLabels => q = p)
  BY Zenon, <1>1 DEF LInv, ControlInv, SpaceInv, Active
<1>3. mine' = mine /\ panic' = panic
  BY Zenon DEF CommitStep, StartCommit, WriteLog, WriteHead, Install, InstallBlock, Clear, EraseLog, Done
<1>4. CASE pc' = [pc EXCEPT ![p] = "done"] /\ lh' = <<>>
  <2>1. \A q \in Procs : pc'[q] = IF q = p THEN "done" ELSE pc[q]
    BY Zenon, <1>1, <1>4
  <2>2. \A q \in Procs : mine'[q] = {} /\ pc'[q] \notin {"op", "dirty"}
    BY Zenon, <2>1, <1>2, <1>3
  <2>3. pc'[p] \in CommitLabels
    BY Zenon, <2>1 DEF CommitLabels
  <2> QED BY Zenon, <2>2, <2>3, <1>3, <1>4, SpaceIdle
<1>5. CASE /\ \/ pc' = [pc EXCEPT ![p] = "wlog"]
              \/ pc' = [pc EXCEPT ![p] = "install"]
              \/ pc' = pc /\ pc[p] # "done"
           /\ lh' = lh
  <2>1. \A q \in Procs : q # p => pc'[q] = pc[q]
    BY Zenon, <1>1, <1>5
  <2>2. pc'[p] \in CommitLabels \ {"done"}
    BY Zenon, <1>1, <1>5 DEF CommitLabels
  <2>3. \A q \in Procs : pc'[q] \notin {"op", "dirty", "done"}
    BY Zenon, <1>2, <2>1, <2>2 DEF CommitLabels
  <2> QED BY Zenon, <2>2, <2>3, <1>2, <1>3, SpaceIdle
<1>6. CASE pc[p] = "done" /\ pc' = [Wakeup(pc) EXCEPT ![p] = "idle"] /\ lh' = lh /\ committing' = FALSE
  <2>1. lh' = <<>>
    BY Zenon, <1>6 DEF SpaceInv
  <2>2. \A q \in Procs : pc'[q] = IF q = p THEN "idle" ELSE IF pc[q] = "asleep" THEN "woken" ELSE pc[q]
    BY Zenon, <1>1, <1>6 DEF Wakeup
  <2>3. \A q \in Procs : pc'[q] \notin {"op", "dirty"}
    BY Zenon, <2>2, <1>2
  <2> QED BY Zenon, <2>1, <2>3, <1>2, <1>3, <1>6, SpaceIdle
<1>7. \/ pc' = [pc EXCEPT ![p] = "done"] /\ lh' = <<>>
      \/ /\ \/ pc' = [pc EXCEPT ![p] = "wlog"]
            \/ pc' = [pc EXCEPT ![p] = "install"]
            \/ pc' = pc /\ pc[p] # "done"
         /\ lh' = lh
      \/ pc[p] = "done" /\ pc' = [Wakeup(pc) EXCEPT ![p] = "idle"] /\ lh' = lh /\ committing' = FALSE
  <2>1. CASE StartCommit(p)
    BY Zenon, <2>1 DEF StartCommit, Goto, logVars, At
  <2>2. CASE WriteLog(p)
    BY Zenon, <2>2 DEF WriteLog, At, logVars, procVars
  <2>3. CASE WriteHead(p)
    BY <2>3 DEF WriteHead, Goto, logVars, At
  <2>4. CASE Install(p)
    BY Zenon, <2>4 DEF Install, InstallBlock, At, logVars, procVars
  <2>5. CASE Clear(p)
    BY Zenon, <2>5 DEF Clear, EraseLog, Goto
  <2>6. CASE Done(p)
    BY Zenon, <2>6 DEF Done, At
  <2> QED BY Zenon, <2>1, <2>2, <2>3, <2>4, <2>5, <2>6 DEF CommitStep
<1> QED BY Zenon, <1>3, <1>4, <1>5, <1>6, <1>7

LEMMA SpaceRecover ==
  ASSUME LInv, SpaceInv, Recover
  PROVE  SpaceInv' /\ panic' = panic
<1>1. pc[InitProc] \in Recovering /\ pc \in [Procs -> Labels] /\ InitProc \in Procs
  BY Zenon, LogAssumption DEF LInv, TypeOK, Recover, ReadHead, RInstall, RClear, At, Recovering
<1>2. \A q \in Procs : pc[q] = "idle" \/ (q = InitProc /\ pc[q] \in Recovering)
  BY Zenon, <1>1 DEF LInv, ControlInv
<1>3. \A q \in Procs : mine[q] = {} /\ pc[q] \notin CommitLabels
  BY Zenon, <1>2 DEF SpaceInv, Active, Recovering, CommitLabels
<1>4. ~committing' /\ mine' = mine /\ panic' = panic
  <2>1. ~committing
    BY Zenon, <1>3 DEF SpaceInv
  <2>2. committing' = committing /\ mine' = mine /\ panic' = panic
    BY DEF Recover, ReadHead, RInstall, InstallBlock, RClear, EraseLog, logVars
  <2> QED BY Zenon, <2>1, <2>2
<1>5. \/ pc' = [pc EXCEPT ![InitProc] = "rinstall"] \/ pc' = pc
      \/ pc' = [pc EXCEPT ![InitProc] = "idle"] /\ lh' = <<>>
  BY Zenon DEF Recover, ReadHead, RInstall, InstallBlock, RClear, EraseLog, Goto
<1>6. \A q \in Procs : pc'[q] \in {"idle", "rinstall", "rhead"} /\ mine'[q] = {}
  BY Zenon, <1>1, <1>2, <1>3, <1>4, <1>5 DEF Recovering
<1>7. pc'[InitProc] \in Recovering \/ lh' = <<>>
  BY Zenon, <1>1, <1>5 DEF Recovering
<1> QED BY Zenon, <1>1, <1>4, <1>6, <1>7, SpaceIdle

LEMMA SpaceNext ==
  ASSUME LInv, SpaceInv, NoPanic, [Next]_vars
  PROVE  SpaceInv' /\ NoPanic'
<1>1. CASE UNCHANGED vars
  BY Zenon, <1>1, SpaceSame DEF vars, logVars, procVars, NoPanic, SpaceInv
<1>2. CASE Crash
  <2>1. \A q \in Procs : mine'[q] = {} /\ pc'[q] \in {"rhead", "idle"}
    BY Zenon, <1>2 DEF Crash
  <2> QED BY Zenon, <1>2, <2>1, SpaceIdle DEF Crash, NoPanic
<1>3. CASE Recover
  BY Zenon, <1>3, SpaceRecover DEF NoPanic
<1>4. ASSUME NEW p \in Procs, NEW b \in Blocks, NEW v \in Val, Modify(p, b, v)
      PROVE  SpaceInv' /\ NoPanic'
  BY Zenon, <1>4, SpaceModify DEF Modify, NoPanic
<1>5. ASSUME NEW p \in Procs, begin_op(p) \/ log_write(p) \/ end_op(p) \/ CommitStep(p)
      PROVE  SpaceInv' /\ NoPanic'
  <2>1. begin_op(p) => NoPanic'
    BY Zenon DEF begin_op, NoPanic
  <2> QED BY Zenon, <1>5, <2>1, SpaceBegin, SpaceLogWrite, SpaceEndOp, SpaceCommit DEF NoPanic
<1>6. ASSUME NEW b \in Blocks, Fill(b) \/ Evict(b)
      PROVE  SpaceInv' /\ NoPanic'
  <2>1. UNCHANGED <<logVars, procVars, panic>>
    BY Zenon, <1>6 DEF Fill, Evict
  <2> QED BY Zenon, <2>1, SpaceSame DEF logVars, procVars, NoPanic, SpaceInv
<1> QED BY Zenon, <1>1, <1>2, <1>3, <1>4, <1>5, <1>6 DEF Next

(* begin_op's reservation suffices, for any number of processes, blocks    *)
(* and crashes: log_write never finds the log full, also when a logged     *)
(* block is written again, and no call meets a commit.                     *)
THEOREM LogNoPanic == Spec => []NoPanic
<1>1. Init => SpaceInv /\ NoPanic
  <2> SUFFICES ASSUME Init PROVE SpaceInv /\ NoPanic
    OBVIOUS
  <2>1. /\ \A q \in Procs : mine[q] = {} /\ pc[q] \in {"rhead", "idle"}
        /\ lh = <<>> /\ committing = FALSE /\ panic = "none"
    BY Zenon DEF Init
  <2>2. \A q \in Procs : IsFiniteSet(mine[q]) /\ Cardinality(mine[q]) = 0
    BY Zenon, <2>1, FS_EmptySet
  <2>3. \A q \in Procs : Cardinality(mine[q]) <= OpBlocks
    BY <2>2, LogAssumption
  <2>4. Active = {}
    BY Zenon, <2>1 DEF Active
  <2> QED BY Zenon, <2>1, <2>2, <2>3, <2>4 DEF SpaceInv, NoPanic
<1>2. LInv /\ SpaceInv /\ NoPanic /\ [Next]_vars => SpaceInv' /\ NoPanic'
  BY Zenon, SpaceNext
<1> QED BY <1>1, <1>2, LogInvariant, PTL DEF Spec
=============================================================================
