---------------------------- MODULE BcacheProofs ----------------------------
(***************************************************************************)
(* The disk driver of module Virtio and the buffer cache of module Bcache, *)
(* for any number of callers, buffers, blocks and descriptors.  The        *)
(* first part is about what the driver's steps preserve, as long as no two *)
(* callers are in virtio_disk_rw for the same buffer; the second shows     *)
(* that the cache sees to that, and implements the block store of module   *)
(* Store.                                                                  *)
(***************************************************************************)
EXTENDS Bcache, FiniteSetTheorems, WellFoundedInduction, TLAPS

RwLabels == {"out", "alloc", "alloc asleep", "wait", "wait asleep"}

VTypes ==
  /\ free \in [Descs -> BOOLEAN]
  /\ next \in [Descs -> Descs \cup {NoDesc}]
  /\ info \in [Descs -> Bufs \cup {NoBuf}]
  /\ req \in [Descs -> Requests \cup {NoReq}]
  /\ avail \in SUBSET Descs /\ used \in SUBSET Descs
  /\ irq \in BOOLEAN /\ intr \in BOOLEAN
  /\ busy \in [Bufs -> BOOLEAN]
  /\ data \in [Bufs -> Val]
  /\ platter \in [Blocks -> Val]
  /\ rw \in [Callers -> RwLabels]
  /\ rbuf \in [Callers -> Bufs \cup {NoBuf}]
  /\ rwrite \in [Callers -> BOOLEAN]
  /\ idx \in [Callers -> Descs \cup {NoDesc}]

Waiting(p) == rw[p] \in {"wait", "wait asleep"}

(* What the callers of virtio_disk_rw see to: each has a buffer of its     *)
(* own, with the number of a block.                                        *)
RwArgs ==
  \A p \in Callers : rw[p] # "out" =>
    /\ rbuf[p] \in Bufs /\ blockno[rbuf[p]] \in Blocks
    /\ \A q \in Callers : q # p => rbuf[q] # rbuf[p]

(* A caller that has sent its request has the three descriptors of its     *)
(* chain, which say what it asked for, and has them alone.                 *)
Three(p) == {idx[p], next[idx[p]], next[next[idx[p]]]}

Request(p) == [write |-> rwrite[p], block |-> blockno[rbuf[p]], buf |-> rbuf[p]]

ChainInv(p) ==
  LET i == idx[p]
      j == next[i]
      k == next[j] IN
  /\ i \in Descs /\ j \in Descs /\ k \in Descs /\ i # j /\ i # k /\ j # k
  /\ next[k] = NoDesc
  /\ ~free[i] /\ ~free[j] /\ ~free[k]
  /\ info[i] = rbuf[p] /\ req[i] = Request(p)

DescInv ==
  /\ \A p \in Callers : (Waiting(p) => ChainInv(p)) /\ (~Waiting(p) => idx[p] = NoDesc)
  /\ \A p, q \in Callers : p # q /\ Waiting(p) /\ Waiting(q) => Three(p) \cap Three(q) = {}

(* The rings hold the requests that are not finished, and b->disk tells    *)
(* which these are.                                                        *)
RingInv ==
  /\ avail \cap used = {}
  /\ \A i \in avail \cup used : \E p \in Callers : Waiting(p) /\ idx[p] = i
  /\ \A p \in Callers : Waiting(p) => (busy[rbuf[p]] <=> idx[p] \in avail \cup used)
  /\ used # {} => irq \/ intr
  /\ \A p \in Callers :
       /\ rw[p] = "wait asleep" => idx[p] \in avail \cup used
       /\ rw[p] = "alloc asleep" => ~CanAlloc

VInv == VTypes /\ DescInv /\ RingInv

LEMMA DescFacts ==
  /\ NoDesc \notin Descs
  /\ \A i \in Descs : i \in Nat
BY VirtioAssumption DEF NoDesc, Descs

(* free_chain's descriptors are those of the request. *)
LEMMA ChainThree ==
  ASSUME VInv, NEW p \in Callers, Waiting(p)
  PROVE  Chain(idx[p]) = Three(p)
<1>1. ChainInv(p)
  BY Zenon DEF VInv, DescInv
<1>2. next[idx[p]] # NoDesc /\ next[next[idx[p]]] # NoDesc
  BY Zenon, <1>1, DescFacts DEF ChainInv
<1> QED BY Zenon, <1>2 DEF Chain, Three

-----------------------------------------------------------------------------
(* What a step that touches neither the chains nor what they say keeps.    *)
LEMMA DescSame ==
  ASSUME VInv,
         UNCHANGED <<free, next, info, req, idx, rbuf, rwrite, blockno>>,
         \A q \in Callers : Waiting(q)' <=> Waiting(q)
  PROVE  DescInv'
<1>1. \A q \in Callers : Three(q)' = Three(q) /\ (ChainInv(q)' <=> ChainInv(q))
  BY Zenon DEF Three, ChainInv, Request
<1> QED BY Zenon, <1>1 DEF VInv, DescInv

LEMMA SubmitTypes ==
  ASSUME VInv, RwArgs, NEW p \in Callers, Submit(p)
  PROVE  VTypes'
<1>0. VTypes
  BY Zenon DEF VInv
<1>1. rw[p] = "alloc"
  BY Zenon DEF Submit, At
<1>2. rbuf[p] \in Bufs /\ blockno[rbuf[p]] \in Blocks /\ rwrite[p] \in BOOLEAN
  BY Zenon, <1>0, <1>1 DEF VTypes, RwArgs
<1>3. Request(p) \in Requests
  BY <1>2 DEF Request, Requests
<1>4. PICK i, j, k \in Descs :
        /\ free' = Taken(i, j, k)
        /\ next' = [next EXCEPT ![i] = j, ![j] = k, ![k] = NoDesc]
        /\ info' = [info EXCEPT ![i] = rbuf[p]]
        /\ req' = [req EXCEPT ![i] = Request(p)]
        /\ avail' = avail \cup {i}
        /\ idx' = [idx EXCEPT ![p] = i]
  BY Zenon DEF Submit, Request
<1>5. free' \in [Descs -> BOOLEAN] /\ next' \in [Descs -> Descs \cup {NoDesc}]
  BY Zenon, <1>0, <1>4 DEF VTypes, Taken
<1>6. info' \in [Descs -> Bufs \cup {NoBuf}] /\ req' \in [Descs -> Requests \cup {NoReq}]
  BY Zenon, <1>0, <1>2, <1>3, <1>4 DEF VTypes
<1>7. avail' \in SUBSET Descs /\ idx' \in [Callers -> Descs \cup {NoDesc}]
  BY Zenon, <1>0, <1>4 DEF VTypes
<1>8. busy' \in [Bufs -> BOOLEAN] /\ rw' \in [Callers -> RwLabels]
  BY Zenon, <1>0 DEF VTypes, Submit, RwLabels
<1>9. UNCHANGED <<used, irq, intr, data, platter, rbuf, rwrite>>
  BY Zenon DEF Submit, content
<1> QED BY Zenon, <1>0, <1>5, <1>6, <1>7, <1>8, <1>9 DEF VTypes

LEMMA SubmitOk ==
  ASSUME VInv, RwArgs, NEW p \in Callers, Submit(p)
  PROVE  VInv'
<1>0. VTypes /\ DescInv /\ RingInv
  BY Zenon DEF VInv
<1>1. rw[p] = "alloc" /\ idx[p] = NoDesc
  BY Zenon, <1>0 DEF Submit, At, DescInv, Waiting
<1>2. rbuf[p] \in Bufs /\ blockno[rbuf[p]] \in Blocks /\ \A q \in Callers : q # p => rbuf[q] # rbuf[p]
  BY Zenon, <1>1 DEF RwArgs
<1>3. PICK i, j, k \in Descs :
        /\ free[i] /\ free[j] /\ free[k] /\ i # j /\ i # k /\ j # k
        /\ free' = Taken(i, j, k)
        /\ next' = [next EXCEPT ![i] = j, ![j] = k, ![k] = NoDesc]
        /\ info' = [info EXCEPT ![i] = rbuf[p]]
        /\ req' = [req EXCEPT ![i] = Request(p)]
        /\ avail' = avail \cup {i}
        /\ idx' = [idx EXCEPT ![p] = i]
  <2>1. PICK i, j, k \in Descs :
          /\ IsNextFree(i, {}) /\ IsNextFree(j, {i}) /\ IsNextFree(k, {i, j})
          /\ free' = Taken(i, j, k)
          /\ next' = [next EXCEPT ![i] = j, ![j] = k, ![k] = NoDesc]
          /\ info' = [info EXCEPT ![i] = rbuf[p]]
          /\ req' = [req EXCEPT ![i] = Request(p)]
          /\ avail' = avail \cup {i}
          /\ idx' = [idx EXCEPT ![p] = i]
    BY Zenon DEF Submit, Request
  <2>2. free[i] /\ free[j] /\ free[k] /\ i # j /\ i # k /\ j # k
    BY Zenon, <2>1 DEF IsNextFree
  <2> QED BY Zenon, <2>1, <2>2
<1>4. UNCHANGED <<used, irq, intr, blockno, data, platter, rbuf, rwrite>>
  BY Zenon DEF Submit, content
<1>5. \A d \in Descs : free'[d] <=> free[d] /\ d \notin {i, j, k}
  BY <1>0, <1>3 DEF VTypes, Taken
<1>6. /\ next'[i] = j /\ next'[j] = k /\ next'[k] = NoDesc
      /\ \A d \in Descs : d \notin {i, j, k} => next'[d] = next[d]
  BY <1>0, <1>3 DEF VTypes
<1>7. /\ info'[i] = rbuf[p] /\ req'[i] = Request(p)
      /\ \A d \in Descs : d # i => info'[d] = info[d] /\ req'[d] = req[d]
  BY Zenon, <1>0, <1>3 DEF VTypes
<1>8. idx'[p] = i /\ \A q \in Callers : q # p => idx'[q] = idx[q]
  BY Zenon, <1>0, <1>3 DEF VTypes
<1>9. /\ rw'[p] = "wait asleep" /\ \A q \in Callers : q # p => rw'[q] = rw[q]
      /\ busy'[rbuf[p]] /\ \A b \in Bufs : b # rbuf[p] => busy'[b] = busy[b]
  BY ZenonT(40), <1>0, <1>2 DEF Submit, VTypes
<1>10. ASSUME NEW q \in Callers, q # p, Waiting(q)
       PROVE  ChainInv(q)' /\ Three(q)' = Three(q) /\ Three(q) \cap {i, j, k} = {}
  <2>1. ChainInv(q)
    BY Zenon, <1>0, <1>10 DEF DescInv
  <2>2. Three(q) \cap {i, j, k} = {}
    BY Zenon, <2>1, <1>3 DEF ChainInv, Three
  <2>3. /\ idx'[q] = idx[q] /\ next'[idx[q]] = next[idx[q]]
        /\ next'[next[idx[q]]] = next[next[idx[q]]]
        /\ next'[next[next[idx[q]]]] = next[next[next[idx[q]]]]
        /\ info'[idx[q]] = info[idx[q]] /\ req'[idx[q]] = req[idx[q]]
    BY Zenon, <2>1, <2>2, <1>6, <1>7, <1>8, <1>10 DEF ChainInv, Three
  <2>4. /\ ~free'[idx[q]] /\ ~free'[next[idx[q]]] /\ ~free'[next[next[idx[q]]]]
    BY Zenon, <2>1, <1>5 DEF ChainInv
  <2>5. Request(q)' = Request(q)
    BY Zenon, <1>4 DEF Request
  <2>6. rbuf' = rbuf
    BY Zenon, <1>4
  <2> QED BY Zenon, <2>1, <2>2, <2>3, <2>4, <2>5, <2>6 DEF ChainInv, Three
<1>11. ChainInv(p)' /\ Three(p)' = {i, j, k}
  <2>1. Request(p)' = Request(p) /\ rbuf' = rbuf
    BY Zenon, <1>4 DEF Request
  <2>2. idx'[p] = i /\ next'[idx'[p]] = j /\ next'[next'[idx'[p]]] = k
    BY Zenon, <1>6, <1>8
  <2>3. ~free'[i] /\ ~free'[j] /\ ~free'[k]
    BY Zenon, <1>5
  <2> QED BY Zenon, <2>1, <2>2, <2>3, <1>3, <1>6, <1>7 DEF ChainInv, Three
<1>12. \A q \in Callers : q # p => (Waiting(q)' <=> Waiting(q))
  BY Zenon, <1>9 DEF Waiting
<1>13. DescInv'
  <2>1. \A q \in Callers : (Waiting(q)' => ChainInv(q)') /\ (~Waiting(q)' => idx'[q] = NoDesc)
    BY Zenon, <1>0, <1>8, <1>9, <1>10, <1>11, <1>12 DEF DescInv, Waiting
  <2>2. \A q, r \in Callers : q # r /\ Waiting(q)' /\ Waiting(r)' => Three(q)' \cap Three(r)' = {}
    <3> TAKE q, r \in Callers
    <3> HAVE q # r /\ Waiting(q)' /\ Waiting(r)'
    <3>1. CASE q = p
      BY Zenon, <3>1, <1>10, <1>11, <1>12
    <3>2. CASE r = p
      BY Zenon, <3>2, <1>10, <1>11, <1>12
    <3>3. CASE q # p /\ r # p
      BY Zenon, <3>3, <1>0, <1>10, <1>12 DEF DescInv
    <3> QED BY Zenon, <3>1, <3>2, <3>3
  <2> QED BY Zenon, <2>1, <2>2 DEF DescInv
<1>14. i \notin avail \cup used
  <2>1. \A q \in Callers : Waiting(q) => ~free[idx[q]]
    BY Zenon, <1>0 DEF DescInv, ChainInv
  <2>2. \A d \in avail \cup used : \E q \in Callers : Waiting(q) /\ idx[q] = d
    BY Zenon, <1>0 DEF RingInv
  <2> QED BY Zenon, <2>1, <2>2, <1>3
<1>15. CanAlloc' => CanAlloc
  BY Zenon, <1>5 DEF CanAlloc
<1>16. RingInv'
  <2>1. avail' \cap used' = {} /\ used' = used /\ avail' = avail \cup {i}
    BY Zenon, <1>0, <1>3, <1>4, <1>14 DEF RingInv
  <2>2. \A d \in avail' \cup used' : \E q \in Callers : Waiting(q)' /\ idx'[q] = d
    <3>1. Waiting(p)' /\ idx'[p] = i
      BY Zenon, <1>8, <1>9 DEF Waiting
    <3>2. ASSUME NEW d \in avail \cup used
          PROVE  \E q \in Callers : Waiting(q)' /\ idx'[q] = d
      <4>1. PICK q \in Callers : Waiting(q) /\ idx[q] = d
        BY Zenon, <1>0 DEF RingInv
      <4>2. q # p
        BY Zenon, <4>1, <1>1 DEF Waiting
      <4> QED BY Zenon, <4>1, <4>2, <1>8, <1>12
    <3> QED BY Zenon, <3>1, <3>2, <2>1
  <2>3. \A q \in Callers : Waiting(q)' => (busy'[rbuf'[q]] <=> idx'[q] \in avail' \cup used')
    <3>1. ASSUME NEW q \in Callers, Waiting(q)', q # p
          PROVE  busy'[rbuf'[q]] <=> idx'[q] \in avail' \cup used'
      <4>1. rbuf'[q] = rbuf[q] /\ rbuf[q] \in Bufs /\ rbuf[q] # rbuf[p] /\ Waiting(q)
        BY Zenon, <1>2, <1>4, <1>12, <3>1 DEF RwArgs, Waiting
      <4>2. idx'[q] = idx[q] /\ idx[q] # i
        BY Zenon, <1>8, <1>10, <3>1, <4>1 DEF Three
      <4> QED BY Zenon, <4>1, <4>2, <1>0, <1>9, <2>1 DEF RingInv
    <3>2. busy'[rbuf'[p]] /\ idx'[p] \in avail' \cup used'
      BY Zenon, <1>4, <1>8, <1>9, <2>1
    <3> QED BY Zenon, <3>1, <3>2
  <2>4. used' # {} => irq' \/ intr'
    BY Zenon, <1>0, <1>4 DEF RingInv
  <2>5. \A q \in Callers : /\ rw'[q] = "wait asleep" => idx'[q] \in avail' \cup used'
                           /\ rw'[q] = "alloc asleep" => ~CanAlloc'
    BY Zenon, <1>0, <1>8, <1>9, <1>15, <2>1 DEF RingInv
  <2> QED BY Zenon, <2>1, <2>2, <2>3, <2>4, <2>5 DEF RingInv
<1> QED BY Zenon, <1>13, <1>16, SubmitTypes DEF VInv

(* Steps that leave the descriptors alone. *)
LEMMA NoDescsOk ==
  ASSUME VInv, NEW p \in Callers, NoDescs(p)
  PROVE  VInv'
<1>0. VTypes /\ DescInv /\ RingInv
  BY Zenon DEF VInv
<1>1. rw[p] = "alloc" /\ ~CanAlloc
  BY Zenon DEF NoDescs, At
<1>2. /\ UNCHANGED <<free, next, info, req, avail, used, irq, intr, busy, blockno, data, platter>>
      /\ UNCHANGED <<rbuf, rwrite, idx>>
  BY Zenon DEF NoDescs, queue, rings, content
<1>3. /\ rw' \in [Callers -> RwLabels] /\ rw'[p] = "alloc asleep"
      /\ \A q \in Callers : \/ q = p
                            \/ q # p /\ rw'[q] = rw[q]
                            \/ q # p /\ rw[q] = "alloc asleep" /\ rw'[q] = "alloc"
  <2>1. CASE rw' = [rw EXCEPT ![p] = "alloc asleep"]
    BY Zenon, <2>1, <1>0 DEF VTypes, RwLabels
  <2>2. CASE rw' = [Woken("alloc asleep", "alloc") EXCEPT ![p] = "alloc asleep"]
    <3>1. Woken("alloc asleep", "alloc") \in [Callers -> RwLabels]
      BY Zenon, <1>0 DEF VTypes, Woken, RwLabels
    <3>2. \A q \in Callers : q # p => rw'[q] = Woken("alloc asleep", "alloc")[q]
      BY Zenon, <2>2, <3>1
    <3>3. \A q \in Callers : Woken("alloc asleep", "alloc")[q] = IF rw[q] = "alloc asleep" THEN "alloc" ELSE rw[q]
      BY Zenon DEF Woken
    <3>4. rw' \in [Callers -> RwLabels] /\ rw'[p] = "alloc asleep"
      BY Zenon, <2>2, <3>1 DEF RwLabels
    <3> QED BY Zenon, <3>2, <3>3, <3>4
  <2> QED BY Zenon, <2>1, <2>2 DEF NoDescs
<1>4. \A q \in Callers : (Waiting(q)' <=> Waiting(q)) /\ (rw'[q] = "wait asleep" <=> rw[q] = "wait asleep")
  BY Zenon, <1>1, <1>3 DEF Waiting
<1>5. DescInv'
  BY Zenon, DescSame, <1>2, <1>4
<1>6. CanAlloc' <=> CanAlloc
  BY Zenon, <1>2 DEF CanAlloc
<1>7. RingInv'
  BY Zenon, <1>0, <1>1, <1>2, <1>4, <1>6 DEF RingInv
<1>8. VTypes'
  BY Zenon, <1>0, <1>2, <1>3 DEF VTypes
<1> QED BY Zenon, <1>5, <1>7, <1>8 DEF VInv

LEMMA KillWakesOk ==
  ASSUME VInv, NEW p \in Callers, KillWakes(p)
  PROVE  VInv'
<1>0. VTypes /\ DescInv /\ RingInv
  BY Zenon DEF VInv
<1>1. /\ UNCHANGED <<free, next, info, req, avail, used, irq, intr, busy, blockno, data, platter>>
      /\ UNCHANGED <<rbuf, rwrite, idx>>
  BY Zenon DEF KillWakes, queue, rings, content
<1>2. /\ rw' \in [Callers -> RwLabels]
      /\ \A q \in Callers : q # p => rw'[q] = rw[q]
      /\ \/ rw[p] = "wait asleep" /\ rw'[p] = "wait"
         \/ rw[p] = "alloc asleep" /\ rw'[p] = "alloc"
  BY Zenon, <1>0 DEF KillWakes, VTypes, RwLabels
<1>3. \A q \in Callers : /\ Waiting(q)' <=> Waiting(q)
                         /\ rw'[q] = "wait asleep" => rw[q] = "wait asleep"
                         /\ rw'[q] = "alloc asleep" => rw[q] = "alloc asleep"
  BY Zenon, <1>2 DEF Waiting
<1>4. DescInv'
  BY Zenon, DescSame, <1>1, <1>3
<1>5. CanAlloc' <=> CanAlloc
  BY Zenon, <1>1 DEF CanAlloc
<1>6. RingInv'
  BY Zenon, <1>0, <1>1, <1>3, <1>5 DEF RingInv
<1>7. VTypes'
  BY Zenon, <1>0, <1>1, <1>2 DEF VTypes
<1> QED BY Zenon, <1>4, <1>6, <1>7 DEF VInv

LEMMA TransferOk ==
  ASSUME VInv, RwArgs, NEW i \in Descs, Transfer(i)
  PROVE  VInv'
<1>0. VTypes /\ DescInv /\ RingInv
  BY Zenon DEF VInv
<1>1. /\ i \in avail /\ avail' = avail \ {i} /\ used' = used \cup {i} /\ irq' = TRUE
      /\ UNCHANGED <<free, next, info, req, intr, busy, blockno, rw, rbuf, rwrite, idx>>
  BY Zenon DEF Transfer, queue, locals
<1>2. PICK p \in Callers : Waiting(p) /\ idx[p] = i
  BY Zenon, <1>0, <1>1 DEF RingInv
<1>3. req[i] = Request(p) /\ rbuf[p] \in Bufs /\ blockno[rbuf[p]] \in Blocks
  BY Zenon, <1>0, <1>2 DEF DescInv, ChainInv, RwArgs, Waiting
<1>4. req[i].block \in Blocks /\ req[i].buf \in Bufs
  BY <1>3 DEF Request
<1>5. data' \in [Bufs -> Val] /\ platter' \in [Blocks -> Val]
  BY ZenonT(40), <1>0, <1>4 DEF Transfer, VTypes
<1>6. \A q \in Callers : Waiting(q)' <=> Waiting(q)
  BY Zenon, <1>1 DEF Waiting
<1>7. DescInv'
  BY Zenon, DescSame, <1>1, <1>6
<1>8. avail' \cup used' = avail \cup used /\ avail' \cap used' = {}
  <2>1. avail \cap used = {}
    BY Zenon, <1>0 DEF RingInv
  <2> QED BY <2>1, <1>1
<1>9. CanAlloc' <=> CanAlloc
  BY Zenon, <1>1 DEF CanAlloc
<1>10. RingInv'
  <2>1. \A d \in avail' \cup used' : \E q \in Callers : Waiting(q)' /\ idx'[q] = d
    BY Zenon, <1>0, <1>1, <1>6, <1>8 DEF RingInv
  <2>2. \A q \in Callers : Waiting(q)' => (busy'[rbuf'[q]] <=> idx'[q] \in avail' \cup used')
    BY Zenon, <1>0, <1>1, <1>6, <1>8 DEF RingInv
  <2>3. \A q \in Callers : /\ rw'[q] = "wait asleep" => idx'[q] \in avail' \cup used'
                           /\ rw'[q] = "alloc asleep" => ~CanAlloc'
    BY Zenon, <1>0, <1>1, <1>8, <1>9 DEF RingInv
  <2> QED BY Zenon, <2>1, <2>2, <2>3, <1>1, <1>8 DEF RingInv
<1>11. VTypes'
  BY Zenon, <1>0, <1>1, <1>5 DEF VTypes
<1> QED BY Zenon, <1>7, <1>10, <1>11 DEF VInv

LEMMA IntrOk ==
  ASSUME VInv, RwArgs, IntrStep
  PROVE  VInv'
<1>0. VTypes /\ DescInv /\ RingInv
  BY Zenon DEF VInv
<1>1. CASE IntrAck \/ IntrReturn \/ \E i \in Descs : IntrStatus(i)
  <2>1. /\ UNCHANGED <<free, next, info, req, avail, used, busy, blockno, data, platter>>
        /\ UNCHANGED <<rw, rbuf, rwrite, idx>>
    BY Zenon, <1>1 DEF IntrAck, IntrReturn, IntrStatus, queue, rings, content, locals
  <2>2. irq' \in BOOLEAN /\ intr' \in BOOLEAN /\ (used' # {} => irq' \/ intr')
    BY Zenon, <1>0, <1>1 DEF IntrAck, IntrReturn, IntrStatus, VTypes, RingInv, rings
  <2>3. \A q \in Callers : Waiting(q)' <=> Waiting(q)
    BY Zenon, <2>1 DEF Waiting
  <2>4. DescInv'
    BY Zenon, DescSame, <2>1, <2>3
  <2>5. CanAlloc' <=> CanAlloc
    BY Zenon, <2>1 DEF CanAlloc
  <2>6. RingInv'
    BY Zenon, <1>0, <2>1, <2>2, <2>3, <2>5 DEF RingInv
  <2>7. VTypes'
    BY Zenon, <1>0, <2>1, <2>2 DEF VTypes
  <2> QED BY Zenon, <2>4, <2>6, <2>7 DEF VInv
<1>2. ASSUME NEW i \in Descs, IntrEntry(i)
      PROVE  VInv'
  <2>1. /\ i \in used /\ used' = used \ {i} /\ busy' = [busy EXCEPT ![info[i]] = FALSE]
        /\ UNCHANGED <<free, next, info, req, avail, irq, intr, blockno, data, platter>>
        /\ UNCHANGED <<rbuf, rwrite, idx>>
        /\ intr
    BY Zenon, <1>2 DEF IntrEntry, queue, content
  <2>2. PICK p \in Callers : Waiting(p) /\ idx[p] = i
    BY Zenon, <1>0, <2>1 DEF RingInv
  <2>3. /\ info[i] = rbuf[p] /\ rbuf[p] \in Bufs
        /\ \A q \in Callers : q # p => rbuf[q] # rbuf[p]
    BY Zenon, <1>0, <2>2 DEF DescInv, ChainInv, RwArgs, Waiting
  <2>4. rw' = [q \in Callers |-> IF rw[q] = "wait asleep" /\ rbuf[q] = info[i] THEN "wait" ELSE rw[q]]
    BY Zenon, <1>2 DEF IntrEntry
  <2>5. /\ rw' \in [Callers -> RwLabels] /\ rw'[p] = "wait"
        /\ \A q \in Callers : q # p => rw'[q] = rw[q]
    BY Zenon, <1>0, <2>2, <2>3, <2>4 DEF VTypes, RwLabels, Waiting
  <2>6. /\ busy' \in [Bufs -> BOOLEAN] /\ ~busy'[rbuf[p]]
        /\ \A b \in Bufs : b # rbuf[p] => busy'[b] = busy[b]
    BY Zenon, <1>0, <2>1, <2>3 DEF VTypes
  <2>7. \A q \in Callers : Waiting(q)' <=> Waiting(q)
    BY Zenon, <2>2, <2>5 DEF Waiting
  <2>8. DescInv'
    BY Zenon, DescSame, <2>1, <2>7
  <2>9. CanAlloc' <=> CanAlloc
    BY Zenon, <2>1 DEF CanAlloc
  <2>10. \A q \in Callers : Waiting(q) /\ q # p => idx[q] # i
    BY Zenon, <1>0, <2>2 DEF DescInv, Three
  <2>11. i \notin avail' \cup used' /\ avail' \cap used' = {}
    BY Zenon, <1>0, <2>1 DEF RingInv
  <2>12. RingInv'
    <3>1. \A d \in avail' \cup used' : \E q \in Callers : Waiting(q)' /\ idx'[q] = d
      BY Zenon, <1>0, <2>1, <2>7 DEF RingInv
    <3>2. \A q \in Callers : Waiting(q)' => (busy'[rbuf'[q]] <=> idx'[q] \in avail' \cup used')
      <4>1. ASSUME NEW q \in Callers, Waiting(q)', q # p
            PROVE  busy'[rbuf'[q]] <=> idx'[q] \in avail' \cup used'
        <5>1. rbuf'[q] = rbuf[q] /\ rbuf[q] \in Bufs /\ rbuf[q] # rbuf[p] /\ Waiting(q)
          BY Zenon, <2>1, <2>3, <2>7, <4>1 DEF RwArgs, Waiting
        <5>2. idx'[q] = idx[q] /\ idx[q] # i
          BY Zenon, <2>1, <2>10, <4>1, <5>1
        <5> QED BY Zenon, <5>1, <5>2, <1>0, <2>1, <2>6 DEF RingInv
      <4>2. ~busy'[rbuf'[p]] /\ idx'[p] \notin avail' \cup used'
        BY Zenon, <2>1, <2>2, <2>6, <2>11
      <4> QED BY Zenon, <4>1, <4>2
    <3>3. ASSUME NEW q \in Callers
          PROVE  /\ rw'[q] = "wait asleep" => idx'[q] \in avail' \cup used'
                 /\ rw'[q] = "alloc asleep" => ~CanAlloc'
      <4>1. CASE q = p
        BY Zenon, <4>1, <2>5
      <4>2. CASE q # p
        <5>1. rw'[q] = rw[q] /\ idx'[q] = idx[q] /\ (rw[q] = "wait asleep" => idx[q] # i)
          BY Zenon, <4>2, <2>1, <2>5, <2>10 DEF Waiting
        <5> QED BY Zenon, <5>1, <1>0, <2>1, <2>9 DEF RingInv
      <4> QED BY Zenon, <4>1, <4>2
    <3> QED BY Zenon, <3>1, <3>2, <3>3, <2>1, <2>11 DEF RingInv
  <2>13. VTypes'
    BY Zenon, <1>0, <2>1, <2>5, <2>6 DEF VTypes
  <2> QED BY Zenon, <2>8, <2>12, <2>13 DEF VInv
<1> QED BY Zenon, <1>1, <1>2 DEF IntrStep

(* The transfer of p is done: its descriptors are freed.  free_desc does   *)
(* not panic.                                                              *)
LEMMA FinishCases ==
  ASSUME VInv, NEW p \in Callers, Finish(p)
  PROVE  /\ Waiting(p) /\ rw[p] = "wait" /\ panic' = panic /\ Chain(idx[p]) = Three(p)
         /\ UNCHANGED <<rings, intr, busy, blockno, content>>
         /\ \/ /\ busy[rbuf[p]] /\ rw' = [rw EXCEPT ![p] = "wait asleep"]
               /\ UNCHANGED <<queue, rbuf, rwrite, idx>>
            \/ /\ ~busy[rbuf[p]]
               /\ free' = [i \in Descs |-> free[i] \/ i \in Chain(idx[p])]
               /\ next' = [i \in Descs |-> IF i \in Chain(idx[p]) THEN NoDesc ELSE next[i]]
               /\ req' = [i \in Descs |-> IF i \in Chain(idx[p]) THEN NoReq ELSE req[i]]
               /\ info' = [info EXCEPT ![idx[p]] = NoBuf]
               /\ rw' = [Woken("alloc asleep", "alloc") EXCEPT ![p] = "out"]
               /\ rbuf' = [rbuf EXCEPT ![p] = NoBuf]
               /\ rwrite' = [rwrite EXCEPT ![p] = FALSE]
               /\ idx' = [idx EXCEPT ![p] = NoDesc]
<1>1. rw[p] = "wait" /\ Waiting(p)
  BY Zenon DEF Finish, At, Waiting
<1>2. Chain(idx[p]) = Three(p)
  BY Zenon, <1>1, ChainThree
<1>3. \A i \in Three(p) : ~free[i]
  <2>1. ChainInv(p)
    BY Zenon, <1>1 DEF VInv, DescInv
  <2> QED BY Zenon, <2>1 DEF ChainInv, Three
<1>4. UNCHANGED <<rings, intr, busy, blockno, content>>
  BY Zenon DEF Finish
<1>5. CASE busy[rbuf[p]]
  <2>1. rw' = [rw EXCEPT ![p] = "wait asleep"] /\ UNCHANGED <<queue, rbuf, rwrite, idx, panic>>
    BY Zenon, <1>5 DEF Finish, Done
  <2> QED BY Zenon, <2>1, <1>1, <1>2, <1>4, <1>5
<1>6. CASE ~busy[rbuf[p]]
  <2>1. ~(\E i \in Chain(idx[p]) : free[i])
    BY Zenon, <1>2, <1>3
  <2>2. /\ free' = [i \in Descs |-> free[i] \/ i \in Chain(idx[p])]
        /\ next' = [i \in Descs |-> IF i \in Chain(idx[p]) THEN NoDesc ELSE next[i]]
        /\ req' = [i \in Descs |-> IF i \in Chain(idx[p]) THEN NoReq ELSE req[i]]
        /\ info' = [info EXCEPT ![idx[p]] = NoBuf]
        /\ rw' = [Woken("alloc asleep", "alloc") EXCEPT ![p] = "out"]
        /\ rbuf' = [rbuf EXCEPT ![p] = NoBuf]
        /\ rwrite' = [rwrite EXCEPT ![p] = FALSE]
        /\ idx' = [idx EXCEPT ![p] = NoDesc]
        /\ panic' = panic
    BY Zenon, <1>6, <2>1 DEF Finish, Done
  <2> QED BY Zenon, <2>2, <1>1, <1>2, <1>4, <1>6
<1> QED BY Zenon, <1>5, <1>6

LEMMA FinishOk ==
  ASSUME VInv, RwArgs, NEW p \in Callers, Finish(p)
  PROVE  VInv'
<1>0. VTypes /\ DescInv /\ RingInv
  BY Zenon DEF VInv
<1>1. /\ Waiting(p) /\ rw[p] = "wait"
      /\ UNCHANGED <<avail, used, irq, intr, busy, blockno, data, platter>>
  BY Zenon, FinishCases DEF rings, content
<1>2. CASE /\ busy[rbuf[p]] /\ rw' = [rw EXCEPT ![p] = "wait asleep"]
           /\ UNCHANGED <<queue, rbuf, rwrite, idx>>
  <2>1. UNCHANGED <<free, next, info, req, rbuf, rwrite, idx>>
    BY Zenon, <1>2 DEF queue
  <2>2. /\ rw' \in [Callers -> RwLabels] /\ rw'[p] = "wait asleep"
        /\ \A q \in Callers : q # p => rw'[q] = rw[q]
    BY Zenon, <1>0, <1>2 DEF VTypes, RwLabels
  <2>3. \A q \in Callers : Waiting(q)' <=> Waiting(q)
    BY Zenon, <1>1, <2>2 DEF Waiting
  <2>4. DescInv'
    BY Zenon, DescSame, <1>1, <2>1, <2>3
  <2>5. CanAlloc' <=> CanAlloc
    BY Zenon, <2>1 DEF CanAlloc
  <2>6. idx[p] \in avail \cup used
    BY Zenon, <1>0, <1>1, <1>2 DEF RingInv
  <2>7. \A q \in Callers : /\ rw'[q] = "wait asleep" => idx'[q] \in avail' \cup used'
                           /\ rw'[q] = "alloc asleep" => ~CanAlloc'
    BY Zenon, <1>0, <1>1, <2>1, <2>2, <2>5, <2>6 DEF RingInv
  <2>8. RingInv'
    BY Zenon, <1>0, <1>1, <2>1, <2>3, <2>7 DEF RingInv
  <2>9. VTypes'
    BY Zenon, <1>0, <1>1, <2>1, <2>2 DEF VTypes
  <2> QED BY Zenon, <2>4, <2>8, <2>9 DEF VInv
<1>3. CASE /\ ~busy[rbuf[p]]
           /\ free' = [i \in Descs |-> free[i] \/ i \in Chain(idx[p])]
           /\ next' = [i \in Descs |-> IF i \in Chain(idx[p]) THEN NoDesc ELSE next[i]]
           /\ req' = [i \in Descs |-> IF i \in Chain(idx[p]) THEN NoReq ELSE req[i]]
           /\ info' = [info EXCEPT ![idx[p]] = NoBuf]
           /\ rw' = [Woken("alloc asleep", "alloc") EXCEPT ![p] = "out"]
           /\ rbuf' = [rbuf EXCEPT ![p] = NoBuf]
           /\ rwrite' = [rwrite EXCEPT ![p] = FALSE]
           /\ idx' = [idx EXCEPT ![p] = NoDesc]
  <2>1. /\ idx'[p] = NoDesc
        /\ \A q \in Callers : q # p => idx'[q] = idx[q] /\ rbuf'[q] = rbuf[q] /\ rwrite'[q] = rwrite[q]
    BY Zenon, <1>0, <1>3 DEF VTypes
  <2>2. /\ rw' \in [Callers -> RwLabels] /\ rw'[p] = "out"
        /\ \A q \in Callers : q # p => rw'[q] = IF rw[q] = "alloc asleep" THEN "alloc" ELSE rw[q]
    <3>1. Woken("alloc asleep", "alloc") \in [Callers -> RwLabels]
      BY Zenon, <1>0 DEF VTypes, Woken, RwLabels
    <3>2. \A q \in Callers : Woken("alloc asleep", "alloc")[q] = IF rw[q] = "alloc asleep" THEN "alloc" ELSE rw[q]
      BY Zenon DEF Woken
    <3>3. rw' \in [Callers -> RwLabels] /\ rw'[p] = "out"
      BY Zenon, <1>3, <3>1 DEF RwLabels
    <3>4. \A q \in Callers : q # p => rw'[q] = Woken("alloc asleep", "alloc")[q]
      BY Zenon, <1>3, <3>1
    <3> QED BY Zenon, <3>2, <3>3, <3>4
  <2>3. \A q \in Callers : /\ Waiting(q)' <=> Waiting(q) /\ q # p
                           /\ rw'[q] # "alloc asleep"
                           /\ rw'[q] = "wait asleep" => rw[q] = "wait asleep" /\ q # p
    BY Zenon, <2>2 DEF Waiting
  <2>4. ASSUME NEW q \in Callers, q # p, Waiting(q)
        PROVE  ChainInv(q)' /\ Three(q)' = Three(q)
    <3>1. ChainInv(q) /\ Three(q) \cap Three(p) = {} /\ idx[p] \in Three(p) /\ ChainInv(p)
      BY Zenon, <1>0, <1>1, <2>4 DEF DescInv, Three
    <3>2. \A d \in Three(q) : /\ d \in Descs
                              /\ next'[d] = next[d] /\ req'[d] = req[d] /\ info'[d] = info[d]
                              /\ ~free'[d]
      <4>1. \A d \in Three(q) : d \in Descs /\ ~free[d] /\ d \notin Three(p) /\ d # idx[p]
        BY Zenon, <3>1 DEF ChainInv, Three
      <4>2. Chain(idx[p]) = Three(p)
        BY Zenon, FinishCases
      <4> QED BY Zenon, <4>1, <4>2, <1>0, <1>3 DEF VTypes
    <3>3. idx[q] \in Three(q) /\ next[idx[q]] \in Three(q) /\ next[next[idx[q]]] \in Three(q)
      BY Zenon DEF Three
    <3>4. /\ idx'[q] = idx[q] /\ next'[idx'[q]] = next[idx[q]]
          /\ next'[next'[idx'[q]]] = next[next[idx[q]]]
          /\ next'[next'[next'[idx'[q]]]] = next[next[next[idx[q]]]]
      <4>1. idx'[q] = idx[q]
        BY Zenon, <2>1, <2>4
      <4>2. /\ next'[idx[q]] = next[idx[q]]
            /\ next'[next[idx[q]]] = next[next[idx[q]]]
            /\ next'[next[next[idx[q]]]] = next[next[next[idx[q]]]]
        BY Zenon, <3>2, <3>3
      <4> QED BY <4>1, <4>2
    <3>5. Request(q)' = Request(q) /\ rbuf'[q] = rbuf[q]
      BY Zenon, <1>1, <2>1, <2>4 DEF Request
    <3> QED BY Zenon, <3>1, <3>2, <3>3, <3>4, <3>5 DEF ChainInv, Three
  <2>5. DescInv'
    <3>1. \A q \in Callers : (Waiting(q)' => ChainInv(q)') /\ (~Waiting(q)' => idx'[q] = NoDesc)
      BY Zenon, <1>0, <2>1, <2>3, <2>4 DEF DescInv
    <3>2. \A q, r \in Callers : q # r /\ Waiting(q)' /\ Waiting(r)' => Three(q)' \cap Three(r)' = {}
      BY Zenon, <1>0, <2>3, <2>4 DEF DescInv
    <3> QED BY Zenon, <3>1, <3>2 DEF DescInv
  <2>6. \A d \in avail \cup used : d # idx[p]
    BY Zenon, <1>0, <1>1, <1>3 DEF RingInv
  <2>7. RingInv'
    <3>1. \A d \in avail' \cup used' : \E q \in Callers : Waiting(q)' /\ idx'[q] = d
      <4> SUFFICES ASSUME NEW d \in avail \cup used
                   PROVE  \E q \in Callers : Waiting(q)' /\ idx'[q] = d
        BY Zenon, <1>1
      <4>1. PICK q \in Callers : Waiting(q) /\ idx[q] = d
        BY Zenon, <1>0 DEF RingInv
      <4>2. q # p
        BY Zenon, <4>1, <2>6
      <4> QED BY Zenon, <4>1, <4>2, <2>1, <2>3
    <3>2. \A q \in Callers : Waiting(q)' => (busy'[rbuf'[q]] <=> idx'[q] \in avail' \cup used')
      BY Zenon, <1>0, <1>1, <2>1, <2>3 DEF RingInv
    <3>3. \A q \in Callers : /\ rw'[q] = "wait asleep" => idx'[q] \in avail' \cup used'
                             /\ rw'[q] = "alloc asleep" => ~CanAlloc'
      BY Zenon, <1>0, <1>1, <2>1, <2>3 DEF RingInv
    <3> QED BY Zenon, <3>1, <3>2, <3>3, <1>0, <1>1 DEF RingInv
  <2>8. VTypes'
    <3>1. /\ free' \in [Descs -> BOOLEAN] /\ next' \in [Descs -> Descs \cup {NoDesc}]
          /\ req' \in [Descs -> Requests \cup {NoReq}]
      BY Zenon, <1>0, <1>3 DEF VTypes
    <3>2. /\ info' \in [Descs -> Bufs \cup {NoBuf}] /\ rbuf' \in [Callers -> Bufs \cup {NoBuf}]
          /\ rwrite' \in [Callers -> BOOLEAN] /\ idx' \in [Callers -> Descs \cup {NoDesc}]
      BY Zenon, <1>0, <1>3 DEF VTypes
    <3> QED BY Zenon, <3>1, <3>2, <1>0, <1>1, <2>2 DEF VTypes
  <2> QED BY Zenon, <2>5, <2>7, <2>8 DEF VInv
<1> QED BY Zenon, <1>2, <1>3, FinishCases

(* A call of virtio_disk_rw, for a buffer that no other caller uses. *)
LEMMA CallRwOk ==
  ASSUME VInv, NEW p \in Callers, NEW b \in Bufs, NEW w \in BOOLEAN, rw[p] = "out", CallRw(p, b, w),
         UNCHANGED <<queue, rings, intr, busy, blockno, platter>>, data' \in [Bufs -> Val]
  PROVE  VInv'
<1>0. VTypes /\ DescInv /\ RingInv
  BY Zenon DEF VInv
<1>1. UNCHANGED <<free, next, info, req, avail, used, irq, intr, busy, blockno, platter, idx>>
  BY Zenon DEF queue, rings, CallRw
<1>2. /\ rw' \in [Callers -> RwLabels] /\ rbuf' \in [Callers -> Bufs \cup {NoBuf}]
      /\ rwrite' \in [Callers -> BOOLEAN]
  BY Zenon, <1>0 DEF CallRw, VTypes, RwLabels
<1>3. /\ rw'[p] = "alloc"
      /\ \A q \in Callers : q # p => rw'[q] = rw[q] /\ rbuf'[q] = rbuf[q] /\ rwrite'[q] = rwrite[q]
  BY Zenon, <1>0 DEF CallRw, VTypes
<1>4. ~Waiting(p) /\ \A q \in Callers : Waiting(q)' <=> Waiting(q)
  BY Zenon, <1>3 DEF Waiting
<1>5. ASSUME NEW q \in Callers, Waiting(q)
      PROVE  Three(q)' = Three(q) /\ (ChainInv(q)' <=> ChainInv(q)) /\ rbuf'[q] = rbuf[q]
  <2>1. rbuf'[q] = rbuf[q] /\ rwrite'[q] = rwrite[q]
    BY Zenon, <1>3, <1>4, <1>5
  <2>2. Request(q)' = Request(q)
    BY Zenon, <2>1, <1>1 DEF Request
  <2> QED BY Zenon, <2>1, <2>2, <1>1 DEF ChainInv, Three
<1>6. DescInv'
  BY Zenon, <1>0, <1>1, <1>4, <1>5 DEF DescInv
<1>7. CanAlloc' <=> CanAlloc
  BY Zenon, <1>1 DEF CanAlloc
<1>8. \A q \in Callers : /\ rw'[q] = "wait asleep" => rw[q] = "wait asleep"
                         /\ rw'[q] = "alloc asleep" => rw[q] = "alloc asleep"
  BY Zenon, <1>3
<1>9. RingInv'
  <2>1. \A d \in avail' \cup used' : \E q \in Callers : Waiting(q)' /\ idx'[q] = d
    BY Zenon, <1>0, <1>1, <1>4 DEF RingInv
  <2>2. \A q \in Callers : Waiting(q)' => (busy'[rbuf'[q]] <=> idx'[q] \in avail' \cup used')
    <3>1. \A q \in Callers : Waiting(q) => (busy[rbuf[q]] <=> idx[q] \in avail \cup used)
      BY Zenon, <1>0 DEF RingInv
    <3> QED BY <3>1, <1>1, <1>4, <1>5
  <2>3. \A q \in Callers : /\ rw'[q] = "wait asleep" => idx'[q] \in avail' \cup used'
                           /\ rw'[q] = "alloc asleep" => ~CanAlloc'
    BY Zenon, <1>0, <1>1, <1>7, <1>8 DEF RingInv
  <2>4. avail' \cap used' = {} /\ (used' # {} => irq' \/ intr')
    <3>1. avail \cap used = {} /\ (used # {} => irq \/ intr)
      BY Zenon, <1>0 DEF RingInv
    <3>2. avail' = avail /\ used' = used /\ irq' = irq /\ intr' = intr
      BY Zenon, <1>1
    <3> QED BY <3>1, <3>2
  <2> QED BY Zenon, <2>1, <2>2, <2>3, <2>4 DEF RingInv
<1>10. VTypes'
  BY Zenon, <1>0, <1>1, <1>2 DEF VTypes
<1> QED BY Zenon, <1>6, <1>9, <1>10 DEF VInv

(* A step outside the driver that changes no buffer of a request. *)
LEMMA DriverSame ==
  ASSUME VInv, UNCHANGED <<queue, rings, intr, busy, platter, locals>>, data' \in [Bufs -> Val],
         \A q \in Callers : rw[q] # "out" => blockno'[rbuf[q]] = blockno[rbuf[q]]
  PROVE  VInv'
<1>0. VTypes /\ DescInv /\ RingInv
  BY Zenon DEF VInv
<1>1. UNCHANGED <<free, next, info, req, avail, used, irq, intr, busy, platter, rw, rbuf, rwrite, idx>>
  BY Zenon DEF queue, rings, locals
<1>2. \A q \in Callers : (Waiting(q)' <=> Waiting(q)) /\ (Waiting(q) => rw[q] # "out")
  BY Zenon, <1>1 DEF Waiting
<1>3. ASSUME NEW q \in Callers, Waiting(q)
      PROVE  Three(q)' = Three(q) /\ (ChainInv(q)' <=> ChainInv(q))
  <2>1. Request(q)' = Request(q)
    BY Zenon, <1>1, <1>2, <1>3 DEF Request
  <2> QED BY Zenon, <2>1, <1>1 DEF ChainInv, Three
<1>4. DescInv'
  BY Zenon, <1>0, <1>1, <1>2, <1>3 DEF DescInv
<1>5. CanAlloc' <=> CanAlloc
  BY Zenon, <1>1 DEF CanAlloc
<1>6. RingInv'
  <2>1. \A d \in avail' \cup used' : \E q \in Callers : Waiting(q)' /\ idx'[q] = d
    BY Zenon, <1>0, <1>1, <1>2 DEF RingInv
  <2>2. \A q \in Callers : Waiting(q)' => (busy'[rbuf'[q]] <=> idx'[q] \in avail' \cup used')
    <3>1. \A q \in Callers : Waiting(q) => (busy[rbuf[q]] <=> idx[q] \in avail \cup used)
      BY Zenon, <1>0 DEF RingInv
    <3> QED BY <3>1, <1>1, <1>2
  <2>3. \A q \in Callers : /\ rw'[q] = "wait asleep" => idx'[q] \in avail' \cup used'
                           /\ rw'[q] = "alloc asleep" => ~CanAlloc'
    BY Zenon, <1>0, <1>1, <1>5 DEF RingInv
  <2>4. avail' \cap used' = {} /\ (used' # {} => irq' \/ intr')
    <3>1. avail \cap used = {} /\ (used # {} => irq \/ intr)
      BY Zenon, <1>0 DEF RingInv
    <3>2. avail' = avail /\ used' = used /\ irq' = irq /\ intr' = intr
      BY Zenon, <1>1
    <3> QED BY <3>1, <3>2
  <2> QED BY Zenon, <2>1, <2>2, <2>3, <2>4 DEF RingInv
<1>7. VTypes'
  BY Zenon, <1>0, <1>1 DEF VTypes
<1> QED BY Zenon, <1>4, <1>6, <1>7 DEF VInv

LEMMA VirtioInitOk ==
  ASSUME VirtioInit
  PROVE  VInv
<1>1. VTypes
  <2>1. platter \in [Blocks -> Val] /\ Zero \in Val
    BY Zenon, VirtioAssumption DEF VirtioInit
  <2>2. free \in [Descs -> BOOLEAN]
    BY DEF VirtioInit
  <2> QED BY Zenon, <2>1, <2>2 DEF VirtioInit, VTypes, RwLabels
<1>2. \A p \in Callers : rw[p] = "out" /\ ~Waiting(p) /\ idx[p] = NoDesc
  BY Zenon DEF VirtioInit, Waiting
<1>3. avail = {} /\ used = {}
  BY Zenon DEF VirtioInit
<1> QED BY Zenon, <1>1, <1>2, <1>3 DEF VInv, DescInv, RingInv

-----------------------------------------------------------------------------
(* The driver's invariant says what the runs check. *)

LEMMA DescsOwnedHolds ==
  ASSUME VInv
  PROVE  DescsOwned
<1> SUFFICES ASSUME NEW p \in Callers, NEW q \in Callers, idx[p] # NoDesc
             PROVE  /\ \A i \in Chain(idx[p]) : ~free[i]
                    /\ p # q /\ idx[q] # NoDesc => Chain(idx[p]) \cap Chain(idx[q]) = {}
  BY Zenon DEF DescsOwned
<1>1. DescInv
  BY Zenon DEF VInv
<1>2. Waiting(p) /\ ChainInv(p) /\ Chain(idx[p]) = Three(p)
  BY Zenon, <1>1, ChainThree DEF DescInv
<1>3. \A i \in Three(p) : ~free[i]
  BY Zenon, <1>2 DEF ChainInv, Three
<1>4. idx[q] # NoDesc => Waiting(q) /\ Chain(idx[q]) = Three(q)
  BY Zenon, <1>1, ChainThree DEF DescInv
<1> QED BY Zenon, <1>1, <1>2, <1>3, <1>4 DEF DescInv

LEMMA BufferHeldHolds ==
  ASSUME VInv
  PROVE  BufferHeld
<1> SUFFICES ASSUME NEW i \in avail
             PROVE  \E p \in Callers : /\ idx[p] = i /\ rbuf[p] = req[i].buf
                                       /\ rw[p] \in {"wait", "wait asleep"} /\ busy[rbuf[p]]
  BY Zenon DEF BufferHeld
<1>1. PICK p \in Callers : Waiting(p) /\ idx[p] = i
  BY Zenon DEF VInv, RingInv
<1>2. busy[rbuf[p]] /\ req[i] = Request(p)
  BY Zenon, <1>1 DEF VInv, RingInv, DescInv, ChainInv
<1>3. req[i].buf = rbuf[p]
  BY <1>2 DEF Request
<1> QED BY Zenon, <1>1, <1>2, <1>3 DEF Waiting

LEMMA NoLostWakeupHolds ==
  ASSUME VInv
  PROVE  NoLostWakeup
BY Zenon DEF VInv, RingInv, NoLostWakeup

-----------------------------------------------------------------------------
InRw == {"read", "write", "install"}
HasLock == InRw \cup {"use", "bunpin"}
PcLabels == HasLock \cup {"idle", "lock", "lock asleep", "brelse"}

BTypes ==
  /\ blockno \in [Bufs -> Blocks \cup {NoBlock}]
  /\ valid \in [Bufs -> BOOLEAN]
  /\ refcnt \in [Bufs -> Nat]
  /\ lru \in [1 .. NBUF -> Bufs]
  /\ slock \in [Bufs -> Callers \cup {NoCaller}]
  /\ pinned \in SUBSET Blocks
  /\ pc \in [Callers -> PcLabels]
  /\ want \in [Callers -> Blocks \cup {NoBlock}]
  /\ cbuf \in [Callers -> Bufs \cup {NoBuf}]

(* What a caller has at each  label: the buffer of the block it wants, its *)
(* lock, a transfer in progress, valid contents, a pin.                    *)
CallInv(p) ==
  /\ pc[p] = "idle" => cbuf[p] = NoBuf /\ want[p] = NoBlock
  /\ pc[p] # "idle" => cbuf[p] \in Bufs /\ want[p] \in Blocks /\ blockno[cbuf[p]] = want[p]
  /\ pc[p] \in HasLock => slock[cbuf[p]] = p
  /\ pc[p] \in InRw => rw[p] # "out" /\ rbuf[p] = cbuf[p] /\ (rwrite[p] <=> pc[p] # "read")
  /\ pc[p] \notin InRw => rw[p] = "out" /\ rbuf[p] = NoBuf
  /\ pc[p] = "read" => ~valid[cbuf[p]]
  /\ pc[p] \in HasLock \ {"read"} => valid[cbuf[p]]
  /\ pc[p] \in {"install", "bunpin"} => want[p] \in pinned
  /\ pc[p] = "write" => want[p] \notin pinned

(* A block has one buffer, and a pinned block has one that is valid. *)
BufInv ==
  /\ \A b, c \in Bufs : blockno[b] = blockno[c] /\ blockno[b] # NoBlock => b = c
  /\ \A k \in pinned : \E b \in Bufs : blockno[b] = k /\ valid[b]
  /\ \A b \in Bufs : valid[b] => blockno[b] \in Blocks
  /\ \A b \in Bufs : \E i \in 1 .. NBUF : lru[i] = b
  /\ IsFiniteSet(pinned) /\ Cardinality(pinned) <= MaxPins

(* A valid buffer has what the disk has, unless its block is in the log or *)
(* is on its way to the disk; and so has a buffer whose transfer is done.  *)
CleanInv ==
  /\ \A b \in Bufs : /\ valid[b] /\ blockno[b] \notin pinned
                     /\ \A p \in Callers : pc[p] = "write" => cbuf[p] # b
                     => data[b] = platter[blockno[b]]
  /\ \A p \in Callers : \/ pc[p] \in InRw /\ Waiting(p) /\ idx[p] \notin avail
                        \/ pc[p] = "bunpin"
                        => data[cbuf[p]] = platter[want[p]]

(* The assertions that may fail are that of bget and that of the device's  *)
(* status.                                                                 *)
MayFail == {"bget: no buffers", "virtio_disk_intr status"}
OnlyTheseFail == panic = "none" \/ panic \in MayFail

BInv == VInv /\ BTypes /\ (\A p \in Callers : CallInv(p)) /\ BufInv /\ CleanInv
          /\ RefsCounted /\ OnlyTheseFail

LEMMA LabelFacts ==
  /\ NoBuf \notin Bufs /\ NoBlock \notin Blocks /\ NoCaller \notin Callers
  /\ HasLock = {"read", "write", "install", "use", "bunpin"}
BY VirtioAssumption, BcacheAssumption DEF HasLock, InRw

(* Two callers never have   the lock of the same buffer, so that the       *)
(* driver's callers keep apart.                                            *)
LEMMA LockAlone ==
  ASSUME \A q \in Callers : CallInv(q),
         NEW p \in Callers, NEW q \in Callers, pc[p] \in HasLock, pc[q] \in HasLock, cbuf[p] = cbuf[q]
  PROVE  p = q
<1>1. slock[cbuf[p]] = p /\ slock[cbuf[q]] = q
  BY Zenon DEF CallInv
<1> QED BY Zenon, <1>1

LEMMA ArgsHold ==
  ASSUME \A q \in Callers : CallInv(q)
  PROVE  RwArgs
<1> SUFFICES ASSUME NEW p \in Callers, rw[p] # "out"
             PROVE  /\ rbuf[p] \in Bufs /\ blockno[rbuf[p]] \in Blocks
                    /\ \A q \in Callers : q # p => rbuf[q] # rbuf[p]
  BY Zenon DEF RwArgs
<1>1. pc[p] \in InRw /\ pc[p] # "idle" /\ pc[p] \in HasLock
  <2>1. pc[p] \in InRw
    BY Zenon DEF CallInv
  <2> QED BY Zenon, <2>1 DEF InRw, HasLock
<1>2. rbuf[p] = cbuf[p] /\ cbuf[p] \in Bufs /\ blockno[cbuf[p]] \in Blocks
  BY Zenon, <1>1 DEF CallInv
<1>3. ASSUME NEW q \in Callers, q # p
      PROVE  rbuf[q] # rbuf[p]
  <2>1. CASE pc[q] \in InRw
    <3>1. pc[q] \in HasLock /\ rbuf[q] = cbuf[q]
      BY Zenon, <2>1 DEF HasLock, CallInv
    <3> QED BY Zenon, <3>1, <1>1, <1>2, <1>3, LockAlone
  <2>2. CASE pc[q] \notin InRw
    <3>1. rbuf[q] = NoBuf
      BY Zenon, <2>2 DEF CallInv
    <3> QED BY Zenon, <3>1, <1>2, LabelFacts
  <2> QED BY Zenon, <2>1, <2>2
<1> QED BY Zenon, <1>2, <1>3

-----------------------------------------------------------------------------
(* Counting references. *)
Holders(b) == {q \in Callers : cbuf[q] = b}

LEMMA HoldersFinite ==
  ASSUME NEW H \in SUBSET Callers
  PROVE  IsFiniteSet(H) /\ Cardinality(H) \in Nat
BY Zenon, BcacheAssumption, FS_Subset, FS_CardinalityType

LEMMA HoldersAdd ==
  ASSUME NEW H \in SUBSET Callers, NEW p \in Callers, p \notin H
  PROVE  Cardinality(H \cup {p}) = Cardinality(H) + 1
BY HoldersFinite, FS_AddElement

LEMMA HoldersRemove ==
  ASSUME NEW H \in SUBSET Callers, NEW p \in H
  PROVE  Cardinality(H \ {p}) = Cardinality(H) - 1
BY HoldersFinite, FS_RemoveElement

(* A buffer with a holder or a pin has a reference. *)
LEMMA RefPositive ==
  ASSUME BTypes, RefsCounted, NEW b \in Bufs, refcnt[b] = 0
  PROVE  /\ \A q \in Callers : cbuf[q] # b
         /\ blockno[b] \notin pinned
<1>1. refcnt[b] = Cardinality(Holders(b)) + (IF blockno[b] \in pinned THEN 1 ELSE 0)
  BY Zenon DEF RefsCounted, Holders
<1>2. Holders(b) \in SUBSET Callers
  BY Zenon DEF Holders
<1>3. IsFiniteSet(Holders(b)) /\ Cardinality(Holders(b)) \in Nat
  BY Zenon, <1>2, HoldersFinite
<1>4. Cardinality(Holders(b)) = 0 /\ blockno[b] \notin pinned
  BY <1>1, <1>3
<1>5. Holders(b) = {}
  BY Zenon, <1>3, <1>4, FS_EmptySet
<1> QED BY Zenon, <1>4, <1>5 DEF Holders

(* A non-empty set of indices has a largest one. *)
LEMMA LargestIndex ==
  ASSUME NEW U \in SUBSET (1 .. NBUF), U # {}
  PROVE  \E i \in U : \A j \in U : j <= i
<1> DEFINE T == {NBUF - i : i \in U}
           Less == {ss \in Nat \X Nat : ss[1] < ss[2]}
<1>0. NBUF \in Nat
  BY BcacheAssumption
<1>1. T \subseteq Nat /\ T # {}
  <2>1. \A i \in U : NBUF - i \in Nat
    BY <1>0
  <2> QED BY Zenon, <2>1
<1>2. PICK x \in T : \A y \in T : <<y, x>> \notin Less
  <2>1. IsWellFoundedOn(Less, Nat)
    BY Zenon, NatLessThanWellFounded DEF OpToRel
  <2> HIDE DEF Less, T
  <2> QED BY Zenon, <1>1, <2>1, WFMin
<1>3. \A y \in T : ~(y < x)
  BY Zenon, <1>1, <1>2
<1>4. PICK i \in U : x = NBUF - i
  BY Zenon
<1>5. \A j \in U : j <= i
  <2> TAKE j \in U
  <2>1. ~(NBUF - j < NBUF - i)
    BY <1>3, <1>4
  <2> QED BY <2>1, <1>0
<1> QED BY Zenon, <1>5

LEMMA RecycledUnused ==
  ASSUME BTypes, RefsCounted, Unused # {}
  PROVE  /\ Recycled \in Bufs /\ refcnt[Recycled] = 0
         /\ \A q \in Callers : cbuf[q] # Recycled
         /\ blockno[Recycled] \notin pinned
<1> DEFINE i == CHOOSE i \in Unused : \A j \in Unused : j <= i
<1>1. Unused \in SUBSET (1 .. NBUF)
  BY Zenon DEF Unused
<1>2. i \in Unused
  BY Zenon, <1>1, LargestIndex
<1>3. Recycled = lru[i]
  BY Zenon DEF Recycled
<1> HIDE DEF i
<1>4. lru[i] \in Bufs /\ refcnt[lru[i]] = 0
  BY Zenon, <1>1, <1>2 DEF Unused, BTypes
<1> QED BY Zenon, <1>3, <1>4, RefPositive

(* Two buffers are not of one block. *)
LEMMA OneBuffer ==
  ASSUME BufInv, NEW b \in Bufs, NEW c \in Bufs, NEW k \in Blocks, blockno[b] = k, blockno[c] = k
  PROVE  b = c
<1>1. blockno[b] # NoBlock
  BY Zenon, LabelFacts
<1>2. \A x, y \in Bufs : blockno[x] = blockno[y] /\ blockno[x] # NoBlock => x = y
  BY Zenon DEF BufInv
<1> QED BY Zenon, <1>1, <1>2

-----------------------------------------------------------------------------
(* What a step leaves alone. *)

LEMMA CallSame ==
  ASSUME NEW q \in Callers, CallInv(q),
         pc'[q] = pc[q] \/ (pc[q] = "lock asleep" /\ pc'[q] = "lock"),
         cbuf'[q] = cbuf[q], want'[q] = want[q],
         rbuf'[q] = rbuf[q], rwrite'[q] = rwrite[q], rw'[q] = "out" <=> rw[q] = "out",
         pc[q] # "idle" => blockno'[cbuf[q]] = blockno[cbuf[q]],
         pc[q] \in HasLock => /\ slock'[cbuf[q]] = slock[cbuf[q]]
                              /\ valid'[cbuf[q]] <=> valid[cbuf[q]]
                              /\ want[q] \in pinned' <=> want[q] \in pinned
  PROVE  CallInv(q)'
<1>1. CASE pc'[q] = pc[q]
  <2>1. pc[q] \in InRw \cup {"install", "bunpin", "write", "read"} => pc[q] \in HasLock
    BY Zenon DEF HasLock, InRw
  <2> QED BY Zenon, <1>1, <2>1 DEF CallInv
<1>2. CASE pc[q] = "lock asleep" /\ pc'[q] = "lock"
  <2>1. {"lock", "lock asleep"} \cap (HasLock \cup {"idle", "install", "bunpin", "write", "read"}) = {}
    BY Zenon DEF HasLock, InRw
  <2>2. pc[q] \notin InRw /\ pc'[q] \notin InRw
    BY Zenon, <1>2 DEF InRw
  <2> QED BY Zenon, <1>2, <2>1, <2>2 DEF CallInv
<1> QED BY Zenon, <1>1, <1>2

LEMMA BufSame ==
  ASSUME BufInv, UNCHANGED <<blockno, valid, pinned, lru>>
  PROVE  BufInv'
BY Zenon DEF BufInv

LEMMA RefsSame ==
  ASSUME RefsCounted, UNCHANGED <<refcnt, cbuf, blockno, pinned>>
  PROVE  RefsCounted'
BY Zenon DEF RefsCounted

LEMMA CleanSame ==
  ASSUME CleanInv, BTypes, UNCHANGED <<valid, blockno, pinned, data, platter, cbuf, want>>,
         \A q \in Callers : pc'[q] = "write" <=> pc[q] = "write",
         \A q \in Callers : \/ pc'[q] \in InRw /\ Waiting(q)' /\ idx'[q] \notin avail'
                            \/ pc'[q] = "bunpin"
                            => \/ pc[q] \in InRw /\ Waiting(q) /\ idx[q] \notin avail
                               \/ pc[q] = "bunpin"
  PROVE  CleanInv'
<1>1. \A b \in Bufs : /\ valid'[b] /\ blockno'[b] \notin pinned'
                      /\ \A q \in Callers : pc'[q] = "write" => cbuf'[q] # b
                      => data'[b] = platter'[blockno'[b]]
  <2> TAKE b \in Bufs
  <2> HAVE /\ valid'[b] /\ blockno'[b] \notin pinned'
           /\ \A q \in Callers : pc'[q] = "write" => cbuf'[q] # b
  <2>1. /\ valid[b] /\ blockno[b] \notin pinned
        /\ \A q \in Callers : pc[q] = "write" => cbuf[q] # b
    BY Zenon
  <2>2. data[b] = platter[blockno[b]]
    BY Zenon, <2>1 DEF CleanInv
  <2> QED BY Zenon, <2>2
<1>2. ASSUME NEW q \in Callers,
             \/ pc'[q] \in InRw /\ Waiting(q)' /\ idx'[q] \notin avail'
             \/ pc'[q] = "bunpin"
      PROVE  data'[cbuf'[q]] = platter'[want'[q]]
  <2>1. data[cbuf[q]] = platter[want[q]]
    BY Zenon, <1>2 DEF CleanInv
  <2> QED BY Zenon, <2>1
<1> QED BY Zenon, <1>1, <1>2 DEF CleanInv

LEMMA BTypesSame ==
  ASSUME BTypes, UNCHANGED <<blockno, valid, refcnt, lru, slock, pinned, pc, want, cbuf>>
  PROVE  BTypes'
BY Zenon DEF BTypes

-----------------------------------------------------------------------------
(* The driver's steps. *)

LEMMA DriverQuiet ==
  ASSUME BInv, UNCHANGED <<blockno, valid, refcnt, lru, slock, pinned, pc, want, cbuf>>,
         UNCHANGED <<rbuf, rwrite>>, panic' = panic \/ panic' \in MayFail,
         \A q \in Callers : rw'[q] = "out" <=> rw[q] = "out"
  PROVE  BTypes' /\ (\A p \in Callers : CallInv(p)') /\ BufInv' /\ RefsCounted' /\ OnlyTheseFail'
<1>1. BTypes'
  BY Zenon, BTypesSame DEF BInv
<1>2. BufInv'
  BY Zenon, BufSame DEF BInv
<1>3. RefsCounted'
  BY Zenon, RefsSame DEF BInv
<1>4. ASSUME NEW q \in Callers
      PROVE  CallInv(q)'
  <2>1. CallInv(q)
    BY Zenon DEF BInv
  <2> QED BY Zenon, <2>1, CallSame
<1>5. OnlyTheseFail'
  BY Zenon DEF BInv, OnlyTheseFail
<1> QED BY Zenon, <1>1, <1>2, <1>3, <1>4, <1>5

LEMMA TransferCopies ==
  ASSUME BInv, NEW i \in Descs, Transfer(i)
  PROVE  \E p \in Callers :
           /\ Waiting(p) /\ idx[p] = i /\ i \in avail
           /\ pc[p] \in InRw /\ pc[p] \in HasLock /\ cbuf[p] \in Bufs /\ want[p] \in Blocks
           /\ blockno[cbuf[p]] = want[p]
           /\ \/ /\ pc[p] # "read"
                 /\ platter' = [platter EXCEPT ![want[p]] = data[cbuf[p]]] /\ data' = data
              \/ /\ pc[p] = "read"
                 /\ data' = [data EXCEPT ![cbuf[p]] = platter[want[p]]] /\ platter' = platter
<1>1. i \in avail
  BY Zenon DEF Transfer
<1>2. PICK p \in Callers : Waiting(p) /\ idx[p] = i
  BY Zenon, <1>1 DEF BInv, VInv, RingInv
<1>3. req[i] = Request(p) /\ CallInv(p)
  BY Zenon, <1>2 DEF BInv, VInv, DescInv, ChainInv
<1>4. pc[p] \in InRw
  <2>1. rw[p] # "out"
    BY Zenon, <1>2 DEF Waiting
  <2> QED BY Zenon, <1>3, <2>1 DEF CallInv
<1>5. pc[p] \in HasLock /\ pc[p] # "idle"
  BY Zenon, <1>4 DEF HasLock, InRw
<1>6. /\ rbuf[p] = cbuf[p] /\ (rwrite[p] <=> pc[p] # "read")
      /\ cbuf[p] \in Bufs /\ want[p] \in Blocks /\ blockno[cbuf[p]] = want[p]
  BY Zenon, <1>3, <1>4, <1>5 DEF CallInv
<1>7. req[i].write = rwrite[p] /\ req[i].block = want[p] /\ req[i].buf = cbuf[p]
  BY <1>3, <1>6 DEF Request
<1>8. \/ /\ pc[p] # "read"
         /\ platter' = [platter EXCEPT ![want[p]] = data[cbuf[p]]] /\ data' = data
      \/ /\ pc[p] = "read"
         /\ data' = [data EXCEPT ![cbuf[p]] = platter[want[p]]] /\ platter' = platter
  <2>1. CASE pc[p] = "read"
    <3>1. ~req[i].write
      BY Zenon, <2>1, <1>6, <1>7
    <3>2. data' = [data EXCEPT ![req[i].buf] = platter[req[i].block]] /\ platter' = platter
      BY Zenon, <3>1 DEF Transfer
    <3> QED BY Zenon, <3>2, <2>1, <1>7
  <2>2. CASE pc[p] # "read"
    <3>1. req[i].write
      BY Zenon, <2>2, <1>6, <1>7
    <3>2. platter' = [platter EXCEPT ![req[i].block] = data[req[i].buf]] /\ data' = data
      BY Zenon, <3>1 DEF Transfer
    <3> QED BY Zenon, <3>2, <2>2, <1>7
  <2> QED BY <2>1, <2>2
<1> QED BY Zenon, <1>1, <1>2, <1>4, <1>5, <1>6, <1>8

LEMMA TransferClean ==
  ASSUME BInv, NEW i \in Descs, Transfer(i),
         UNCHANGED <<valid, blockno, pinned, cbuf, want, pc>>
  PROVE  CleanInv'
<1>1. PICK p \in Callers :
        /\ Waiting(p) /\ idx[p] = i /\ i \in avail
        /\ pc[p] \in InRw /\ pc[p] \in HasLock /\ cbuf[p] \in Bufs /\ want[p] \in Blocks
        /\ blockno[cbuf[p]] = want[p]
        /\ \/ /\ pc[p] # "read"
              /\ platter' = [platter EXCEPT ![want[p]] = data[cbuf[p]]] /\ data' = data
           \/ /\ pc[p] = "read"
              /\ data' = [data EXCEPT ![cbuf[p]] = platter[want[p]]] /\ platter' = platter
  BY Zenon, TransferCopies
<1>2. data \in [Bufs -> Val] /\ platter \in [Blocks -> Val]
  BY Zenon DEF BInv, VInv, VTypes
<1>3. /\ data'[cbuf[p]] = platter'[want[p]]
      /\ \A b \in Bufs : b # cbuf[p] => data'[b] = data[b]
      /\ \A k \in Blocks : k # want[p] => platter'[k] = platter[k]
  BY Zenon, <1>1, <1>2
<1>4. \A b \in Bufs : b # cbuf[p] => blockno[b] # want[p]
  BY Zenon, <1>1, OneBuffer DEF BInv
<1>5. \A b \in Bufs : /\ valid'[b] /\ blockno'[b] \notin pinned'
                      /\ \A q \in Callers : pc'[q] = "write" => cbuf'[q] # b
                      => data'[b] = platter'[blockno'[b]]
  <2> TAKE b \in Bufs
  <2> HAVE /\ valid'[b] /\ blockno'[b] \notin pinned'
           /\ \A q \in Callers : pc'[q] = "write" => cbuf'[q] # b
  <2>1. CASE b = cbuf[p]
    BY Zenon, <2>1, <1>1, <1>3
  <2>2. CASE b # cbuf[p]
    <3>1. /\ valid[b] /\ blockno[b] \notin pinned
          /\ \A q \in Callers : pc[q] = "write" => cbuf[q] # b
      BY Zenon
    <3>2. data[b] = platter[blockno[b]] /\ blockno[b] \in Blocks
      BY Zenon, <3>1 DEF BInv, CleanInv, BufInv
    <3>3. data'[b] = data[b] /\ platter'[blockno[b]] = platter[blockno[b]]
      BY Zenon, <3>2, <2>2, <1>3, <1>4
    <3> QED BY Zenon, <3>2, <3>3
  <2> QED BY Zenon, <2>1, <2>2
<1>6. ASSUME NEW q \in Callers,
             \/ pc'[q] \in InRw /\ Waiting(q)' /\ idx'[q] \notin avail'
             \/ pc'[q] = "bunpin"
      PROVE  data'[cbuf'[q]] = platter'[want'[q]]
  <2>1. CASE q = p
    BY Zenon, <2>1, <1>3
  <2>2. CASE q # p
    <3>1. /\ idx' = idx /\ (Waiting(q)' <=> Waiting(q)) /\ avail' = avail \ {i}
      BY Zenon DEF Transfer, locals, Waiting
    <3>2. Waiting(q) => idx[q] # i
      BY Zenon, <2>2, <1>1 DEF BInv, VInv, DescInv, Three
    <3>3. \/ pc[q] \in InRw /\ Waiting(q) /\ idx[q] \notin avail
          \/ pc[q] = "bunpin"
      BY Zenon, <3>1, <3>2, <1>6
    <3>4. data[cbuf[q]] = platter[want[q]]
      BY Zenon, <3>3 DEF BInv, CleanInv
    <3>5. pc[q] \in HasLock /\ pc[q] # "idle"
      BY Zenon, <3>3 DEF HasLock, InRw
    <3>6. cbuf[q] # cbuf[p] /\ cbuf[q] \in Bufs /\ want[q] \in Blocks /\ blockno[cbuf[q]] = want[q]
      BY Zenon, <3>5, <2>2, <1>1, LockAlone DEF BInv, CallInv
    <3>7. want[q] # want[p]
      BY Zenon, <3>6, <1>4
    <3> QED BY Zenon, <3>4, <3>6, <3>7, <1>3
  <2> QED BY Zenon, <2>1, <2>2
<1> QED BY Zenon, <1>5, <1>6 DEF CleanInv

LEMMA DriverOk ==
  ASSUME BInv, Driver
  PROVE  BInv'
<1>0. VInv /\ RwArgs /\ CleanInv /\ BTypes
  BY Zenon, ArgsHold DEF BInv
<1>1. UNCHANGED <<valid, refcnt, lru, pinned, slock, pc, want, cbuf>>
  BY Zenon DEF Driver, cacheVars, callVars
<1>2. ASSUME NEW p \in Callers, Submit(p) \/ NoDescs(p) \/ KillWakes(p)
      PROVE  BInv'
  <2>1. VInv'
    BY Zenon, <1>0, <1>2, SubmitOk, NoDescsOk, KillWakesOk
  <2>2. UNCHANGED <<blockno, data, platter, rbuf, rwrite, panic>>
    BY Zenon, <1>2 DEF Submit, NoDescs, KillWakes, content
  <2>3. /\ \A q \in Callers : rw'[q] = "out" <=> rw[q] = "out"
        /\ \A q \in Callers : Waiting(q)' /\ idx'[q] \notin avail' => Waiting(q) /\ idx[q] \notin avail
    <3>0. rw \in [Callers -> RwLabels] /\ idx \in [Callers -> Descs \cup {NoDesc}]
      BY Zenon, <1>0 DEF VInv, VTypes
    <3>1. CASE Submit(p)
      <4>1. rw[p] = "alloc" /\ rw' = [rw EXCEPT ![p] = "wait asleep"]
        BY Zenon, <3>1 DEF Submit, At
      <4>2. PICK i \in Descs : idx' = [idx EXCEPT ![p] = i] /\ avail' = avail \cup {i}
        BY Zenon, <3>1 DEF Submit
      <4>3. /\ rw'[p] = "wait asleep" /\ idx'[p] \in avail'
            /\ \A q \in Callers : q # p => rw'[q] = rw[q] /\ idx'[q] = idx[q]
        BY Zenon, <4>1, <4>2, <3>0
      <4>4. \A q \in Callers : rw'[q] = "out" <=> rw[q] = "out"
        BY Zenon, <4>1, <4>3
      <4>5. ASSUME NEW q \in Callers, Waiting(q)', idx'[q] \notin avail'
            PROVE  Waiting(q) /\ idx[q] \notin avail
        <5>1. q # p
          BY Zenon, <4>3, <4>5
        <5>2. rw'[q] = rw[q] /\ idx'[q] = idx[q]
          BY Zenon, <4>3, <5>1
        <5>3. idx[q] \notin avail
          BY <4>2, <4>5, <5>2
        <5> QED BY Zenon, <4>5, <5>2, <5>3 DEF Waiting
      <4> QED BY Zenon, <4>4, <4>5
    <3>2. CASE NoDescs(p)
      <4>1. rw[p] = "alloc" /\ idx' = idx /\ avail' = avail
        BY Zenon, <3>2 DEF NoDescs, At, rings
      <4>2. \/ rw' = [rw EXCEPT ![p] = "alloc asleep"]
            \/ rw' = [Woken("alloc asleep", "alloc") EXCEPT ![p] = "alloc asleep"]
        BY Zenon, <3>2 DEF NoDescs
      <4>3. \A q \in Callers : \/ rw'[q] = rw[q]
                               \/ rw'[q] = "alloc" /\ rw[q] = "alloc asleep"
                               \/ rw'[q] = "alloc asleep" /\ rw[q] = "alloc"
        BY Zenon, <4>1, <4>2, <3>0 DEF Woken
      <4> QED BY Zenon, <4>1, <4>3 DEF Waiting
    <3>3. CASE KillWakes(p)
      <4>1. idx' = idx /\ avail' = avail
        BY Zenon, <3>3 DEF KillWakes, rings
      <4>2. \A q \in Callers : \/ rw'[q] = rw[q]
                               \/ rw'[q] = "alloc" /\ rw[q] = "alloc asleep"
                               \/ rw'[q] = "wait" /\ rw[q] = "wait asleep"
        BY Zenon, <3>3, <3>0 DEF KillWakes
      <4> QED BY Zenon, <4>1, <4>2 DEF Waiting
    <3> QED BY Zenon, <1>2, <3>1, <3>2, <3>3
  <2>4. CleanInv'
    BY Zenon, <1>0, <1>1, <2>2, <2>3, CleanSame
  <2> QED BY Zenon, <1>1, <2>1, <2>2, <2>3, <2>4, DriverQuiet DEF BInv
<1>3. ASSUME NEW i \in Descs, Transfer(i)
      PROVE  BInv'
  <2>1. VInv'
    BY Zenon, <1>0, <1>3, TransferOk
  <2>2. UNCHANGED <<blockno, rw, rbuf, rwrite, panic>>
    BY Zenon, <1>3 DEF Transfer, locals
  <2>3. CleanInv'
    BY Zenon, <1>1, <1>3, <2>2, TransferClean
  <2> QED BY Zenon, <1>1, <2>1, <2>2, <2>3, DriverQuiet DEF BInv
<1>4. CASE IntrStep
  <2>1. VInv'
    BY Zenon, <1>0, <1>4, IntrOk
  <2>2. UNCHANGED <<blockno, data, platter, rbuf, rwrite, idx, avail>>
    BY Zenon, <1>4 DEF IntrStep, IntrAck, IntrReturn, IntrEntry, IntrStatus, content, locals, rings
  <2>3. \A q \in Callers : rw'[q] = rw[q] \/ (rw[q] = "wait asleep" /\ rw'[q] = "wait")
    BY Zenon, <1>4 DEF IntrStep, IntrAck, IntrReturn, IntrEntry, IntrStatus, locals
  <2>6. panic' = panic \/ panic' \in MayFail
    BY Zenon, <1>4 DEF IntrStep, IntrAck, IntrReturn, IntrEntry, IntrStatus, MayFail
  <2>4. \A q \in Callers : (rw'[q] = "out" <=> rw[q] = "out") /\ (Waiting(q)' => Waiting(q))
    BY Zenon, <2>3 DEF Waiting
  <2>5. CleanInv'
    BY Zenon, <1>0, <1>1, <2>2, <2>4, CleanSame
  <2> QED BY Zenon, <1>1, <2>1, <2>2, <2>4, <2>5, <2>6, DriverQuiet DEF BInv
<1> QED BY Zenon, <1>2, <1>3, <1>4 DEF Driver

-----------------------------------------------------------------------------
(* When every buffer is referenced the callers and the log have them all:  *)
(* a caller has one at most, and a block of the log has one.               *)
Having == {p \in Callers : cbuf[p] # NoBuf}

LEMMA InjectionBound ==
  ASSUME NEW A, IsFiniteSet(A), NEW B, IsFiniteSet(B), NEW f \in [A -> B],
         \A x, y \in A : f[x] = f[y] => x = y
  PROVE  Cardinality(A) <= Cardinality(B)
<1>1. Cardinality(A) \in Nat /\ Cardinality(B) \in Nat
  BY Zenon, FS_CardinalityType
<1>2. ASSUME Cardinality(B) < Cardinality(A)
      PROVE  FALSE
  BY <1>2, FS_PigeonHole
<1> QED BY <1>1, <1>2

LEMMA AllTaken ==
  ASSUME BInv, Unused = {}
  PROVE  NBUF <= Cardinality(Having) + Cardinality(pinned)
<1> DEFINE A == {b \in Bufs : Holders(b) # {}}
           B == {b \in Bufs : blockno[b] \in pinned}
           f == [b \in A |-> CHOOSE q \in Callers : cbuf[q] = b]
           g == [b \in B |-> blockno[b]]
<1>0. NBUF \in Nat /\ Bufs = 1 .. NBUF /\ IsFiniteSet(Callers)
  BY BcacheAssumption
<1>1. IsFiniteSet(Bufs) /\ Cardinality(Bufs) = NBUF
  <2>1. 1 \in Int /\ NBUF \in Int
    BY <1>0
  <2>2. /\ IsFiniteSet(1 .. NBUF)
        /\ Cardinality(1 .. NBUF) = IF 1 > NBUF THEN 0 ELSE NBUF - 1 + 1
    BY Zenon, <2>1, FS_Interval
  <2> QED BY <1>0, <2>2
<1>2. ASSUME NEW b \in Bufs
      PROVE  b \in A \cup B
  <2>1. refcnt[b] # 0
    BY <1>2 DEF BInv, BufInv, Unused
  <2>2. refcnt[b] = Cardinality(Holders(b)) + (IF blockno[b] \in pinned THEN 1 ELSE 0)
    BY Zenon, <1>2 DEF BInv, RefsCounted, Holders
  <2>3. Cardinality({}) = 0
    BY Zenon, FS_EmptySet
  <2> QED BY <2>1, <2>2, <2>3, <1>2
<1>3. IsFiniteSet(A) /\ IsFiniteSet(B) /\ A \in SUBSET Bufs /\ B \in SUBSET Bufs
  BY Zenon, <1>1, FS_Subset
<1>4. IsFiniteSet(Having) /\ Cardinality(Having) \in Nat
  BY Zenon, <1>0, FS_Subset, FS_CardinalityType DEF Having
<1>5. Cardinality(A) <= Cardinality(Having)
  <2>1. \A b \in A : f[b] \in Callers /\ cbuf[f[b]] = b
    BY Zenon DEF Holders
  <2>2. ASSUME NEW b \in A
        PROVE  f[b] \in Having
    <3>1. f[b] \in Callers /\ cbuf[f[b]] = b /\ b \in Bufs
      BY Zenon, <2>1, <2>2
    <3> HIDE DEF f, A
    <3> QED BY Zenon, <3>1, LabelFacts DEF Having
  <2>3. f \in [A -> Having]
    BY Zenon, <2>2
  <2>4. \A x, y \in A : f[x] = f[y] => x = y
    BY Zenon, <2>1
  <2> HIDE DEF A, f
  <2> QED BY Zenon, <1>3, <1>4, <2>3, <2>4, InjectionBound
<1>6. Cardinality(B) <= Cardinality(pinned)
  <2>1. IsFiniteSet(pinned) /\ pinned \in SUBSET Blocks /\ BufInv
    BY Zenon DEF BInv, BufInv, BTypes
  <2>2. g \in [B -> pinned]
    BY Zenon
  <2>3. \A x, y \in B : g[x] = g[y] => x = y
    BY Zenon, <2>1, OneBuffer
  <2> HIDE DEF B, g
  <2> QED BY Zenon, <1>3, <2>1, <2>2, <2>3, InjectionBound
<1>7. Cardinality(pinned) \in Nat
  BY Zenon, FS_CardinalityType DEF BInv, BufInv
<1>8. Bufs = A \cup B
  BY Zenon, <1>2, <1>3
<1> HIDE DEF A, B, f, g
<1>9. /\ NBUF = Cardinality(A) + Cardinality(B) - Cardinality(A \cap B)
      /\ Cardinality(A) \in Nat /\ Cardinality(B) \in Nat /\ Cardinality(A \cap B) \in Nat
  <2>1. IsFiniteSet(A \cap B)
    BY Zenon, <1>3, FS_Intersection
  <2> QED BY Zenon, <1>1, <1>3, <1>8, <2>1, FS_Union, FS_CardinalityType
<1> QED BY <1>0, <1>4, <1>5, <1>6, <1>7, <1>9

(* bget has found b for p, with block k already or nobody's. *)
BgetTakes(p, k, b) ==
  /\ \/ blockno[b] = k
     \/ /\ \A c \in Bufs : blockno[c] # k
        /\ refcnt[b] = 0 /\ blockno[b] \notin pinned
        /\ \A q \in Callers : cbuf[q] # b
  /\ refcnt' = [refcnt EXCEPT ![b] = refcnt[b] + 1]
  /\ valid' = [valid EXCEPT ![b] = valid[b] /\ blockno[b] = k]
  /\ blockno' = [blockno EXCEPT ![b] = k]
  /\ cbuf' = [cbuf EXCEPT ![p] = b]
  /\ want' = [want EXCEPT ![p] = k]
  /\ pc' = [pc EXCEPT ![p] = "lock"]
  /\ UNCHANGED <<driverVars, panic, lru, slock, pinned>>

LEMMA BgetStep ==
  ASSUME BInv, NEW p \in Callers, NEW k \in Blocks, bget(p, k), Cached(k) # {} \/ Unused # {}
  PROVE  \E b \in Bufs : BgetTakes(p, k, b)
<1>3. PICK b \in IF Cached(k) # {} THEN Cached(k) ELSE {Recycled} :
        /\ refcnt' = [refcnt EXCEPT ![b] = IF Cached(k) # {} THEN refcnt[b] + 1 ELSE 1]
        /\ valid' = [valid EXCEPT ![b] = valid[b] /\ blockno[b] = k]
        /\ blockno' = [blockno EXCEPT ![b] = k]
        /\ cbuf' = [cbuf EXCEPT ![p] = b]
        /\ want' = [want EXCEPT ![p] = k]
        /\ pc' = [pc EXCEPT ![p] = "lock"]
        /\ UNCHANGED <<driverVars, panic, lru, slock, pinned>>
  BY Zenon DEF bget, Goto, StillValid
<1>4. CASE Cached(k) # {}
  <2>1. b \in Bufs /\ blockno[b] = k
    BY Zenon, <1>3, <1>4 DEF Cached
  <2>2. refcnt' = [refcnt EXCEPT ![b] = refcnt[b] + 1]
    BY Zenon, <1>3, <1>4
  <2> QED BY Zenon, <1>3, <2>1, <2>2 DEF BgetTakes
<1>5. CASE Cached(k) = {}
  <2>1. b = Recycled
    BY Zenon, <1>3, <1>5
  <2>2. b \in Bufs /\ refcnt[b] = 0 /\ blockno[b] \notin pinned /\ \A q \in Callers : cbuf[q] # b
    BY Zenon, <1>5, <2>1, RecycledUnused DEF BInv
  <2>3. \A c \in Bufs : blockno[c] # k
    BY Zenon, <1>5 DEF Cached
  <2>4. refcnt' = [refcnt EXCEPT ![b] = 1]
    BY Zenon, <1>3, <1>5
  <2>5. refcnt[b] + 1 = 1
    BY <2>2
  <2> QED BY Zenon, <1>3, <2>2, <2>3, <2>4, <2>5 DEF BgetTakes
<1> QED BY Zenon, <1>4, <1>5

LEMMA BgetPanics ==
  ASSUME NEW p \in Callers, NEW k \in Blocks, bget(p, k), ~(Cached(k) # {} \/ Unused # {})
  PROVE  /\ panic' = "bget: no buffers"
         /\ UNCHANGED <<queue, rings, intr, busy, blockno, content, locals, cacheVars, slock, callVars>>
BY Zenon DEF bget, Panic

LEMMA BgetPanicsOk ==
  ASSUME BInv, NEW p \in Callers, NEW k \in Blocks, bget(p, k), ~(Cached(k) # {} \/ Unused # {})
  PROVE  BInv'
<1>1. /\ UNCHANGED <<queue, rings, intr, busy, blockno, data, platter, locals>>
      /\ UNCHANGED <<valid, refcnt, lru, pinned, slock, pc, want, cbuf>>
      /\ panic' = "bget: no buffers"
  BY Zenon, BgetPanics DEF content, cacheVars, callVars
<1>2. UNCHANGED <<rw, rbuf, rwrite, idx, avail>>
  BY Zenon, <1>1 DEF locals, rings
<1>3. VInv /\ CleanInv /\ BTypes
  BY Zenon DEF BInv
<1>4. VInv'
  <2>1. data' \in [Bufs -> Val]
    BY Zenon, <1>1, <1>3 DEF VInv, VTypes
  <2> QED BY Zenon, <1>1, <1>3, <2>1, DriverSame
<1>5. CleanInv'
  BY Zenon, <1>1, <1>2, <1>3, CleanSame DEF Waiting
<1> QED BY Zenon, <1>1, <1>2, <1>4, <1>5, DriverQuiet DEF BInv, MayFail

LEMMA BgetTakesOk ==
  ASSUME BInv, NEW p \in Callers, NEW k \in Blocks, bget(p, k), Cached(k) # {} \/ Unused # {}
  PROVE  BInv'
<1>0. VInv /\ BTypes /\ (\A q \in Callers : CallInv(q)) /\ BufInv /\ CleanInv /\ RefsCounted
  BY Zenon DEF BInv
<1>1. PICK b \in Bufs : BgetTakes(p, k, b)
  BY Zenon, BgetStep
<1>2. /\ UNCHANGED <<queue, rings, intr, busy, data, platter, locals, panic, lru, slock, pinned>>
      /\ UNCHANGED <<rw, rbuf, rwrite, idx, avail>>
  <2>1. UNCHANGED <<queue, rings, intr, busy, data, platter, locals, panic, lru, slock, pinned>>
    BY Zenon, <1>1 DEF driverVars, content, BgetTakes
  <2> QED BY Zenon, <2>1 DEF locals, rings
<1>3. pc[p] = "idle" /\ cbuf[p] = NoBuf /\ want[p] = NoBlock /\ rw[p] = "out" /\ rbuf[p] = NoBuf
  <2>1. pc[p] = "idle"
    BY Zenon DEF bget, Is
  <2>2. pc[p] \notin InRw
    BY <2>1 DEF InRw
  <2> QED BY Zenon, <1>0, <2>1, <2>2 DEF CallInv
<1>4. BTypes'
  <2>1. refcnt[b] + 1 \in Nat
    BY <1>0 DEF BTypes
  <2>2. /\ refcnt' \in [Bufs -> Nat] /\ valid' \in [Bufs -> BOOLEAN]
        /\ blockno' \in [Bufs -> Blocks \cup {NoBlock}]
    BY Zenon, <1>0, <1>1, <2>1 DEF BTypes, BgetTakes
  <2>3. /\ cbuf' \in [Callers -> Bufs \cup {NoBuf}] /\ want' \in [Callers -> Blocks \cup {NoBlock}]
        /\ pc' \in [Callers -> PcLabels]
    BY Zenon, <1>0, <1>1 DEF BTypes, PcLabels, BgetTakes
  <2> QED BY Zenon, <1>0, <1>2, <2>2, <2>3 DEF BTypes
<1>5. /\ refcnt'[b] = refcnt[b] + 1 /\ (valid'[b] <=> valid[b] /\ blockno[b] = k) /\ blockno'[b] = k
      /\ \A c \in Bufs : c # b => refcnt'[c] = refcnt[c] /\ valid'[c] = valid[c] /\ blockno'[c] = blockno[c]
  BY Zenon, <1>0, <1>1 DEF BTypes, BgetTakes
<1>6. /\ cbuf'[p] = b /\ want'[p] = k /\ pc'[p] = "lock"
      /\ \A q \in Callers : q # p => cbuf'[q] = cbuf[q] /\ want'[q] = want[q] /\ pc'[q] = pc[q]
  BY Zenon, <1>0, <1>1 DEF BTypes, BgetTakes
<1>7. ASSUME NEW q \in Callers, cbuf[q] \in Bufs
      PROVE  blockno'[cbuf[q]] = blockno[cbuf[q]] /\ (valid'[cbuf[q]] <=> valid[cbuf[q]])
  BY Zenon, <1>1, <1>5, <1>7 DEF BgetTakes
<1>8. ASSUME NEW q \in Callers
      PROVE  CallInv(q)'
  <2>1. CASE q = p
    <3>1. "lock" \notin InRw \cup HasLock \cup {"idle", "read", "write", "install", "bunpin"}
      BY DEF InRw, HasLock
    <3>2. b # NoBuf
      BY Zenon, LabelFacts
    <3> QED BY Zenon, <2>1, <3>1, <3>2, <1>2, <1>3, <1>5, <1>6 DEF CallInv
  <2>2. CASE q # p
    <3>1. pc[q] # "idle" => cbuf[q] \in Bufs
      BY Zenon, <1>0 DEF CallInv
    <3>2. pc[q] \in HasLock => cbuf[q] \in Bufs
      <4>1. "idle" \notin HasLock
        BY DEF HasLock, InRw
      <4> QED BY Zenon, <4>1, <3>1
    <3>3. /\ pc'[q] = pc[q] /\ cbuf'[q] = cbuf[q] /\ want'[q] = want[q]
          /\ rbuf'[q] = rbuf[q] /\ rwrite'[q] = rwrite[q] /\ (rw'[q] = "out" <=> rw[q] = "out")
      BY Zenon, <2>2, <1>2, <1>6
    <3>4. /\ pc[q] # "idle" => blockno'[cbuf[q]] = blockno[cbuf[q]]
          /\ pc[q] \in HasLock => (valid'[cbuf[q]] <=> valid[cbuf[q]])
      BY Zenon, <3>1, <3>2, <1>7
    <3>5. slock'[cbuf[q]] = slock[cbuf[q]] /\ (want[q] \in pinned' <=> want[q] \in pinned)
      BY Zenon, <1>2
    <3>6. CallInv(q)
      BY Zenon, <1>0
    <3> QED BY Zenon, <3>3, <3>4, <3>5, <3>6, CallSame
  <2> QED BY Zenon, <2>1, <2>2
<1>9. VInv'
  <2>1. \A q \in Callers : rw[q] # "out" => blockno'[rbuf[q]] = blockno[rbuf[q]]
    <3> TAKE q \in Callers
    <3> HAVE rw[q] # "out"
    <3>1. pc[q] \in InRw
      BY Zenon, <1>0 DEF CallInv
    <3>2. pc[q] # "idle"
      BY <3>1 DEF InRw
    <3>3. rbuf[q] = cbuf[q] /\ cbuf[q] \in Bufs
      BY Zenon, <1>0, <3>1, <3>2 DEF CallInv
    <3>4. blockno'[cbuf[q]] = blockno[cbuf[q]]
      BY Zenon, <3>3, <1>7
    <3> QED BY Zenon, <3>3, <3>4
  <2>2. data' \in [Bufs -> Val]
    BY Zenon, <1>0, <1>2 DEF VInv, VTypes
  <2> QED BY Zenon, <1>0, <1>2, <2>1, <2>2, DriverSame
<1>10. blockno'[b] \in pinned <=> blockno[b] \in pinned
  BY Zenon, <1>0, <1>1, <1>5 DEF BufInv, BgetTakes
<1>11. BufInv'
  <2>1. \A c, d \in Bufs : blockno'[c] = blockno'[d] /\ blockno'[c] # NoBlock => c = d
    <3>1. ASSUME NEW c \in Bufs, c # b
          PROVE  blockno'[c] # k /\ blockno'[c] = blockno[c]
      <4>1. blockno'[c] = blockno[c]
        BY Zenon, <3>1, <1>5
      <4>2. CASE blockno[b] = k
        BY Zenon, <3>1, <4>1, <4>2, <1>0, OneBuffer
      <4>3. CASE \A d \in Bufs : blockno[d] # k
        BY Zenon, <4>1, <4>3
      <4> QED BY Zenon, <4>1, <4>2, <4>3, <1>1 DEF BgetTakes
    <3> TAKE c, d \in Bufs
    <3>2. CASE c = b \/ d = b
      BY Zenon, <3>1, <3>2, <1>5
    <3>3. CASE c # b /\ d # b
      <4>1. blockno'[c] = blockno[c] /\ blockno'[d] = blockno[d]
        BY Zenon, <3>1, <3>3
      <4>2. blockno[c] = blockno[d] /\ blockno[c] # NoBlock => c = d
        BY Zenon, <1>0 DEF BufInv
      <4> QED BY Zenon, <4>1, <4>2
    <3> QED BY Zenon, <3>2, <3>3
  <2>2. \A m \in pinned' : \E c \in Bufs : blockno'[c] = m /\ valid'[c]
    <3> SUFFICES ASSUME NEW m \in pinned
                 PROVE  \E c \in Bufs : blockno'[c] = m /\ valid'[c]
      BY Zenon, <1>2
    <3>1. PICK c \in Bufs : blockno[c] = m /\ valid[c]
      BY Zenon, <1>0 DEF BufInv
    <3>2. CASE c = b
      BY Zenon, <3>1, <3>2, <1>1, <1>5 DEF BgetTakes
    <3>3. CASE c # b
      BY Zenon, <3>1, <3>3, <1>5
    <3> QED BY Zenon, <3>2, <3>3
  <2>3. \A c \in Bufs : valid'[c] => blockno'[c] \in Blocks
    BY Zenon, <1>0, <1>5 DEF BufInv
  <2> QED BY Zenon, <1>0, <1>2, <2>1, <2>2, <2>3 DEF BufInv
<1>12. RefsCounted'
  <2>1. ASSUME NEW c \in Bufs
        PROVE  refcnt'[c] = Cardinality(Holders(c)') + (IF blockno'[c] \in pinned' THEN 1 ELSE 0)
    <3>1. refcnt[c] = Cardinality(Holders(c)) + (IF blockno[c] \in pinned THEN 1 ELSE 0)
      BY Zenon, <1>0 DEF RefsCounted, Holders
    <3>2. CASE c = b
      <4>1. Holders(c)' = Holders(c) \cup {p} /\ p \notin Holders(c)
        BY Zenon, <3>2, <1>3, <1>6, LabelFacts DEF Holders
      <4>2. Cardinality(Holders(c)') = Cardinality(Holders(c)) + 1
        <5>1. Holders(c) \in SUBSET Callers
          BY Zenon DEF Holders
        <5> QED BY Zenon, <4>1, <5>1, HoldersAdd
      <4>3. Cardinality(Holders(c)) \in Nat
        BY Zenon, HoldersFinite DEF Holders
      <4> QED BY <3>1, <3>2, <4>2, <4>3, <1>2, <1>5, <1>10
    <3>3. CASE c # b
      <4>1. Holders(c)' = Holders(c)
        BY Zenon, <3>3, <1>3, <1>6, LabelFacts DEF Holders
      <4> QED BY Zenon, <3>1, <3>3, <4>1, <1>2, <1>5
    <3> QED BY Zenon, <3>2, <3>3
  <2> QED BY Zenon, <2>1 DEF RefsCounted, Holders
<1>13. CleanInv'
  <2>1. \A c \in Bufs : /\ valid'[c] /\ blockno'[c] \notin pinned'
                        /\ \A q \in Callers : pc'[q] = "write" => cbuf'[q] # c
                        => data'[c] = platter'[blockno'[c]]
    <3> TAKE c \in Bufs
    <3> HAVE /\ valid'[c] /\ blockno'[c] \notin pinned'
             /\ \A q \in Callers : pc'[q] = "write" => cbuf'[q] # c
    <3>1. valid[c] /\ blockno'[c] = blockno[c]
      BY Zenon, <1>5
    <3>2. \A q \in Callers : pc[q] = "write" => cbuf[q] # c
      BY Zenon, <1>3, <1>6, LabelFacts
    <3>3. blockno[c] \notin pinned
      BY Zenon, <3>1, <1>2
    <3>4. data[c] = platter[blockno[c]]
      BY Zenon, <1>0, <3>1, <3>2, <3>3 DEF CleanInv
    <3> QED BY Zenon, <3>1, <3>4, <1>2
  <2>2. ASSUME NEW q \in Callers,
               \/ pc'[q] \in InRw /\ Waiting(q)' /\ idx'[q] \notin avail'
               \/ pc'[q] = "bunpin"
        PROVE  data'[cbuf'[q]] = platter'[want'[q]]
    <3>1. q # p
      <4>1. "lock" \notin InRw
        BY DEF InRw
      <4> QED BY Zenon, <4>1, <2>2, <1>6
    <3>2. Waiting(q)' <=> Waiting(q)
      BY Zenon, <1>2 DEF Waiting
    <3>3. data[cbuf[q]] = platter[want[q]]
      BY Zenon, <3>1, <3>2, <2>2, <1>0, <1>2, <1>6 DEF CleanInv
    <3> QED BY Zenon, <3>1, <3>3, <1>2, <1>6
  <2> QED BY Zenon, <2>1, <2>2 DEF CleanInv
<1>14. OnlyTheseFail'
  BY Zenon, <1>2 DEF BInv, OnlyTheseFail
<1> QED BY Zenon, <1>4, <1>8, <1>9, <1>11, <1>12, <1>13, <1>14 DEF BInv

-----------------------------------------------------------------------------
(* The steps of a caller that has a buffer. *)

LEMMA PcFacts ==
  /\ \A l \in HasLock : l \notin {"idle", "lock", "lock asleep", "brelse"}
  /\ \A l \in InRw : l \in HasLock /\ l \notin {"use", "bunpin"}
  /\ InRw \subseteq HasLock /\ HasLock \subseteq PcLabels
BY DEF HasLock, InRw, PcLabels

(* What a caller with the lock of its buffer knows. *)
LEMMA LockedFacts ==
  ASSUME BInv, NEW p \in Callers, pc[p] \in HasLock
  PROVE  /\ cbuf[p] \in Bufs /\ want[p] \in Blocks /\ blockno[cbuf[p]] = want[p]
         /\ slock[cbuf[p]] = p
         /\ \A q \in Callers : q # p /\ pc[q] \in HasLock =>
              cbuf[q] \in Bufs /\ cbuf[q] # cbuf[p] /\ want[q] # want[p]
         /\ \A c \in Bufs : c # cbuf[p] => blockno[c] # want[p]
<1>1. CallInv(p) /\ BufInv /\ \A q \in Callers : CallInv(q)
  BY Zenon DEF BInv
<1>2. pc[p] # "idle"
  BY Zenon, PcFacts
<1>3. cbuf[p] \in Bufs /\ want[p] \in Blocks /\ blockno[cbuf[p]] = want[p] /\ slock[cbuf[p]] = p
  BY Zenon, <1>1, <1>2 DEF CallInv
<1>4. \A c \in Bufs : c # cbuf[p] => blockno[c] # want[p]
  BY Zenon, <1>1, <1>3, OneBuffer
<1>5. ASSUME NEW q \in Callers, q # p, pc[q] \in HasLock
      PROVE  cbuf[q] \in Bufs /\ cbuf[q] # cbuf[p] /\ want[q] # want[p]
  <2>1. cbuf[q] # cbuf[p]
    BY Zenon, <1>1, <1>5, LockAlone
  <2>2. cbuf[q] \in Bufs /\ blockno[cbuf[q]] = want[q]
    <3>1. pc[q] # "idle"
      BY Zenon, <1>5, PcFacts
    <3> QED BY Zenon, <1>1, <3>1 DEF CallInv
  <2> QED BY Zenon, <2>1, <2>2, <1>4
<1> QED BY Zenon, <1>3, <1>4, <1>5

(* The callers that a step of p does not concern. *)
LEMMA OthersSame ==
  ASSUME BInv, NEW p \in Callers, UNCHANGED <<blockno, cbuf, want>>,
         \A q \in Callers : q # p => /\ pc'[q] = pc[q] \/ (pc[q] = "lock asleep" /\ pc'[q] = "lock")
                                     /\ rbuf'[q] = rbuf[q] /\ rwrite'[q] = rwrite[q]
                                     /\ rw'[q] = "out" <=> rw[q] = "out",
         \A q \in Callers : q # p /\ pc[q] \in HasLock =>
           /\ slock'[cbuf[q]] = slock[cbuf[q]]
           /\ valid'[cbuf[q]] <=> valid[cbuf[q]]
           /\ want[q] \in pinned' <=> want[q] \in pinned,
         CallInv(p)'
  PROVE  \A q \in Callers : CallInv(q)'
<1>1. ASSUME NEW q \in Callers, q # p
      PROVE  CallInv(q)'
  <2>1. CallInv(q)
    BY Zenon DEF BInv
  <2>2. /\ cbuf'[q] = cbuf[q] /\ want'[q] = want[q]
        /\ blockno'[cbuf[q]] = blockno[cbuf[q]]
    BY Zenon
  <2> QED BY Zenon, <1>1, <2>1, <2>2, CallSame
<1> QED BY Zenon, <1>1

LEMMA AcquireOk ==
  ASSUME BInv, NEW p \in Callers, acquiresleep(p)
  PROVE  BInv'
<1>0. VInv /\ BTypes /\ CallInv(p) /\ BufInv /\ CleanInv /\ RefsCounted
  BY Zenon DEF BInv
<1> DEFINE b == cbuf[p]
<1>1. pc[p] = "lock" /\ pc[p] \notin HasLock /\ pc[p] \notin InRw /\ pc[p] # "idle"
  <2>1. pc[p] = "lock"
    BY Zenon DEF acquiresleep, Is
  <2> QED BY Zenon, <2>1, PcFacts
<1>2. /\ UNCHANGED <<queue, rings, intr, busy, blockno, data, platter, panic>>
      /\ UNCHANGED <<valid, refcnt, lru, pinned, want, cbuf>>
  BY Zenon DEF acquiresleep, content, cacheVars
<1>3. b \in Bufs /\ want[p] \in Blocks /\ blockno[b] = want[p] /\ rw[p] = "out" /\ rbuf[p] = NoBuf
  BY Zenon, <1>0, <1>1 DEF CallInv
<1> HIDE DEF b
<1>4. /\ BufInv' /\ RefsCounted' /\ OnlyTheseFail'
  BY Zenon, <1>0, <1>2, BufSame, RefsSame DEF BInv, OnlyTheseFail
<1>5. \/ /\ slock[b] # NoCaller /\ pc' = [pc EXCEPT ![p] = "lock asleep"]
         /\ UNCHANGED <<locals, slock>>
      \/ /\ slock[b] = NoCaller /\ slock' = [slock EXCEPT ![b] = p]
         /\ valid[b] /\ pc' = [pc EXCEPT ![p] = "use"] /\ UNCHANGED locals
      \/ /\ slock[b] = NoCaller /\ slock' = [slock EXCEPT ![b] = p]
         /\ ~valid[b] /\ pc' = [pc EXCEPT ![p] = "read"] /\ CallRw(p, b, FALSE)
  BY Zenon DEF acquiresleep, b, Goto
<1>6. /\ BTypes'
      /\ \A q \in Callers : q # p => pc'[q] = pc[q]
      /\ \A c \in Bufs : (c = b /\ slock[b] = NoCaller) \/ slock'[c] = slock[c]
      /\ pc'[p] \in {"lock asleep", "use", "read"}
  <2>1. pc' \in [Callers -> PcLabels] /\ slock' \in [Bufs -> Callers \cup {NoCaller}]
    <3>1. {"lock asleep", "use", "read"} \subseteq PcLabels
      BY DEF PcLabels, HasLock, InRw
    <3>2. PICK l \in {"lock asleep", "use", "read"} : pc' = [pc EXCEPT ![p] = l]
      BY Zenon, <1>5
    <3>3. pc' \in [Callers -> PcLabels]
      BY Zenon, <1>0, <3>1, <3>2 DEF BTypes
    <3>4. slock' \in [Bufs -> Callers \cup {NoCaller}]
      BY Zenon, <1>0, <1>3, <1>5 DEF BTypes
    <3> QED BY Zenon, <3>3, <3>4
  <2>2. /\ \A q \in Callers : q # p => pc'[q] = pc[q]
        /\ \A c \in Bufs : (c = b /\ slock[b] = NoCaller) \/ slock'[c] = slock[c]
        /\ pc'[p] \in {"lock asleep", "use", "read"}
    BY Zenon, <1>0, <1>3, <1>5 DEF BTypes
  <2> QED BY Zenon, <1>0, <1>2, <2>1, <2>2 DEF BTypes
<1>7. /\ \A q \in Callers : q # p => /\ rbuf'[q] = rbuf[q] /\ rwrite'[q] = rwrite[q]
                                     /\ rw'[q] = rw[q]
      /\ idx' = idx
  BY Zenon, <1>0, <1>5 DEF CallRw, locals, VInv, VTypes
<1>8. CallInv(p)'
  <2>1. cbuf'[p] = b /\ want'[p] = want[p] /\ blockno'[b] = want[p] /\ valid' = valid
    BY Zenon, <1>2, <1>3 DEF b
  <2>2. CASE pc' = [pc EXCEPT ![p] = "lock asleep"] /\ UNCHANGED <<locals, slock>>
    <3>1. pc'[p] = "lock asleep" /\ rw'[p] = "out" /\ rbuf'[p] = NoBuf
      BY Zenon, <1>0, <1>3, <2>2 DEF BTypes, locals
    <3>2. pc'[p] \notin HasLock \cup InRw \cup {"idle", "read", "write", "install", "bunpin"}
      BY Zenon, <3>1 DEF HasLock, InRw
    <3> QED BY Zenon, <1>3, <2>1, <3>1, <3>2 DEF CallInv
  <2>3. CASE slock' = [slock EXCEPT ![b] = p] /\ valid[b] /\ pc' = [pc EXCEPT ![p] = "use"] /\ UNCHANGED locals
    <3>1. pc'[p] = "use" /\ rw'[p] = "out" /\ rbuf'[p] = NoBuf /\ slock'[b] = p
      BY Zenon, <1>0, <1>3, <2>3 DEF BTypes, locals
    <3>2. pc'[p] \notin InRw \cup {"idle", "read", "write", "install", "bunpin"}
      BY <3>1 DEF InRw
    <3> QED BY Zenon, <1>3, <2>1, <2>3, <3>1, <3>2 DEF CallInv
  <2>4. CASE slock' = [slock EXCEPT ![b] = p] /\ ~valid[b] /\ pc' = [pc EXCEPT ![p] = "read"] /\ CallRw(p, b, FALSE)
    <3>1. pc'[p] = "read" /\ rw'[p] = "alloc" /\ rbuf'[p] = b /\ ~rwrite'[p] /\ slock'[b] = p
      BY Zenon, <1>0, <1>3, <2>4 DEF BTypes, VInv, VTypes, CallRw
    <3>2. pc'[p] \notin {"idle", "write", "install", "bunpin", "use"} /\ pc'[p] \in InRw /\ rw'[p] # "out"
      BY <3>1 DEF InRw
    <3> QED BY Zenon, <1>3, <2>1, <2>4, <3>1, <3>2 DEF CallInv
  <2> QED BY Zenon, <1>5, <2>2, <2>3, <2>4
<1>9. \A q \in Callers : q # p /\ pc[q] \in HasLock =>
        /\ slock'[cbuf[q]] = slock[cbuf[q]]
        /\ valid'[cbuf[q]] <=> valid[cbuf[q]]
        /\ want[q] \in pinned' <=> want[q] \in pinned
  <2> SUFFICES ASSUME NEW q \in Callers, q # p, pc[q] \in HasLock
               PROVE  slock'[cbuf[q]] = slock[cbuf[q]]
    BY Zenon, <1>2
  <2>1. cbuf[q] \in Bufs /\ slock[cbuf[q]] = q /\ q # NoCaller
    BY Zenon, LockedFacts, LabelFacts
  <2> QED BY Zenon, <2>1, <1>6
<1>10. \A q \in Callers : CallInv(q)'
  BY Zenon, <1>2, <1>6, <1>7, <1>8, <1>9, OthersSame
<1>11. VInv'
  <2>1. data' \in [Bufs -> Val]
    BY Zenon, <1>0, <1>2 DEF VInv, VTypes
  <2>2. CASE UNCHANGED locals
    BY Zenon, <1>0, <1>2, <2>1, <2>2, DriverSame
  <2>3. CASE CallRw(p, b, FALSE)
    BY Zenon, <1>0, <1>2, <1>3, <2>1, <2>3, CallRwOk
  <2> QED BY Zenon, <1>5, <2>2, <2>3
<1>12. CleanInv'
  <2>1. \A q \in Callers : pc'[q] = "write" <=> pc[q] = "write"
    BY Zenon, <1>1, <1>6
  <2>2. \A q \in Callers : \/ pc'[q] \in InRw /\ Waiting(q)' /\ idx'[q] \notin avail'
                           \/ pc'[q] = "bunpin"
                           => \/ pc[q] \in InRw /\ Waiting(q) /\ idx[q] \notin avail
                              \/ pc[q] = "bunpin"
    <3> TAKE q \in Callers
    <3>1. CASE q # p
      BY Zenon, <3>1, <1>2, <1>6, <1>7 DEF Waiting, rings
    <3>2. CASE q = p
      <4>1. pc'[p] \in InRw => rw'[p] = "alloc"
        <5>1. pc'[p] \in InRw => CallRw(p, b, FALSE)
          BY Zenon, <1>0, <1>5 DEF BTypes, InRw
        <5> QED BY Zenon, <5>1, <1>0 DEF CallRw, VInv, VTypes
      <4>2. pc'[p] # "bunpin" /\ (pc'[p] \in InRw => ~Waiting(p)')
        BY Zenon, <4>1, <1>6 DEF Waiting
      <4> QED BY Zenon, <3>2, <4>2
    <3> QED BY Zenon, <3>1, <3>2
  <2> QED BY Zenon, <1>0, <1>2, <2>1, <2>2, CleanSame
<1> QED BY Zenon, <1>4, <1>6, <1>10, <1>11, <1>12 DEF BInv

LEMMA KillLockOk ==
  ASSUME BInv, NEW p \in Callers, KillLock(p)
  PROVE  BInv'
<1>0. VInv /\ BTypes /\ (\A q \in Callers : CallInv(q)) /\ BufInv /\ CleanInv /\ RefsCounted
  BY Zenon DEF BInv
<1>1. /\ UNCHANGED <<queue, rings, intr, busy, blockno, data, platter, locals, panic>>
      /\ UNCHANGED <<valid, refcnt, lru, pinned, slock, want, cbuf>>
  BY Zenon DEF KillLock, driverVars, content, cacheVars
<1>2. pc[p] = "lock asleep" /\ pc' = [pc EXCEPT ![p] = "lock"]
  BY Zenon DEF KillLock, Is, Goto
<1>3. /\ pc' \in [Callers -> PcLabels]
      /\ \A q \in Callers : pc'[q] = pc[q] \/ (pc[q] = "lock asleep" /\ pc'[q] = "lock")
  BY Zenon, <1>0, <1>2 DEF BTypes, PcLabels
<1>4. BTypes' /\ BufInv' /\ RefsCounted' /\ OnlyTheseFail'
  BY Zenon, <1>0, <1>1, <1>3, BufSame, RefsSame DEF BTypes, BInv, OnlyTheseFail
<1>5. ASSUME NEW q \in Callers
      PROVE  CallInv(q)'
  <2>1. rw'[q] = rw[q] /\ rbuf'[q] = rbuf[q] /\ rwrite'[q] = rwrite[q]
    BY Zenon, <1>1 DEF locals
  <2> QED BY Zenon, <1>0, <1>1, <1>3, <2>1, CallSame
<1>6. VInv'
  <2>1. data' \in [Bufs -> Val]
    BY Zenon, <1>0, <1>1 DEF VInv, VTypes
  <2> QED BY Zenon, <1>0, <1>1, <2>1, DriverSame
<1>7. CleanInv'
  <2>1. \A q \in Callers : (Waiting(q)' <=> Waiting(q)) /\ idx'[q] = idx[q] /\ avail' = avail
    BY Zenon, <1>1 DEF Waiting, locals, rings
  <2>2. \A q \in Callers : /\ pc'[q] = "write" <=> pc[q] = "write"
                           /\ pc'[q] \in InRw => pc[q] \in InRw
                           /\ pc'[q] = "bunpin" => pc[q] = "bunpin"
    BY Zenon, <1>3 DEF InRw
  <2>3. \A q \in Callers : \/ pc'[q] \in InRw /\ Waiting(q)' /\ idx'[q] \notin avail'
                           \/ pc'[q] = "bunpin"
                           => \/ pc[q] \in InRw /\ Waiting(q) /\ idx[q] \notin avail
                              \/ pc[q] = "bunpin"
    BY <2>1, <2>2
  <2> QED BY Zenon, <1>0, <1>1, <2>2, <2>3, CleanSame
<1> QED BY Zenon, <1>4, <1>5, <1>6, <1>7 DEF BInv

(* virtio_disk_rw returns: the buffer has what the disk has. *)
LEMMA RwReturnOk ==
  ASSUME BInv, NEW p \in Callers, RwReturn(p)
  PROVE  BInv'
<1>0. VInv /\ BTypes /\ CallInv(p) /\ BufInv /\ CleanInv /\ RefsCounted /\ RwArgs
  BY Zenon, ArgsHold DEF BInv
<1>1. Finish(p) /\ UNCHANGED <<refcnt, lru, slock, pinned, want, cbuf>>
  BY Zenon DEF RwReturn
<1>2. /\ Waiting(p) /\ rw[p] = "wait"
      /\ UNCHANGED <<avail, used, irq, intr, busy, blockno, data, platter, panic>>
  BY Zenon, <1>0, <1>1, FinishCases DEF rings, content
<1>3. pc[p] \in InRw /\ pc[p] \in HasLock
  <2>1. pc[p] \in InRw
    BY <1>0, <1>2 DEF CallInv
  <2> QED BY Zenon, <2>1, PcFacts
<1>4. /\ cbuf[p] \in Bufs /\ want[p] \in Blocks /\ blockno[cbuf[p]] = want[p]
      /\ slock[cbuf[p]] = p
      /\ \A q \in Callers : q # p /\ pc[q] \in HasLock => cbuf[q] # cbuf[p] /\ want[q] # want[p]
  BY Zenon, <1>3, LockedFacts
<1>5. VInv' /\ OnlyTheseFail'
  BY Zenon, <1>0, <1>1, <1>2, FinishOk DEF BInv, OnlyTheseFail
<1>6. CASE /\ busy[rbuf[p]] /\ rw' = [rw EXCEPT ![p] = "wait asleep"]
           /\ UNCHANGED <<queue, rbuf, rwrite, idx>>
  <2>1. rw'[p] = "wait asleep" /\ \A q \in Callers : q # p => rw'[q] = rw[q]
    BY Zenon, <1>0, <1>6 DEF VInv, VTypes
  <2>2. UNCHANGED <<valid, pc>>
    BY Zenon, <2>1 DEF RwReturn
  <2>3. \A q \in Callers : (rw'[q] = "out" <=> rw[q] = "out") /\ (Waiting(q)' <=> Waiting(q))
    BY Zenon, <1>2, <2>1 DEF Waiting
  <2>4. CleanInv'
    BY Zenon, <1>0, <1>1, <1>2, <1>6, <2>2, <2>3, CleanSame
  <2> QED BY Zenon, <1>1, <1>2, <1>5, <1>6, <2>2, <2>3, <2>4, DriverQuiet DEF BInv
<1>7. CASE /\ ~busy[rbuf[p]]
           /\ rw' = [Woken("alloc asleep", "alloc") EXCEPT ![p] = "out"]
           /\ rbuf' = [rbuf EXCEPT ![p] = NoBuf]
           /\ rwrite' = [rwrite EXCEPT ![p] = FALSE]
           /\ idx' = [idx EXCEPT ![p] = NoDesc]
  <2>1. /\ rw'[p] = "out" /\ rbuf'[p] = NoBuf
        /\ \A q \in Callers : q # p => /\ rbuf'[q] = rbuf[q] /\ rwrite'[q] = rwrite[q] /\ idx'[q] = idx[q]
                                       /\ rw'[q] = IF rw[q] = "alloc asleep" THEN "alloc" ELSE rw[q]
    BY Zenon, <1>0, <1>7 DEF VInv, VTypes, Woken
  <2>2. \A q \in Callers : q # p => (rw'[q] = "out" <=> rw[q] = "out") /\ (Waiting(q)' <=> Waiting(q))
    BY Zenon, <2>1 DEF Waiting
  <2>3. /\ valid' = [valid EXCEPT ![cbuf[p]] = TRUE]
        /\ pc' = [pc EXCEPT ![p] = IF pc[p] = "install" THEN "bunpin" ELSE "use"]
    BY Zenon, <2>1 DEF RwReturn, Goto
  <2>4. /\ valid'[cbuf[p]] /\ \A c \in Bufs : c # cbuf[p] => valid'[c] = valid[c]
        /\ valid' \in [Bufs -> BOOLEAN]
    BY Zenon, <1>0, <1>4, <2>3 DEF BTypes
  <2>5. /\ pc'[p] = IF pc[p] = "install" THEN "bunpin" ELSE "use"
        /\ \A q \in Callers : q # p => pc'[q] = pc[q]
        /\ pc' \in [Callers -> PcLabels]
    <3>1. "bunpin" \in PcLabels /\ "use" \in PcLabels
      BY DEF PcLabels, HasLock
    <3> QED BY Zenon, <1>0, <2>3, <3>1 DEF BTypes
  <2>6. BTypes' /\ RefsCounted'
    BY Zenon, <1>0, <1>1, <1>2, <2>4, <2>5, RefsSame DEF BTypes
  <2>7. BufInv'
    <3>1. \A k \in pinned' : \E c \in Bufs : blockno'[c] = k /\ valid'[c]
      <4> SUFFICES ASSUME NEW k \in pinned
                   PROVE  \E c \in Bufs : blockno'[c] = k /\ valid'[c]
        BY Zenon, <1>1
      <4>1. PICK c \in Bufs : blockno[c] = k /\ valid[c]
        BY Zenon, <1>0 DEF BufInv
      <4>2. blockno'[c] = k /\ valid'[c]
        BY Zenon, <1>2, <2>4, <4>1
      <4> QED BY Zenon, <4>2
    <3>2. \A c \in Bufs : valid'[c] => blockno'[c] \in Blocks
      BY Zenon, <1>0, <1>2, <1>4, <2>4 DEF BufInv
    <3>3. \A b, c \in Bufs : blockno'[b] = blockno'[c] /\ blockno'[b] # NoBlock => b = c
      BY Zenon, <1>0, <1>2 DEF BufInv
    <3> QED BY Zenon, <1>0, <1>1, <3>1, <3>2, <3>3 DEF BufInv
  <2>8. CallInv(p)'
    <3>1. pc[p] = "install" => want[p] \in pinned
      BY Zenon, <1>0 DEF CallInv
    <3>2. /\ pc'[p] \notin InRw \cup {"idle", "read", "write", "install"}
          /\ pc'[p] = "bunpin" => pc[p] = "install"
      BY <2>5 DEF InRw
    <3>3. /\ cbuf'[p] = cbuf[p] /\ want'[p] = want[p] /\ slock'[cbuf[p]] = p
          /\ blockno'[cbuf[p]] = want[p] /\ pinned' = pinned
      BY Zenon, <1>1, <1>2, <1>4
    <3> QED BY Zenon, <1>4, <2>1, <2>4, <3>1, <3>2, <3>3 DEF CallInv
  <2>9. ASSUME NEW q \in Callers, q # p, pc[q] \in HasLock
        PROVE  /\ slock'[cbuf[q]] = slock[cbuf[q]]
               /\ valid'[cbuf[q]] <=> valid[cbuf[q]]
               /\ want[q] \in pinned' <=> want[q] \in pinned
    <3>1. cbuf[q] \in Bufs /\ cbuf[q] # cbuf[p]
      BY Zenon, <1>4, <2>9, LockedFacts
    <3> QED BY Zenon, <1>1, <2>4, <3>1
  <2>10. \A q \in Callers : CallInv(q)'
    BY Zenon, <1>1, <1>2, <2>1, <2>2, <2>5, <2>8, <2>9, OthersSame
  <2>11. data[cbuf[p]] = platter[want[p]]
    <3>1. idx[p] \notin avail
      BY Zenon, <1>0, <1>2, <1>7 DEF VInv, RingInv
    <3> QED BY Zenon, <1>0, <1>2, <1>3, <3>1 DEF CleanInv
  <2>12. CleanInv'
    <3>1. \A b \in Bufs : /\ valid'[b] /\ blockno'[b] \notin pinned'
                          /\ \A q \in Callers : pc'[q] = "write" => cbuf'[q] # b
                          => data'[b] = platter'[blockno'[b]]
      <4> TAKE b \in Bufs
      <4> HAVE /\ valid'[b] /\ blockno'[b] \notin pinned'
               /\ \A q \in Callers : pc'[q] = "write" => cbuf'[q] # b
      <4>1. CASE b = cbuf[p]
        BY Zenon, <1>2, <1>4, <2>11, <4>1
      <4>2. CASE b # cbuf[p]
        <5>1. valid[b] /\ blockno[b] \notin pinned
          BY Zenon, <1>1, <1>2, <2>4, <4>2
        <5>2. ASSUME NEW q \in Callers, pc[q] = "write"
              PROVE  cbuf[q] # b
          BY Zenon, <1>1, <2>5, <4>2, <5>2
        <5>3. data[b] = platter[blockno[b]]
          BY Zenon, <1>0, <5>1, <5>2 DEF CleanInv
        <5> QED BY Zenon, <1>2, <5>3
      <4> QED BY Zenon, <4>1, <4>2
    <3>2. ASSUME NEW q \in Callers,
                 \/ pc'[q] \in InRw /\ Waiting(q)' /\ idx'[q] \notin avail'
                 \/ pc'[q] = "bunpin"
          PROVE  data'[cbuf'[q]] = platter'[want'[q]]
      <4>1. CASE q = p
        BY Zenon, <1>1, <1>2, <2>11, <4>1
      <4>2. CASE q # p
        <5>1. \/ pc[q] \in InRw /\ Waiting(q) /\ idx[q] \notin avail
              \/ pc[q] = "bunpin"
          BY Zenon, <1>2, <2>1, <2>2, <2>5, <3>2, <4>2
        <5>2. data[cbuf[q]] = platter[want[q]]
          BY Zenon, <1>0, <5>1 DEF CleanInv
        <5> QED BY Zenon, <1>1, <1>2, <5>2
      <4> QED BY Zenon, <4>1, <4>2
    <3> QED BY Zenon, <3>1, <3>2 DEF CleanInv
  <2> QED BY Zenon, <1>5, <2>6, <2>7, <2>10, <2>12 DEF BInv
<1> QED BY Zenon, <1>0, <1>1, <1>6, <1>7, FinishCases

(* A change of the buffer that p has locked concerns no other. *)
LEMMA ChangeOthers ==
  ASSUME BInv, NEW p \in Callers, pc[p] \in HasLock, NEW v \in Val,
         data' = [data EXCEPT ![cbuf[p]] = v]
  PROVE  /\ data' \in [Bufs -> Val] /\ data'[cbuf[p]] = v
         /\ \A c \in Bufs : c # cbuf[p] => data'[c] = data[c]
         /\ \A q \in Callers : q # p /\ pc[q] \in HasLock => data'[cbuf[q]] = data[cbuf[q]]
<1>1. data \in [Bufs -> Val]
  BY Zenon DEF BInv, VInv, VTypes
<1>2. /\ cbuf[p] \in Bufs
      /\ \A q \in Callers : q # p /\ pc[q] \in HasLock => cbuf[q] \in Bufs /\ cbuf[q] # cbuf[p]
  BY Zenon, LockedFacts
<1> QED BY Zenon, <1>1, <1>2

LEMMA LogWriteOk ==
  ASSUME BInv, NEW p \in Callers, NEW v \in Val, log_write(p, v)
  PROVE  BInv'
<1>0. VInv /\ BTypes /\ CallInv(p) /\ BufInv /\ CleanInv /\ RefsCounted
  BY Zenon DEF BInv
<1> DEFINE b == cbuf[p]
           k == blockno[b]
<1>1. /\ pc[p] = "use" /\ (k \in pinned \/ Cardinality(pinned) < MaxPins)
      /\ data' = [data EXCEPT ![b] = v]
      /\ refcnt' = [refcnt EXCEPT ![b] = refcnt[b] + Pins(k)]
      /\ pinned' = pinned \cup {k}
  BY DEF log_write, Is
<1>2. /\ UNCHANGED <<queue, rings, intr, busy, blockno, platter, locals, panic, valid, lru, slock>>
      /\ UNCHANGED <<pc, want, cbuf>>
  BY Zenon DEF log_write, callVars
<1>3. pc[p] \in HasLock
  BY Zenon, <1>1 DEF HasLock
<1>4. /\ b \in Bufs /\ k \in Blocks /\ want[p] = k
      /\ \A q \in Callers : q # p /\ pc[q] \in HasLock => cbuf[q] \in Bufs /\ cbuf[q] # b /\ want[q] # k
      /\ \A c \in Bufs : c # b => blockno[c] # k
  <2>1. /\ b \in Bufs /\ want[p] \in Blocks /\ k = want[p]
        /\ \A q \in Callers : q # p /\ pc[q] \in HasLock => cbuf[q] \in Bufs /\ cbuf[q] # b /\ want[q] # want[p]
        /\ \A c \in Bufs : c # b => blockno[c] # want[p]
    BY Zenon, <1>3, LockedFacts
  <2> HIDE DEF b, k
  <2> QED BY Zenon, <2>1
<1>5. valid[b]
  <2>1. pc[p] \in HasLock \ {"read"}
    BY <1>1, <1>3
  <2> QED BY Zenon, <1>0, <2>1 DEF CallInv
<1>6. /\ data' \in [Bufs -> Val]
      /\ \A c \in Bufs : c # b => data'[c] = data[c]
      /\ \A q \in Callers : q # p /\ pc[q] \in HasLock => data'[cbuf[q]] = data[cbuf[q]]
  BY Zenon, <1>1, <1>3, ChangeOthers
<1> HIDE DEF b, k
<1>7. VInv'
  <2>1. \A q \in Callers : blockno'[rbuf[q]] = blockno[rbuf[q]]
    BY Zenon, <1>2
  <2> QED BY Zenon, <1>0, <1>2, <1>6, <2>1, DriverSame
<1>8. /\ refcnt' \in [Bufs -> Nat] /\ refcnt'[b] = refcnt[b] + Pins(k)
      /\ \A c \in Bufs : c # b => refcnt'[c] = refcnt[c]
  <2>1. Pins(k) \in Nat
    BY DEF Pins
  <2>2. refcnt \in [Bufs -> Nat] /\ refcnt[b] \in Nat
    BY Zenon, <1>0, <1>4 DEF BTypes
  <2>3. refcnt[b] + Pins(k) \in Nat
    BY <2>1, <2>2
  <2> QED BY Zenon, <1>1, <1>4, <2>2, <2>3
<1>9. BTypes'
  <2>1. pinned' \in SUBSET Blocks
    BY Zenon, <1>0, <1>1, <1>4 DEF BTypes
  <2> QED BY Zenon, <1>0, <1>2, <1>8, <2>1 DEF BTypes
<1>10. CallInv(p)'
  <2>1. pc[p] \notin InRw \cup {"idle", "read", "write", "install", "bunpin"}
    BY <1>1 DEF InRw
  <2>2. rw' = rw /\ rbuf' = rbuf
    BY Zenon, <1>2 DEF locals
  <2> QED BY Zenon, <1>0, <1>2, <2>1, <2>2 DEF CallInv
<1>11. \A q \in Callers : CallInv(q)'
  <2>1. ASSUME NEW q \in Callers, q # p, pc[q] \in HasLock
        PROVE  want[q] \in pinned' <=> want[q] \in pinned
    <3>1. want[q] # k
      BY Zenon, <1>4, <2>1
    <3> QED BY Zenon, <1>1, <3>1
  <2>2. UNCHANGED <<rw, rbuf, rwrite>>
    BY Zenon, <1>2 DEF locals
  <2> QED BY Zenon, <1>2, <1>10, <2>1, <2>2, OthersSame
<1>12. BufInv'
  <2>1. \A m \in pinned' : \E c \in Bufs : blockno'[c] = m /\ valid'[c]
    <3> SUFFICES ASSUME NEW m \in pinned'
                 PROVE  \E c \in Bufs : blockno[c] = m /\ valid[c]
      BY Zenon, <1>2
    <3>1. CASE m = k
      BY Zenon, <1>4, <1>5, <3>1 DEF k
    <3>2. CASE m # k
      BY Zenon, <1>0, <1>1, <3>2 DEF BufInv
    <3> QED BY Zenon, <3>1, <3>2
  <2>2. IsFiniteSet(pinned') /\ Cardinality(pinned') <= MaxPins
    <3>1. IsFiniteSet(pinned) /\ Cardinality(pinned) <= MaxPins
      BY Zenon, <1>0 DEF BufInv
    <3>2. /\ IsFiniteSet(pinned')
          /\ Cardinality(pinned') = IF k \in pinned THEN Cardinality(pinned) ELSE Cardinality(pinned) + 1
      BY Zenon, <1>1, <3>1, FS_AddElement
    <3>3. Cardinality(pinned) \in Nat /\ MaxPins \in Nat
      BY Zenon, <3>1, FS_CardinalityType, BcacheAssumption
    <3>4. Cardinality(pinned') <= MaxPins
      BY <1>1, <3>1, <3>2, <3>3
    <3> QED BY Zenon, <3>2, <3>4
  <2>3. /\ \A c, d \in Bufs : blockno'[c] = blockno'[d] /\ blockno'[c] # NoBlock => c = d
        /\ \A c \in Bufs : valid'[c] => blockno'[c] \in Blocks
        /\ \A c \in Bufs : \E i \in 1 .. NBUF : lru'[i] = c
    BY Zenon, <1>0, <1>2 DEF BufInv
  <2> QED BY Zenon, <2>1, <2>2, <2>3 DEF BufInv
<1>13. RefsCounted'
  <2>1. ASSUME NEW c \in Bufs
        PROVE  refcnt'[c] = Cardinality(Holders(c)') + (IF blockno'[c] \in pinned' THEN 1 ELSE 0)
    <3>1. refcnt[c] = Cardinality(Holders(c)) + (IF blockno[c] \in pinned THEN 1 ELSE 0)
      BY Zenon, <1>0 DEF RefsCounted, Holders
    <3>2. Holders(c)' = Holders(c) /\ blockno'[c] = blockno[c]
      BY Zenon, <1>2 DEF Holders
    <3>3. CASE c = b
      <4>1. blockno[c] = k /\ k \in pinned' /\ refcnt'[c] = refcnt[c] + Pins(k)
        BY Zenon, <1>1, <1>8, <3>3 DEF k
      <4>2. Cardinality(Holders(c)) \in Nat
        BY Zenon, HoldersFinite DEF Holders
      <4> QED BY <3>1, <3>2, <4>1, <4>2 DEF Pins
    <3>4. CASE c # b
      <4>1. refcnt'[c] = refcnt[c] /\ (blockno[c] \in pinned' <=> blockno[c] \in pinned)
        BY Zenon, <1>1, <1>4, <1>8, <3>4
      <4> QED BY Zenon, <3>1, <3>2, <4>1
    <3> QED BY Zenon, <3>3, <3>4
  <2> QED BY Zenon, <2>1 DEF RefsCounted, Holders
<1>14. CleanInv'
  <2>1. \A c \in Bufs : /\ valid'[c] /\ blockno'[c] \notin pinned'
                        /\ \A q \in Callers : pc'[q] = "write" => cbuf'[q] # c
                        => data'[c] = platter'[blockno'[c]]
    <3> TAKE c \in Bufs
    <3> HAVE /\ valid'[c] /\ blockno'[c] \notin pinned'
             /\ \A q \in Callers : pc'[q] = "write" => cbuf'[q] # c
    <3>1. c # b
      BY Zenon, <1>1, <1>2 DEF k
    <3>2. valid[c] /\ blockno[c] \notin pinned /\ \A q \in Callers : pc[q] = "write" => cbuf[q] # c
      BY Zenon, <1>1, <1>2
    <3>3. data[c] = platter[blockno[c]]
      BY Zenon, <1>0, <3>2 DEF CleanInv
    <3>4. data'[c] = data[c]
      BY Zenon, <1>6, <3>1
    <3> QED BY Zenon, <1>2, <3>3, <3>4
  <2>2. ASSUME NEW q \in Callers,
               \/ pc'[q] \in InRw /\ Waiting(q)' /\ idx'[q] \notin avail'
               \/ pc'[q] = "bunpin"
        PROVE  data'[cbuf'[q]] = platter'[want'[q]]
    <3>1. q # p
      BY <1>1, <1>2, <2>2 DEF InRw
    <3>2. \/ pc[q] \in InRw /\ Waiting(q) /\ idx[q] \notin avail
          \/ pc[q] = "bunpin"
      BY Zenon, <1>2, <2>2 DEF Waiting, locals, rings
    <3>3. data[cbuf[q]] = platter[want[q]]
      BY Zenon, <1>0, <3>2 DEF CleanInv
    <3>4. pc[q] \in HasLock
      BY Zenon, <3>2 DEF HasLock
    <3>5. data'[cbuf[q]] = data[cbuf[q]]
      BY Zenon, <1>6, <3>1, <3>4
    <3> QED BY Zenon, <1>2, <3>3, <3>5
  <2> QED BY Zenon, <2>1, <2>2 DEF CleanInv
<1>15. OnlyTheseFail'
  BY Zenon, <1>2 DEF BInv, OnlyTheseFail
<1> QED BY Zenon, <1>7, <1>9, <1>11, <1>12, <1>13, <1>14, <1>15 DEF BInv

(* A buffer in use is sent to the disk, by bwrite or by install_trans. *)
LEMMA WriteCall ==
  ASSUME BInv, NEW p \in Callers, NEW l \in {"write", "install"}, pc[p] = "use",
         CallRw(p, cbuf[p], TRUE), pc' = [pc EXCEPT ![p] = l],
         l = "install" <=> want[p] \in pinned, data' \in [Bufs -> Val],
         UNCHANGED <<queue, rings, intr, busy, blockno, platter, panic, cacheVars, slock, want, cbuf>>
  PROVE  /\ VInv' /\ BTypes' /\ (\A q \in Callers : CallInv(q)') /\ BufInv' /\ RefsCounted' /\ OnlyTheseFail'
         /\ pc'[p] = l /\ ~Waiting(p)'
         /\ \A q \in Callers : q # p => pc'[q] = pc[q] /\ (Waiting(q)' <=> Waiting(q)) /\ idx'[q] = idx[q]
<1>0. VInv /\ BTypes /\ CallInv(p) /\ BufInv /\ RefsCounted
  BY Zenon DEF BInv
<1>1. UNCHANGED <<valid, refcnt, lru, pinned>>
  BY Zenon DEF cacheVars
<1>2. pc[p] \in HasLock /\ pc[p] \notin InRw /\ pc[p] \in HasLock \ {"read"}
  BY DEF HasLock, InRw
<1>3. cbuf[p] \in Bufs /\ want[p] \in Blocks /\ blockno[cbuf[p]] = want[p] /\ slock[cbuf[p]] = p
  BY Zenon, <1>2, LockedFacts
<1>4. rw[p] = "out" /\ rbuf[p] = NoBuf /\ valid[cbuf[p]]
  BY Zenon, <1>0, <1>2 DEF CallInv
<1>5. VInv'
  BY Zenon, <1>0, <1>3, <1>4, CallRwOk
<1>6. /\ rw'[p] = "alloc" /\ rbuf'[p] = cbuf[p] /\ rwrite'[p]
      /\ \A q \in Callers : q # p => rw'[q] = rw[q] /\ rbuf'[q] = rbuf[q] /\ rwrite'[q] = rwrite[q]
      /\ idx' = idx
  BY Zenon, <1>0 DEF CallRw, VInv, VTypes
<1>7. /\ pc'[p] = l /\ \A q \in Callers : q # p => pc'[q] = pc[q]
      /\ pc' \in [Callers -> PcLabels]
  <2>1. l \in PcLabels
    BY Zenon DEF PcLabels, HasLock, InRw
  <2> QED BY Zenon, <1>0, <2>1 DEF BTypes
<1>8. BTypes'
  BY Zenon, <1>0, <1>1, <1>7 DEF BTypes
<1>9. BufInv' /\ RefsCounted' /\ OnlyTheseFail'
  BY Zenon, <1>0, <1>1, BufSame, RefsSame DEF BInv, OnlyTheseFail
<1>10. CallInv(p)'
  <2>1. /\ pc'[p] \in InRw /\ pc'[p] \notin {"idle", "read", "bunpin", "use"} /\ rw'[p] # "out"
        /\ pc'[p] = "install" => l = "install"
        /\ pc'[p] = "write" => l # "install"
    BY <1>6, <1>7 DEF InRw
  <2>2. pc'[p] \in HasLock \ {"read"}
    BY <1>7 DEF HasLock, InRw
  <2> QED BY Zenon, <1>1, <1>3, <1>4, <1>6, <2>1, <2>2 DEF CallInv
<1>11. \A q \in Callers : CallInv(q)'
  BY Zenon, <1>1, <1>6, <1>7, <1>10, OthersSame
<1>12. ~Waiting(p)' /\ \A q \in Callers : q # p => (Waiting(q)' <=> Waiting(q))
  BY Zenon, <1>6 DEF Waiting
<1> QED BY Zenon, <1>5, <1>6, <1>7, <1>8, <1>9, <1>11, <1>12

LEMMA BwriteOk ==
  ASSUME BInv, NEW p \in Callers, NEW v \in Val, bwrite(p, v)
  PROVE  BInv'
<1>0. BTypes /\ CleanInv
  BY Zenon DEF BInv
<1>1. pc[p] = "use" /\ pc[p] \in HasLock /\ blockno[cbuf[p]] \notin pinned
  <2>1. pc[p] = "use" /\ blockno[cbuf[p]] \notin pinned
    BY Zenon DEF bwrite, Is
  <2> QED BY Zenon, <2>1 DEF HasLock
<1>2. cbuf[p] \in Bufs /\ want[p] \in Blocks /\ blockno[cbuf[p]] = want[p] /\ slock[cbuf[p]] = p
  BY Zenon, <1>1, LockedFacts
<1>3. /\ data' = [data EXCEPT ![cbuf[p]] = v] /\ CallRw(p, cbuf[p], TRUE) /\ pc' = [pc EXCEPT ![p] = "write"]
      /\ UNCHANGED <<queue, rings, intr, busy, blockno, platter, panic, cacheVars, slock, want, cbuf>>
  BY Zenon, <1>2 DEF bwrite, Goto
<1>4. /\ data' \in [Bufs -> Val]
      /\ \A c \in Bufs : c # cbuf[p] => data'[c] = data[c]
      /\ \A q \in Callers : q # p /\ pc[q] \in HasLock => data'[cbuf[q]] = data[cbuf[q]]
  BY Zenon, <1>1, <1>3, ChangeOthers
<1>5. /\ VInv' /\ BTypes' /\ (\A q \in Callers : CallInv(q)') /\ BufInv' /\ RefsCounted' /\ OnlyTheseFail'
      /\ pc'[p] = "write" /\ ~Waiting(p)'
      /\ \A q \in Callers : q # p => pc'[q] = pc[q] /\ (Waiting(q)' <=> Waiting(q)) /\ idx'[q] = idx[q]
  <2>1. "write" \in {"write", "install"} /\ ("write" = "install" <=> want[p] \in pinned)
    BY <1>1, <1>2
  <2> QED BY Zenon, <1>1, <1>3, <1>4, <2>1, WriteCall
<1>6. UNCHANGED <<valid, blockno, pinned, platter, cbuf, want, avail>>
  BY Zenon, <1>3 DEF cacheVars, rings
<1>7. \A c \in Bufs : /\ valid'[c] /\ blockno'[c] \notin pinned'
                      /\ \A q \in Callers : pc'[q] = "write" => cbuf'[q] # c
                      => data'[c] = platter'[blockno'[c]]
  <2> TAKE c \in Bufs
  <2> HAVE /\ valid'[c] /\ blockno'[c] \notin pinned'
           /\ \A q \in Callers : pc'[q] = "write" => cbuf'[q] # c
  <2>1. c # cbuf[p]
    BY Zenon, <1>5, <1>6
  <2>2. valid[c] /\ blockno[c] \notin pinned
    BY Zenon, <1>6
  <2>3. ASSUME NEW q \in Callers, pc[q] = "write"
        PROVE  cbuf[q] # c
    <3>1. q # p
      BY <1>1, <2>3
    <3> QED BY Zenon, <1>5, <1>6, <2>3, <3>1
  <2>4. data[c] = platter[blockno[c]]
    BY Zenon, <1>0, <2>2, <2>3 DEF CleanInv
  <2> QED BY Zenon, <1>4, <1>6, <2>1, <2>4
<1>8. ASSUME NEW q \in Callers,
             \/ pc'[q] \in InRw /\ Waiting(q)' /\ idx'[q] \notin avail'
             \/ pc'[q] = "bunpin"
      PROVE  data'[cbuf'[q]] = platter'[want'[q]]
  <2>1. q # p
    BY <1>5, <1>8
  <2>2. \/ pc[q] \in InRw /\ Waiting(q) /\ idx[q] \notin avail
        \/ pc[q] = "bunpin"
    BY Zenon, <1>5, <1>6, <1>8, <2>1
  <2>3. data[cbuf[q]] = platter[want[q]] /\ pc[q] \in HasLock
    BY Zenon, <1>0, <2>2 DEF CleanInv, HasLock
  <2>4. data'[cbuf[q]] = data[cbuf[q]]
    BY Zenon, <1>4, <2>1, <2>3
  <2> QED BY Zenon, <1>6, <2>3, <2>4
<1> QED BY Zenon, <1>5, <1>7, <1>8 DEF BInv, CleanInv

LEMMA InstallOk ==
  ASSUME BInv, NEW p \in Callers, Install(p)
  PROVE  BInv'
<1>0. BTypes /\ CleanInv /\ data \in [Bufs -> Val]
  BY Zenon DEF BInv, VInv, VTypes
<1>1. pc[p] = "use" /\ pc[p] \in HasLock /\ blockno[cbuf[p]] \in pinned
  <2>1. pc[p] = "use" /\ blockno[cbuf[p]] \in pinned
    BY Zenon DEF Install, Is
  <2> QED BY Zenon, <2>1 DEF HasLock
<1>2. blockno[cbuf[p]] = want[p] /\ slock[cbuf[p]] = p
  BY Zenon, <1>1, LockedFacts
<1>3. /\ CallRw(p, cbuf[p], TRUE) /\ pc' = [pc EXCEPT ![p] = "install"]
      /\ UNCHANGED <<queue, rings, intr, busy, blockno, content, panic, cacheVars, slock, want, cbuf>>
  BY Zenon, <1>2 DEF Install, Goto
<1>4. UNCHANGED <<data, platter, valid, pinned, avail>>
  BY Zenon, <1>3 DEF content, cacheVars, rings
<1>5. /\ VInv' /\ BTypes' /\ (\A q \in Callers : CallInv(q)') /\ BufInv' /\ RefsCounted' /\ OnlyTheseFail'
      /\ pc'[p] = "install" /\ ~Waiting(p)'
      /\ \A q \in Callers : q # p => pc'[q] = pc[q] /\ (Waiting(q)' <=> Waiting(q)) /\ idx'[q] = idx[q]
  <2>1. "install" \in {"write", "install"} /\ ("install" = "install" <=> want[p] \in pinned)
    BY <1>1, <1>2
  <2>2. data' \in [Bufs -> Val]
    BY Zenon, <1>0, <1>4
  <2> QED BY Zenon, <1>1, <1>3, <1>4, <2>1, <2>2, WriteCall
<1>6. \A q \in Callers : pc'[q] = "write" <=> pc[q] = "write"
  BY <1>1, <1>5
<1>7. ASSUME NEW q \in Callers,
             \/ pc'[q] \in InRw /\ Waiting(q)' /\ idx'[q] \notin avail'
             \/ pc'[q] = "bunpin"
      PROVE  \/ pc[q] \in InRw /\ Waiting(q) /\ idx[q] \notin avail
             \/ pc[q] = "bunpin"
  <2>1. q # p
    BY <1>5, <1>7
  <2> QED BY Zenon, <1>4, <1>5, <1>7, <2>1
<1>8. CleanInv'
  BY Zenon, <1>0, <1>3, <1>4, <1>6, <1>7, CleanSame
<1> QED BY Zenon, <1>5, <1>8 DEF BInv

LEMMA BunpinOk ==
  ASSUME BInv, NEW p \in Callers, bunpin(p)
  PROVE  BInv'
<1>0. VInv /\ BTypes /\ CallInv(p) /\ BufInv /\ CleanInv /\ RefsCounted
  BY Zenon DEF BInv
<1> DEFINE b == cbuf[p]
           k == want[p]
<1>1. pc[p] = "bunpin" /\ pc[p] \in HasLock /\ pc[p] \in HasLock \ {"read"}
  <2>1. pc[p] = "bunpin"
    BY Zenon DEF bunpin, Is
  <2> QED BY <2>1 DEF HasLock
<1>2. /\ UNCHANGED <<queue, rings, intr, busy, data, platter, locals>>
      /\ UNCHANGED <<blockno, panic, valid, lru, slock, want, cbuf>>
  BY Zenon DEF bunpin, driverVars, content
<1>3. /\ b \in Bufs /\ k \in Blocks /\ blockno[b] = k /\ slock[b] = p
      /\ \A q \in Callers : q # p /\ pc[q] \in HasLock => cbuf[q] # b /\ want[q] # k
      /\ \A c \in Bufs : c # b => blockno[c] # k
  BY Zenon, <1>1, LockedFacts
<1>4. valid[b] /\ k \in pinned /\ data[b] = platter[k] /\ rw[p] = "out" /\ rbuf[p] = NoBuf
  <2>1. pc[p] \notin InRw
    BY <1>1 DEF InRw
  <2> QED BY Zenon, <1>0, <1>1, <2>1 DEF CallInv, CleanInv
<1>5. /\ refcnt' = [refcnt EXCEPT ![b] = refcnt[b] - 1] /\ pinned' = pinned \ {k}
      /\ pc' = [pc EXCEPT ![p] = "use"]
  <2>1. /\ refcnt' = [refcnt EXCEPT ![b] = refcnt[b] - 1] /\ pinned' = pinned \ {blockno[b]}
        /\ pc' = [pc EXCEPT ![p] = "use"]
    BY Zenon DEF bunpin, Goto
  <2> QED BY Zenon, <2>1, <1>3
<1> HIDE DEF b, k
<1>6. refcnt[b] - 1 \in Nat
  <2>1. refcnt[b] = Cardinality(Holders(b)) + (IF blockno[b] \in pinned THEN 1 ELSE 0)
    BY Zenon, <1>0, <1>3 DEF RefsCounted, Holders
  <2>2. Cardinality(Holders(b)) \in Nat
    BY Zenon, HoldersFinite DEF Holders
  <2> QED BY <2>1, <2>2, <1>3, <1>4
<1>7. /\ refcnt' \in [Bufs -> Nat] /\ refcnt'[b] = refcnt[b] - 1
      /\ \A c \in Bufs : c # b => refcnt'[c] = refcnt[c]
  BY Zenon, <1>0, <1>3, <1>5, <1>6 DEF BTypes
<1>8. /\ pc'[p] = "use" /\ \A q \in Callers : q # p => pc'[q] = pc[q]
      /\ pc' \in [Callers -> PcLabels]
  <2>1. "use" \in PcLabels
    BY DEF PcLabels, HasLock
  <2> QED BY Zenon, <1>0, <1>5, <2>1 DEF BTypes
<1>9. BTypes'
  <2>1. pinned' \in SUBSET Blocks
    BY Zenon, <1>0, <1>5 DEF BTypes
  <2> QED BY Zenon, <1>0, <1>2, <1>7, <1>8, <2>1 DEF BTypes
<1>10. UNCHANGED <<rw, rbuf, rwrite, idx, avail>>
  BY Zenon, <1>2 DEF locals, rings
<1>11. CallInv(p)'
  <2>1. pc'[p] \notin InRw \cup {"idle", "read", "write", "install", "bunpin"}
    BY <1>8 DEF InRw
  <2>2. cbuf'[p] = b /\ want'[p] = k /\ blockno'[b] = k /\ slock'[b] = p /\ valid' = valid
    BY Zenon, <1>2, <1>3 DEF b, k
  <2> QED BY Zenon, <1>3, <1>4, <1>10, <2>1, <2>2 DEF CallInv
<1>12. \A q \in Callers : CallInv(q)'
  <2>1. \A q \in Callers : q # p /\ pc[q] \in HasLock => (want[q] \in pinned' <=> want[q] \in pinned)
    BY Zenon, <1>3, <1>5
  <2> QED BY Zenon, <1>2, <1>8, <1>10, <1>11, <2>1, OthersSame
<1>13. VInv'
  <2>1. data' \in [Bufs -> Val] /\ \A q \in Callers : blockno'[rbuf[q]] = blockno[rbuf[q]]
    BY Zenon, <1>0, <1>2 DEF VInv, VTypes
  <2> QED BY Zenon, <1>0, <1>2, <2>1, DriverSame
<1>14. BufInv'
  <2>1. IsFiniteSet(pinned') /\ Cardinality(pinned') <= MaxPins
    <3>1. IsFiniteSet(pinned) /\ Cardinality(pinned) <= MaxPins
      BY Zenon, <1>0 DEF BufInv
    <3>2. IsFiniteSet(pinned') /\ Cardinality(pinned') = Cardinality(pinned) - 1
      BY Zenon, <1>4, <1>5, <3>1, FS_RemoveElement
    <3>3. Cardinality(pinned) \in Nat /\ MaxPins \in Nat
      BY Zenon, <3>1, FS_CardinalityType, BcacheAssumption
    <3>4. Cardinality(pinned') <= MaxPins
      BY <3>1, <3>2, <3>3
    <3> QED BY Zenon, <3>2, <3>4
  <2>2. \A m \in pinned' : \E c \in Bufs : blockno'[c] = m /\ valid'[c]
    BY Zenon, <1>0, <1>2, <1>5 DEF BufInv
  <2>3. /\ \A c, d \in Bufs : blockno'[c] = blockno'[d] /\ blockno'[c] # NoBlock => c = d
        /\ \A c \in Bufs : valid'[c] => blockno'[c] \in Blocks
        /\ \A c \in Bufs : \E i \in 1 .. NBUF : lru'[i] = c
    BY Zenon, <1>0, <1>2 DEF BufInv
  <2> QED BY Zenon, <2>1, <2>2, <2>3 DEF BufInv
<1>15. RefsCounted'
  <2>1. ASSUME NEW c \in Bufs
        PROVE  refcnt'[c] = Cardinality(Holders(c)') + (IF blockno'[c] \in pinned' THEN 1 ELSE 0)
    <3>1. refcnt[c] = Cardinality(Holders(c)) + (IF blockno[c] \in pinned THEN 1 ELSE 0)
      BY Zenon, <1>0 DEF RefsCounted, Holders
    <3>2. Holders(c)' = Holders(c) /\ blockno'[c] = blockno[c]
      BY Zenon, <1>2 DEF Holders
    <3>3. CASE c = b
      <4>1. blockno[c] = k /\ k \notin pinned' /\ k \in pinned /\ refcnt'[c] = refcnt[c] - 1
        BY Zenon, <1>3, <1>4, <1>5, <1>7, <3>3
      <4>2. Cardinality(Holders(c)) \in Nat
        BY Zenon, HoldersFinite DEF Holders
      <4> QED BY <3>1, <3>2, <4>1, <4>2
    <3>4. CASE c # b
      <4>1. refcnt'[c] = refcnt[c] /\ (blockno[c] \in pinned' <=> blockno[c] \in pinned)
        BY Zenon, <1>3, <1>5, <1>7, <3>4
      <4> QED BY Zenon, <3>1, <3>2, <4>1
    <3> QED BY Zenon, <3>3, <3>4
  <2> QED BY Zenon, <2>1 DEF RefsCounted, Holders
<1>16. CleanInv'
  <2>1. \A c \in Bufs : /\ valid'[c] /\ blockno'[c] \notin pinned'
                        /\ \A q \in Callers : pc'[q] = "write" => cbuf'[q] # c
                        => data'[c] = platter'[blockno'[c]]
    <3> TAKE c \in Bufs
    <3> HAVE /\ valid'[c] /\ blockno'[c] \notin pinned'
             /\ \A q \in Callers : pc'[q] = "write" => cbuf'[q] # c
    <3>1. CASE c = b
      BY Zenon, <1>2, <1>3, <1>4, <3>1
    <3>2. CASE c # b
      <4>1. valid[c] /\ blockno[c] \notin pinned
        BY Zenon, <1>2, <1>3, <1>5, <3>2
      <4>2. ASSUME NEW q \in Callers, pc[q] = "write"
            PROVE  cbuf[q] # c
        <5>1. q # p
          BY <1>1, <4>2
        <5> QED BY Zenon, <1>2, <1>8, <4>2, <5>1
      <4>3. data[c] = platter[blockno[c]]
        BY Zenon, <1>0, <4>1, <4>2 DEF CleanInv
      <4> QED BY Zenon, <1>2, <4>3
    <3> QED BY Zenon, <3>1, <3>2
  <2>2. ASSUME NEW q \in Callers,
               \/ pc'[q] \in InRw /\ Waiting(q)' /\ idx'[q] \notin avail'
               \/ pc'[q] = "bunpin"
        PROVE  data'[cbuf'[q]] = platter'[want'[q]]
    <3>1. q # p
      BY <1>8, <2>2 DEF InRw
    <3>2. \/ pc[q] \in InRw /\ Waiting(q) /\ idx[q] \notin avail
          \/ pc[q] = "bunpin"
      BY Zenon, <1>8, <1>10, <2>2, <3>1 DEF Waiting
    <3>3. data[cbuf[q]] = platter[want[q]]
      BY Zenon, <1>0, <3>2 DEF CleanInv
    <3> QED BY Zenon, <1>2, <3>3
  <2> QED BY Zenon, <2>1, <2>2 DEF CleanInv
<1>17. OnlyTheseFail'
  BY Zenon, <1>2 DEF BInv, OnlyTheseFail
<1> QED BY Zenon, <1>9, <1>12, <1>13, <1>14, <1>15, <1>16, <1>17 DEF BInv

LEMMA ReleaseOk ==
  ASSUME BInv, NEW p \in Callers, releasesleep(p)
  PROVE  BInv'
<1>0. VInv /\ BTypes /\ CallInv(p) /\ BufInv /\ CleanInv /\ RefsCounted
  BY Zenon DEF BInv
<1>1. pc[p] = "use" /\ pc[p] \in HasLock
  <2>1. pc[p] = "use"
    BY Zenon DEF releasesleep, Is
  <2> QED BY Zenon, <2>1 DEF HasLock
<1>2. /\ cbuf[p] \in Bufs /\ want[p] \in Blocks /\ blockno[cbuf[p]] = want[p] /\ slock[cbuf[p]] = p
      /\ \A q \in Callers : q # p /\ pc[q] \in HasLock => cbuf[q] \in Bufs /\ cbuf[q] # cbuf[p]
  BY Zenon, <1>1, LockedFacts
<1>3. /\ slock' = [slock EXCEPT ![cbuf[p]] = NoCaller]
      /\ pc' = [q \in Callers |-> IF q = p THEN "brelse"
                                  ELSE IF pc[q] = "lock asleep" /\ cbuf[q] = cbuf[p] THEN "lock"
                                  ELSE pc[q]]
      /\ UNCHANGED <<driverVars, blockno, panic, cacheVars, want, cbuf>>
  BY Zenon, <1>2 DEF releasesleep
<1>4. /\ UNCHANGED <<queue, rings, intr, busy, data, platter, locals>>
      /\ UNCHANGED <<blockno, panic, valid, refcnt, lru, pinned, want, cbuf>>
  BY Zenon, <1>3 DEF driverVars, content, cacheVars
<1>5. UNCHANGED <<rw, rbuf, rwrite, idx, avail>>
  BY Zenon, <1>4 DEF locals, rings
<1>6. /\ pc'[p] = "brelse"
      /\ \A q \in Callers : q # p => pc'[q] = pc[q] \/ (pc[q] = "lock asleep" /\ pc'[q] = "lock")
      /\ pc' \in [Callers -> PcLabels]
  <2>1. "brelse" \in PcLabels /\ "lock" \in PcLabels
    BY DEF PcLabels
  <2> QED BY Zenon, <1>0, <1>3, <2>1 DEF BTypes
<1>7. /\ slock' \in [Bufs -> Callers \cup {NoCaller}]
      /\ \A c \in Bufs : c # cbuf[p] => slock'[c] = slock[c]
  BY Zenon, <1>0, <1>3 DEF BTypes
<1>8. BTypes' /\ BufInv' /\ RefsCounted' /\ OnlyTheseFail'
  BY Zenon, <1>0, <1>4, <1>6, <1>7, BufSame, RefsSame DEF BTypes, BInv, OnlyTheseFail
<1>9. CallInv(p)'
  <2>1. pc[p] \notin InRw /\ pc'[p] \notin HasLock \cup InRw \cup {"idle", "read", "write", "install", "bunpin"}
    BY Zenon, <1>1, <1>6 DEF InRw, HasLock
  <2> QED BY Zenon, <1>0, <1>2, <1>4, <1>5, <2>1 DEF CallInv
<1>10. \A q \in Callers : CallInv(q)'
  <2>1. \A q \in Callers : q # p /\ pc[q] \in HasLock => slock'[cbuf[q]] = slock[cbuf[q]]
    BY Zenon, <1>2, <1>7
  <2> QED BY Zenon, <1>4, <1>5, <1>6, <1>9, <2>1, OthersSame
<1>11. VInv'
  <2>1. data' \in [Bufs -> Val] /\ \A q \in Callers : blockno'[rbuf[q]] = blockno[rbuf[q]]
    BY Zenon, <1>0, <1>4 DEF VInv, VTypes
  <2> QED BY Zenon, <1>0, <1>4, <2>1, DriverSame
<1>12. CleanInv'
  <2>1. \A q \in Callers : /\ pc'[q] = "write" <=> pc[q] = "write"
                           /\ pc'[q] \in InRw => pc[q] \in InRw
                           /\ pc'[q] = "bunpin" => pc[q] = "bunpin"
    BY Zenon, <1>1, <1>6 DEF InRw
  <2>2. \A q \in Callers : Waiting(q)' <=> Waiting(q)
    BY Zenon, <1>5 DEF Waiting
  <2>3. \A q \in Callers : \/ pc'[q] \in InRw /\ Waiting(q)' /\ idx'[q] \notin avail'
                           \/ pc'[q] = "bunpin"
                           => \/ pc[q] \in InRw /\ Waiting(q) /\ idx[q] \notin avail
                              \/ pc[q] = "bunpin"
    BY <1>5, <2>1, <2>2
  <2> QED BY Zenon, <1>0, <1>4, <2>1, <2>3, CleanSame
<1> QED BY Zenon, <1>8, <1>10, <1>11, <1>12 DEF BInv

(* Moving a buffer to the front keeps every buffer in the list. *)
LEMMA ToFrontKeeps ==
  ASSUME BTypes, BufInv, NEW b \in Bufs
  PROVE  /\ ToFront(b) \in [1 .. NBUF -> Bufs]
         /\ \A c \in Bufs : \E i \in 1 .. NBUF : ToFront(b)[i] = c
<1> DEFINE j == CHOOSE i \in 1 .. NBUF : lru[i] = b
           L == [i \in 1 .. NBUF |-> IF i = 1 THEN b ELSE IF i <= j THEN lru[i - 1] ELSE lru[i]]
<1>0. NBUF \in Nat /\ lru \in [1 .. NBUF -> Bufs]
  BY Zenon, BcacheAssumption DEF BTypes
<1>1. \E i \in 1 .. NBUF : lru[i] = b
  BY Zenon DEF BufInv
<1>2. j \in 1 .. NBUF /\ lru[j] = b
  BY Zenon, <1>1
<1>3. ToFront(b) = L
  BY Zenon DEF ToFront
<1> HIDE DEF j
<1>4. L \in [1 .. NBUF -> Bufs]
  BY <1>0, <1>2
<1>5. ASSUME NEW c \in Bufs
      PROVE  \E i \in 1 .. NBUF : L[i] = c
  <2>1. PICK i \in 1 .. NBUF : lru[i] = c
    BY Zenon DEF BufInv
  <2>2. CASE c = b
    <3>1. 1 \in 1 .. NBUF /\ L[1] = b
      BY <1>0, <1>2
    <3> QED BY Zenon, <2>2, <3>1
  <2>3. CASE c # b /\ i < j
    <3>1. i + 1 \in 1 .. NBUF /\ L[i + 1] = lru[i]
      BY <1>0, <1>2, <2>3
    <3> QED BY <2>1, <3>1
  <2>4. CASE c # b /\ ~(i < j)
    <3>1. L[i] = lru[i]
      BY <1>0, <1>2, <2>1, <2>4
    <3> QED BY <2>1, <3>1
  <2> QED BY Zenon, <2>2, <2>3, <2>4
<1> QED BY Zenon, <1>3, <1>4, <1>5

LEMMA BrelseOk ==
  ASSUME BInv, NEW p \in Callers, brelse(p)
  PROVE  BInv'
<1>0. VInv /\ BTypes /\ CallInv(p) /\ BufInv /\ CleanInv /\ RefsCounted
  BY Zenon DEF BInv
<1>1. pc[p] = "brelse" /\ pc[p] \notin InRw /\ pc[p] # "idle"
  <2>1. pc[p] = "brelse"
    BY Zenon DEF brelse, Is
  <2> QED BY <2>1 DEF InRw
<1>2. /\ UNCHANGED <<queue, rings, intr, busy, data, platter, locals>>
      /\ UNCHANGED <<blockno, panic, valid, slock, pinned>>
  BY Zenon DEF brelse, driverVars, content
<1>3. cbuf[p] \in Bufs /\ rw[p] = "out" /\ rbuf[p] = NoBuf
  BY Zenon, <1>0, <1>1 DEF CallInv
<1>b. PICK b \in Bufs : b = cbuf[p]
  BY Zenon, <1>3
<1>4. /\ refcnt' = [refcnt EXCEPT ![b] = refcnt[b] - 1]
      /\ lru' = ToFront(b) \/ lru' = lru
      /\ pc' = [pc EXCEPT ![p] = "idle"]
      /\ want' = [want EXCEPT ![p] = NoBlock]
      /\ cbuf' = [cbuf EXCEPT ![p] = NoBuf]
  BY Zenon, <1>b DEF brelse, Goto
<1>5. /\ lru' \in [1 .. NBUF -> Bufs]
      /\ \A c \in Bufs : \E i \in 1 .. NBUF : lru'[i] = c
  <2>1. CASE lru' = lru
    BY Zenon, <1>0, <2>1 DEF BTypes, BufInv
  <2>2. CASE lru' = ToFront(b)
    BY Zenon, <1>0, <1>3, <2>2, ToFrontKeeps
  <2> QED BY Zenon, <1>4, <2>1, <2>2
<1>6. /\ pc'[p] = "idle" /\ want'[p] = NoBlock /\ cbuf'[p] = NoBuf
      /\ \A q \in Callers : q # p => pc'[q] = pc[q] /\ want'[q] = want[q] /\ cbuf'[q] = cbuf[q]
      /\ pc' \in [Callers -> PcLabels] /\ want' \in [Callers -> Blocks \cup {NoBlock}]
      /\ cbuf' \in [Callers -> Bufs \cup {NoBuf}]
  <2>1. "idle" \in PcLabels
    BY DEF PcLabels
  <2> QED BY Zenon, <1>0, <1>4, <2>1 DEF BTypes
<1>7. p \in Holders(b) /\ Holders(b) \in SUBSET Callers
  BY Zenon, <1>b DEF Holders
<1>8. /\ Holders(b)' = Holders(b) \ {p}
      /\ \A c \in Bufs : c # b => Holders(c)' = Holders(c)
  <2>1. NoBuf \notin Bufs
    BY Zenon, LabelFacts
  <2>2. Holders(b)' = Holders(b) \ {p}
    BY Zenon, <1>3, <1>6, <2>1 DEF Holders
  <2>3. ASSUME NEW c \in Bufs, c # b
        PROVE  Holders(c)' = Holders(c)
    <3>1. \A q \in Callers : cbuf'[q] = c <=> cbuf[q] = c
      BY Zenon, <1>6, <1>b, <2>1, <2>3
    <3> QED BY Zenon, <3>1 DEF Holders
  <2> QED BY Zenon, <2>2, <2>3
<1>9. Cardinality(Holders(b)') = Cardinality(Holders(b)) - 1 /\ Cardinality(Holders(b)') \in Nat
  <2>1. Holders(b)' \in SUBSET Callers
    BY Zenon, <1>7, <1>8
  <2>2. Cardinality(Holders(b)') \in Nat
    BY Zenon, <2>1, HoldersFinite
  <2>3. Cardinality(Holders(b) \ {p}) = Cardinality(Holders(b)) - 1
    BY Zenon, <1>7, HoldersRemove
  <2> QED BY Zenon, <1>8, <2>2, <2>3
<1>10. Cardinality(Holders(b)) \in Nat
  BY Zenon, <1>7, HoldersFinite
<1>11. /\ refcnt[b] - 1 = Cardinality(Holders(b)') + (IF blockno[b] \in pinned THEN 1 ELSE 0)
       /\ refcnt[b] - 1 \in Nat
  <2>1. refcnt[b] = Cardinality(Holders(b)) + (IF blockno[b] \in pinned THEN 1 ELSE 0)
    BY Zenon, <1>0, <1>3 DEF RefsCounted, Holders
  <2> QED BY <2>1, <1>9, <1>10
<1>12. /\ refcnt' \in [Bufs -> Nat] /\ refcnt'[b] = refcnt[b] - 1
       /\ \A c \in Bufs : c # b => refcnt'[c] = refcnt[c]
  BY Zenon, <1>0, <1>3, <1>4, <1>11 DEF BTypes
<1>13. BTypes'
  BY Zenon, <1>0, <1>2, <1>5, <1>6, <1>12 DEF BTypes
<1>14. RefsCounted'
  <2>1. ASSUME NEW c \in Bufs
        PROVE  refcnt'[c] = Cardinality(Holders(c)') + (IF blockno'[c] \in pinned' THEN 1 ELSE 0)
    <3>1. CASE c = b
      BY Zenon, <1>2, <1>11, <1>12, <3>1
    <3>2. CASE c # b
      <4>1. refcnt[c] = Cardinality(Holders(c)) + (IF blockno[c] \in pinned THEN 1 ELSE 0)
        BY Zenon, <1>0 DEF RefsCounted, Holders
      <4> QED BY Zenon, <1>2, <1>8, <1>12, <3>2, <4>1
    <3> QED BY Zenon, <3>1, <3>2
  <2> QED BY Zenon, <2>1 DEF RefsCounted, Holders
<1>15. UNCHANGED <<rw, rbuf, rwrite, idx, avail>>
  BY Zenon, <1>2 DEF locals, rings
<1>16. \A q \in Callers : CallInv(q)'
  <2> TAKE q \in Callers
  <2>1. CASE q = p
    <3>1. pc'[p] \notin HasLock \cup InRw \cup {"read", "write", "install", "bunpin"}
      BY <1>6 DEF InRw, HasLock
    <3>2. rw'[p] = "out" /\ rbuf'[p] = NoBuf
      BY Zenon, <1>3, <1>15
    <3> QED BY Zenon, <1>6, <2>1, <3>1, <3>2 DEF CallInv
  <2>2. CASE q # p
    <3>1. CallInv(q)
      BY Zenon DEF BInv
    <3> QED BY Zenon, <1>2, <1>6, <1>15, <2>2, <3>1, CallSame
  <2> QED BY Zenon, <2>1, <2>2
<1>17. VInv'
  <2>1. data' \in [Bufs -> Val] /\ \A q \in Callers : blockno'[rbuf[q]] = blockno[rbuf[q]]
    BY Zenon, <1>0, <1>2 DEF VInv, VTypes
  <2> QED BY Zenon, <1>0, <1>2, <2>1, DriverSame
<1>18. BufInv' /\ OnlyTheseFail'
  BY Zenon, <1>0, <1>2, <1>5 DEF BufInv, BInv, OnlyTheseFail
<1>19. CleanInv'
  <2>1. pc'[p] # "write" /\ pc'[p] # "bunpin" /\ pc'[p] \notin InRw /\ pc[p] # "write"
    BY <1>1, <1>6 DEF InRw
  <2>2. ASSUME NEW c \in Bufs, valid'[c], blockno'[c] \notin pinned',
               \A q \in Callers : pc'[q] = "write" => cbuf'[q] # c
        PROVE  data'[c] = platter'[blockno'[c]]
    <3>1. \A q \in Callers : pc[q] = "write" => cbuf[q] # c
      BY Zenon, <1>6, <2>1, <2>2
    <3>2. data[c] = platter[blockno[c]]
      BY Zenon, <1>0, <1>2, <2>2, <3>1 DEF CleanInv
    <3> QED BY Zenon, <1>2, <3>2
  <2>3. ASSUME NEW q \in Callers,
               \/ pc'[q] \in InRw /\ Waiting(q)' /\ idx'[q] \notin avail'
               \/ pc'[q] = "bunpin"
        PROVE  data'[cbuf'[q]] = platter'[want'[q]]
    <3>1. q # p
      BY Zenon, <2>1, <2>3
    <3>2. \/ pc[q] \in InRw /\ Waiting(q) /\ idx[q] \notin avail
          \/ pc[q] = "bunpin"
      BY Zenon, <1>6, <1>15, <2>3, <3>1 DEF Waiting
    <3>3. data[cbuf[q]] = platter[want[q]]
      BY Zenon, <1>0, <3>2 DEF CleanInv
    <3> QED BY Zenon, <1>2, <1>6, <3>1, <3>3
  <2> QED BY Zenon, <2>2, <2>3 DEF CleanInv
<1> QED BY Zenon, <1>13, <1>14, <1>16, <1>17, <1>18, <1>19 DEF BInv

-----------------------------------------------------------------------------
LEMMA BInit ==
  ASSUME Init
  PROVE  BInv
<1>1. VInv /\ rw = [p \in Callers |-> "out"] /\ rbuf = [p \in Callers |-> NoBuf] /\ panic = "none"
  BY Zenon, VirtioInitOk DEF Init, VirtioInit
<1>2. /\ blockno = [b \in Bufs |-> NoBlock] /\ valid = [b \in Bufs |-> FALSE]
      /\ refcnt = [b \in Bufs |-> 0] /\ lru = [i \in 1 .. NBUF |-> NBUF + 1 - i]
      /\ slock = [b \in Bufs |-> NoCaller] /\ pinned = {}
      /\ pc = [p \in Callers |-> "idle"] /\ want = [p \in Callers |-> NoBlock]
      /\ cbuf = [p \in Callers |-> NoBuf]
  BY Zenon DEF Init
<1>3. NBUF \in Nat /\ Bufs = 1 .. NBUF /\ MaxPins \in Nat
  BY Zenon, BcacheAssumption
<1>4. BTypes
  <2>1. lru \in [1 .. NBUF -> Bufs]
    BY <1>2, <1>3
  <2>2. "idle" \in PcLabels
    BY DEF PcLabels
  <2>3. refcnt \in [Bufs -> Nat]
    BY <1>2
  <2> QED BY Zenon, <1>2, <2>1, <2>2, <2>3 DEF BTypes
<1>5. \A p \in Callers : CallInv(p)
  <2> TAKE p \in Callers
  <2>1. pc[p] = "idle" /\ cbuf[p] = NoBuf /\ want[p] = NoBlock /\ rw[p] = "out" /\ rbuf[p] = NoBuf
    BY Zenon, <1>1, <1>2
  <2>2. pc[p] \notin HasLock \cup InRw \cup {"read", "write", "install", "bunpin"}
    BY <2>1 DEF InRw, HasLock
  <2> QED BY Zenon, <2>1, <2>2 DEF CallInv
<1>6. BufInv
  <2>1. ASSUME NEW b \in Bufs
        PROVE  \E i \in 1 .. NBUF : lru[i] = b
    <3>1. NBUF + 1 - b \in 1 .. NBUF /\ lru[NBUF + 1 - b] = b
      BY <1>2, <1>3
    <3> QED BY <3>1
  <2>2. IsFiniteSet(pinned) /\ Cardinality(pinned) = 0
    BY Zenon, <1>2, FS_EmptySet
  <2>3. Cardinality(pinned) <= MaxPins
    BY <1>3, <2>2
  <2>4. /\ \A b, c \in Bufs : blockno[b] = blockno[c] /\ blockno[b] # NoBlock => b = c
        /\ \A k \in pinned : \E b \in Bufs : blockno[b] = k /\ valid[b]
        /\ \A b \in Bufs : valid[b] => blockno[b] \in Blocks
    BY Zenon, <1>2
  <2> QED BY Zenon, <2>1, <2>2, <2>3, <2>4 DEF BufInv
<1>7. CleanInv
  <2>1. \A p \in Callers : pc[p] \notin InRw /\ pc[p] # "bunpin"
    BY Zenon, <1>2 DEF InRw
  <2> QED BY Zenon, <1>2, <2>1 DEF CleanInv
<1>8. RefsCounted
  <2> SUFFICES ASSUME NEW b \in Bufs
               PROVE  refcnt[b] = Cardinality({p \in Callers : cbuf[p] = b})
                                    + (IF blockno[b] \in pinned THEN 1 ELSE 0)
    BY Zenon DEF RefsCounted
  <2>1. {p \in Callers : cbuf[p] = b} = {}
    BY Zenon, <1>2, LabelFacts
  <2>2. Cardinality({p \in Callers : cbuf[p] = b}) = 0
    BY Zenon, <2>1, FS_EmptySet
  <2>3. refcnt[b] = 0 /\ blockno[b] \notin pinned
    BY Zenon, <1>2
  <2> QED BY <2>2, <2>3
<1> QED BY Zenon, <1>1, <1>4, <1>5, <1>6, <1>7, <1>8 DEF BInv, OnlyTheseFail

LEMMA BStutter ==
  ASSUME BInv, UNCHANGED vars
  PROVE  BInv'
<1>1. /\ UNCHANGED <<queue, rings, intr, busy, blockno, data, platter, locals, panic>>
      /\ UNCHANGED <<valid, refcnt, lru, pinned, slock, pc, want, cbuf>>
  BY Zenon DEF vars, virtioVars, content, cacheVars, callVars
<1>2. UNCHANGED <<rw, rbuf, rwrite, idx, avail>>
  BY Zenon, <1>1 DEF locals, rings
<1>3. VInv /\ CleanInv /\ BTypes
  BY Zenon DEF BInv
<1>4. VInv'
  <2>1. data' \in [Bufs -> Val]
    BY Zenon, <1>1, <1>3 DEF VInv, VTypes
  <2> QED BY Zenon, <1>1, <1>3, <2>1, DriverSame
<1>5. CleanInv'
  BY Zenon, <1>1, <1>2, <1>3, CleanSame DEF Waiting
<1> QED BY Zenon, <1>1, <1>2, <1>4, <1>5, DriverQuiet DEF BInv

LEMMA BNext ==
  ASSUME BInv, [Next]_vars
  PROVE  BInv'
<1>1. CASE UNCHANGED vars
  BY Zenon, <1>1, BStutter
<1>2. CASE Next
  <2>1. ASSUME NEW p \in Callers, NEW k \in Blocks, bget(p, k)
        PROVE  BInv'
    BY Zenon, <2>1, BgetTakesOk, BgetPanicsOk
  <2>2. ASSUME NEW p \in Callers, NEW v \in Val, log_write(p, v) \/ bwrite(p, v)
        PROVE  BInv'
    BY Zenon, <2>2, LogWriteOk, BwriteOk
  <2>3. ASSUME NEW p \in Callers, acquiresleep(p) \/ RwReturn(p) \/ KillLock(p)
        PROVE  BInv'
    BY Zenon, <2>3, AcquireOk, RwReturnOk, KillLockOk
  <2>4. ASSUME NEW p \in Callers, Install(p) \/ bunpin(p)
        PROVE  BInv'
    BY Zenon, <2>4, InstallOk, BunpinOk
  <2>5. ASSUME NEW p \in Callers, releasesleep(p) \/ brelse(p)
        PROVE  BInv'
    BY Zenon, <2>5, ReleaseOk, BrelseOk
  <2>6. CASE Driver
    BY Zenon, <2>6, DriverOk
  <2> QED BY Zenon, <1>2, <2>1, <2>2, <2>3, <2>4, <2>5, <2>6 DEF Next
<1> QED BY Zenon, <1>1, <1>2

(* The inductive invariant of the cache and its driver. *)
THEOREM BcacheInvariant == Spec => []BInv
<1>1. Init => BInv
  BY BInit
<1>2. BInv /\ [Next]_vars => BInv'
  BY BNext
<1> QED BY <1>1, <1>2, PTL DEF Spec

(* A request has its descriptors to itself until virtio_disk_rw frees      *)
(* them.                                                                   *)
THEOREM BcacheDescsOwned == Spec => []DescsOwned
<1>1. BInv => DescsOwned
  BY Zenon, DescsOwnedHolds DEF BInv
<1> QED BY <1>1, BcacheInvariant, PTL

(* No buffer changes hands while the device may touch it: bread and bwrite *)
(* stay in virtio_disk_rw until the transfer is done.                      *)
THEOREM BcacheBufferHeld == Spec => []BufferHeld
<1>1. BInv => BufferHeld
  BY Zenon, BufferHeldHolds DEF BInv
<1> QED BY <1>1, BcacheInvariant, PTL

(* Nobody sleeps in virtio_disk_rw for what has come already. *)
THEOREM BcacheNoLostWakeup == Spec => []NoLostWakeup
<1>1. BInv => NoLostWakeup
  BY Zenon, NoLostWakeupHolds DEF BInv
<1> QED BY <1>1, BcacheInvariant, PTL

(* b->refcnt counts the callers between bget and brelse and the log's pin. *)
THEOREM BcacheRefsCounted == Spec => []RefsCounted
<1>1. BInv => RefsCounted
  BY Zenon DEF BInv
<1> QED BY <1>1, BcacheInvariant, PTL

(* No step but one of bget finds that there are no buffers. *)
LEMMA OthersDoNotRunOut ==
  ASSUME Next, ~\E p \in Callers, k \in Blocks : bget(p, k)
  PROVE  panic' # "bget: no buffers"
<1>1. ASSUME NEW p \in Callers, acquiresleep(p) \/ bunpin(p) \/ brelse(p) \/ KillLock(p)
      PROVE  panic' = "none"
  BY Zenon, <1>1 DEF acquiresleep, bunpin, brelse, KillLock, Is
<1>2. ASSUME NEW p \in Callers, NEW v \in Val, log_write(p, v)
      PROVE  panic' = "none"
  BY Zenon, <1>2 DEF log_write, Is
<1>3. ASSUME NEW p \in Callers, NEW v \in Val, bwrite(p, v)
      PROVE  panic' \in {"none", "bwrite"}
  BY Zenon, <1>3 DEF bwrite, Panic, Is
<1>4. ASSUME NEW p \in Callers, Install(p) \/ releasesleep(p)
      PROVE  panic' \in {"none", "bwrite", "brelse"}
  BY Zenon, <1>4 DEF Install, releasesleep, Panic, Is
<1>5. ASSUME NEW p \in Callers, RwReturn(p)
      PROVE  panic' \in {"none", "free_desc 2"}
  BY Zenon, <1>5 DEF RwReturn, Finish, At
<1>6. ASSUME Driver
      PROVE  panic' \in {"none", "virtio_disk_intr status"}
  <2>1. ASSUME NEW p \in Callers, Submit(p) \/ NoDescs(p) \/ KillWakes(p)
        PROVE  panic' = "none"
    BY Zenon, <2>1 DEF Submit, NoDescs, KillWakes, At
  <2>2. ASSUME NEW i \in Descs, Transfer(i)
        PROVE  panic' = "none"
    BY Zenon, <2>2 DEF Transfer
  <2>3. ASSUME IntrStep
        PROVE  panic' \in {"none", "virtio_disk_intr status"}
    BY Zenon, <2>3 DEF IntrStep, IntrEntry, IntrStatus, IntrAck, IntrReturn
  <2> QED BY Zenon, <1>6, <2>1, <2>2, <2>3 DEF Driver
<1> QED BY Zenon, <1>1, <1>2, <1>3, <1>4, <1>5, <1>6 DEF Next

LEMMA AssertionsNext ==
  ASSUME BInv, BInv', AssertionsHold, [Next]_vars
  PROVE  AssertionsHold'
<1>1. panic' \in {"none", "bget: no buffers", "virtio_disk_intr status"}
  BY Zenon DEF BInv, OnlyTheseFail, MayFail
<1>2. ASSUME NEW p \in Callers, NEW k \in Blocks, bget(p, k), panic' = "bget: no buffers"
      PROVE  UNCHANGED <<cbuf, pinned>> /\ NBUF <= Cardinality(Having) + Cardinality(pinned)
  <2>1. panic = "none"
    BY Zenon, <1>2 DEF bget, Is
  <2>2. ~(Cached(k) # {} \/ Unused # {})
    BY Zenon, <1>2, <2>1 DEF bget
  <2> QED BY Zenon, <1>2, <2>2, BgetPanics, AllTaken DEF cacheVars, callVars
<1>3. ASSUME UNCHANGED vars
      PROVE  UNCHANGED <<panic, cbuf, pinned>>
  BY Zenon, <1>3 DEF vars, virtioVars, cacheVars, callVars
<1>4. panic = "bget: no buffers" => NBUF <= Cardinality(Having) + Cardinality(pinned)
  BY Zenon DEF AssertionsHold, Having
<1>5. ASSUME panic' = "bget: no buffers"
      PROVE  UNCHANGED <<cbuf, pinned>> /\ NBUF <= Cardinality(Having) + Cardinality(pinned)
  BY Zenon, <1>2, <1>3, <1>4, <1>5, OthersDoNotRunOut
<1>6. ASSUME panic' = "bget: no buffers"
      PROVE  NBUF <= Cardinality({p \in Callers : cbuf'[p] # NoBuf}) + Cardinality(pinned')
  BY Zenon, <1>5, <1>6 DEF Having
<1> QED BY Zenon, <1>1, <1>6 DEF AssertionsHold

(* The assertions of bio.c and virtio_disk.c hold, but for a failure of    *)
(* the device and for that of bget, which fails only when the callers and  *)
(* the log have all NBUF buffers.                                          *)
THEOREM BcacheAssertionsHold == Spec => []AssertionsHold
<1>1. Init => AssertionsHold
  <2>1. ASSUME Init
        PROVE  panic = "none"
    BY Zenon, <2>1 DEF Init, VirtioInit
  <2> QED BY Zenon, <2>1 DEF AssertionsHold
<1>2. BInv /\ BInv' /\ AssertionsHold /\ [Next]_vars => AssertionsHold'
  BY AssertionsNext
<1> QED BY <1>1, <1>2, BcacheInvariant, PTL DEF Spec

-----------------------------------------------------------------------------
(* The refinement.  What a block holds is in its valid buffer, or on the   *)
(* disk when it has none; its owner is the caller that has its lock and    *)
(* its contents.                                                           *)
HasBlock == {"use", "write", "install", "bunpin"}

LEMMA ValueCached ==
  ASSUME BufInv, NEW b \in Bufs, NEW k \in Blocks, blockno[b] = k, valid[b]
  PROVE  Value[k] = data[b]
<1>1. \A c \in Valid(k) : c = b
  BY Zenon, OneBuffer DEF Valid, Cached
<1>2. b \in Valid(k)
  BY Zenon DEF Valid, Cached
<1>3. (CHOOSE c \in Valid(k) : TRUE) = b
  BY Zenon, <1>1, <1>2
<1> QED BY Zenon, <1>2, <1>3 DEF Value

LEMMA ValueCachedNext ==
  ASSUME BufInv', NEW b \in Bufs, NEW k \in Blocks, blockno'[b] = k, valid'[b]
  PROVE  Value'[k] = data'[b]
<1>1. \A c \in Valid(k)' : c = b
  <2>1. \A c \in Valid(k)' : c \in Bufs /\ blockno'[c] = k
    BY Zenon DEF Valid, Cached
  <2> QED BY Zenon, <2>1, LabelFacts DEF BufInv
<1>2. b \in Valid(k)'
  BY Zenon DEF Valid, Cached
<1>3. (CHOOSE c \in Valid(k)' : TRUE) = b
  BY Zenon, <1>1, <1>2
<1> QED BY Zenon, <1>2, <1>3 DEF Value

LEMMA ValueOnDisk ==
  ASSUME NEW k \in Blocks, \A b \in Bufs : ~(blockno[b] = k /\ valid[b])
  PROVE  Value[k] = platter[k]
<1>1. Valid(k) = {}
  BY Zenon DEF Valid, Cached
<1> QED BY Zenon, <1>1 DEF Value

LEMMA ValueOnDiskNext ==
  ASSUME NEW k \in Blocks, \A b \in Bufs : ~(blockno'[b] = k /\ valid'[b])
  PROVE  Value'[k] = platter'[k]
<1>1. Valid(k)' = {}
  BY Zenon DEF Valid, Cached
<1> QED BY Zenon, <1>1 DEF Value

LEMMA ValueFunctions ==
  ASSUME \A k \in Blocks : Value'[k] = Value[k]
  PROVE  Value' = Value
BY Zenon DEF Value

LEMMA ValueSame ==
  ASSUME UNCHANGED <<blockno, valid, data, platter>>
  PROVE  Value' = Value
<1>1. \A k \in Blocks : Valid(k)' = Valid(k)
  BY Zenon DEF Valid, Cached
<1>2. ASSUME NEW k \in Blocks
      PROVE  Value'[k] = Value[k]
  <2> DEFINE T == Valid(k)
  <2>1. /\ Value[k] = IF T = {} THEN platter[k] ELSE data[CHOOSE b \in T : TRUE]
        /\ Value'[k] = IF T' = {} THEN platter'[k] ELSE data'[CHOOSE b \in T' : TRUE]
    BY Zenon DEF Value
  <2>2. T' = T /\ platter' = platter /\ data' = data
    BY Zenon, <1>1
  <2> HIDE DEF T
  <2> QED BY <2>1, <2>2
<1> QED BY Zenon, <1>2, ValueFunctions

(* One caller at a time has a block. *)
LEMMA OwnerIs ==
  ASSUME BInv, NEW p \in Callers, pc[p] \in HasBlock
  PROVE  Owner[want[p]] = p /\ want[p] \in Blocks /\ pc[p] \in HasLock
<1>1. HasBlock \subseteq HasLock
  BY DEF HasBlock, HasLock, InRw
<1>2. /\ want[p] \in Blocks
      /\ \A q \in Callers : q # p /\ pc[q] \in HasLock => want[q] # want[p]
  BY Zenon, <1>1, LockedFacts
<1> DEFINE T == {q \in Callers : want[q] = want[p] /\ pc[q] \in HasBlock}
<1>3. \A q \in T : q = p
  BY Zenon, <1>1, <1>2
<1>4. p \in T
  BY Zenon
<1>5. (CHOOSE q \in T : TRUE) = p
  BY Zenon, <1>3, <1>4
<1>6. Owner[want[p]] = IF T = {} THEN NoCaller ELSE CHOOSE q \in T : TRUE
  BY Zenon, <1>2 DEF Owner, HasBlock
<1> QED BY Zenon, <1>1, <1>2, <1>4, <1>5, <1>6

LEMMA OwnerNone ==
  ASSUME NEW k \in Blocks, \A q \in Callers : ~(want[q] = k /\ pc[q] \in HasBlock)
  PROVE  Owner[k] = NoCaller
<1>1. {q \in Callers : want[q] = k /\ pc[q] \in HasBlock} = {}
  BY Zenon
<1> QED BY Zenon, <1>1 DEF Owner, HasBlock

LEMMA OwnerNoneNext ==
  ASSUME NEW k \in Blocks, \A q \in Callers : ~(want'[q] = k /\ pc'[q] \in HasBlock)
  PROVE  Owner'[k] = NoCaller
<1>1. {q \in Callers : want'[q] = k /\ pc'[q] \in HasBlock} = {}
  BY Zenon
<1> QED BY Zenon, <1>1 DEF Owner, HasBlock

LEMMA OwnerIsNext ==
  ASSUME NEW p \in Callers, NEW k \in Blocks, pc'[p] \in HasBlock, want'[p] = k,
         \A q \in Callers : q # p => ~(want'[q] = k /\ pc'[q] \in HasBlock)
  PROVE  Owner'[k] = p
<1> DEFINE T == {q \in Callers : want'[q] = k /\ pc'[q] \in HasBlock}
<1>1. p \in T /\ \A q \in T : q = p
  BY Zenon
<1>2. (CHOOSE q \in T : TRUE) = p
  BY Zenon, <1>1
<1>3. Owner'[k] = IF T = {} THEN NoCaller ELSE CHOOSE q \in T : TRUE
  BY Zenon DEF Owner, HasBlock
<1> QED BY Zenon, <1>1, <1>2, <1>3

LEMMA OwnerSame ==
  ASSUME NEW k \in Blocks,
         \A q \in Callers : want'[q] = k /\ pc'[q] \in HasBlock <=> want[q] = k /\ pc[q] \in HasBlock
  PROVE  Owner'[k] = Owner[k]
<1> DEFINE T == {q \in Callers : want[q] = k /\ pc[q] \in HasBlock}
<1>1. T' = T
  BY Zenon
<1>2. /\ Owner[k] = IF T = {} THEN NoCaller ELSE CHOOSE q \in T : TRUE
      /\ Owner'[k] = IF T' = {} THEN NoCaller ELSE CHOOSE q \in T' : TRUE
  BY Zenon DEF Owner, HasBlock
<1> HIDE DEF T
<1> QED BY <1>1, <1>2

LEMMA OwnerFunctions ==
  ASSUME \A k \in Blocks : Owner'[k] = Owner[k]
  PROVE  Owner' = Owner
BY Zenon DEF Owner

LEMMA OwnersSame ==
  ASSUME UNCHANGED want, \A q \in Callers : pc'[q] \in HasBlock <=> pc[q] \in HasBlock
  PROVE  Owner' = Owner
<1>1. \A k \in Blocks : Owner'[k] = Owner[k]
  BY Zenon, OwnerSame
<1> QED BY Zenon, <1>1, OwnerFunctions

LEMMA OwnerExcept ==
  ASSUME NEW k \in Blocks, NEW x, Owner'[k] = x, \A m \in Blocks : m # k => Owner'[m] = Owner[m]
  PROVE  Owner' = [Owner EXCEPT ![k] = x]
<1>1. Owner = [m \in Blocks |-> Owner[m]]
  BY DEF Owner
<1>2. Owner' = [m \in Blocks |-> Owner'[m]]
  BY DEF Owner
<1> QED BY <1>1, <1>2

LEMMA ValueExcept ==
  ASSUME NEW k \in Blocks, NEW x, Value'[k] = x, \A m \in Blocks : m # k => Value'[m] = Value[m]
  PROVE  Value' = [Value EXCEPT ![k] = x]
<1>1. Value = [m \in Blocks |-> Value[m]]
  BY DEF Value
<1>2. Value' = [m \in Blocks |-> Value'[m]]
  BY DEF Value
<1> QED BY <1>1, <1>2

(* bread returns a block to p. *)
LEMMA OwnerTaken ==
  ASSUME NEW p \in Callers, want[p] \in Blocks, pc[p] \notin HasBlock, pc'[p] \in HasBlock,
         UNCHANGED want, \A q \in Callers : q # p => (pc'[q] \in HasBlock <=> pc[q] \in HasBlock),
         \A q \in Callers : q # p /\ pc[q] \in HasBlock => want[q] # want[p]
  PROVE  Owner[want[p]] = NoCaller /\ Owner' = [Owner EXCEPT ![want[p]] = p]
<1>1. PICK k \in Blocks : k = want[p]
  BY Zenon
<1>2. Owner[k] = NoCaller
  <2>1. \A q \in Callers : ~(want[q] = k /\ pc[q] \in HasBlock)
    BY Zenon, <1>1
  <2> QED BY Zenon, <2>1, OwnerNone
<1>3. Owner'[k] = p
  <2>1. \A q \in Callers : q # p => ~(want'[q] = k /\ pc'[q] \in HasBlock)
    BY Zenon, <1>1
  <2> QED BY Zenon, <1>1, <2>1, OwnerIsNext
<1>4. ASSUME NEW m \in Blocks, m # k
      PROVE  Owner'[m] = Owner[m]
  <2>1. \A q \in Callers : want'[q] = m /\ pc'[q] \in HasBlock <=> want[q] = m /\ pc[q] \in HasBlock
    BY Zenon, <1>1, <1>4
  <2> QED BY Zenon, <2>1, OwnerSame
<1>5. Owner' = [Owner EXCEPT ![k] = p]
  BY Zenon, <1>3, <1>4, OwnerExcept
<1> QED BY Zenon, <1>1, <1>2, <1>5

(* p releases the block it has. *)
LEMMA OwnerGiven ==
  ASSUME BInv, NEW p \in Callers, pc[p] \in HasBlock, pc'[p] \notin HasBlock,
         UNCHANGED want, \A q \in Callers : q # p => (pc'[q] \in HasBlock <=> pc[q] \in HasBlock)
  PROVE  /\ want[p] \in Blocks /\ Owner[want[p]] = p
         /\ Owner' = [Owner EXCEPT ![want[p]] = NoCaller]
<1>0. want[p] \in Blocks /\ Owner[want[p]] = p /\ pc[p] \in HasLock
  BY Zenon, OwnerIs
<1>1. PICK k \in Blocks : k = want[p]
  BY Zenon, <1>0
<1>2. HasBlock \subseteq HasLock
  BY DEF HasBlock, HasLock, InRw
<1>3. Owner'[k] = NoCaller
  <2>1. \A q \in Callers : q # p /\ pc[q] \in HasLock => want[q] # want[p]
    BY Zenon, <1>0, LockedFacts
  <2>2. \A q \in Callers : ~(want'[q] = k /\ pc'[q] \in HasBlock)
    BY Zenon, <1>1, <1>2, <2>1
  <2> QED BY Zenon, <2>2, OwnerNoneNext
<1>4. ASSUME NEW m \in Blocks, m # k
      PROVE  Owner'[m] = Owner[m]
  <2>1. \A q \in Callers : want'[q] = m /\ pc'[q] \in HasBlock <=> want[q] = m /\ pc[q] \in HasBlock
    BY Zenon, <1>1, <1>4
  <2> QED BY Zenon, <2>1, OwnerSame
<1>5. Owner' = [Owner EXCEPT ![k] = NoCaller]
  BY Zenon, <1>3, <1>4, OwnerExcept
<1> QED BY Zenon, <1>0, <1>1, <1>5

(* The buffer of a block changes and nothing else. *)
LEMMA ValueChanged ==
  ASSUME BInv, BufInv', NEW p \in Callers, pc[p] \in HasBlock, NEW v \in Val,
         data' = [data EXCEPT ![cbuf[p]] = v], UNCHANGED <<blockno, valid, platter>>
  PROVE  Value' = [Value EXCEPT ![want[p]] = v]
<1>0. pc[p] \in HasLock /\ pc[p] \in HasLock \ {"read"}
  BY DEF HasBlock, HasLock, InRw
<1>1. /\ cbuf[p] \in Bufs /\ want[p] \in Blocks /\ blockno[cbuf[p]] = want[p]
      /\ valid[cbuf[p]] /\ BufInv
  BY Zenon, <1>0, LockedFacts DEF BInv, CallInv
<1>2. data'[cbuf[p]] = v /\ \A c \in Bufs : c # cbuf[p] => data'[c] = data[c]
  BY Zenon, <1>0, ChangeOthers
<1>3. PICK k \in Blocks : k = want[p]
  BY Zenon, <1>1
<1>4. Value'[k] = v
  <2>1. PICK b \in Bufs : b = cbuf[p]
    BY Zenon, <1>1
  <2>2. blockno'[b] = k /\ valid'[b] /\ data'[b] = v
    BY Zenon, <1>1, <1>2, <1>3, <2>1
  <2> QED BY Zenon, <1>1, <2>2, ValueCachedNext
<1>5. ASSUME NEW m \in Blocks, m # k
      PROVE  Value'[m] = Value[m]
  <2>1. CASE \E b \in Bufs : blockno[b] = m /\ valid[b]
    <3>1. PICK b \in Bufs : blockno[b] = m /\ valid[b]
      BY Zenon, <2>1
    <3>2. Value[m] = data[b]
      BY Zenon, <1>1, <3>1, ValueCached
    <3>3. Value'[m] = data'[b]
      BY Zenon, <1>1, <3>1, ValueCachedNext
    <3>4. b # cbuf[p]
      BY Zenon, <1>1, <1>3, <1>5, <3>1
    <3> QED BY Zenon, <1>2, <3>2, <3>3, <3>4
  <2>2. CASE \A b \in Bufs : ~(blockno[b] = m /\ valid[b])
    <3>1. Value[m] = platter[m]
      BY Zenon, <2>2, ValueOnDisk
    <3>2. Value'[m] = platter'[m]
      BY Zenon, <2>2, ValueOnDiskNext
    <3> QED BY Zenon, <3>1, <3>2
  <2> QED BY Zenon, <2>1, <2>2
<1>6. Value' = [Value EXCEPT ![k] = v]
  BY Zenon, <1>4, <1>5, ValueExcept
<1> QED BY Zenon, <1>3, <1>6

(* The steps of the block store, as the cache takes them. *)
Stutters == Value' = Value /\ platter' = platter /\ Owner' = Owner
StoreStep == Stutters \/ S!Next

LEMMA StoreSteps ==
  ASSUME NEW p \in Callers, NEW k \in Blocks, NEW v \in Val
  PROVE  /\ Owner[k] = NoCaller /\ Owner' = [Owner EXCEPT ![k] = p]
            /\ Value' = Value /\ platter' = platter => StoreStep
         /\ Owner[k] = p /\ Owner' = [Owner EXCEPT ![k] = NoCaller]
            /\ Value' = Value /\ platter' = platter => StoreStep
         /\ Owner[k] = p /\ Value' = [Value EXCEPT ![k] = v]
            /\ platter' = platter /\ Owner' = Owner => StoreStep
         /\ Owner[k] = p /\ platter' = [platter EXCEPT ![k] = Value[k]]
            /\ Value' = Value /\ Owner' = Owner => StoreStep
BY Zenon DEF StoreStep, S!Next, S!bread, S!brelse, S!Change, S!bwrite

(* A recycled buffer takes no contents with it: it had what the disk has.  *)
LEMMA BgetRefines ==
  ASSUME BInv, BInv', NEW p \in Callers, NEW k \in Blocks, bget(p, k), Cached(k) # {} \/ Unused # {}
  PROVE  StoreStep
<1>1. PICK b \in Bufs : BgetTakes(p, k, b)
  BY Zenon, BgetStep
<1>2. /\ UNCHANGED <<data, platter, pinned>>
      /\ valid' = [valid EXCEPT ![b] = valid[b] /\ blockno[b] = k]
      /\ blockno' = [blockno EXCEPT ![b] = k]
      /\ want' = [want EXCEPT ![p] = k]
      /\ pc' = [pc EXCEPT ![p] = "lock"]
  BY Zenon, <1>1 DEF BgetTakes, driverVars, content
<1>3. BTypes /\ BufInv /\ BufInv' /\ CleanInv /\ CallInv(p)
  BY Zenon DEF BInv
<1>4. /\ valid'[b] <=> (valid[b] /\ blockno[b] = k)
      /\ blockno'[b] = k
      /\ \A c \in Bufs : c # b => valid'[c] = valid[c] /\ blockno'[c] = blockno[c]
      /\ pc'[p] = "lock" /\ want'[p] = k
      /\ \A q \in Callers : q # p => pc'[q] = pc[q] /\ want'[q] = want[q]
  BY Zenon, <1>2, <1>3 DEF BTypes
<1>5. ASSUME NEW m \in Blocks
      PROVE  Value'[m] = Value[m]
  <2>1. CASE \E c \in Bufs : blockno'[c] = m /\ valid'[c]
    <3>1. PICK c \in Bufs : blockno'[c] = m /\ valid'[c]
      BY Zenon, <2>1
    <3>2. blockno[c] = m /\ valid[c]
      BY Zenon, <1>4, <3>1
    <3>3. Value[m] = data[c]
      BY Zenon, <1>3, <3>2, ValueCached
    <3>4. Value'[m] = data'[c]
      BY Zenon, <1>3, <3>1, ValueCachedNext
    <3> QED BY Zenon, <1>2, <3>3, <3>4
  <2>2. CASE \A c \in Bufs : ~(blockno'[c] = m /\ valid'[c])
    <3>1. Value'[m] = platter'[m]
      BY Zenon, <2>2, ValueOnDiskNext
    <3>2. CASE \A c \in Bufs : ~(blockno[c] = m /\ valid[c])
      <4>1. Value[m] = platter[m]
        BY Zenon, <3>2, ValueOnDisk
      <4> QED BY Zenon, <1>2, <3>1, <4>1
    <3>3. CASE \E c \in Bufs : blockno[c] = m /\ valid[c]
      <4>1. PICK c \in Bufs : blockno[c] = m /\ valid[c]
        BY Zenon, <3>3
      <4>2. c = b /\ blockno[b] # k
        BY Zenon, <1>4, <2>2, <4>1
      <4>3. blockno[b] \notin pinned /\ \A q \in Callers : cbuf[q] # b
        BY Zenon, <1>1, <4>2 DEF BgetTakes
      <4>4. data[b] = platter[blockno[b]]
        BY Zenon, <1>3, <4>1, <4>2, <4>3 DEF CleanInv
      <4>5. Value[m] = data[b]
        BY Zenon, <1>3, <4>1, <4>2, ValueCached
      <4> QED BY Zenon, <1>2, <3>1, <4>1, <4>2, <4>4, <4>5
    <3> QED BY Zenon, <3>2, <3>3
  <2> QED BY Zenon, <2>1, <2>2
<1>6. Value' = Value
  BY Zenon, <1>5, ValueFunctions
<1>7. Owner' = Owner
  <2>1. pc[p] = "idle" /\ pc[p] \notin HasBlock /\ pc'[p] \notin HasBlock
    <3>1. pc[p] = "idle"
      BY Zenon DEF bget, Is
    <3> QED BY <1>4, <3>1 DEF HasBlock
  <2>2. \A m \in Blocks, q \in Callers :
          want'[q] = m /\ pc'[q] \in HasBlock <=> want[q] = m /\ pc[q] \in HasBlock
    BY Zenon, <1>4, <2>1
  <2>3. \A m \in Blocks : Owner'[m] = Owner[m]
    BY Zenon, <2>2, OwnerSame
  <2> QED BY Zenon, <2>3, OwnerFunctions
<1> QED BY Zenon, <1>2, <1>6, <1>7 DEF StoreStep, Stutters

LEMMA BgetPanicsRefines ==
  ASSUME NEW p \in Callers, NEW k \in Blocks, bget(p, k), ~(Cached(k) # {} \/ Unused # {})
  PROVE  StoreStep
<1>1. UNCHANGED <<blockno, valid, data, platter, pc, want>>
  BY Zenon, BgetPanics DEF content, cacheVars, callVars
<1> QED BY Zenon, <1>1, ValueSame, OwnersSame DEF StoreStep, Stutters

LEMMA AcquireRefines ==
  ASSUME BInv, BInv', NEW p \in Callers, acquiresleep(p)
  PROVE  StoreStep
<1>1. pc[p] = "lock" /\ pc[p] \notin HasBlock /\ pc[p] # "idle"
  <2>1. pc[p] = "lock"
    BY Zenon DEF acquiresleep, Is
  <2> QED BY <2>1 DEF HasBlock
<1>2. UNCHANGED <<blockno, data, platter, valid, want, cbuf>>
  BY Zenon DEF acquiresleep, content, cacheVars
<1>3. BTypes /\ CallInv(p) /\ BufInv
  BY Zenon DEF BInv
<1>4. cbuf[p] \in Bufs /\ want[p] \in Blocks /\ blockno[cbuf[p]] = want[p]
  BY Zenon, <1>1, <1>3 DEF CallInv
<1>5. Value' = Value
  BY Zenon, <1>2, ValueSame
<1>6. \/ pc' = [pc EXCEPT ![p] = "lock asleep"]
      \/ pc' = [pc EXCEPT ![p] = "read"]
      \/ pc' = [pc EXCEPT ![p] = "use"] /\ slock[cbuf[p]] = NoCaller
  BY Zenon DEF acquiresleep, Goto
<1>7. \A q \in Callers : q # p => pc'[q] = pc[q]
  BY Zenon, <1>3, <1>6 DEF BTypes
<1>8. CASE pc' = [pc EXCEPT ![p] = "lock asleep"] \/ pc' = [pc EXCEPT ![p] = "read"]
  <2>1. pc'[p] \notin HasBlock
    BY Zenon, <1>3, <1>8 DEF BTypes, HasBlock
  <2>2. Owner' = Owner
    BY Zenon, <1>1, <1>2, <1>7, <2>1, OwnersSame
  <2> QED BY Zenon, <1>2, <1>5, <2>2 DEF StoreStep, Stutters
<1>9. CASE pc' = [pc EXCEPT ![p] = "use"] /\ slock[cbuf[p]] = NoCaller
  <2>1. pc'[p] \in HasBlock
    BY <1>3, <1>9 DEF BTypes, HasBlock
  <2>2. ASSUME NEW q \in Callers, pc[q] \in HasBlock
        PROVE  want[q] # want[p]
    <3>1. pc[q] \in HasLock
      BY <2>2 DEF HasBlock, HasLock, InRw
    <3>2. cbuf[q] \in Bufs /\ blockno[cbuf[q]] = want[q] /\ slock[cbuf[q]] = q /\ q # NoCaller
      BY Zenon, <3>1, LockedFacts, LabelFacts
    <3> QED BY Zenon, <1>3, <1>4, <1>9, <3>2, OneBuffer
  <2>3. Owner[want[p]] = NoCaller /\ Owner' = [Owner EXCEPT ![want[p]] = p]
    BY Zenon, <1>1, <1>2, <1>4, <1>7, <2>1, <2>2, OwnerTaken
  <2>4. PICK k \in Blocks : k = want[p]
    BY Zenon, <1>4
  <2>5. PICK v \in Val : TRUE
    BY Zenon, VirtioAssumption
  <2> QED BY Zenon, <1>2, <1>5, <2>3, <2>4, <2>5, StoreSteps
<1> QED BY Zenon, <1>6, <1>8, <1>9

LEMMA RwReturnRefines ==
  ASSUME BInv, BInv', NEW p \in Callers, RwReturn(p)
  PROVE  StoreStep
<1>0. VInv /\ BTypes /\ CallInv(p) /\ BufInv /\ BufInv' /\ CleanInv'
  BY Zenon DEF BInv
<1>1. /\ rw[p] = "wait" /\ UNCHANGED <<blockno, data, platter, pinned, want, cbuf>>
  BY Zenon, <1>0, FinishCases DEF RwReturn, content
<1>2. pc[p] \in InRw /\ pc[p] \in HasLock
  <2>1. rw[p] # "out"
    BY <1>1
  <2> QED BY Zenon, <1>0, <2>1, PcFacts DEF CallInv
<1>3. \/ UNCHANGED <<valid, pc>>
      \/ /\ valid' = [valid EXCEPT ![cbuf[p]] = TRUE]
         /\ pc' = [pc EXCEPT ![p] = IF pc[p] = "install" THEN "bunpin" ELSE "use"]
  BY Zenon DEF RwReturn, Goto
<1>4. CASE UNCHANGED <<valid, pc>>
  BY Zenon, <1>1, <1>4, ValueSame, OwnersSame DEF StoreStep, Stutters
<1>5. CASE /\ valid' = [valid EXCEPT ![cbuf[p]] = TRUE]
           /\ pc' = [pc EXCEPT ![p] = IF pc[p] = "install" THEN "bunpin" ELSE "use"]
  <2>1. /\ cbuf[p] \in Bufs /\ want[p] \in Blocks /\ blockno[cbuf[p]] = want[p]
        /\ \A q \in Callers : q # p /\ pc[q] \in HasLock => cbuf[q] # cbuf[p] /\ want[q] # want[p]
        /\ \A c \in Bufs : c # cbuf[p] => blockno[c] # want[p]
    BY Zenon, <1>2, LockedFacts
  <2>2. PICK b \in Bufs, k \in Blocks : b = cbuf[p] /\ k = want[p]
    BY Zenon, <2>1
  <2>3. /\ \A q \in Callers : q # p => pc'[q] = pc[q]
        /\ pc'[p] = IF pc[p] = "install" THEN "bunpin" ELSE "use"
        /\ valid'[b] /\ \A c \in Bufs : c # b => valid'[c] = valid[c]
    BY Zenon, <1>0, <1>5, <2>2 DEF BTypes
  <2>4. pc'[p] \in HasBlock
    BY <2>3 DEF HasBlock
  <2>5. CASE pc[p] # "read"
    <3>1. pc[p] \in HasBlock /\ pc[p] \in HasLock \ {"read"}
      BY <1>2, <2>5 DEF HasBlock, InRw
    <3>2. valid' = valid
      BY Zenon, <1>0, <1>5, <2>1, <3>1 DEF CallInv, BTypes
    <3>3. Value' = Value
      BY Zenon, <1>1, <3>2, ValueSame
    <3>4. Owner' = Owner
      <4>1. \A q \in Callers : pc'[q] \in HasBlock <=> pc[q] \in HasBlock
        BY Zenon, <2>3, <2>4, <3>1
      <4> QED BY Zenon, <1>1, <4>1, OwnersSame
    <3> QED BY Zenon, <1>1, <3>3, <3>4 DEF StoreStep, Stutters
  <2>6. CASE pc[p] = "read"
    <3>1. ~valid[b] /\ pc[p] \notin HasBlock
      <4>1. pc[p] \notin HasBlock
        BY <2>6 DEF HasBlock
      <4> QED BY Zenon, <1>0, <2>2, <2>6, <4>1 DEF CallInv
    <3>2. \A c \in Bufs : ~(blockno[c] = k /\ valid[c])
      BY Zenon, <2>1, <2>2, <3>1
    <3>3. k \notin pinned
      BY Zenon, <1>0, <3>2 DEF BufInv
    <3>4. ASSUME NEW q \in Callers, pc'[q] = "write"
          PROVE  cbuf'[q] # b
      <4>1. q # p
        BY <2>3, <2>6, <3>4
      <4>2. pc[q] = "write" /\ pc[q] \in HasLock
        BY <2>3, <3>4, <4>1 DEF HasLock, InRw
      <4> QED BY Zenon, <1>1, <2>1, <2>2, <4>1, <4>2
    <3>5. blockno'[b] = k /\ k \notin pinned'
      BY Zenon, <1>1, <2>1, <2>2, <3>3
    <3>6. data'[b] = platter'[k]
      BY Zenon, <1>0, <2>3, <3>4, <3>5 DEF CleanInv
    <3>7. ASSUME NEW m \in Blocks
          PROVE  Value'[m] = Value[m]
      <4>1. CASE m = k
        <5>1. Value[k] = platter[k]
          BY Zenon, <3>2, ValueOnDisk
        <5>2. Value'[k] = data'[b]
          BY Zenon, <1>0, <2>3, <3>5, ValueCachedNext
        <5> QED BY Zenon, <1>1, <3>6, <4>1, <5>1, <5>2
      <4>2. CASE m # k /\ \E c \in Bufs : blockno[c] = m /\ valid[c]
        <5>1. PICK c \in Bufs : blockno[c] = m /\ valid[c]
          BY Zenon, <4>2
        <5>2. c # b /\ blockno'[c] = m /\ valid'[c]
          BY Zenon, <1>1, <2>3, <3>1, <5>1
        <5>3. Value[m] = data[c]
          BY Zenon, <1>0, <5>1, ValueCached
        <5>4. Value'[m] = data'[c]
          BY Zenon, <1>0, <5>2, ValueCachedNext
        <5> QED BY Zenon, <1>1, <5>3, <5>4
      <4>3. CASE m # k /\ \A c \in Bufs : ~(blockno[c] = m /\ valid[c])
        <5>1. \A c \in Bufs : ~(blockno'[c] = m /\ valid'[c])
          BY Zenon, <1>1, <2>1, <2>2, <2>3, <4>3
        <5>2. Value[m] = platter[m]
          BY Zenon, <4>3, ValueOnDisk
        <5>3. Value'[m] = platter'[m]
          BY Zenon, <5>1, ValueOnDiskNext
        <5> QED BY Zenon, <1>1, <5>2, <5>3
      <4> QED BY Zenon, <4>1, <4>2, <4>3
    <3>8. Value' = Value
      BY Zenon, <3>7, ValueFunctions
    <3>9. \A q \in Callers : q # p /\ pc[q] \in HasBlock => want[q] # want[p]
      <4>1. HasBlock \subseteq HasLock
        BY DEF HasBlock, HasLock, InRw
      <4> QED BY Zenon, <2>1, <4>1
    <3>10. Owner[want[p]] = NoCaller /\ Owner' = [Owner EXCEPT ![want[p]] = p]
      BY Zenon, <1>1, <2>1, <2>3, <2>4, <3>1, <3>9, OwnerTaken
    <3>11. PICK v \in Val : TRUE
      BY Zenon, VirtioAssumption
    <3> QED BY Zenon, <1>1, <2>2, <3>8, <3>10, <3>11, StoreSteps
  <2> QED BY Zenon, <2>5, <2>6
<1> QED BY Zenon, <1>3, <1>4, <1>5

LEMMA QuietRefines ==
  ASSUME BInv, NEW p \in Callers, Install(p) \/ bunpin(p) \/ KillLock(p)
  PROVE  StoreStep
<1>0. BTypes /\ CallInv(p)
  BY Zenon DEF BInv
<1>1. CASE Install(p)
  <2>1. pc[p] = "use" /\ pc[p] \in HasLock
    <3>1. pc[p] = "use"
      BY Zenon, <1>1 DEF Install, Is
    <3> QED BY <3>1 DEF HasLock
  <2>2. slock[cbuf[p]] = p
    BY Zenon, <1>0, <2>1 DEF CallInv
  <2>3. pc' = [pc EXCEPT ![p] = "install"] /\ UNCHANGED <<blockno, valid, data, platter, want>>
    BY Zenon, <1>1, <2>2 DEF Install, Goto, content, cacheVars
  <2>4. pc[p] \in HasBlock /\ pc'[p] \in HasBlock /\ \A q \in Callers : q # p => pc'[q] = pc[q]
    BY <1>0, <2>1, <2>3 DEF BTypes, HasBlock
  <2> QED BY Zenon, <2>3, <2>4, ValueSame, OwnersSame DEF StoreStep, Stutters
<1>2. CASE bunpin(p)
  <2>1. pc[p] = "bunpin" /\ pc' = [pc EXCEPT ![p] = "use"] /\ UNCHANGED <<blockno, valid, data, platter, want>>
    BY Zenon, <1>2 DEF bunpin, Is, Goto, driverVars, content
  <2>2. pc[p] \in HasBlock /\ pc'[p] \in HasBlock /\ \A q \in Callers : q # p => pc'[q] = pc[q]
    BY <1>0, <2>1 DEF BTypes, HasBlock
  <2> QED BY Zenon, <2>1, <2>2, ValueSame, OwnersSame DEF StoreStep, Stutters
<1>3. CASE KillLock(p)
  <2>1. pc[p] = "lock asleep" /\ pc' = [pc EXCEPT ![p] = "lock"] /\ UNCHANGED <<blockno, valid, data, platter, want>>
    BY Zenon, <1>3 DEF KillLock, Is, Goto, driverVars, content, cacheVars
  <2>2. pc[p] \notin HasBlock /\ pc'[p] \notin HasBlock /\ \A q \in Callers : q # p => pc'[q] = pc[q]
    BY Zenon, <1>0, <2>1 DEF BTypes, HasBlock
  <2> QED BY Zenon, <2>1, <2>2, ValueSame, OwnersSame DEF StoreStep, Stutters
<1> QED BY Zenon, <1>1, <1>2, <1>3

LEMMA ReleaseRefines ==
  ASSUME BInv, NEW p \in Callers, releasesleep(p) \/ brelse(p)
  PROVE  StoreStep
<1>0. BTypes /\ CallInv(p)
  BY Zenon DEF BInv
<1>1. CASE releasesleep(p)
  <2>1. pc[p] = "use" /\ pc[p] \in HasLock /\ pc[p] \in HasBlock
    <3>1. pc[p] = "use"
      BY Zenon, <1>1 DEF releasesleep, Is
    <3> QED BY <3>1 DEF HasLock, HasBlock
  <2>2. slock[cbuf[p]] = p
    BY Zenon, <1>0, <2>1 DEF CallInv
  <2>3. /\ pc' = [q \in Callers |-> IF q = p THEN "brelse"
                                    ELSE IF pc[q] = "lock asleep" /\ cbuf[q] = cbuf[p] THEN "lock"
                                    ELSE pc[q]]
        /\ UNCHANGED <<blockno, valid, data, platter, want>>
    BY Zenon, <1>1, <2>2 DEF releasesleep, driverVars, content, cacheVars
  <2>4. pc'[p] \notin HasBlock /\ \A q \in Callers : q # p => (pc'[q] \in HasBlock <=> pc[q] \in HasBlock)
    BY Zenon, <2>3 DEF HasBlock
  <2>5. want[p] \in Blocks /\ Owner[want[p]] = p /\ Owner' = [Owner EXCEPT ![want[p]] = NoCaller]
    BY Zenon, <2>1, <2>3, <2>4, OwnerGiven
  <2>6. Value' = Value
    BY Zenon, <2>3, ValueSame
  <2>7. PICK k \in Blocks, v \in Val : k = want[p]
    BY Zenon, <2>5, VirtioAssumption
  <2> QED BY Zenon, <2>3, <2>5, <2>6, <2>7, StoreSteps
<1>2. CASE brelse(p)
  <2>1. /\ pc[p] = "brelse" /\ pc' = [pc EXCEPT ![p] = "idle"] /\ want' = [want EXCEPT ![p] = NoBlock]
        /\ UNCHANGED <<blockno, valid, data, platter>>
    BY Zenon, <1>2 DEF brelse, Is, Goto, driverVars, content
  <2>2. /\ pc[p] \notin HasBlock /\ pc'[p] \notin HasBlock
        /\ \A q \in Callers : q # p => pc'[q] = pc[q] /\ want'[q] = want[q]
    BY <1>0, <2>1 DEF BTypes, HasBlock
  <2>3. \A m \in Blocks, q \in Callers :
          want'[q] = m /\ pc'[q] \in HasBlock <=> want[q] = m /\ pc[q] \in HasBlock
    BY Zenon, <2>2
  <2>4. \A m \in Blocks : Owner'[m] = Owner[m]
    BY Zenon, <2>3, OwnerSame
  <2> QED BY Zenon, <2>1, <2>4, OwnerFunctions, ValueSame DEF StoreStep, Stutters
<1> QED BY Zenon, <1>1, <1>2

LEMMA WriteRefines ==
  ASSUME BInv, BInv', NEW p \in Callers, NEW v \in Val, log_write(p, v) \/ bwrite(p, v)
  PROVE  StoreStep
<1>0. BTypes /\ CallInv(p) /\ BufInv'
  BY Zenon DEF BInv
<1>1. pc[p] = "use" /\ pc[p] \in HasLock /\ pc[p] \in HasBlock
  <2>1. pc[p] = "use"
    BY Zenon DEF log_write, bwrite, Is
  <2> QED BY <2>1 DEF HasLock, HasBlock
<1>2. slock[cbuf[p]] = p
  BY Zenon, <1>0, <1>1 DEF CallInv
<1>3. /\ data' = [data EXCEPT ![cbuf[p]] = v]
      /\ UNCHANGED <<blockno, valid, platter, want>>
      /\ pc' = pc \/ pc' = [pc EXCEPT ![p] = "write"]
  BY Zenon, <1>2 DEF log_write, bwrite, Goto, callVars, cacheVars
<1>4. Value' = [Value EXCEPT ![want[p]] = v]
  BY Zenon, <1>0, <1>1, <1>3, ValueChanged
<1>5. \A q \in Callers : pc'[q] \in HasBlock <=> pc[q] \in HasBlock
  BY <1>0, <1>1, <1>3 DEF BTypes, HasBlock
<1>6. Owner' = Owner
  BY Zenon, <1>3, <1>5, OwnersSame
<1>7. Owner[want[p]] = p /\ want[p] \in Blocks
  BY Zenon, <1>1, OwnerIs
<1>8. PICK k \in Blocks : k = want[p]
  BY Zenon, <1>7
<1> QED BY Zenon, <1>3, <1>4, <1>6, <1>7, <1>8, StoreSteps

(* The device writes what the owner of the block has put there, and reads  *)
(* into a buffer that nobody sees as the block's contents yet.             *)
LEMMA TransferRefines ==
  ASSUME BInv, BInv', NEW i \in Descs, Transfer(i),
         UNCHANGED <<valid, blockno, cbuf, want, pc>>
  PROVE  StoreStep
<1>0. BTypes /\ BufInv /\ BufInv' /\ VInv
  BY Zenon DEF BInv
<1>1. Owner' = Owner
  BY Zenon, OwnersSame
<1>2. PICK p \in Callers :
        /\ pc[p] \in InRw /\ pc[p] \in HasLock /\ cbuf[p] \in Bufs /\ want[p] \in Blocks
        /\ blockno[cbuf[p]] = want[p]
        /\ \/ /\ pc[p] # "read"
              /\ platter' = [platter EXCEPT ![want[p]] = data[cbuf[p]]] /\ data' = data
           \/ /\ pc[p] = "read"
              /\ data' = [data EXCEPT ![cbuf[p]] = platter[want[p]]] /\ platter' = platter
  BY Zenon, TransferCopies
<1>3. PICK b \in Bufs, k \in Blocks : b = cbuf[p] /\ k = want[p]
  BY Zenon, <1>2
<1>4. CallInv(p) /\ platter \in [Blocks -> Val] /\ data \in [Bufs -> Val]
  BY Zenon, <1>0 DEF BInv, VInv, VTypes
<1>5. CASE pc[p] # "read" /\ platter' = [platter EXCEPT ![want[p]] = data[cbuf[p]]] /\ data' = data
  <2>1. pc[p] \in HasBlock /\ pc[p] \in HasLock \ {"read"}
    BY <1>2, <1>5 DEF HasBlock, InRw
  <2>2. valid[b] /\ blockno[b] = k
    BY Zenon, <1>2, <1>3, <1>4, <2>1 DEF CallInv
  <2>3. Value[k] = data[b]
    BY Zenon, <1>0, <2>2, ValueCached
  <2>4. platter' = [platter EXCEPT ![k] = Value[k]] /\ \A m \in Blocks : m # k => platter'[m] = platter[m]
    BY Zenon, <1>3, <1>4, <1>5, <2>3
  <2>5. ASSUME NEW m \in Blocks
        PROVE  Value'[m] = Value[m]
    <3>1. CASE \E c \in Bufs : blockno[c] = m /\ valid[c]
      <4>1. PICK c \in Bufs : blockno[c] = m /\ valid[c]
        BY Zenon, <3>1
      <4>2. Value[m] = data[c]
        BY Zenon, <1>0, <4>1, ValueCached
      <4>3. Value'[m] = data'[c]
        BY Zenon, <1>0, <4>1, ValueCachedNext
      <4> QED BY Zenon, <1>5, <4>2, <4>3
    <3>2. CASE \A c \in Bufs : ~(blockno[c] = m /\ valid[c])
      <4>1. Value[m] = platter[m]
        BY Zenon, <3>2, ValueOnDisk
      <4>2. Value'[m] = platter'[m]
        BY Zenon, <3>2, ValueOnDiskNext
      <4>3. m # k
        BY Zenon, <2>2, <3>2
      <4> QED BY Zenon, <2>4, <4>1, <4>2, <4>3
    <3> QED BY Zenon, <3>1, <3>2
  <2>6. Value' = Value
    BY Zenon, <2>5, ValueFunctions
  <2>7. Owner[k] = p
    BY Zenon, <1>3, <2>1, OwnerIs
  <2>8. PICK v \in Val : TRUE
    BY Zenon, VirtioAssumption
  <2> QED BY Zenon, <1>1, <2>4, <2>6, <2>7, <2>8, StoreSteps
<1>6. CASE /\ pc[p] = "read"
           /\ data' = [data EXCEPT ![cbuf[p]] = platter[want[p]]] /\ platter' = platter
  <2>1. ~valid[b] /\ \A c \in Bufs : c # b => data'[c] = data[c]
    BY Zenon, <1>3, <1>4, <1>6 DEF CallInv
  <2>2. ASSUME NEW m \in Blocks
        PROVE  Value'[m] = Value[m]
    <3>1. CASE \E c \in Bufs : blockno[c] = m /\ valid[c]
      <4>1. PICK c \in Bufs : blockno[c] = m /\ valid[c]
        BY Zenon, <3>1
      <4>2. Value[m] = data[c]
        BY Zenon, <1>0, <4>1, ValueCached
      <4>3. Value'[m] = data'[c]
        BY Zenon, <1>0, <4>1, ValueCachedNext
      <4> QED BY Zenon, <2>1, <4>1, <4>2, <4>3
    <3>2. CASE \A c \in Bufs : ~(blockno[c] = m /\ valid[c])
      <4>1. Value[m] = platter[m]
        BY Zenon, <3>2, ValueOnDisk
      <4>2. Value'[m] = platter'[m]
        BY Zenon, <3>2, ValueOnDiskNext
      <4> QED BY Zenon, <1>6, <4>1, <4>2
    <3> QED BY Zenon, <3>1, <3>2
  <2>3. Value' = Value
    BY Zenon, <2>2, ValueFunctions
  <2> QED BY Zenon, <1>1, <1>6, <2>3 DEF StoreStep, Stutters
<1> QED BY Zenon, <1>2, <1>5, <1>6

LEMMA DriverRefines ==
  ASSUME BInv, BInv', Driver
  PROVE  StoreStep
<1>1. UNCHANGED <<valid, pc, want, cbuf>>
  BY Zenon DEF Driver, cacheVars, callVars
<1>2. ASSUME NEW i \in Descs, Transfer(i)
      PROVE  StoreStep
  <2>1. blockno' = blockno
    BY Zenon, <1>2 DEF Transfer
  <2> QED BY Zenon, <1>1, <1>2, <2>1, TransferRefines
<1>3. CASE UNCHANGED <<blockno, data, platter>>
  BY Zenon, <1>1, <1>3, ValueSame, OwnersSame DEF StoreStep, Stutters
<1>4. ASSUME NEW p \in Callers, Submit(p) \/ NoDescs(p) \/ KillWakes(p)
      PROVE  UNCHANGED <<blockno, data, platter>>
  BY Zenon, <1>4 DEF Submit, NoDescs, KillWakes, content
<1>5. IntrStep => UNCHANGED <<blockno, data, platter>>
  BY Zenon DEF IntrStep, IntrAck, IntrReturn, IntrEntry, IntrStatus, content
<1> QED BY Zenon, <1>2, <1>3, <1>4, <1>5 DEF Driver

LEMMA NextRefines ==
  ASSUME BInv, BInv', [Next]_vars
  PROVE  [S!Next]_<<Value, platter, Owner>>
<1>1. StoreStep
  <2>1. CASE UNCHANGED vars
    <3>1. UNCHANGED <<blockno, valid, data, platter, pc, want>>
      BY Zenon, <2>1 DEF vars, virtioVars, content, cacheVars, callVars
    <3> QED BY Zenon, <3>1, ValueSame, OwnersSame DEF StoreStep, Stutters
  <2>2. CASE Next
    <3>1. ASSUME NEW p \in Callers, NEW k \in Blocks, bget(p, k)
          PROVE  StoreStep
      BY Zenon, <3>1, BgetRefines, BgetPanicsRefines
    <3>2. ASSUME NEW p \in Callers, NEW v \in Val, log_write(p, v) \/ bwrite(p, v)
          PROVE  StoreStep
      BY Zenon, <3>2, WriteRefines
    <3>3. ASSUME NEW p \in Callers, acquiresleep(p) \/ RwReturn(p)
          PROVE  StoreStep
      BY Zenon, <3>3, AcquireRefines, RwReturnRefines
    <3>4. ASSUME NEW p \in Callers, Install(p) \/ bunpin(p) \/ KillLock(p)
          PROVE  StoreStep
      BY Zenon, <3>4, QuietRefines
    <3>5. ASSUME NEW p \in Callers, releasesleep(p) \/ brelse(p)
          PROVE  StoreStep
      BY Zenon, <3>5, ReleaseRefines
    <3>6. CASE Driver
      BY Zenon, <3>6, DriverRefines
    <3> QED BY Zenon, <2>2, <3>1, <3>2, <3>3, <3>4, <3>5, <3>6 DEF Next
  <2> QED BY Zenon, <2>1, <2>2
<1> QED BY Zenon, <1>1 DEF StoreStep, Stutters

LEMMA InitRefines ==
  ASSUME Init
  PROVE  S!Init
<1>1. /\ platter \in [Blocks -> Val] /\ valid = [b \in Bufs |-> FALSE]
      /\ pc = [p \in Callers |-> "idle"]
  BY Zenon, VirtioAssumption DEF Init, VirtioInit
<1>2. \A k \in Blocks : Value[k] = platter[k]
  <2>1. \A b \in Bufs : ~valid[b]
    BY Zenon, <1>1
  <2> QED BY Zenon, <2>1, ValueOnDisk
<1>3. Value = platter
  <2>1. Value = [k \in Blocks |-> Value[k]]
    BY DEF Value
  <2>2. platter = [k \in Blocks |-> platter[k]]
    BY <1>1
  <2> QED BY <1>2, <2>1, <2>2
<1>4. \A k \in Blocks : Owner[k] = NoCaller
  <2>1. \A q \in Callers : pc[q] \notin HasBlock
    BY <1>1 DEF HasBlock
  <2> QED BY Zenon, <2>1, OwnerNone
<1>5. Owner = [k \in Blocks |-> NoCaller]
  <2>1. Owner = [k \in Blocks |-> Owner[k]]
    BY DEF Owner
  <2> QED BY <1>4, <2>1
<1> QED BY Zenon, <1>1, <1>3, <1>5 DEF S!Init

(* The buffer cache and its driver implement the block store: one copy of  *)
(* every block, seen and changed by one caller at a time.                  *)
THEOREM BcacheRefinesStore == Spec => OneCopy
<1>1. Init => S!Init
  BY InitRefines
<1>2. BInv /\ BInv' /\ [Next]_vars => [S!Next]_<<Value, platter, Owner>>
  BY NextRefines
<1> QED BY <1>1, <1>2, BcacheInvariant, PTL DEF Spec, OneCopy, S!Spec

=============================================================================
