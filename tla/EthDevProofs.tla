---------------------------- MODULE EthDevProofs ----------------------------
(***************************************************************************)
(* What every step of the device and of its driver preserves, for rings of *)
(* any size and any thresholds the driver accepts; and what an operation   *)
(* on one list does to the mbufs in the lists of all queues.               *)
(***************************************************************************)
EXTENDS EthDev, TLAPS

\* A leaf names Zenon where it needs no arithmetic.
USE SMTT(30), ZenonT(30)

DevInv == DevTypeOK /\ RingsConsistent

\* Cleaning moves tx_rs_thresh done descriptors to the free ones.
LEMMA CleanArith ==
  ASSUME NEW N \in Nat, NEW R \in Nat, NEW l \in Nat,
         NEW f \in Nat, NEW d \in Nat,
         d < N, f + d < N, N - 1 - f <= l, d >= R
  PROVE  /\ f + R \in 0..N - 1 /\ d - R \in 0..N - 1
         /\ (f + R) + (d - R) < N
         /\ N - 1 - (f + R) <= l
  OBVIOUS

\* Using a free descriptor for one more entry of the ring.
LEMMA UseArith ==
  ASSUME NEW N \in Nat, NEW l \in Nat, NEW f \in Nat, NEW d \in Nat,
         f > 0, f < N, d < N, f + d < N, N - f <= l
  PROVE  /\ f - 1 \in 0..N - 1 /\ d \in 0..N - 1
         /\ (f - 1) + d < N
         /\ N - 1 - (f - 1) <= l
  OBVIOUS

\* Cleaning a batch when nothing is free and using one of its descriptors.
LEMMA CleanUseArith ==
  ASSUME NEW N \in Nat, NEW l \in Nat, NEW d \in Nat, NEW t \in Nat,
         t > 0, d >= t, d < N, N - 1 <= l
  PROVE  /\ t - 1 \in 0..N - 1 /\ d - t \in 0..N - 1
         /\ (t - 1) + (d - t) < N
         /\ N - 1 - (t - 1) <= l
  OBVIOUS

LEMMA RxRingSize ==
  /\ RxFreeThresh \in Nat
  /\ \A q \in Queues : NbRxDesc(q) \in Nat /\ RxFreeThresh + 1 < NbRxDesc(q)
  BY DeviceAssumption DEF NbRxDesc

LEMMA DevInitInv == DevInit => DevInv
  BY DeviceAssumption, RxRingSize
     DEF DevInit, DevInv, DevTypeOK, MemTypeOK, RefcntMod, RingsConsistent, NbRxDesc

LEMMA DevStutterInv == DevInv /\ UNCHANGED devVars => DevInv'
  BY DEF DevInv, devVars, memVars, rxVars, txVars, DevTypeOK, MemTypeOK,
         RingsConsistent

\* The NIC fills only descriptors that have an mbuf.
LEMMA NicReceiveInv ==
  ASSUME NEW q \in Queues, DevInv, NicReceive(q)
  PROVE  DevInv' /\ rxDone[q] + 1 \in 1..Len(rxRing[q])
<1> USE RxRingSize DEF DevInv
<1>1. /\ rxDone[q] + 1 \in 1..Len(rxRing[q]) /\ rxDone[q] + 1 \in Nat
      /\ rxDone[q] + 1 + rxHold[q] < NbRxDesc(q)
  <2>1. rxDone[q] \in Nat /\ rxHold[q] \in Nat
    BY DEF DevTypeOK
  <2>2. Len(rxRing[q]) = NbRxDesc(q) /\ NbRxDesc(q) \in Nat
    BY DEF RingsConsistent
  <2>3. rxDone[q] + rxHold[q] < NbRxDesc(q) - 1
    BY DEF NicReceive
  <2> QED BY ONLY <2>1, <2>2, <2>3, SMTT(30)
<1> DEFINE d == rxDone[q] + 1
<1>2. rxDone' = [rxDone EXCEPT ![q] = d]
  BY DEF NicReceive
<1>3. rxRing[q][d] \in Mbufs
  BY <1>1 DEF DevTypeOK
<1>4. PICK k \in FrameKinds : frame' = [frame EXCEPT ![rxRing[q][d]] = k]
  BY ZenonT(30) DEF NicReceive
<1>5. UNCHANGED <<pool, refcnt, rxRing, rxHold, txRing, nbTxFree, txDone>>
  BY DEF NicReceive, txVars
<1> HIDE DEF d
<1>6. DevTypeOK'
  <2>1. MemTypeOK'
    BY <1>3, <1>4, <1>5 DEF DevTypeOK, MemTypeOK
  <2>2. rxDone' \in [Queues -> Nat]
    BY <1>1, <1>2 DEF DevTypeOK, d
  <2> QED BY <2>1, <2>2, <1>5 DEF DevTypeOK
<1>7. RingsConsistent'
  <2>1. \A p \in Queues : rxDone'[p] = IF p = q THEN d ELSE rxDone[p]
    BY <1>2 DEF DevTypeOK
  <2>2. d + rxHold[q] < NbRxDesc(q)
    BY <1>1 DEF d
  <2> QED BY <2>1, <2>2, <1>5 DEF RingsConsistent
<1> QED BY <1>1, <1>6, <1>7

LEMMA NicTransmitInv ==
  ASSUME NEW q \in Queues, DevInv, NicTransmit(q)
  PROVE  DevInv'
<1> USE DeviceAssumption DEF DevInv
<1>1. /\ txDone[q] + 1 \in 0..NbTxDesc - 1
      /\ nbTxFree[q] + txDone[q] + 1 < NbTxDesc
  <2>1. txDone[q] \in Nat /\ nbTxFree[q] \in Nat /\ NbTxDesc \in Nat
    BY DEF DevTypeOK
  <2>2. NbTxDesc - 1 - nbTxFree[q] - txDone[q] > 0
    BY DEF NicTransmit, TxPending
  <2> QED BY ONLY <2>1, <2>2, SMTT(30)
<1>2. DevTypeOK'
  BY <1>1, ZenonT(30) DEF DevTypeOK, MemTypeOK, NicTransmit, memVars, rxVars
<1>3. RingsConsistent'
  BY <1>1 DEF DevTypeOK, RingsConsistent, NicTransmit, rxVars
<1> QED BY <1>2, <1>3

LEMMA RefcntRange ==
  /\ 0 \in 0..RefcntMod - 1 /\ 1 \in 0..RefcntMod - 1
  /\ \A x \in 0..RefcntMod - 1 :
       (IF x = 0 THEN RefcntMod - 1 ELSE x - 1) \in 0..RefcntMod - 1
<1>1. RefcntMod \in Nat /\ RefcntMod > 1
  BY DEF RefcntMod
<1> QED BY <1>1

LEMMA FreeMbufType ==
  ASSUME NEW m \in Mbufs, DevTypeOK, FreeMbuf(m)
  PROVE  MemTypeOK'
<1>1. refcnt[m] \in 0..RefcntMod - 1
  BY DEF DevTypeOK, MemTypeOK
<1> DEFINE c == IF refcnt[m] = 0 THEN RefcntMod - 1 ELSE refcnt[m] - 1
<1>2. c \in 0..RefcntMod - 1
  BY <1>1, RefcntRange
<1>3. refcnt' = [refcnt EXCEPT ![m] = c]
  BY DEF FreeMbuf
<1> HIDE DEF c
<1> QED BY <1>2, <1>3 DEF DevTypeOK, MemTypeOK, FreeMbuf

\* Freeing an mbuf that is in use returns it to the pool.
LEMMA FreeMbufExact ==
  ASSUME NEW m \in Mbufs, DevTypeOK, RefcntsExact, m \notin pool, FreeMbuf(m)
  PROVE  pool' = pool \cup {m} /\ RefcntsExact'
<1>1. refcnt[m] = 1
  BY DEF RefcntsExact
<1>2. pool' = pool \cup {m}
  BY <1>1 DEF FreeMbuf
<1>3. refcnt' = [refcnt EXCEPT ![m] = 0]
  BY <1>1 DEF FreeMbuf
<1> QED BY <1>2, <1>3 DEF RefcntsExact, DevTypeOK, MemTypeOK

LEMMA FreeMbufInv ==
  ASSUME NEW m \in Mbufs, DevInv, FreeMbuf(m), UNCHANGED <<rxVars, txVars>>
  PROVE  DevInv'
  BY FreeMbufType, ZenonT(30) DEF DevInv, DevTypeOK, RingsConsistent, rxVars, txVars

\* Re-arming a descriptor keeps the ring full of mbufs.
LEMMA RxPacketInv ==
  ASSUME NEW q \in Queues, NEW nmb, DevInv, RxPacket(q, nmb)
  PROVE  DevInv' /\ rxRing[q] # <<>> /\ Head(rxRing[q]) \in Mbufs
<1> USE RxRingSize DEF DevInv
<1> DEFINE r == Append(Tail(rxRing[q]), nmb)
<1>1. /\ rxRing[q] \in Seq(Mbufs) /\ Len(rxRing[q]) = NbRxDesc(q) /\ NbRxDesc(q) > 0
      /\ nmb \in Mbufs
  BY DEF DevTypeOK, MemTypeOK, RingsConsistent, RxPacket
<1>2. /\ rxRing[q] # <<>> /\ Head(rxRing[q]) \in Mbufs
      /\ r \in Seq(Mbufs) /\ Len(r) = NbRxDesc(q)
  BY <1>1
<1> HIDE DEF r
<1>3. rxRing' = [rxRing EXCEPT ![q] = r]
  BY DEF RxPacket, r
<1>a. rxDone[q] - 1 \in Nat /\ rxHold[q] + 1 \in Nat
  <2>1. rxDone[q] \in Nat /\ rxHold[q] \in Nat
    BY DEF DevTypeOK
  <2>2. rxDone[q] + rxHold[q] < NbRxDesc(q)
    BY DEF RingsConsistent
  <2>3. rxDone[q] > 0
    BY DEF RxPacket
  <2>4. NbRxDesc(q) \in Nat
    OBVIOUS
  <2> QED BY ONLY <2>1, <2>2, <2>3, <2>4, SMTT(30)
<1>b. MemTypeOK'
  BY <1>1, RefcntRange DEF DevTypeOK, MemTypeOK, RxPacket
<1>4. DevTypeOK'
  BY <1>2, <1>3, <1>a, <1>b DEF DevTypeOK, RxPacket, txVars
<1>5. RingsConsistent'
  BY <1>2, <1>3 DEF DevTypeOK, RingsConsistent, RxPacket, txVars
<1> QED BY <1>2, <1>4, <1>5

LEMMA RxReturnInv ==
  ASSUME NEW q \in Queues, DevInv, RxReturn(q)
  PROVE  DevInv'
<1> USE RxRingSize DEF DevInv
<1> DEFINE hold == IF rxHold[q] > RxFreeThresh THEN 0 ELSE rxHold[q]
<1>1. hold \in Nat /\ rxDone[q] + hold < NbRxDesc(q)
  <2>1. rxDone[q] \in Nat /\ rxHold[q] \in Nat /\ NbRxDesc(q) \in Nat
    BY DEF DevTypeOK
  <2>2. rxDone[q] + rxHold[q] < NbRxDesc(q)
    BY DEF RingsConsistent
  <2>3. hold = 0 \/ hold = rxHold[q]
    OBVIOUS
  <2> QED BY ONLY <2>1, <2>2, <2>3, SMTT(30)
<1>2. rxHold' = [rxHold EXCEPT ![q] = hold]
  BY DEF RxReturn
<1> HIDE DEF hold
<1>3. DevTypeOK'
  <2>1. rxHold' \in [Queues -> Nat]
    BY <1>1, <1>2 DEF DevTypeOK
  <2> QED BY <2>1 DEF DevTypeOK, MemTypeOK, RxReturn, memVars, txVars
<1>4. RingsConsistent'
  BY <1>1, <1>2 DEF DevTypeOK, RingsConsistent, RxReturn, txVars
<1> QED BY <1>3, <1>4

LEMMA TxBeginInv ==
  ASSUME NEW q \in Queues, DevInv, TxBegin(q)
  PROVE  DevInv'
<1> USE DeviceAssumption DEF DevInv
<1>1. CASE UNCHANGED <<nbTxFree, txDone>>
  BY <1>1, DevStutterInv DEF TxBegin, devVars, txVars
<1>2. CASE /\ CanClean(q)
           /\ nbTxFree' = [nbTxFree EXCEPT ![q] = @ + TxRsThresh]
           /\ txDone' = [txDone EXCEPT ![q] = @ - TxRsThresh]
  <2>1. /\ nbTxFree[q] + TxRsThresh \in 0..NbTxDesc - 1
        /\ txDone[q] - TxRsThresh \in 0..NbTxDesc - 1
        /\ (nbTxFree[q] + TxRsThresh) + (txDone[q] - TxRsThresh) < NbTxDesc
        /\ NbTxDesc - 1 - (nbTxFree[q] + TxRsThresh) <= Len(txRing[q])
    <3>1. /\ nbTxFree[q] \in Nat /\ txDone[q] \in Nat /\ Len(txRing[q]) \in Nat
          /\ nbTxFree[q] + txDone[q] < NbTxDesc
          /\ NbTxDesc - 1 - nbTxFree[q] <= Len(txRing[q])
          /\ txDone[q] < NbTxDesc
      BY DEF DevTypeOK, RingsConsistent
    <3>2. txDone[q] >= TxRsThresh
      BY <1>2 DEF CanClean
    <3> QED BY <3>1, <3>2, CleanArith, ZenonT(30)
  <2>2. DevTypeOK'
    BY <1>2, <2>1, ZenonT(30) DEF DevTypeOK, MemTypeOK, TxBegin, memVars, rxVars
  <2>3. RingsConsistent'
    <3> SUFFICES ASSUME NEW p \in Queues PROVE RingsConsistent!(p)'
      BY DEF RingsConsistent
    <3>1. CASE p = q
      BY <1>2, <2>1, <3>1 DEF DevTypeOK, RingsConsistent, TxBegin, rxVars
    <3>2. CASE p # q
      BY <1>2, <3>2 DEF DevTypeOK, RingsConsistent, TxBegin, rxVars
    <3> QED BY <3>1, <3>2, CleanArith
  <2> QED BY <2>2, <2>3
<1> QED BY <1>1, <1>2 DEF TxBegin

\* Queueing a packet keeps an mbuf for every descriptor in use.
LEMMA TxPacketInv ==
  ASSUME NEW q \in Queues, NEW m \in Mbufs, DevInv, TxPacket(q, m)
  PROVE  /\ DevInv'
         /\ Len(txRing[q]) = NbTxDesc =>
              txRing[q] # <<>> /\ Head(txRing[q]) \in Mbufs
<1> USE DeviceAssumption DEF DevInv
<1> DEFINE full == Len(txRing[q]) = NbTxDesc
           r == Append(IF full THEN Tail(txRing[q]) ELSE txRing[q], m)
<1>1. txRing[q] \in Seq(Mbufs) /\ Len(txRing[q]) <= NbTxDesc /\ NbTxDesc > 0
  BY DEF DevTypeOK, RingsConsistent
<1>2. /\ full => txRing[q] # <<>> /\ Head(txRing[q]) \in Mbufs
      /\ r \in Seq(Mbufs)
      /\ Len(r) = IF full THEN NbTxDesc ELSE Len(txRing[q]) + 1
  BY <1>1
<1>3. txRing' = [txRing EXCEPT ![q] = r]
  BY DEF TxPacket
<1> HIDE DEF r
<1>4. MemTypeOK'
  <2>1. CASE full
    BY <1>2, <2>1, FreeMbufType DEF TxPacket
  <2>2. CASE ~full
    BY <2>2 DEF TxPacket, memVars, DevTypeOK, MemTypeOK
  <2> QED BY <2>1, <2>2
<1> DEFINE clean == nbTxFree[q] = 0
           free == IF clean THEN TxRsThresh - 1 ELSE nbTxFree[q] - 1
           done == IF clean THEN txDone[q] - TxRsThresh ELSE txDone[q]
<1>5. /\ free \in 0..NbTxDesc - 1 /\ done \in 0..NbTxDesc - 1
      /\ free + done < NbTxDesc
      /\ NbTxDesc - 1 - free <= Len(r)
  <2>1. /\ nbTxFree[q] \in 0..NbTxDesc - 1 /\ txDone[q] \in 0..NbTxDesc - 1
        /\ nbTxFree[q] + txDone[q] < NbTxDesc
        /\ NbTxDesc - 1 - nbTxFree[q] <= Len(txRing[q])
        /\ Len(txRing[q]) \in Nat
    BY <1>1 DEF DevTypeOK, RingsConsistent
  <2>2. CASE clean
    <3>1. txDone[q] >= TxRsThresh
      BY <2>1, <2>2 DEF TxPacket, TxRoom, CanClean
    <3>2. free = TxRsThresh - 1 /\ done = txDone[q] - TxRsThresh
      BY <2>2
    <3>3. Len(r) \in Nat
      BY <1>2
    <3>4. NbTxDesc - 1 <= Len(r)
      BY <1>1, <1>2, <2>1, <2>2
    <3>5. txDone[q] \in Nat /\ txDone[q] < NbTxDesc
      BY <2>1
    <3>6. /\ TxRsThresh - 1 \in 0..NbTxDesc - 1
          /\ txDone[q] - TxRsThresh \in 0..NbTxDesc - 1
          /\ (TxRsThresh - 1) + (txDone[q] - TxRsThresh) < NbTxDesc
          /\ NbTxDesc - 1 - (TxRsThresh - 1) <= Len(r)
      BY <3>1, <3>3, <3>4, <3>5, CleanUseArith
    <3> HIDE DEF free, done
    <3> QED BY <3>2, <3>6
  <2>3. CASE ~clean
    <3>1. nbTxFree[q] > 0 /\ free = nbTxFree[q] - 1 /\ done = txDone[q]
      BY <2>1, <2>3
    <3>2. NbTxDesc - nbTxFree[q] <= Len(r)
      BY <1>1, <1>2, <2>1, <3>1
    <3>3. Len(r) \in Nat
      BY <1>2
    <3>4. /\ nbTxFree[q] \in Nat /\ nbTxFree[q] < NbTxDesc
          /\ txDone[q] \in Nat /\ txDone[q] < NbTxDesc
      BY <2>1
    <3>5. /\ nbTxFree[q] - 1 \in 0..NbTxDesc - 1
          /\ txDone[q] \in 0..NbTxDesc - 1
          /\ (nbTxFree[q] - 1) + txDone[q] < NbTxDesc
          /\ NbTxDesc - 1 - (nbTxFree[q] - 1) <= Len(r)
      BY <2>1, <3>1, <3>2, <3>3, <3>4, UseArith
    <3> HIDE DEF free, done
    <3> QED BY <3>1, <3>5
  <2> QED BY <2>2, <2>3
<1>a. /\ nbTxFree' = [nbTxFree EXCEPT ![q] = free]
      /\ txDone' = [txDone EXCEPT ![q] = done]
  BY DEF TxPacket
<1> HIDE DEF free, done
<1>6. UNCHANGED <<rxRing, rxDone, rxHold>>
  BY DEF TxPacket, rxVars
<1>7. DevTypeOK'
  BY <1>2, <1>3, <1>4, <1>5, <1>a, <1>6 DEF DevTypeOK
<1>8. RingsConsistent'
  <2> SUFFICES ASSUME NEW p \in Queues PROVE RingsConsistent!(p)'
    BY DEF RingsConsistent
  <2>1. CASE p = q
    <3>1. Len(r) <= NbTxDesc
      BY <1>1, <1>2
    <3> QED BY <1>3, <1>5, <1>a, <1>6, <2>1, <3>1 DEF RingsConsistent, DevTypeOK
  <2>2. CASE p # q
    BY <1>3, <1>a, <1>6, <2>2 DEF RingsConsistent, DevTypeOK
  <2> QED BY <2>1, <2>2
<1> QED BY <1>2, <1>7, <1>8

-----------------------------------------------------------------------------
(* The mbufs in one ring or list of every queue.                           *)

Elems(s) == UNION {Range(s[q]) : q \in Queues}

Lists == [Queues -> Seq(Mbufs)]

OneEach(s) == \A q, r \in Queues :
  \A i \in 1..Len(s[q]), j \in 1..Len(s[r]) : s[q][i] = s[r][j] => q = r /\ i = j

LEMMA ElemsAt ==
  ASSUME NEW s \in Lists, NEW m
  PROVE  m \in Elems(s) <=> \E q \in Queues : \E i \in 1..Len(s[q]) : s[q][i] = m
<1>1. \A q \in Queues : DOMAIN s[q] = 1..Len(s[q])
  BY DEF Lists
<1> QED BY <1>1 DEF Elems, Range

LEMMA ElemsAppend ==
  ASSUME NEW s \in Lists, NEW q \in Queues, NEW m \in Mbufs
  PROVE  /\ [s EXCEPT ![q] = Append(@, m)] \in Lists
         /\ Elems([s EXCEPT ![q] = Append(@, m)]) = Elems(s) \cup {m}
         /\ OneEach(s) /\ m \notin Elems(s) => OneEach([s EXCEPT ![q] = Append(@, m)])
<1> DEFINE t == [s EXCEPT ![q] = Append(@, m)]
<1>1. t \in Lists
  BY DEF Lists
<1>2. /\ \A r \in Queues : Len(s[r]) \in Nat
      /\ \A r \in Queues : \A i \in 1..Len(s[r]) :
           i \in 1..Len(t[r]) /\ t[r][i] = s[r][i]
      /\ Len(s[q]) + 1 \in 1..Len(t[q]) /\ t[q][Len(s[q]) + 1] = m
      /\ \A r \in Queues : \A i \in 1..Len(t[r]) :
           \/ i \in 1..Len(s[r]) /\ t[r][i] = s[r][i]
           \/ t[r][i] = m
  BY DEF Lists
<1> HIDE DEF t
<1>3. \A n : n \in Elems(t) <=> n \in Elems(s) \/ n = m
  <2> TAKE n
  <2>1. ASSUME n \in Elems(t) PROVE n \in Elems(s) \/ n = m
    <3>1. PICK r \in Queues : \E i \in 1..Len(t[r]) : t[r][i] = n
      BY <1>1, <2>1, ElemsAt
    <3> QED BY <1>2, <3>1, ElemsAt
  <2>2. ASSUME n \in Elems(s) PROVE n \in Elems(t)
    <3>1. PICK r \in Queues : \E i \in 1..Len(s[r]) : s[r][i] = n
      BY <2>2, ElemsAt
    <3> QED BY <1>1, <1>2, <3>1, ElemsAt
  <2>3. m \in Elems(t)
    BY <1>1, <1>2, ElemsAt
  <2> QED BY <2>1, <2>2, <2>3
<1>4. ASSUME OneEach(s), m \notin Elems(s) PROVE OneEach(t)
  <2> SUFFICES ASSUME NEW p \in Queues, NEW r \in Queues,
                      NEW i \in 1..Len(t[p]), NEW j \in 1..Len(t[r]), t[p][i] = t[r][j]
               PROVE  p = r /\ i = j
    BY DEF OneEach
  <2>1. \A a \in Queues : \A k \in 1..Len(t[a]) :
          \/ k \in 1..Len(s[a]) /\ t[a][k] = s[a][k] /\ s[a][k] # m
          \/ a = q /\ k = Len(s[q]) + 1 /\ t[a][k] = m
    <3> SUFFICES ASSUME NEW a \in Queues, NEW k \in 1..Len(t[a])
                 PROVE  \/ k \in 1..Len(s[a]) /\ t[a][k] = s[a][k] /\ s[a][k] # m
                        \/ a = q /\ k = Len(s[q]) + 1 /\ t[a][k] = m
      OBVIOUS
    <3>1. CASE k \in 1..Len(s[a])
      BY <1>2, <1>4, <3>1, ElemsAt
    <3>2. CASE k \notin 1..Len(s[a])
      BY <1>2, <3>2 DEF t, Lists
    <3> QED BY <3>1, <3>2
  <2>2. CASE i \in 1..Len(s[p]) /\ j \in 1..Len(s[r]) /\ t[p][i] # m
    BY <1>2, <1>4, <2>2 DEF OneEach
  <2> QED BY <2>1, <2>2, ZenonT(30)
<1> QED BY <1>1, <1>3, <1>4, ZenonT(30) DEF t

LEMMA ElemsTail ==
  ASSUME NEW s \in Lists, OneEach(s), NEW q \in Queues, s[q] # <<>>
  PROVE  /\ [s EXCEPT ![q] = Tail(@)] \in Lists
         /\ Head(s[q]) \in Elems(s) /\ Head(s[q]) \in Mbufs
         /\ Elems([s EXCEPT ![q] = Tail(@)]) = Elems(s) \ {Head(s[q])}
         /\ OneEach([s EXCEPT ![q] = Tail(@)])
<1> DEFINE t == [s EXCEPT ![q] = Tail(@)]
           m == Head(s[q])
<1>1. /\ t \in Lists
      /\ \A r \in Queues : Len(s[r]) \in Nat
      /\ 1 \in 1..Len(s[q]) /\ m = s[q][1] /\ m \in Mbufs
  BY DEF Lists
<1>2. \A r \in Queues : \A i \in 1..Len(t[r]) :
        LET j == IF r = q THEN i + 1 ELSE i
        IN  j \in 1..Len(s[r]) /\ t[r][i] = s[r][j] /\ (r = q => j # 1)
  BY <1>1 DEF Lists
<1>3. \A r \in Queues : \A i \in 1..Len(s[r]) :
        \/ r = q /\ i = 1
        \/ \E j \in 1..Len(t[r]) : t[r][j] = s[r][i]
  <2> SUFFICES ASSUME NEW r \in Queues, NEW i \in 1..Len(s[r]), ~(r = q /\ i = 1)
               PROVE  \E j \in 1..Len(t[r]) : t[r][j] = s[r][i]
    OBVIOUS
  <2>1. CASE r = q
    <3>1. i - 1 \in 1..Len(t[q]) /\ t[q][i - 1] = s[q][i]
      BY <1>1, <2>1 DEF Lists
    <3> QED BY <2>1, <3>1
  <2>2. CASE r # q
    BY <2>2 DEF Lists
  <2> QED BY <2>1, <2>2
<1> HIDE DEF t, m
<1>4. m \in Elems(s)
  BY <1>1, ElemsAt
<1>5. \A n : n \in Elems(t) => n \in Elems(s) /\ n # m
  <2> SUFFICES ASSUME NEW n, n \in Elems(t) PROVE n \in Elems(s) /\ n # m
    OBVIOUS
  <2>1. PICK r \in Queues : \E i \in 1..Len(t[r]) : t[r][i] = n
    BY <1>1, ElemsAt
  <2>2. PICK j \in 1..Len(s[r]) : n = s[r][j] /\ (r = q => j # 1)
    BY <1>2, <2>1
  <2>3. n # m
    BY <1>1, <2>2 DEF OneEach
  <2> QED BY <2>2, <2>3, ElemsAt
<1>6. \A n : n \in Elems(s) /\ n # m => n \in Elems(t)
  BY <1>1, <1>3, ElemsAt
<1>7. OneEach(t)
  <2> SUFFICES ASSUME NEW p \in Queues, NEW r \in Queues,
                      NEW i \in 1..Len(t[p]), NEW j \in 1..Len(t[r]), t[p][i] = t[r][j]
               PROVE  p = r /\ i = j
    BY DEF OneEach
  <2> DEFINE a == IF p = q THEN i + 1 ELSE i
             b == IF r = q THEN j + 1 ELSE j
  <2>1. /\ a \in 1..Len(s[p]) /\ t[p][i] = s[p][a]
        /\ b \in 1..Len(s[r]) /\ t[r][j] = s[r][b]
    BY <1>2
  <2> HIDE DEF a, b
  <2>2. p = r /\ a = b
    <3>1. \A k \in 1..Len(s[p]), l \in 1..Len(s[r]) : s[p][k] = s[r][l] => p = r /\ k = l
      BY DEF OneEach
    <3> QED BY <2>1, <3>1, ZenonT(30)
  <2>3. i \in Int /\ j \in Int
    OBVIOUS
  <2> QED BY <2>2, <2>3 DEF a, b
<1> QED BY <1>1, <1>4, <1>5, <1>6, <1>7, ZenonT(30) DEF t, m

LEMMA ElemsClear ==
  ASSUME NEW s \in Lists, OneEach(s), NEW q \in Queues
  PROVE  /\ [s EXCEPT ![q] = <<>>] \in Lists
         /\ Range(s[q]) \subseteq Elems(s)
         /\ Elems([s EXCEPT ![q] = <<>>]) = Elems(s) \ Range(s[q])
         /\ OneEach([s EXCEPT ![q] = <<>>])
<1> DEFINE t == [s EXCEPT ![q] = <<>>]
<1>1. /\ t \in Lists
      /\ \A r \in Queues : Len(t[r]) = IF r = q THEN 0 ELSE Len(s[r])
      /\ \A r \in Queues : r # q => t[r] = s[r]
  BY DEF Lists
<1>2. \A n : n \in Range(s[q]) <=> \E i \in 1..Len(s[q]) : s[q][i] = n
  BY DEF Lists, Range
<1> HIDE DEF t
<1>3. \A n : n \in Elems(t) <=> n \in Elems(s) /\ n \notin Range(s[q])
  BY <1>1, <1>2, ElemsAt DEF OneEach
<1>4. Range(s[q]) \subseteq Elems(s)
  BY DEF Elems
<1>5. OneEach(t)
  BY <1>1 DEF OneEach
<1> QED BY <1>1, <1>3, <1>4, <1>5, ZenonT(30) DEF t

\* List q of s, which is empty, becomes list q of u.
LEMMA ElemsMove ==
  ASSUME NEW s \in Lists, NEW u \in Lists, OneEach(s), OneEach(u),
         Elems(s) \cap Elems(u) = {}, NEW q \in Queues, s[q] = <<>>
  PROVE  /\ [s EXCEPT ![q] = u[q]] \in Lists
         /\ Elems([s EXCEPT ![q] = u[q]]) = Elems(s) \cup Range(u[q])
         /\ OneEach([s EXCEPT ![q] = u[q]])
<1> DEFINE t == [s EXCEPT ![q] = u[q]]
<1>1. /\ t \in Lists /\ t[q] = u[q]
      /\ \A r \in Queues : r # q => t[r] = s[r]
  BY DEF Lists
<1>2. \A n : n \in Range(u[q]) <=> \E i \in 1..Len(u[q]) : u[q][i] = n
  BY DEF Lists, Range
<1>3. Len(s[q]) = 0
  OBVIOUS
<1> HIDE DEF t
<1>4. \A n : n \in Elems(t) => n \in Elems(s) \/ n \in Range(u[q])
  BY <1>1, <1>2, ElemsAt
<1>5. \A n : n \in Range(u[q]) => n \in Elems(t)
  BY <1>1, <1>2, ElemsAt
<1>6. \A n : n \in Elems(s) => n \in Elems(t)
  <2> SUFFICES ASSUME NEW n, n \in Elems(s) PROVE n \in Elems(t)
    OBVIOUS
  <2>1. PICK r \in Queues : \E i \in 1..Len(s[r]) : s[r][i] = n
    BY ElemsAt
  <2>2. r # q
    BY <1>3, <2>1
  <2> QED BY <1>1, <2>1, <2>2, ElemsAt
<1>7. OneEach(t)
  <2> SUFFICES ASSUME NEW p \in Queues, NEW r \in Queues,
                      NEW i \in 1..Len(t[p]), NEW j \in 1..Len(t[r]), t[p][i] = t[r][j]
               PROVE  p = r /\ i = j
    BY DEF OneEach
  <2>1. \A a \in Queues : \A k \in 1..Len(t[a]) :
          IF a = q THEN t[a][k] \in Elems(u) ELSE t[a][k] \in Elems(s)
    BY <1>1, ElemsAt
  <2>2. CASE p = q /\ r = q
    BY <1>1, <2>2 DEF OneEach
  <2>3. CASE p # q /\ r # q
    BY <1>1, <2>3 DEF OneEach
  <2>4. (p = q) <=> (r = q)
    BY <2>1
  <2> QED BY <2>2, <2>3, <2>4
<1> QED BY <1>1, <1>4, <1>5, <1>6, <1>7, ZenonT(30) DEF t

=============================================================================
