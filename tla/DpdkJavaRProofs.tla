--------------------------- MODULE DpdkJavaRProofs ---------------------------
(***************************************************************************)
(* Proofs about DpdkJavaR for any number of queues, mbufs and descriptors, *)
(* any burst sizes and any thresholds the driver accepts: lists and rings, *)
(* ownership, and that it implements MbufLife.                             *)
(***************************************************************************)
EXTENDS DpdkJavaR, EthDevProofs

\* A leaf names Zenon where it needs no arithmetic.
USE SMTT(30), ZenonT(30)

-----------------------------------------------------------------------------
(* Families of sequences that share no element.  The ownership argument is *)
(* about moving one mbuf between two of them.                              *)

Unique(h) == \A x, y \in DOMAIN h :
  \A i \in 1..Len(h[x]), j \in 1..Len(h[y]) :
    h[x][i] = h[y][j] => x = y /\ i = j

Fresh(h, m) == \A x \in DOMAIN h : \A i \in 1..Len(h[x]) : h[x][i] # m

Pop(h, a)     == [h EXCEPT ![a] = Tail(@)]
Push(h, a, m) == [h EXCEPT ![a] = Append(@, m)]
Clear(h, a)   == [h EXCEPT ![a] = <<>>]

\* Taking the head off one sequence keeps the family free of repetition,
\* and nothing refers to the element taken any more.
LEMMA PopUnique ==
  ASSUME NEW S, NEW M, NEW h \in [S -> Seq(M)], Unique(h),
         NEW a \in S, h[a] # <<>>
  PROVE  /\ Pop(h, a) \in [S -> Seq(M)]
         /\ Unique(Pop(h, a))
         /\ Head(h[a]) \in M
         /\ ~Fresh(h, Head(h[a]))
         /\ Fresh(Pop(h, a), Head(h[a]))
         /\ \A m : Fresh(h, m) => Fresh(Pop(h, a), m)
<1> DEFINE g == [h EXCEPT ![a] = Tail(@)]
<1>1. /\ g \in [S -> Seq(M)]
      /\ Head(h[a]) = h[a][1]
      /\ Len(h[a]) \in Nat /\ Len(h[a]) > 0
      /\ h[a][1] \in M
  OBVIOUS
<1>2. \A x \in S : \A i \in 1..Len(g[x]) :
        g[x][i] = h[x][IF x = a THEN i + 1 ELSE i]
        /\ (IF x = a THEN i + 1 ELSE i) \in 1..Len(h[x])
  BY <1>1
<1>3. Unique(g)
  BY <1>1, <1>2 DEF Unique
<1>4. Fresh(g, Head(h[a]))
  BY <1>1, <1>2 DEF Unique, Fresh
<1>5. \A m : Fresh(h, m) => Fresh(g, m)
  BY <1>1, <1>2 DEF Fresh
<1>6. ~Fresh(h, Head(h[a]))
  BY <1>1 DEF Fresh
<1> QED BY <1>1, <1>3, <1>4, <1>5, <1>6, ZenonT(30) DEF Pop

\* Appending an element nothing refers to keeps the family free of
\* repetition.
LEMMA PushUnique ==
  ASSUME NEW S, NEW M, NEW h \in [S -> Seq(M)], Unique(h),
         NEW a \in S, NEW m \in M, Fresh(h, m)
  PROVE  /\ Push(h, a, m) \in [S -> Seq(M)]
         /\ Unique(Push(h, a, m))
         /\ \A n : Fresh(h, n) /\ n # m => Fresh(Push(h, a, m), n)
<1> DEFINE g == [h EXCEPT ![a] = Append(@, m)]
<1>1. g \in [S -> Seq(M)]
  OBVIOUS
<1>2. \A x \in S : Len(h[x]) \in Nat
  OBVIOUS
<1>3. \A x \in S : \A i \in 1..Len(g[x]) :
        \/ i \in 1..Len(h[x]) /\ g[x][i] = h[x][i]
        \/ x = a /\ i = Len(h[x]) + 1 /\ g[x][i] = m
  BY <1>1, <1>2
<1>4. Unique(g)
  BY <1>1, <1>2, <1>3 DEF Unique, Fresh
<1>5. \A n : Fresh(h, n) /\ n # m => Fresh(g, n)
  BY <1>1, <1>2, <1>3 DEF Fresh
<1> QED BY <1>1, <1>4, <1>5, ZenonT(30) DEF Push

\* Emptying one sequence keeps the family free of repetition.
LEMMA ClearUnique ==
  ASSUME NEW S, NEW M, NEW h \in [S -> Seq(M)], Unique(h), NEW a \in S
  PROVE  /\ Clear(h, a) \in [S -> Seq(M)]
         /\ Unique(Clear(h, a))
         /\ \A n : Fresh(h, n) => Fresh(Clear(h, a), n)
<1> DEFINE g == [h EXCEPT ![a] = <<>>]
<1>1. g \in [S -> Seq(M)]
  OBVIOUS
<1>2. \A x \in S : Len(g[x]) = IF x = a THEN 0 ELSE Len(h[x])
  BY ZenonT(30)
<1>3. \A x \in S : x # a => g[x] = h[x]
  BY ZenonT(30)
<1> QED BY <1>1, <1>2, <1>3 DEF Unique, Fresh, Clear

-----------------------------------------------------------------------------
(* Types, rings and lists.                                                 *)

AppTypeOK ==
  /\ pc \in [Queues -> Locations]
  /\ burst \in [Queues -> Seq(Mbufs)]
  /\ sendList \in [Queues -> Seq(Mbufs)]
  /\ freeList \in [Queues -> Seq(Mbufs)]

TInv == DevInv /\ AppTypeOK /\ ListsFit

LEMMA TypeSplit == TInv => TypeOK /\ RingsConsistent /\ ListsFit
  BY ZenonT(30) DEF TInv, DevInv, AppTypeOK, TypeOK

LEMMA InitTInv == Init => TInv
<1> SUFFICES ASSUME Init PROVE TInv
  BY ZenonT(30)
<1>1. DevInv
  BY DevInitInv, ZenonT(30) DEF Init
<1>2. AppTypeOK /\ ListsFit
  BY BurstAssumption DEF Init, AppTypeOK, ListsFit, Locations
<1> QED BY <1>1, <1>2, ZenonT(30) DEF TInv

\* One list changes at q; the others and every other queue stay as they are.
LEMMA ReceiveTInv ==
  ASSUME NEW q \in Queues, TInv, Receive(q)
  PROVE  TInv' /\ rxRing[q] # <<>> /\ Head(rxRing[q]) \in Mbufs
<1> USE DEF TInv
<1>1. PICK nmb \in pool : RxPacket(q, nmb)
  BY ZenonT(30) DEF Receive
<1>2. DevInv' /\ rxRing[q] # <<>> /\ Head(rxRing[q]) \in Mbufs
  BY <1>1, RxPacketInv, ZenonT(30)
<1>3. /\ burst' = [burst EXCEPT ![q] = Append(@, Head(rxRing[q]))]
      /\ Len(burst[q]) < RxBurst
      /\ UNCHANGED <<pc, sendList, freeList>>
  BY ZenonT(30) DEF Receive
<1>4. AppTypeOK'
  BY <1>2, <1>3 DEF AppTypeOK
<1>5. ListsFit'
  BY <1>2, <1>3, BurstAssumption DEF ListsFit, AppTypeOK
<1> QED BY <1>2, <1>4, <1>5, ZenonT(30)

LEMMA GotBurstTInv ==
  ASSUME NEW q \in Queues, TInv, GotBurst(q)
  PROVE  TInv'
<1> USE DEF TInv
<1>1. DevInv'
  BY RxReturnInv, ZenonT(30) DEF GotBurst
<1>2. AppTypeOK'
  BY ZenonT(30) DEF AppTypeOK, GotBurst, Goto, Locations
<1>3. ListsFit'
  BY ZenonT(30) DEF ListsFit, AppTypeOK, GotBurst, Goto
<1> QED BY <1>1, <1>2, <1>3, ZenonT(30)

LEMMA InspectTInv ==
  ASSUME NEW q \in Queues, TInv, Inspect(q)
  PROVE  TInv' /\ Head(burst[q]) \in Mbufs
<1> USE DEF TInv
<1> DEFINE m == Head(burst[q])
<1>1. DevInv'
  BY DevStutterInv, ZenonT(30) DEF Inspect
<1>2. /\ burst[q] \in Seq(Mbufs) /\ burst[q] # <<>>
      /\ pc[q] = "inspect"
      /\ burst' = [burst EXCEPT ![q] = Tail(@)]
  BY ZenonT(30) DEF Inspect, AppTypeOK
<1>3. /\ m \in Mbufs /\ Tail(burst[q]) \in Seq(Mbufs)
      /\ Len(Tail(burst[q])) = Len(burst[q]) - 1
      /\ Len(burst[q]) \in Nat
  BY <1>2
<1>4. CASE SendPacket(q, m)
  <2>1. AppTypeOK'
    BY <1>2, <1>3, <1>4 DEF AppTypeOK, SendPacket, Goto, Locations
  <2>2. ListsFit'
    BY <1>2, <1>3, <1>4, BurstAssumption DEF AppTypeOK, ListsFit, SendPacket, Goto
  <2> QED BY <1>1, <1>3, <2>1, <2>2, ZenonT(30)
<1>5. CASE FreePacket(q, m)
  <2>1. AppTypeOK'
    BY <1>2, <1>3, <1>5 DEF AppTypeOK, FreePacket, Goto, Locations
  <2>2. ListsFit'
    BY <1>2, <1>3, <1>5, BurstAssumption DEF AppTypeOK, ListsFit, FreePacket, Goto
  <2> QED BY <1>1, <1>3, <2>1, <2>2, ZenonT(30)
<1> QED BY <1>4, <1>5, ZenonT(30) DEF Inspect

LEMMA BeginSendTInv ==
  ASSUME NEW q \in Queues, TInv, BeginSend(q)
  PROVE  TInv'
<1> USE DEF TInv
<1>1. DevInv'
  BY TxBeginInv, ZenonT(30) DEF BeginSend
<1>2. AppTypeOK'
  BY ZenonT(30) DEF AppTypeOK, BeginSend, Goto, Locations
<1>3. ListsFit'
  BY ZenonT(30) DEF ListsFit, AppTypeOK, BeginSend, Goto
<1> QED BY <1>1, <1>2, <1>3, ZenonT(30)

LEMMA TransmitTInv ==
  ASSUME NEW q \in Queues, TInv, Transmit(q)
  PROVE  /\ TInv' /\ Head(sendList[q]) \in Mbufs
         /\ Len(txRing[q]) = NbTxDesc =>
              txRing[q] # <<>> /\ Head(txRing[q]) \in Mbufs
<1> USE DEF TInv
<1>1. /\ sendList[q] \in Seq(Mbufs) /\ sendList[q] # <<>>
      /\ pc[q] = "xmit"
      /\ sendList' = [sendList EXCEPT ![q] = Tail(@)]
      /\ TxPacket(q, Head(sendList[q]))
      /\ UNCHANGED <<pc, burst, freeList>>
  BY ZenonT(30) DEF Transmit, AppTypeOK
<1>2. /\ Head(sendList[q]) \in Mbufs
      /\ Tail(sendList[q]) \in Seq(Mbufs)
      /\ Len(Tail(sendList[q])) = Len(sendList[q]) - 1
      /\ Len(sendList[q]) \in Nat
  BY <1>1
<1>3. /\ DevInv'
      /\ Len(txRing[q]) = NbTxDesc =>
           txRing[q] # <<>> /\ Head(txRing[q]) \in Mbufs
  BY <1>1, <1>2, TxPacketInv, ZenonT(30)
<1>4. AppTypeOK'
  BY <1>1, <1>2, ZenonT(30) DEF AppTypeOK
<1>5. ListsFit'
  BY <1>1, <1>2, BurstAssumption DEF AppTypeOK, ListsFit
<1> QED BY <1>2, <1>3, <1>4, <1>5, ZenonT(30)

LEMMA SentTInv ==
  ASSUME NEW q \in Queues, TInv, Sent(q)
  PROVE  TInv'
<1> USE DEF TInv
<1>1. DevInv'
  BY DevStutterInv, ZenonT(30) DEF Sent
<1>2. AppTypeOK'
  BY DEF AppTypeOK, Sent, Goto, Locations
<1>3. ListsFit'
  BY BurstAssumption DEF ListsFit, AppTypeOK, Sent, Goto
<1> QED BY <1>1, <1>2, <1>3, ZenonT(30)

LEMMA FreeTInv ==
  ASSUME NEW q \in Queues, TInv, Free(q)
  PROVE  TInv' /\ Head(freeList[q]) \in Mbufs
<1> USE DEF TInv
<1>1. /\ freeList[q] \in Seq(Mbufs) /\ freeList[q] # <<>>
      /\ pc[q] = "free"
      /\ freeList' = [freeList EXCEPT ![q] = Tail(@)]
      /\ UNCHANGED <<pc, burst, sendList>>
  BY ZenonT(30) DEF Free, AppTypeOK
<1>2. /\ Head(freeList[q]) \in Mbufs
      /\ Tail(freeList[q]) \in Seq(Mbufs)
      /\ Len(Tail(freeList[q])) = Len(freeList[q]) - 1
      /\ Len(freeList[q]) \in Nat
  BY <1>1
<1>3. DevInv'
  BY <1>2, FreeMbufInv, ZenonT(30) DEF Free
<1>4. AppTypeOK'
  BY <1>1, <1>2, ZenonT(30) DEF AppTypeOK
<1>5. ListsFit'
  BY <1>1, <1>2, BurstAssumption DEF AppTypeOK, ListsFit
<1> QED BY <1>2, <1>3, <1>4, <1>5, ZenonT(30)

\* The steps that only move the program counter.
LEMMA IdleTInv ==
  ASSUME NEW q \in Queues, TInv, Inspected(q) \/ Freed(q)
  PROVE  TInv'
<1> USE DEF TInv
<1>1. DevInv'
  BY DevStutterInv, ZenonT(30) DEF Inspected, Freed
<1>2. AppTypeOK'
  BY ZenonT(30) DEF AppTypeOK, Inspected, Freed, Goto, Locations
<1>3. ListsFit'
  BY BurstAssumption DEF ListsFit, AppTypeOK, Inspected, Freed, Goto
<1> QED BY <1>1, <1>2, <1>3, ZenonT(30)

LEMMA NicTInv ==
  ASSUME NEW q \in Queues, TInv, Nic(q)
  PROVE  TInv'
<1> USE DEF TInv
<1>1. DevInv'
  BY NicReceiveInv, NicTransmitInv, ZenonT(30) DEF Nic
<1>2. AppTypeOK' /\ ListsFit'
  BY ZenonT(30) DEF Nic, appVars, AppTypeOK, ListsFit
<1> QED BY <1>1, <1>2, ZenonT(30)

LEMMA NextTInv == TInv /\ [Next]_vars => TInv'
<1> SUFFICES ASSUME TInv, [Next]_vars PROVE TInv'
  BY ZenonT(30)
<1>1. CASE UNCHANGED vars
  <2>1. DevInv'
    BY <1>1, DevStutterInv, ZenonT(30) DEF vars, TInv
  <2>2. AppTypeOK' /\ ListsFit'
    BY <1>1, ZenonT(30) DEF vars, appVars, TInv, AppTypeOK, ListsFit
  <2> QED BY <2>1, <2>2, ZenonT(30) DEF TInv
<1>2. ASSUME NEW q \in Queues, Processor(q) PROVE TInv'
  BY <1>2, ReceiveTInv, GotBurstTInv, InspectTInv, BeginSendTInv, TransmitTInv,
     SentTInv, FreeTInv, IdleTInv, ZenonT(30) DEF Processor
<1>3. ASSUME NEW q \in Queues, Nic(q) PROVE TInv'
  BY <1>3, NicTInv, ZenonT(30)
<1> QED BY <1>1, <1>2, <1>3, ZenonT(30) DEF Next

(***************************************************************************)
(* The variables keep their types, the driver's counters always describe   *)
(* its rings, and no list outgrows the native buffer that holds it.        *)
(***************************************************************************)
THEOREM ListsNeverOverflow == Spec => [](TypeOK /\ RingsConsistent /\ ListsFit)
<1>1. Spec => []TInv
  BY InitTInv, NextTInv, PTL DEF Spec
<1> QED BY <1>1, TypeSplit, PTL

(***************************************************************************)
(* With any number of processor threads, nb_rx_hold and nb_tx_free of the  *)
(* em driver always describe its rings: every receive descriptor has an    *)
(* mbuf, RDT never meets RDH, and every descriptor counted as used has its *)
(* mbuf in the transmit ring.                                              *)
(***************************************************************************)
THEOREM RingsStayConsistent == Spec => []RingsConsistent
BY ListsNeverOverflow, PTL

-----------------------------------------------------------------------------
(* Ownership.                                                              *)

Slots == Queues \X Places

LEMMA HoldingAt == \A q \in Queues :
  /\ Holding[<<q, "rx">>] = rxRing[q]
  /\ Holding[<<q, "burst">>] = burst[q]
  /\ Holding[<<q, "send">>] = sendList[q]
  /\ Holding[<<q, "free">>] = freeList[q]
  /\ Holding[<<q, "tx">>] = txRing[q]
  BY ZenonT(30) DEF Holding, Held, Places

LEMMA HoldingType == TInv => Holding \in [Slots -> Seq(Mbufs)]
<1> SUFFICES ASSUME TInv, NEW q \in Queues, NEW pl \in Places
             PROVE  Held(q, pl) \in Seq(Mbufs)
  BY ZenonT(30) DEF Holding, Slots
<1> QED BY ZenonT(30) DEF TInv, DevInv, DevTypeOK, AppTypeOK, Held, Places

\* Nothing refers to a free mbuf.
Owned(h, P) == Unique(h) /\ \A m \in P : Fresh(h, m)

LEMMA OwnershipIsOwned == ExclusiveOwnership <=> Owned(Holding, pool)
  BY DEF ExclusiveOwnership, Owned, Unique, Fresh, Holding

Family == [Slots -> Seq(Mbufs)]

LEMMA PushFamily ==
  ASSUME NEW g \in Family, Unique(g), NEW b \in Slots,
         NEW m \in Mbufs, Fresh(g, m)
  PROVE  /\ Push(g, b, m) \in Family /\ Unique(Push(g, b, m))
         /\ \A n : Fresh(g, n) /\ n # m => Fresh(Push(g, b, m), n)
  BY PushUnique DEF Family

\* Moving the head of one sequence to the end of another.
LEMMA MoveOwned ==
  ASSUME NEW h \in Family, NEW P, Owned(h, P),
         NEW a \in Slots, NEW b \in Slots, h[a] # <<>>
  PROVE  /\ Push(Pop(h, a), b, Head(h[a])) \in Family
         /\ Owned(Push(Pop(h, a), b, Head(h[a])), P)
<1> DEFINE m == Head(h[a])
           g == Pop(h, a)
<1>1. /\ g \in Family /\ Unique(g) /\ m \in Mbufs /\ ~Fresh(h, m)
      /\ Fresh(g, m) /\ \A n : Fresh(h, n) => Fresh(g, n)
  BY PopUnique, ZenonT(30) DEF Family, Owned
<1> HIDE DEF m, g
<1>2. /\ Push(g, b, m) \in Family /\ Unique(Push(g, b, m))
      /\ \A n : Fresh(g, n) /\ n # m => Fresh(Push(g, b, m), n)
  BY <1>1, PushFamily, ZenonT(30)
<1>3. \A n \in P : Fresh(Push(g, b, m), n)
  BY <1>1, <1>2, ZenonT(30) DEF Owned
<1>4. /\ Push(g, b, m) \in Family
      /\ Owned(Push(g, b, m), P)
  BY <1>2, <1>3, ZenonT(30) DEF Owned
<1> QED BY <1>4, ZenonT(30) DEF m, g

\* Returning the head of a sequence to the pool.
LEMMA GiveOwned ==
  ASSUME NEW h \in Family, NEW P, Owned(h, P), NEW a \in Slots, h[a] # <<>>
  PROVE  Pop(h, a) \in Family /\ Owned(Pop(h, a), P \cup {Head(h[a])})
<1> DEFINE m == Head(h[a])
           g == Pop(h, a)
<1>1. /\ g \in Family /\ Unique(g)
      /\ Fresh(g, m) /\ \A n : Fresh(h, n) => Fresh(g, n)
  BY PopUnique, ZenonT(30) DEF Family, Owned
<1> HIDE DEF m, g
<1>2. g \in Family /\ Owned(g, P \cup {m})
  BY <1>1, ZenonT(30) DEF Owned
<1> QED BY <1>2, ZenonT(30) DEF m, g

\* Taking a free mbuf into a sequence.
LEMMA TakeOwned ==
  ASSUME NEW h \in Family, NEW P, Owned(h, P), NEW a \in Slots,
         NEW m \in P, m \in Mbufs
  PROVE  Push(h, a, m) \in Family /\ Owned(Push(h, a, m), P \ {m})
<1> DEFINE g == Push(h, a, m)
<1>1. /\ g \in Family /\ Unique(g)
      /\ \A n : Fresh(h, n) /\ n # m => Fresh(g, n)
  BY PushUnique DEF Family, Owned
<1> HIDE DEF g
<1>2. g \in Family /\ Owned(g, P \ {m})
  BY <1>1, ZenonT(30) DEF Owned
<1> QED BY <1>2, ZenonT(30) DEF g

LEMMA ClearOwned ==
  ASSUME NEW h \in Family, NEW P, Owned(h, P), NEW a \in Slots
  PROVE  Clear(h, a) \in Family /\ Owned(Clear(h, a), P)
<1> DEFINE g == Clear(h, a)
<1>1. /\ g \in Family /\ Unique(g)
      /\ \A n : Fresh(h, n) => Fresh(g, n)
  BY ClearUnique, ZenonT(30) DEF Family, Owned
<1> HIDE DEF g
<1>2. g \in Family /\ Owned(g, P)
  BY <1>1, ZenonT(30) DEF Owned
<1> QED BY <1>2, ZenonT(30) DEF g

OInv == TInv /\ Owned(Holding, pool) /\ RefcntsExact

LEMMA InitOInv == Init => OInv
<1> SUFFICES ASSUME Init PROVE OInv
  BY ZenonT(30)
<1>1. TInv
  BY InitTInv, ZenonT(30)
<1>2. \A x \in Slots : Holding[x] = IF x[2] = "rx" THEN rxRing[x[1]] ELSE <<>>
  BY ZenonT(30) DEF Init, DevInit, Holding, Held, Slots, Places
<1>3. \A x \in Slots : \A i \in 1..Len(Holding[x]) :
        x = <<x[1], "rx">> /\ x[1] \in Queues /\ i \in 1..NbRxDesc(x[1])
        /\ Holding[x][i] = rxRing[x[1]][i]
  BY <1>2 DEF Init, DevInit, Slots, NbRxDesc
<1>4. DOMAIN Holding = Slots
  BY ZenonT(30) DEF Holding, Slots
<1>5. /\ \A q, r \in Queues : \A i \in 1..NbRxDesc(q), j \in 1..NbRxDesc(r) :
           rxRing[q][i] = rxRing[r][j] => q = r /\ i = j
      /\ \A q \in Queues : \A i \in 1..NbRxDesc(q) : rxRing[q][i] \notin pool
  <2>1. \A q \in Queues : DOMAIN rxRing[q] = 1..NbRxDesc(q)
    BY DeviceAssumption DEF Init, DevInit, NbRxDesc
  <2>2. \A q \in Queues : \A i \in 1..NbRxDesc(q) : rxRing[q][i] \in Range(rxRing[q])
    BY <2>1, ZenonT(30) DEF Range
  <2>3. pool = Mbufs \ UNION {Range(rxRing[q]) : q \in Queues}
    BY ZenonT(30) DEF Init, DevInit
  <2>4. \A q \in Queues : \A i \in 1..NbRxDesc(q) : rxRing[q][i] \notin pool
    BY <2>2, <2>3, ZenonT(30)
  <2> QED BY <2>4, DeviceAssumption DEF Init, DevInit
<1>6. Unique(Holding)
  <2> SUFFICES ASSUME NEW x \in Slots, NEW y \in Slots,
                      NEW i \in 1..Len(Holding[x]), NEW j \in 1..Len(Holding[y]),
                      Holding[x][i] = Holding[y][j]
               PROVE  x = y /\ i = j
    BY <1>4, ZenonT(30) DEF Unique
  <2>1. x[1] = y[1] /\ i = j
    BY <1>3, <1>5
  <2>2. x = <<x[1], "rx">> /\ y = <<y[1], "rx">>
    BY <1>3, ZenonT(30)
  <2> QED BY <2>1, <2>2, ZenonT(30)
<1>7. \A m \in pool : Fresh(Holding, m)
  BY <1>3, <1>4, <1>5 DEF Fresh
<1>8. RefcntsExact
  BY ZenonT(30) DEF Init, DevInit, RefcntsExact
<1> QED BY <1>1, <1>6, <1>7, <1>8, ZenonT(30) DEF OInv, Owned

\* The next Holding is the family that has the next value of each place.
LEMMA NextHolding ==
  ASSUME NEW g \in Family,
         \A r \in Queues, pl \in Places : Held(r, pl)' = g[<<r, pl>>]
  PROVE  Holding' = g
<1>1. g = [x \in Slots |-> g[x]]
  BY ZenonT(30) DEF Family
<1>2. \A x \in Slots : g[x] = Held(x[1], x[2])'
  BY DEF Slots
<1>3. Holding' = [x \in Slots |-> Held(x[1], x[2])']
  BY ZenonT(30) DEF Holding, Slots
<1> QED BY <1>1, <1>2, <1>3, ZenonT(30)

LEMMA FamilyAt ==
  ASSUME NEW h \in Family, NEW a \in Slots, NEW m, NEW x \in Slots
  PROVE  /\ Push(h, a, m)[x] = IF x = a THEN Append(h[x], m) ELSE h[x]
         /\ Pop(h, a)[x] = IF x = a THEN Tail(h[x]) ELSE h[x]
         /\ Clear(h, a)[x] = IF x = a THEN <<>> ELSE h[x]
  BY ZenonT(30) DEF Family, Push, Pop, Clear

LEMMA SlotOf == \A q \in Queues, r \in Queues : \A pl \in Places, pk \in Places :
  <<q, pl>> \in Slots /\ (<<q, pl>> = <<r, pk>> <=> q = r /\ pl = pk)
  BY ZenonT(30) DEF Slots

\* The filled mbuf moves from the receive ring to the burst, and a free one
\* takes its place.
LEMMA ReceiveOInv == ASSUME OInv, NEW q \in Queues, Receive(q)
                     PROVE  Owned(Holding, pool)'
<1> DEFINE rx == <<q, "rx">>
           bu == <<q, "burst">>
           m  == Head(rxRing[q])
<1>1. PICK nmb \in pool : RxPacket(q, nmb)
  BY ZenonT(30) DEF Receive
<1>2. /\ Holding \in Family /\ Owned(Holding, pool) /\ TInv
      /\ rx \in Slots /\ bu \in Slots
      /\ Holding[rx] = rxRing[q] /\ Holding[bu] = burst[q]
      /\ rxRing[q] # <<>> /\ nmb \in Mbufs
  <2>1. Len(rxRing[q]) > 0
    BY DeviceAssumption DEF OInv, TInv, DevInv, RingsConsistent
  <2>2. nmb \in Mbufs
    BY ZenonT(30) DEF OInv, TInv, DevInv, DevTypeOK, MemTypeOK
  <2>3. rx \in Slots /\ bu \in Slots
    BY SlotOf, ZenonT(30) DEF Places
  <2>4. Holding \in Family
    BY HoldingType, ZenonT(30) DEF OInv, Family
  <2>5. rxRing[q] # <<>>
    BY <2>1
  <2> QED BY <2>2, <2>3, <2>4, <2>5, HoldingAt, ZenonT(30) DEF OInv
<1>3. /\ pool' = pool \ {nmb}
      /\ \A r \in Queues :
           /\ rxRing'[r] = IF r = q THEN Append(Tail(rxRing[r]), nmb) ELSE rxRing[r]
           /\ burst'[r] = IF r = q THEN Append(burst[r], m) ELSE burst[r]
           /\ sendList'[r] = sendList[r] /\ freeList'[r] = freeList[r]
           /\ txRing'[r] = txRing[r]
  BY <1>1, <1>2, ZenonT(30) DEF Receive, RxPacket, txVars, TInv, DevInv, DevTypeOK, AppTypeOK
<1> DEFINE g == Push(Pop(Holding, rx), bu, m)
           k == Push(g, rx, nmb)
<1>4. g \in Family /\ Owned(g, pool)
  BY <1>2, MoveOwned, ZenonT(30)
<1>5. Pop(Holding, rx) \in Family
  BY <1>2, GiveOwned, ZenonT(30)
<1>6. \A r \in Queues, pl \in Places : Held(r, pl)' = k[<<r, pl>>]
  <2> SUFFICES ASSUME NEW r \in Queues, NEW pl \in Places
               PROVE  Held(r, pl)' = k[<<r, pl>>]
    BY ZenonT(30)
  <2> DEFINE x == <<r, pl>>
  <2>1. x \in Slots /\ (x = rx <=> r = q /\ pl = "rx")
        /\ (x = bu <=> r = q /\ pl = "burst")
    BY SlotOf, ZenonT(30) DEF Places
  <2> HIDE DEF x, rx, bu, m
  <2>2. k[x] = IF x = rx THEN Append(g[x], nmb) ELSE g[x]
    BY <1>2, <1>4, <2>1, FamilyAt
  <2>3. g[x] = IF x = bu THEN Append(Pop(Holding, rx)[x], m) ELSE Pop(Holding, rx)[x]
    BY <1>2, <1>5, <2>1, FamilyAt
  <2>4. Pop(Holding, rx)[x] = IF x = rx THEN Tail(Holding[x]) ELSE Holding[x]
    BY <1>2, <2>1, FamilyAt
  <2>5. Holding[x] = Held(r, pl)
    BY HoldingAt, ZenonT(30) DEF x, Places, Held
  <2> HIDE DEF k, g
  <2> QED BY <1>3, <2>1, <2>2, <2>3, <2>4, <2>5 DEF Places, Held, x
<1> HIDE DEF g, rx, bu, m
<1>7. k \in Family /\ Owned(k, pool \ {nmb})
  BY <1>2, <1>4, TakeOwned, ZenonT(30)
<1> HIDE DEF k
<1>8. Holding' = k
  BY <1>6, <1>7, NextHolding, ZenonT(30)
<1> QED BY <1>3, <1>7, <1>8, ZenonT(30)

\* Starting from h, place pa of q loses its head to the end of place pb.
Moved(h, q, pa, pb) == \A r \in Queues, pl \in Places : Held(r, pl)' =
  IF r = q /\ pl = pa THEN Tail(h[<<q, pa>>])
  ELSE IF r = q /\ pl = pb
    THEN Append(h[<<q, pb>>], Head(h[<<q, pa>>]))
    ELSE h[<<r, pl>>]

\* What an action that moves an mbuf between two lists of one queue keeps.
LEMMA MoveOInv ==
  ASSUME NEW h \in Family, NEW P, Owned(h, P),
         NEW q \in Queues, NEW pa \in Places, NEW pb \in Places, pa # pb,
         h[<<q, pa>>] # <<>>, pool' = P, Moved(h, q, pa, pb)
  PROVE  Owned(Holding, pool)'
<1> DEFINE a == <<q, pa>>
           b == <<q, pb>>
           m == Head(h[a])
           g == Pop(h, a)
           k == Push(g, b, m)
<1>1. a \in Slots /\ b \in Slots
  BY SlotOf, ZenonT(30)
<1>2. g \in Family /\ k \in Family /\ Owned(k, P)
  BY <1>1, MoveOwned, GiveOwned, ZenonT(30)
<1>3. \A r \in Queues, pl \in Places : Held(r, pl)' = k[<<r, pl>>]
  <2> SUFFICES ASSUME NEW r \in Queues, NEW pl \in Places
               PROVE  Held(r, pl)' = k[<<r, pl>>]
    BY ZenonT(30)
  <2> DEFINE x == <<r, pl>>
  <2>1. x \in Slots /\ (x = a <=> r = q /\ pl = pa)
        /\ (x = b <=> r = q /\ pl = pb) /\ a # b
    BY SlotOf, ZenonT(30)
  <2>2. Held(r, pl)' = IF x = a THEN Tail(h[a])
                       ELSE IF x = b THEN Append(h[b], m) ELSE h[x]
    BY <2>1, ZenonT(30) DEF Moved
  <2> HIDE DEF x, a, b, m
  <2>3. k[x] = IF x = b THEN Append(g[x], m) ELSE g[x]
    BY <1>1, <1>2, <2>1, FamilyAt
  <2>4. g[x] = IF x = a THEN Tail(h[x]) ELSE h[x]
    BY <1>1, <2>1, FamilyAt, ZenonT(30)
  <2> HIDE DEF k, g
  <2>5. Held(r, pl)' = k[x]
    BY <2>1, <2>2, <2>3, <2>4
  <2> QED BY <2>5, ZenonT(30) DEF x
<1> HIDE DEF k
<1>4. Holding' = k
  BY <1>2, <1>3, NextHolding, ZenonT(30)
<1> QED BY <1>2, <1>4, ZenonT(30)

LEMMA OInvFacts ==
  OInv => Holding \in Family /\ Owned(Holding, pool) /\ TInv
  BY HoldingType, ZenonT(30) DEF OInv, Family

\* What a list or ring holds is not in the pool.
LEMMA HeadInUse ==
  ASSUME OInv, NEW q \in Queues, NEW pl \in Places, Held(q, pl) # <<>>
  PROVE  Head(Held(q, pl)) \in Mbufs /\ Head(Held(q, pl)) \notin pool
<1>1. <<q, pl>> \in DOMAIN Holding /\ Holding[<<q, pl>>] = Held(q, pl)
  BY ZenonT(30) DEF Holding
<1>2. Held(q, pl) \in Seq(Mbufs)
  BY <1>1, OInvFacts, SlotOf DEF Family
<1>3. Head(Held(q, pl)) = Held(q, pl)[1] /\ 1 \in 1..Len(Held(q, pl))
      /\ Head(Held(q, pl)) \in Mbufs
  BY <1>2
<1>4. \A m \in pool : Fresh(Holding, m)
  BY OInvFacts, ZenonT(30) DEF Owned
<1> QED BY <1>1, <1>3, <1>4, ZenonT(30) DEF Fresh

LEMMA HeldAt == \A q \in Queues, pl \in Places : Holding[<<q, pl>>] = Held(q, pl)
  BY ZenonT(30) DEF Holding

LEMMA InspectOInv == ASSUME OInv, NEW q \in Queues, Inspect(q)
                     PROVE  Owned(Holding, pool)'
<1> DEFINE m == Head(burst[q])
           to == IF Accepted(m) THEN "send" ELSE "free"
<1>1. Holding \in Family /\ Owned(Holding, pool) /\ TInv
  BY OInvFacts, ZenonT(30)
<1>2. /\ burst[q] # <<>> /\ pool' = pool
      /\ \A r \in Queues :
           /\ rxRing'[r] = rxRing[r] /\ txRing'[r] = txRing[r]
           /\ burst'[r] = IF r = q THEN Tail(burst[r]) ELSE burst[r]
           /\ sendList'[r] = IF r = q /\ to = "send" THEN Append(sendList[r], m)
                             ELSE sendList[r]
           /\ freeList'[r] = IF r = q /\ to = "free" THEN Append(freeList[r], m)
                             ELSE freeList[r]
  <2>1. CASE Accepted(m)
    BY <1>1, <2>1, ZenonT(30) DEF Inspect, SendPacket, devVars, memVars, rxVars, txVars, TInv, AppTypeOK
  <2>2. CASE ~Accepted(m)
    BY <1>1, <2>2, ZenonT(30) DEF Inspect, FreePacket, devVars, memVars, rxVars, txVars, TInv, AppTypeOK
  <2> QED BY <2>1, <2>2, ZenonT(30)
<1>3. /\ to \in {"send", "free"} /\ to \in Places /\ to # "burst"
      /\ "burst" \in Places
  BY ZenonT(30) DEF Places
<1>4. Holding[<<q, "burst">>] = burst[q]
      /\ Holding[<<q, to>>] = Held(q, to)
  BY <1>3, HeldAt, HoldingAt, ZenonT(30)
<1> HIDE DEF m, to
<1>5. \A r \in Queues, pl \in Places : Held(r, pl)' =
        IF r = q /\ pl = "burst" THEN Tail(burst[q])
        ELSE IF r = q /\ pl = to THEN Append(Held(q, to), m)
        ELSE Held(r, pl)
  BY <1>2, <1>3 DEF Held, Places
<1>6. Moved(Holding, q, "burst", to)
  BY <1>4, <1>5, HeldAt, ZenonT(30) DEF m, Moved
<1>7. Holding[<<q, "burst">>] # <<>> /\ pool' = pool
  BY <1>2, <1>4, ZenonT(30)
<1> QED BY <1>1, <1>3, <1>6, <1>7, MoveOInv

\* The same for an mbuf that goes back to the pool.
LEMMA GiveOInv ==
  ASSUME NEW h \in Family, NEW P, Owned(h, P),
         NEW q \in Queues, NEW pa \in Places,
         h[<<q, pa>>] # <<>>, pool' = P \cup {Head(h[<<q, pa>>])},
         \A r \in Queues, pl \in Places : Held(r, pl)' =
           IF r = q /\ pl = pa THEN Tail(h[<<q, pa>>]) ELSE h[<<r, pl>>]
  PROVE  Owned(Holding, pool)'
<1> DEFINE a == <<q, pa>>
           k == Pop(h, a)
<1>1. a \in Slots
  BY SlotOf, ZenonT(30)
<1>2. k \in Family /\ Owned(k, pool')
  BY <1>1, GiveOwned, ZenonT(30)
<1>3. \A r \in Queues, pl \in Places : Held(r, pl)' = k[<<r, pl>>]
  <2> SUFFICES ASSUME NEW r \in Queues, NEW pl \in Places
               PROVE  Held(r, pl)' = k[<<r, pl>>]
    BY ZenonT(30)
  <2> DEFINE x == <<r, pl>>
  <2>1. x \in Slots /\ (x = a <=> r = q /\ pl = pa)
    BY SlotOf, ZenonT(30)
  <2>2. Held(r, pl)' = IF x = a THEN Tail(h[a]) ELSE h[x]
    BY <2>1, ZenonT(30)
  <2> HIDE DEF x, a
  <2>3. k[x] = IF x = a THEN Tail(h[x]) ELSE h[x]
    BY <1>1, <2>1, FamilyAt, ZenonT(30)
  <2> HIDE DEF k
  <2>4. Held(r, pl)' = k[x]
    BY <2>1, <2>2, <2>3, ZenonT(30)
  <2> QED BY <2>4, ZenonT(30) DEF x
<1> HIDE DEF k
<1>4. Holding' = k
  BY <1>2, <1>3, NextHolding, ZenonT(30)
<1> QED BY <1>2, <1>4, ZenonT(30)

LEMMA FreeOInv == ASSUME OInv, NEW q \in Queues, Free(q)
                  PROVE  Owned(Holding, pool)'
<1>1. Holding \in Family /\ Owned(Holding, pool) /\ TInv
  BY OInvFacts, ZenonT(30)
<1>2. /\ freeList[q] # <<>> /\ pool' = pool \cup {Head(freeList[q])}
      /\ \A r \in Queues :
           /\ rxRing'[r] = rxRing[r] /\ txRing'[r] = txRing[r]
           /\ burst'[r] = burst[r] /\ sendList'[r] = sendList[r]
           /\ freeList'[r] = IF r = q THEN Tail(freeList[r]) ELSE freeList[r]
  <2>1. freeList[q] # <<>> /\ FreeMbuf(Head(freeList[q]))
    BY ZenonT(30) DEF Free
  <2>2. Head(freeList[q]) \in Mbufs /\ Head(freeList[q]) \notin pool
    BY <2>1, HeadInUse, ZenonT(30) DEF Held, Places
  <2>3. pool' = pool \cup {Head(freeList[q])}
    BY <1>1, <2>1, <2>2, FreeMbufExact, ZenonT(30) DEF OInv, TInv, DevInv
  <2> QED BY <1>1, <2>1, <2>3, ZenonT(30) DEF Free, rxVars, txVars, TInv, AppTypeOK
<1>3. "free" \in Places /\ Holding[<<q, "free">>] = freeList[q]
  BY HoldingAt, ZenonT(30) DEF Places
<1>4. \A r \in Queues, pl \in Places : Held(r, pl)' =
        IF r = q /\ pl = "free" THEN Tail(freeList[q]) ELSE Held(r, pl)
  BY <1>2 DEF Held, Places
<1>5. \A r \in Queues, pl \in Places : Held(r, pl)' =
        IF r = q /\ pl = "free" THEN Tail(Holding[<<q, "free">>])
        ELSE Holding[<<r, pl>>]
  BY <1>3, <1>4, HeldAt, ZenonT(30)
<1>6. Holding[<<q, "free">>] # <<>>
      /\ pool' = pool \cup {Head(Holding[<<q, "free">>])}
  BY <1>2, <1>3, ZenonT(30)
<1> QED BY <1>1, <1>3, <1>5, <1>6, GiveOInv, ZenonT(30)

\* nat_send_packets returned: what the driver did not take is forgotten.
LEMMA SentOInv == ASSUME OInv, NEW q \in Queues, Sent(q)
                  PROVE  Owned(Holding, pool)'
<1> DEFINE a == <<q, "send">>
           k == Clear(Holding, a)
<1>1. Holding \in Family /\ Owned(Holding, pool) /\ TInv /\ a \in Slots
  BY OInvFacts, SlotOf, ZenonT(30) DEF Places
<1>2. /\ pool' = pool
      /\ \A r \in Queues :
           /\ rxRing'[r] = rxRing[r] /\ txRing'[r] = txRing[r]
           /\ burst'[r] = burst[r] /\ freeList'[r] = freeList[r]
           /\ sendList'[r] = IF r = q THEN <<>> ELSE sendList[r]
  BY <1>1, ZenonT(30) DEF Sent, devVars, memVars, rxVars, txVars, TInv, AppTypeOK
<1>3. \A r \in Queues, pl \in Places : Held(r, pl)' =
        IF r = q /\ pl = "send" THEN <<>> ELSE Held(r, pl)
  BY <1>2 DEF Held, Places
<1>4. \A r \in Queues, pl \in Places : Held(r, pl)' = k[<<r, pl>>]
  <2> SUFFICES ASSUME NEW r \in Queues, NEW pl \in Places
               PROVE  Held(r, pl)' = k[<<r, pl>>]
    BY ZenonT(30)
  <2> DEFINE x == <<r, pl>>
  <2>1. x \in Slots /\ (x = a <=> r = q /\ pl = "send") /\ Holding[x] = Held(r, pl)
    BY SlotOf, HeldAt, ZenonT(30) DEF Places
  <2> HIDE DEF x, a
  <2>2. k[x] = IF x = a THEN <<>> ELSE Holding[x]
    BY <1>1, <2>1, FamilyAt, ZenonT(30)
  <2> HIDE DEF k
  <2>3. Held(r, pl)' = k[x]
    BY <1>3, <2>1, <2>2, ZenonT(30)
  <2> QED BY <2>3, ZenonT(30) DEF x
<1> HIDE DEF a
<1>5. k \in Family /\ Owned(k, pool)
  BY <1>1, ClearOwned, ZenonT(30)
<1> HIDE DEF k
<1>6. Holding' = k
  BY <1>4, <1>5, NextHolding, ZenonT(30)
<1> QED BY <1>2, <1>5, <1>6, ZenonT(30)

\* What the driver frees to make room was in use.
LEMMA TransmitFrees ==
  ASSUME OInv, NEW q \in Queues, Transmit(q)
  PROVE  /\ pool' = IF Len(txRing[q]) = NbTxDesc THEN pool \cup {Head(txRing[q])} ELSE pool
         /\ RefcntsExact'
<1>1. TInv /\ RefcntsExact
  BY ZenonT(30) DEF OInv
<1>2. CASE Len(txRing[q]) = NbTxDesc
  <2>1. FreeMbuf(Head(txRing[q]))
    BY <1>2, ZenonT(30) DEF Transmit, TxPacket
  <2>2. txRing[q] # <<>>
    BY <1>1, <1>2, DeviceAssumption DEF TInv, DevInv, DevTypeOK
  <2>3. Head(txRing[q]) \in Mbufs /\ Head(txRing[q]) \notin pool
    BY <2>2, HeadInUse, ZenonT(30) DEF Held, Places
  <2> QED BY <1>1, <1>2, <2>1, <2>3, FreeMbufExact, ZenonT(30) DEF TInv, DevInv
<1>3. CASE Len(txRing[q]) # NbTxDesc
  BY <1>1, <1>3, ZenonT(30) DEF Transmit, TxPacket, memVars, RefcntsExact
<1> QED BY <1>2, <1>3, ZenonT(30)

\* An mbuf moves to the transmit ring; a full ring first frees its oldest.
LEMMA TransmitOInv == ASSUME OInv, NEW q \in Queues, Transmit(q)
                      PROVE  Owned(Holding, pool)'
<1> DEFINE full == Len(txRing[q]) = NbTxDesc
           old  == Head(txRing[q])
           base == IF full THEN Tail(txRing[q]) ELSE txRing[q]
           tx   == <<q, "tx">>
           se   == <<q, "send">>
<1>1. Holding \in Family /\ Owned(Holding, pool) /\ TInv
  BY OInvFacts, ZenonT(30)
<1>2. /\ "send" \in Places /\ "tx" \in Places /\ "send" # "tx"
      /\ tx \in Slots /\ se \in Slots /\ tx # se
      /\ Holding[tx] = txRing[q] /\ Holding[se] = sendList[q]
  BY HoldingAt, SlotOf, ZenonT(30) DEF Places
<1>3. /\ sendList[q] # <<>>
      /\ pool' = IF full THEN pool \cup {old} ELSE pool
      /\ \A r \in Queues :
           /\ rxRing'[r] = rxRing[r] /\ burst'[r] = burst[r]
           /\ freeList'[r] = freeList[r]
           /\ sendList'[r] = IF r = q THEN Tail(sendList[q]) ELSE sendList[r]
           /\ txRing'[r] = IF r = q THEN Append(base, Head(sendList[q])) ELSE txRing[r]
  <2>1. pool' = IF full THEN pool \cup {old} ELSE pool
    BY TransmitFrees, ZenonT(30)
  <2> QED BY <1>1, <2>1, ZenonT(30) DEF Transmit, TxPacket, rxVars, TInv, DevInv, DevTypeOK, AppTypeOK
<1>4. \A r \in Queues, pl \in Places : Held(r, pl)' =
        IF r = q /\ pl = "send" THEN Tail(sendList[q])
        ELSE IF r = q /\ pl = "tx" THEN Append(base, Head(sendList[q]))
        ELSE Held(r, pl)
  <2> HIDE DEF base
  <2> QED BY <1>3 DEF Held, Places
<1>5. CASE ~full
  <2>1. Moved(Holding, q, "send", "tx")
    <3>1. base = txRing[q]
      BY <1>5, ZenonT(30)
    <3> HIDE DEF base
    <3> QED BY <1>2, <1>4, <3>1, HeldAt, ZenonT(30) DEF Moved, tx, se
  <2>2. Holding[<<q, "send">>] # <<>> /\ pool' = pool
    BY <1>2, <1>3, <1>5, ZenonT(30)
  <2> QED BY <1>1, <1>2, <2>1, <2>2, MoveOInv, ZenonT(30)
<1>6. CASE full
  <2> DEFINE g == Pop(Holding, tx)
  <2>1. txRing[q] # <<>> /\ base = Tail(txRing[q]) /\ pool' = pool \cup {old}
    BY <1>1, <1>3, <1>6, DeviceAssumption DEF TInv, DevInv, DevTypeOK
  <2>2. \A r \in Queues, pl \in Places :
          g[<<r, pl>>] = IF r = q /\ pl = "tx" THEN Tail(txRing[q]) ELSE Held(r, pl)
    <3> SUFFICES ASSUME NEW r \in Queues, NEW pl \in Places
                 PROVE  g[<<r, pl>>] = IF r = q /\ pl = "tx" THEN Tail(txRing[q])
                                       ELSE Held(r, pl)
      BY ZenonT(30)
    <3> DEFINE x == <<r, pl>>
    <3>1. x \in Slots /\ (x = tx <=> r = q /\ pl = "tx") /\ Holding[x] = Held(r, pl)
      BY SlotOf, HeldAt, ZenonT(30) DEF Places
    <3> HIDE DEF x, tx
    <3>2. g[x] = IF x = tx THEN Tail(Holding[x]) ELSE Holding[x]
      BY <1>1, <1>2, <3>1, FamilyAt, ZenonT(30)
    <3> HIDE DEF g
    <3>3. g[x] = IF r = q /\ pl = "tx" THEN Tail(txRing[q]) ELSE Held(r, pl)
      BY <1>2, <3>1, <3>2, ZenonT(30)
    <3> QED BY <3>3, ZenonT(30) DEF x
  <2> HIDE DEF tx, se
  <2>3. g \in Family /\ Owned(g, pool')
    BY <1>1, <1>2, <2>1, GiveOwned, ZenonT(30)
  <2> HIDE DEF g
  <2>4. /\ g[<<q, "send">>] = sendList[q]
        /\ g[<<q, "tx">>] = base
    BY <1>2, <2>1, <2>2, ZenonT(30) DEF Held
  <2> HIDE DEF base
  <2>5. Moved(g, q, "send", "tx")
    BY <1>2, <1>4, <2>2, <2>4, ZenonT(30) DEF Moved
  <2>6. g[<<q, "send">>] # <<>>
    BY <1>3, <2>4, ZenonT(30)
  <2> QED BY <1>2, <2>3, <2>5, <2>6, MoveOInv, ZenonT(30)
<1> QED BY <1>5, <1>6, ZenonT(30)

\* The steps that move no mbuf.
LEMMA StillOInv ==
  ASSUME OInv, UNCHANGED <<pool, rxRing, txRing, burst, sendList, freeList>>
  PROVE  Owned(Holding, pool)'
<1>1. Holding' = Holding
  BY DEF Holding, Held
<1> QED BY <1>1, ZenonT(30) DEF OInv

LEMMA NextOInv == OInv /\ [Next]_vars => OInv'
<1> SUFFICES ASSUME OInv, [Next]_vars PROVE OInv'
  BY ZenonT(30)
<1>1. TInv'
  BY NextTInv, ZenonT(30) DEF OInv
<1>2. Owned(Holding, pool)'
  <2>1. ASSUME NEW q \in Queues, Receive(q) PROVE Owned(Holding, pool)'
    BY <2>1, ReceiveOInv, ZenonT(30)
  <2>2. ASSUME NEW q \in Queues, Inspect(q) PROVE Owned(Holding, pool)'
    BY <2>2, InspectOInv, ZenonT(30)
  <2>3. ASSUME NEW q \in Queues, Transmit(q) PROVE Owned(Holding, pool)'
    BY <2>3, TransmitOInv, ZenonT(30)
  <2>4. ASSUME NEW q \in Queues, Sent(q) PROVE Owned(Holding, pool)'
    BY <2>4, SentOInv, ZenonT(30)
  <2>5. ASSUME NEW q \in Queues, Free(q) PROVE Owned(Holding, pool)'
    BY <2>5, FreeOInv, ZenonT(30)
  <2>6. ASSUME NEW q \in Queues,
               GotBurst(q) \/ Inspected(q) \/ BeginSend(q) \/ Freed(q)
        PROVE  Owned(Holding, pool)'
    <3>1. UNCHANGED <<pool, rxRing, txRing, burst, sendList, freeList>>
      BY <2>6, ZenonT(30) DEF GotBurst, RxReturn, Inspected, BeginSend, TxBegin, Freed,
                  devVars, memVars, rxVars, txVars
    <3> QED BY <3>1, StillOInv, ZenonT(30)
  <2>7. ASSUME NEW q \in Queues, Nic(q) PROVE Owned(Holding, pool)'
    <3>1. UNCHANGED <<pool, rxRing, txRing, burst, sendList, freeList>>
      BY <2>7, ZenonT(30) DEF Nic, NicReceive, NicTransmit, memVars, rxVars, txVars, appVars
    <3> QED BY <3>1, StillOInv, ZenonT(30)
  <2>8. CASE UNCHANGED vars
    BY <2>8, StillOInv, ZenonT(30) DEF vars, devVars, memVars, rxVars, txVars, appVars
  <2> QED BY <2>1, <2>2, <2>3, <2>4, <2>5, <2>6, <2>7, <2>8, ZenonT(30) DEF Next, Processor
<1>3. RefcntsExact'
  <2>1. ASSUME NEW q \in Queues, Receive(q) PROVE RefcntsExact'
    <3>1. PICK nmb \in pool : RxPacket(q, nmb)
      BY <2>1, ZenonT(30) DEF Receive
    <3> QED BY <3>1, ZenonT(30) DEF RxPacket, OInv, TInv, DevInv, DevTypeOK, MemTypeOK, RefcntsExact
  <2>2. ASSUME NEW q \in Queues, Transmit(q) PROVE RefcntsExact'
    BY <2>2, TransmitFrees, ZenonT(30)
  <2>3. ASSUME NEW q \in Queues, Free(q) PROVE RefcntsExact'
    <3>1. freeList[q] # <<>> /\ FreeMbuf(Head(freeList[q]))
      BY <2>3, ZenonT(30) DEF Free
    <3>2. Head(freeList[q]) \in Mbufs /\ Head(freeList[q]) \notin pool
      BY <3>1, HeadInUse, ZenonT(30) DEF Held, Places
    <3> QED BY <3>1, <3>2, FreeMbufExact, ZenonT(30) DEF OInv, TInv, DevInv
  <2>4. CASE UNCHANGED <<pool, refcnt>>
    BY <2>4, ZenonT(30) DEF OInv, RefcntsExact
  <2>5. ASSUME NEW q \in Queues,
               \/ Inspect(q) \/ Sent(q) \/ GotBurst(q) \/ Inspected(q)
               \/ BeginSend(q) \/ Freed(q) \/ Nic(q)
        PROVE  UNCHANGED <<pool, refcnt>>
    BY <2>5, ZenonT(30) DEF Inspect, Sent, GotBurst, RxReturn, Inspected, BeginSend, TxBegin,
                Freed, Nic, NicReceive, NicTransmit, devVars, memVars
  <2>6. CASE UNCHANGED vars
    BY <2>4, <2>6, ZenonT(30) DEF vars, devVars, memVars
  <2> QED BY <2>1, <2>2, <2>3, <2>4, <2>5, <2>6, ZenonT(30) DEF Next, Processor
<1> QED BY <1>1, <1>2, <1>3, ZenonT(30) DEF OInv

(***************************************************************************)
(* No mbuf is ever in two places of the receive, inspect, send and free    *)
(* path at once, nor in the pool while something still refers to it: for   *)
(* any number of processor threads nat_free_packets, the driver's lazy     *)
(* free and the re-arming of receive descriptors never meet on one buffer, *)
(* and every rte_pktmbuf_free drops the one reference there is.            *)
(***************************************************************************)
THEOREM NoSharedMbuf == Spec => [](ExclusiveOwnership /\ RefcntsExact)
<1>1. Spec => []OInv
  BY InitOInv, NextOInv, PTL DEF Spec
<1>2. OInv => ExclusiveOwnership /\ RefcntsExact
  BY OwnershipIsOwned, ZenonT(30) DEF OInv
<1> QED BY <1>1, <1>2, PTL

(***************************************************************************)
(* A free mbuf has reference count 0 and any other one 1: what             *)
(* RTE_MBUF_ASSERT of rte_mbuf.h would assert, with any number of threads  *)
(* in nat_free_packets, the transmit function and the receive function.    *)
(***************************************************************************)
THEOREM FreesExact == Spec => []RefcntsExact
BY NoSharedMbuf, PTL

-----------------------------------------------------------------------------
(* DpdkJavaR implements MbufLife.  Each action is described by what it     *)
(* does to six sets: the pool and the mbufs in each kind of ring or list.  *)
(* By ownership they are disjoint, so they say which stage an mbuf is in.  *)

Disjoint(P, A, B, C, D, E) ==
  /\ P \cap A = {} /\ P \cap B = {} /\ P \cap C = {} /\ P \cap D = {} /\ P \cap E = {}
  /\ A \cap B = {} /\ A \cap C = {} /\ A \cap D = {} /\ A \cap E = {}
  /\ B \cap C = {} /\ B \cap D = {} /\ B \cap E = {}
  /\ C \cap D = {} /\ C \cap E = {} /\ D \cap E = {}

SetsOK ==
  /\ rxRing \in Lists /\ burst \in Lists /\ sendList \in Lists
  /\ freeList \in Lists /\ txRing \in Lists
  /\ OneEach(rxRing) /\ OneEach(burst) /\ OneEach(sendList)
  /\ OneEach(freeList) /\ OneEach(txRing)
  /\ Disjoint(pool, Elems(rxRing), Elems(burst), Elems(sendList),
              Elems(freeList), Elems(txRing))

LEMMA OInvSets == OInv => SetsOK
<1> SUFFICES ASSUME OInv PROVE SetsOK
  BY ZenonT(30)
<1> DEFINE Ring(pl) == [q \in Queues |-> Held(q, pl)]
<1>1. /\ rxRing \in Lists /\ burst \in Lists /\ sendList \in Lists
      /\ freeList \in Lists /\ txRing \in Lists
  BY ZenonT(30) DEF OInv, TInv, DevInv, DevTypeOK, AppTypeOK, Lists
<1>2. /\ Ring("rx") = rxRing /\ Ring("burst") = burst /\ Ring("send") = sendList
      /\ Ring("free") = freeList /\ Ring("tx") = txRing
  BY <1>1, ZenonT(30) DEF Lists, Held
<1>3. \A pl \in Places : Ring(pl) \in Lists
  BY <1>1, <1>2, ZenonT(30) DEF Places
<1>4. Unique(Holding) /\ \A m \in pool : Fresh(Holding, m)
  BY ZenonT(30) DEF OInv, Owned
<1>5. DOMAIN Holding = Slots
  BY ZenonT(30) DEF Holding, Slots
<1>6. \A q \in Queues, pl \in Places : Ring(pl)[q] = Holding[<<q, pl>>]
  BY HeldAt, ZenonT(30)
<1>7. \A q, r \in Queues : \A pl, pk \in Places :
        \A i \in 1..Len(Ring(pl)[q]), j \in 1..Len(Ring(pk)[r]) :
          Ring(pl)[q][i] = Ring(pk)[r][j] => q = r /\ pl = pk /\ i = j
  <2> SUFFICES ASSUME NEW q \in Queues, NEW r \in Queues,
                      NEW pl \in Places, NEW pk \in Places,
                      NEW i \in 1..Len(Ring(pl)[q]), NEW j \in 1..Len(Ring(pk)[r]),
                      Ring(pl)[q][i] = Ring(pk)[r][j]
               PROVE  q = r /\ pl = pk /\ i = j
    BY ZenonT(30)
  <2>1. <<q, pl>> \in DOMAIN Holding /\ <<r, pk>> \in DOMAIN Holding
    BY <1>5, ZenonT(30) DEF Slots
  <2>2. <<q, pl>> = <<r, pk>> /\ i = j
    BY <1>4, <1>6, <2>1 DEF Unique
  <2> QED BY <2>2, ZenonT(30)
<1>8. \A q \in Queues : \A pl \in Places : \A i \in 1..Len(Ring(pl)[q]) :
        Ring(pl)[q][i] \notin pool
  <2> SUFFICES ASSUME NEW q \in Queues, NEW pl \in Places,
                      NEW i \in 1..Len(Ring(pl)[q]), Ring(pl)[q][i] \in pool
               PROVE  FALSE
    BY ZenonT(30)
  <2>1. <<q, pl>> \in DOMAIN Holding
    BY <1>5, ZenonT(30) DEF Slots
  <2> QED BY <1>4, <1>6, <2>1, ZenonT(30) DEF Fresh
<1> HIDE DEF Ring
<1>9. \A pl \in Places : OneEach(Ring(pl)) /\ Elems(Ring(pl)) \cap pool = {}
  BY <1>3, <1>7, <1>8, ElemsAt DEF OneEach
<1>10. \A pl, pk \in Places : pl # pk => Elems(Ring(pl)) \cap Elems(Ring(pk)) = {}
  <2> SUFFICES ASSUME NEW pl \in Places, NEW pk \in Places,
                      NEW m, m \in Elems(Ring(pl)), m \in Elems(Ring(pk))
               PROVE  pl = pk
    BY ZenonT(30)
  <2>1. PICK q \in Queues : \E i \in 1..Len(Ring(pl)[q]) : Ring(pl)[q][i] = m
    BY <1>3, ElemsAt, ZenonT(30)
  <2>2. PICK r \in Queues : \E j \in 1..Len(Ring(pk)[r]) : Ring(pk)[r][j] = m
    BY <1>3, ElemsAt, ZenonT(30)
  <2> QED BY <1>7, <2>1, <2>2
<1>11. /\ OneEach(rxRing) /\ OneEach(burst) /\ OneEach(sendList)
       /\ OneEach(freeList) /\ OneEach(txRing)
  BY <1>2, <1>9, ZenonT(30) DEF Places
<1>12. /\ pool \cap Elems(rxRing) = {} /\ pool \cap Elems(burst) = {}
       /\ pool \cap Elems(sendList) = {} /\ pool \cap Elems(freeList) = {}
       /\ pool \cap Elems(txRing) = {}
  BY <1>2, <1>9, ZenonT(30) DEF Places
<1>13. /\ Elems(rxRing) \cap Elems(burst) = {} /\ Elems(rxRing) \cap Elems(sendList) = {}
       /\ Elems(rxRing) \cap Elems(freeList) = {} /\ Elems(rxRing) \cap Elems(txRing) = {}
       /\ Elems(burst) \cap Elems(sendList) = {} /\ Elems(burst) \cap Elems(freeList) = {}
       /\ Elems(burst) \cap Elems(txRing) = {} /\ Elems(sendList) \cap Elems(freeList) = {}
       /\ Elems(sendList) \cap Elems(txRing) = {} /\ Elems(freeList) \cap Elems(txRing) = {}
  BY <1>2, <1>10, ZenonT(30) DEF Places
<1> QED BY <1>1, <1>11, <1>12, <1>13, ZenonT(30) DEF SetsOK, Disjoint

-----------------------------------------------------------------------------
(* What each action does to the six sets.                                  *)

Armed    == Elems(rxRing)
Got      == Elems(burst)
Kept     == Elems(sendList)
Rejected == Elems(freeList)
Given    == Elems(txRing)

LEMMA ReceiveSets ==
  ASSUME OInv, NEW q \in Queues, Receive(q)
  PROVE  \E n \in pool :
           /\ Head(rxRing[q]) \in Armed /\ Head(rxRing[q]) \in Mbufs /\ n \in Mbufs
           /\ pool' = pool \ {n}
           /\ Armed' = (Armed \ {Head(rxRing[q])}) \cup {n}
           /\ Got' = Got \cup {Head(rxRing[q])}
           /\ UNCHANGED <<Kept, Rejected, Given>>
<1>1. PICK n \in pool : RxPacket(q, n)
  BY ZenonT(30) DEF Receive
<1>2. SetsOK /\ n \in Mbufs /\ rxRing[q] # <<>>
  <2>1. Len(rxRing[q]) > 0
    BY DeviceAssumption DEF OInv, TInv, DevInv, RingsConsistent
  <2>2. n \in Mbufs
    BY ZenonT(30) DEF OInv, TInv, DevInv, DevTypeOK, MemTypeOK
  <2> QED BY <2>1, <2>2, OInvSets
<1> DEFINE s == [rxRing EXCEPT ![q] = Tail(@)]
           m == Head(rxRing[q])
<1>3. s \in Lists /\ m \in Armed /\ m \in Mbufs /\ Elems(s) = Armed \ {m}
  BY <1>2, ElemsTail, ZenonT(30) DEF SetsOK, Armed
<1>4. rxRing' = [s EXCEPT ![q] = Append(@, n)]
  BY <1>1, <1>2, ZenonT(30) DEF RxPacket, SetsOK, Lists
<1>5. burst' = [burst EXCEPT ![q] = Append(@, m)]
  BY ZenonT(30) DEF Receive
<1> HIDE DEF s, m
<1>6. Elems(rxRing') = Elems(s) \cup {n}
  BY <1>2, <1>3, <1>4, ElemsAppend, ZenonT(30)
<1>7. Elems(burst') = Got \cup {m}
  BY <1>2, <1>3, <1>5, ElemsAppend, ZenonT(30) DEF SetsOK, Got
<1>8. pool' = pool \ {n} /\ UNCHANGED <<sendList, freeList, txRing>>
  BY <1>1, ZenonT(30) DEF Receive, RxPacket, txVars
<1>9. UNCHANGED <<Kept, Rejected, Given>>
  BY <1>8, ZenonT(30) DEF Kept, Rejected, Given, Elems
<1>10. Armed' = (Armed \ {m}) \cup {n} /\ Got' = Got \cup {m}
  BY <1>3, <1>6, <1>7, ZenonT(30) DEF Armed, Got, Elems
<1> QED BY <1>2, <1>3, <1>8, <1>9, <1>10, ZenonT(30) DEF m

LEMMA InspectSets ==
  ASSUME OInv, NEW q \in Queues, Inspect(q)
  PROVE  LET m == Head(burst[q])
         IN  /\ m \in Got /\ m \in Mbufs
             /\ Got' = Got \ {m}
             /\ Kept' = IF Accepted(m) THEN Kept \cup {m} ELSE Kept
             /\ Rejected' = IF Accepted(m) THEN Rejected ELSE Rejected \cup {m}
             /\ UNCHANGED <<pool, frame, Armed, Given>>
<1> DEFINE m == Head(burst[q])
<1>1. SetsOK
  BY OInvSets, ZenonT(30)
<1>2. burst[q] # <<>> /\ burst' = [burst EXCEPT ![q] = Tail(@)]
  BY ZenonT(30) DEF Inspect
<1>3. m \in Got /\ m \in Mbufs /\ Elems(burst') = Got \ {m}
  BY <1>1, <1>2, ElemsTail, ZenonT(30) DEF SetsOK, Got
<1>4. UNCHANGED <<pool, frame, rxRing, txRing>>
  BY ZenonT(30) DEF Inspect, devVars, memVars, rxVars, txVars
<1>5. UNCHANGED <<Armed, Given>>
  BY <1>4, ZenonT(30) DEF Armed, Given, Elems
<1>6. Got' = Got \ {m}
  BY <1>3, ZenonT(30) DEF Got, Elems
<1>7. CASE Accepted(m)
  <2>1. sendList' = [sendList EXCEPT ![q] = Append(@, m)] /\ UNCHANGED freeList
    BY <1>7, ZenonT(30) DEF Inspect, SendPacket
  <2>2. Elems(sendList') = Kept \cup {m}
    BY <1>1, <1>3, <2>1, ElemsAppend, ZenonT(30) DEF SetsOK, Kept
  <2>3. Kept' = Kept \cup {m} /\ Rejected' = Rejected
    BY <2>1, <2>2, ZenonT(30) DEF Kept, Rejected, Elems
  <2> QED BY <1>3, <1>4, <1>5, <1>7, <1>6, <2>3, ZenonT(30)
<1>8. CASE ~Accepted(m)
  <2>1. freeList' = [freeList EXCEPT ![q] = Append(@, m)] /\ UNCHANGED sendList
    BY <1>8, ZenonT(30) DEF Inspect, FreePacket
  <2>2. Elems(freeList') = Rejected \cup {m}
    BY <1>1, <1>3, <2>1, ElemsAppend, ZenonT(30) DEF SetsOK, Rejected
  <2>3. Kept' = Kept /\ Rejected' = Rejected \cup {m}
    BY <2>1, <2>2, ZenonT(30) DEF Kept, Rejected, Elems
  <2> QED BY <1>3, <1>4, <1>5, <1>8, <1>6, <2>3, ZenonT(30)
<1> QED BY <1>7, <1>8, ZenonT(30)

LEMMA FreeSets ==
  ASSUME OInv, NEW q \in Queues, Free(q)
  PROVE  LET m == Head(freeList[q])
         IN  /\ m \in Rejected /\ m \in Mbufs
             /\ pool' = pool \cup {m}
             /\ frame' = [frame EXCEPT ![m] = NoFrame]
             /\ Rejected' = Rejected \ {m}
             /\ UNCHANGED <<rxRing, rxDone, Armed, Got, Kept, Given>>
<1> DEFINE m == Head(freeList[q])
<1>1. SetsOK
  BY OInvSets, ZenonT(30)
<1>2. /\ freeList[q] # <<>> /\ freeList' = [freeList EXCEPT ![q] = Tail(@)]
      /\ FreeMbuf(m) /\ UNCHANGED <<rxRing, rxDone, txRing, burst, sendList>>
  BY ZenonT(30) DEF Free, rxVars, txVars
<1>3. m \in Rejected /\ m \in Mbufs /\ Elems(freeList') = Rejected \ {m}
  BY <1>1, <1>2, ElemsTail, ZenonT(30) DEF SetsOK, Rejected
<1>4. refcnt[m] = 1
  BY <1>1, <1>3, ZenonT(30) DEF SetsOK, Disjoint, Rejected, OInv, RefcntsExact
<1>5. pool' = pool \cup {m} /\ frame' = [frame EXCEPT ![m] = NoFrame]
  BY <1>2, <1>4, ZenonT(30) DEF FreeMbuf
<1>6. UNCHANGED <<Armed, Got, Kept, Given>>
  BY <1>2, ZenonT(30) DEF Armed, Got, Kept, Given, Elems
<1> QED BY <1>2, <1>3, <1>5, <1>6, ZenonT(30) DEF Rejected, Elems

LEMMA SentSets ==
  ASSUME OInv, NEW q \in Queues, Sent(q)
  PROVE  /\ Range(sendList[q]) \subseteq Kept /\ Range(sendList[q]) \subseteq Mbufs
         /\ Kept' = Kept \ Range(sendList[q])
         /\ UNCHANGED <<pool, frame, Armed, Got, Rejected, Given>>
<1>1. SetsOK
  BY OInvSets, ZenonT(30)
<1>2. /\ sendList' = [sendList EXCEPT ![q] = <<>>]
      /\ UNCHANGED <<pool, frame, rxRing, txRing, burst, freeList>>
  BY ZenonT(30) DEF Sent, devVars, memVars, rxVars, txVars
<1>3. Range(sendList[q]) \subseteq Kept /\ Elems(sendList') = Kept \ Range(sendList[q])
  BY <1>1, <1>2, ElemsClear, ZenonT(30) DEF SetsOK, Kept
<1>4. Range(sendList[q]) \subseteq Mbufs
  BY <1>1 DEF SetsOK, Lists, Range
<1>5. UNCHANGED <<Armed, Got, Rejected, Given>>
  BY <1>2, ZenonT(30) DEF Armed, Got, Rejected, Given, Elems
<1> QED BY <1>2, <1>3, <1>4, <1>5, ZenonT(30) DEF Kept, Elems

LEMMA TransmitSets ==
  ASSUME OInv, NEW q \in Queues, Transmit(q)
  PROVE  LET m    == Head(sendList[q])
             old  == Head(txRing[q])
             full == Len(txRing[q]) = NbTxDesc
         IN  /\ m \in Kept /\ m \in Mbufs /\ Kept' = Kept \ {m}
             /\ UNCHANGED <<rxRing, rxDone, Armed, Got, Rejected>>
             /\ ~full => Given' = Given \cup {m} /\ UNCHANGED <<pool, frame>>
             /\ full => /\ old \in Given /\ old \in Mbufs
                        /\ Given' = (Given \ {old}) \cup {m}
                        /\ pool' = pool \cup {old}
                        /\ frame' = [frame EXCEPT ![old] = NoFrame]
<1> DEFINE m    == Head(sendList[q])
           old  == Head(txRing[q])
           full == Len(txRing[q]) = NbTxDesc
<1>1. SetsOK
  BY OInvSets, ZenonT(30)
<1>2. /\ sendList[q] # <<>> /\ sendList' = [sendList EXCEPT ![q] = Tail(@)]
      /\ UNCHANGED <<rxRing, rxDone, burst, freeList>>
      /\ txRing' = [txRing EXCEPT ![q] = Append(IF full THEN Tail(@) ELSE @, m)]
      /\ IF full THEN FreeMbuf(old) ELSE UNCHANGED <<pool, frame>>
  BY ZenonT(30) DEF Transmit, TxPacket, rxVars, memVars
<1>3. m \in Kept /\ m \in Mbufs /\ Elems(sendList') = Kept \ {m}
  BY <1>1, <1>2, ElemsTail, ZenonT(30) DEF SetsOK, Kept
<1>4. UNCHANGED <<Armed, Got, Rejected>>
  BY <1>2, ZenonT(30) DEF Armed, Got, Rejected, Elems
<1>5. Kept' = Kept \ {m}
  BY <1>3, ZenonT(30) DEF Kept, Elems
<1>6. CASE ~full
  <2>1. txRing' = [txRing EXCEPT ![q] = Append(@, m)]
    BY <1>2, <1>6, ZenonT(30)
  <2>2. Elems(txRing') = Given \cup {m}
    BY <1>1, <1>3, <2>1, ElemsAppend, ZenonT(30) DEF SetsOK, Given
  <2>3. Given' = Given \cup {m} /\ UNCHANGED <<pool, frame>>
    BY <1>2, <1>6, <2>2, ZenonT(30) DEF Given, Elems
  <2> QED BY <1>2, <1>3, <1>4, <1>5, <1>6, <2>3, ZenonT(30)
<1>7. CASE full
  <2> DEFINE s == [txRing EXCEPT ![q] = Tail(@)]
  <2>1. txRing[q] # <<>>
    BY <1>1, <1>7, DeviceAssumption DEF SetsOK, Lists
  <2>2. s \in Lists /\ old \in Given /\ old \in Mbufs /\ Elems(s) = Given \ {old}
    BY <1>1, <2>1, ElemsTail, ZenonT(30) DEF SetsOK, Given
  <2>3. txRing' = [s EXCEPT ![q] = Append(@, m)]
    BY <1>1, <1>2, <1>7, ZenonT(30) DEF SetsOK, Lists
  <2> HIDE DEF s
  <2>4. Elems(txRing') = (Given \ {old}) \cup {m}
    BY <1>3, <2>2, <2>3, ElemsAppend, ZenonT(30)
  <2>5. refcnt[old] = 1
    BY <1>1, <2>2, ZenonT(30) DEF SetsOK, Disjoint, Given, OInv, RefcntsExact
  <2>6. pool' = pool \cup {old} /\ frame' = [frame EXCEPT ![old] = NoFrame]
    BY <1>2, <1>7, <2>5, ZenonT(30) DEF FreeMbuf
  <2>7. Given' = (Given \ {old}) \cup {m}
    BY <2>4, ZenonT(30) DEF Given, Elems
  <2> QED BY <1>2, <1>3, <1>4, <1>5, <1>7, <2>2, <2>6, <2>7, ZenonT(30)
<1> QED BY <1>6, <1>7, ZenonT(30)

-----------------------------------------------------------------------------
(* The sets determine the stages.                                          *)

LEMMA StillSets ==
  ASSUME UNCHANGED <<pool, rxRing, txRing, burst, sendList, freeList>>
  PROVE  UNCHANGED <<Armed, Got, Kept, Rejected, Given>>
  BY ZenonT(30) DEF Armed, Got, Kept, Rejected, Given, Elems

StageOf(P, A, B, C, D, E, m) ==
  CASE m \in P -> "pool"
    [] m \in A -> "armed"
    [] m \in B -> "got"
    [] m \in C -> "accepted"
    [] m \in D -> "rejected"
    [] m \in E -> "sent"
    [] OTHER   -> "lost"

LEMMA StageSets == \A m :
  /\ Stage(m) = StageOf(pool, Armed, Got, Kept, Rejected, Given, m)
  /\ Stage(m)' = StageOf(pool', Armed', Got', Kept', Rejected', Given', m)
<1>1. \A m : /\ HeldIn(m, "rx") <=> m \in Armed
             /\ HeldIn(m, "burst") <=> m \in Got
             /\ HeldIn(m, "send") <=> m \in Kept
             /\ HeldIn(m, "free") <=> m \in Rejected
             /\ HeldIn(m, "tx") <=> m \in Given
  BY ZenonT(30) DEF HeldIn, Held, Armed, Got, Kept, Rejected, Given, Elems
<1>2. \A m : /\ HeldIn(m, "rx")' <=> m \in Armed'
             /\ HeldIn(m, "burst")' <=> m \in Got'
             /\ HeldIn(m, "send")' <=> m \in Kept'
             /\ HeldIn(m, "free")' <=> m \in Rejected'
             /\ HeldIn(m, "tx")' <=> m \in Given'
  BY ZenonT(30) DEF HeldIn, Held, Armed, Got, Kept, Rejected, Given, Elems
<1> QED BY <1>1, <1>2 DEF Stage, StageOf

LEMMA StageIs ==
  ASSUME NEW P, NEW A, NEW B, NEW C, NEW D, NEW E, Disjoint(P, A, B, C, D, E), NEW m
  PROVE  /\ StageOf(P, A, B, C, D, E, m) = "pool" <=> m \in P
         /\ StageOf(P, A, B, C, D, E, m) = "armed" <=> m \in A
         /\ StageOf(P, A, B, C, D, E, m) = "got" <=> m \in B
         /\ StageOf(P, A, B, C, D, E, m) = "accepted" <=> m \in C
         /\ StageOf(P, A, B, C, D, E, m) = "rejected" <=> m \in D
         /\ StageOf(P, A, B, C, D, E, m) = "sent" <=> m \in E
         /\ StageOf(P, A, B, C, D, E, m) = "lost"
              <=> m \notin P \cup A \cup B \cup C \cup D \cup E
<1>1. /\ m \in P => m \notin A \cup B \cup C \cup D \cup E
      /\ m \in A => m \notin B \cup C \cup D \cup E
      /\ m \in B => m \notin C \cup D \cup E
      /\ m \in C => m \notin D \cup E
      /\ m \in D => m \notin E
  BY ZenonT(30) DEF Disjoint
<1> QED BY <1>1, ZenonT(30) DEF StageOf

LEMMA StageSame ==
  ASSUME NEW P, NEW A, NEW B, NEW C, NEW D, NEW E,
         NEW P1, NEW A1, NEW B1, NEW C1, NEW D1, NEW E1, NEW m,
         m \in P <=> m \in P1, m \in A <=> m \in A1, m \in B <=> m \in B1,
         m \in C <=> m \in C1, m \in D <=> m \in D1, m \in E <=> m \in E1
  PROVE  StageOf(P, A, B, C, D, E, m) = StageOf(P1, A1, B1, C1, D1, E1, m)
  BY DEF StageOf

Stages == [m \in Mbufs |-> Stage(m)]

LEMMA OInvSetsNext == OInv' => SetsOK'
  BY OInvSets, PTL

\* What the stages are before and after a step, by the sets.
LEMMA StageFacts ==
  ASSUME OInv, OInv'
  PROVE  /\ Disjoint(pool, Armed, Got, Kept, Rejected, Given)
         /\ Disjoint(pool', Armed', Got', Kept', Rejected', Given')
         /\ \A m \in Mbufs :
              /\ Stages[m] = StageOf(pool, Armed, Got, Kept, Rejected, Given, m)
              /\ Stages'[m] = StageOf(pool', Armed', Got', Kept', Rejected', Given', m)
         /\ DOMAIN Stages = Mbufs /\ Stages = [m \in Mbufs |-> Stages[m]]
         /\ Stages' = [m \in Mbufs |-> Stages'[m]]
<1>1. Disjoint(pool, Armed, Got, Kept, Rejected, Given)
  BY OInvSets, ZenonT(30) DEF SetsOK, Armed, Got, Kept, Rejected, Given
<1>2. Disjoint(pool', Armed', Got', Kept', Rejected', Given')
  BY OInvSetsNext, ZenonT(30) DEF SetsOK, Armed, Got, Kept, Rejected, Given, Disjoint
<1>3. \A m \in Mbufs : Stages[m] = Stage(m) /\ Stages'[m] = Stage(m)'
  BY ZenonT(30) DEF Stages
<1>4. Stages' = [m \in Mbufs |-> Stages'[m]]
  BY ZenonT(30) DEF Stages
<1>5. DOMAIN Stages = Mbufs /\ Stages = [m \in Mbufs |-> Stages[m]]
  BY ZenonT(30) DEF Stages
<1> QED BY <1>1, <1>2, <1>3, <1>4, <1>5, StageSets, ZenonT(30)

LEMMA StageAt ==
  ASSUME OInv, OInv', NEW m \in Mbufs
  PROVE  /\ m \in pool => Stages[m] = "pool"
         /\ m \in Armed => Stages[m] = "armed"
         /\ m \in Got => Stages[m] = "got"
         /\ m \in Kept => Stages[m] = "accepted"
         /\ m \in Rejected => Stages[m] = "rejected"
         /\ m \in Given => Stages[m] = "sent"
<1> DEFINE v == StageOf(pool, Armed, Got, Kept, Rejected, Given, m)
<1>1. Disjoint(pool, Armed, Got, Kept, Rejected, Given) /\ Stages[m] = v
  BY StageFacts, ZenonT(30)
<1>2. /\ v = "pool" <=> m \in pool
      /\ v = "armed" <=> m \in Armed
      /\ v = "got" <=> m \in Got
      /\ v = "accepted" <=> m \in Kept
      /\ v = "rejected" <=> m \in Rejected
      /\ v = "sent" <=> m \in Given
  BY <1>1, StageIs
<1> HIDE DEF v
<1> QED BY <1>1, <1>2, ZenonT(30)

LEMMA StageAfter ==
  ASSUME OInv, OInv', NEW m \in Mbufs
  PROVE  /\ m \in pool' => Stages'[m] = "pool"
         /\ m \in Armed' => Stages'[m] = "armed"
         /\ m \in Got' => Stages'[m] = "got"
         /\ m \in Kept' => Stages'[m] = "accepted"
         /\ m \in Rejected' => Stages'[m] = "rejected"
         /\ m \in Given' => Stages'[m] = "sent"
         /\ m \notin pool' \cup Armed' \cup Got' \cup Kept' \cup Rejected' \cup Given'
              => Stages'[m] = "lost"
<1> DEFINE v == StageOf(pool', Armed', Got', Kept', Rejected', Given', m)
<1>1. Disjoint(pool', Armed', Got', Kept', Rejected', Given') /\ Stages'[m] = v
  BY StageFacts, ZenonT(30)
<1>2. /\ v = "pool" <=> m \in pool'
      /\ v = "armed" <=> m \in Armed'
      /\ v = "got" <=> m \in Got'
      /\ v = "accepted" <=> m \in Kept'
      /\ v = "rejected" <=> m \in Rejected'
      /\ v = "sent" <=> m \in Given'
      /\ v = "lost" <=>
           m \notin pool' \cup Armed' \cup Got' \cup Kept' \cup Rejected' \cup Given'
  BY <1>1, StageIs
<1> HIDE DEF v
<1> QED BY <1>1, <1>2, ZenonT(30)

-----------------------------------------------------------------------------
(* A buffer has a frame exactly from its reception to its return.          *)

FrameInv ==
  /\ \A m \in pool : frame[m] = NoFrame
  /\ \A q \in Queues : \A i \in 1..Len(rxRing[q]) :
       frame[rxRing[q][i]] = NoFrame <=> i > rxDone[q]

LEMMA KindIsFrame == \A k \in FrameKinds : k # NoFrame
  BY DeviceAssumption, ZenonT(30) DEF Frames, NoFrame

LEMMA StillFrameInv ==
  ASSUME FrameInv, UNCHANGED <<pool, frame, rxRing, rxDone>>
  PROVE  FrameInv'
  BY ZenonT(30) DEF FrameInv

LEMMA ReturnFrameInv ==
  ASSUME OInv, FrameInv, NEW m \in Mbufs, m \notin Armed, pool' = pool \cup {m},
         frame' = [frame EXCEPT ![m] = NoFrame], UNCHANGED <<rxRing, rxDone>>
  PROVE  FrameInv'
<1>1. /\ frame \in [Mbufs -> FrameKinds \cup {NoFrame}] /\ pool \subseteq Mbufs
      /\ rxRing \in Lists
  BY ZenonT(30) DEF OInv, TInv, DevInv, DevTypeOK, MemTypeOK, Lists
<1>2. \A q \in Queues : \A i \in 1..Len(rxRing[q]) : rxRing[q][i] # m
  BY <1>1, ElemsAt, ZenonT(30) DEF Armed
<1>3. \A q \in Queues : \A i \in 1..Len(rxRing[q]) :
        frame'[rxRing[q][i]] = frame[rxRing[q][i]]
  BY <1>1, <1>2 DEF Lists
<1>4. \A n \in pool' : frame'[n] = NoFrame
  BY <1>1, ZenonT(30) DEF FrameInv
<1> QED BY <1>3, <1>4 DEF FrameInv

LEMMA ReceiveFrameInv ==
  ASSUME OInv, FrameInv, NEW q \in Queues, Receive(q)
  PROVE  FrameInv' /\ frame' = frame /\ frame[Head(rxRing[q])] # NoFrame
<1>1. PICK n \in pool : RxPacket(q, n)
  BY ZenonT(30) DEF Receive
<1> DEFINE s == rxRing[q]
<1>2. /\ s \in Seq(Mbufs) /\ Len(s) = NbRxDesc(q) /\ NbRxDesc(q) \in Nat /\ NbRxDesc(q) > 0
      /\ rxDone[q] \in 1..NbRxDesc(q) /\ rxRing \in [Queues -> Seq(Mbufs)]
      /\ rxDone \in [Queues -> Nat] /\ n \in Mbufs
  <2>1. /\ s \in Seq(Mbufs) /\ Len(s) = NbRxDesc(q) /\ rxRing \in [Queues -> Seq(Mbufs)]
        /\ rxDone \in [Queues -> Nat] /\ n \in Mbufs
    BY ZenonT(30) DEF OInv, TInv, DevInv, DevTypeOK, MemTypeOK, RingsConsistent
  <2>2. rxDone[q] \in Nat /\ rxHold[q] \in Nat /\ rxDone[q] + rxHold[q] < NbRxDesc(q)
    BY ZenonT(30) DEF OInv, TInv, DevInv, DevTypeOK, RingsConsistent
  <2>3. NbRxDesc(q) \in Nat /\ rxDone[q] > 0
    BY <1>1, RxRingSize, ZenonT(30) DEF RxPacket
  <2>4. NbRxDesc(q) > 0 /\ rxDone[q] \in 1..NbRxDesc(q)
    BY ONLY <2>2, <2>3, SMTT(30)
  <2> QED BY <2>1, <2>3, <2>4, ZenonT(30)
<1>3. /\ pool' = pool \ {n} /\ frame' = frame
      /\ \A r \in Queues : rxRing'[r] = IF r = q THEN Append(Tail(s), n) ELSE rxRing[r]
      /\ \A r \in Queues : rxDone'[r] = IF r = q THEN rxDone[q] - 1 ELSE rxDone[r]
  BY <1>1, <1>2, ZenonT(30) DEF RxPacket
<1>4. /\ frame[n] = NoFrame
      /\ \A i \in 1..NbRxDesc(q) : frame[s[i]] = NoFrame <=> i > rxDone[q]
  BY <1>2, ZenonT(30) DEF FrameInv
<1>5. frame[Head(s)] # NoFrame
  BY <1>2, <1>4
<1>6. /\ Len(Append(Tail(s), n)) = NbRxDesc(q)
      /\ \A i \in 1..NbRxDesc(q) :
           Append(Tail(s), n)[i] = IF i = NbRxDesc(q) THEN n ELSE s[i + 1]
  BY <1>2
<1> HIDE DEF s
<1>7. \A i \in 1..NbRxDesc(q) :
        frame[Append(Tail(s), n)[i]] = NoFrame <=> i > rxDone[q] - 1
  <2> SUFFICES ASSUME NEW i \in 1..NbRxDesc(q)
               PROVE  frame[Append(Tail(s), n)[i]] = NoFrame <=> i > rxDone[q] - 1
    BY ZenonT(30)
  <2>1. CASE i = NbRxDesc(q)
    BY <1>2, <1>4, <1>6, <2>1
  <2>2. CASE i # NbRxDesc(q)
    <3>1. i + 1 \in 1..NbRxDesc(q) /\ (i + 1 > rxDone[q] <=> i > rxDone[q] - 1)
      BY <1>2, <2>2
    <3> QED BY <1>4, <1>6, <2>2, <3>1, ZenonT(30)
  <2> QED BY <2>1, <2>2, ZenonT(30)
<1>8. \A r \in Queues : \A i \in 1..Len(rxRing'[r]) :
        frame'[rxRing'[r][i]] = NoFrame <=> i > rxDone'[r]
  <2> SUFFICES ASSUME NEW r \in Queues, NEW i \in 1..Len(rxRing'[r])
               PROVE  frame'[rxRing'[r][i]] = NoFrame <=> i > rxDone'[r]
    BY ZenonT(30)
  <2>1. CASE r = q
    <3> DEFINE ring == Append(Tail(s), n)
    <3>1. rxRing'[r] = ring /\ rxDone'[r] = rxDone[q] - 1 /\ frame' = frame
      BY <1>3, <2>1, ZenonT(30)
    <3>2. i \in 1..NbRxDesc(q)
      BY <1>6, <3>1, ZenonT(30)
    <3>3. frame[ring[i]] = NoFrame <=> i > rxDone[q] - 1
      BY <1>7, <3>2, ZenonT(30)
    <3> HIDE DEF ring
    <3> QED BY <3>1, <3>3, ZenonT(30)
  <2>2. CASE r # q
    BY <1>3, <2>2 DEF FrameInv
  <2> QED BY <2>1, <2>2, ZenonT(30)
<1>9. \A m \in pool' : frame'[m] = NoFrame
  BY <1>3, ZenonT(30) DEF FrameInv
<1> QED BY <1>3, <1>5, <1>8, <1>9, ZenonT(30) DEF FrameInv, s

LEMMA NicReceiveFrameInv ==
  ASSUME OInv, FrameInv, NEW q \in Queues, NicReceive(q)
  PROVE  LET m == rxRing[q][rxDone[q] + 1]
         IN  /\ FrameInv' /\ m \in Armed /\ m \in Mbufs /\ frame[m] = NoFrame
             /\ \E k \in FrameKinds : frame' = [frame EXCEPT ![m] = k]
<1> DEFINE d == rxDone[q] + 1
           m == rxRing[q][d]
<1>1. DevInv /\ SetsOK
  BY OInvSets, ZenonT(30) DEF OInv, TInv
<1>2. d \in 1..Len(rxRing[q])
  BY <1>1, NicReceiveInv, ZenonT(30)
<1>3. /\ frame \in [Mbufs -> FrameKinds \cup {NoFrame}] /\ rxRing \in Lists
      /\ rxDone \in [Queues -> Nat] /\ pool \subseteq Mbufs
  BY <1>1, ZenonT(30) DEF DevInv, DevTypeOK, MemTypeOK, Lists
<1>4. m \in Mbufs /\ m \in Armed /\ m \notin pool
  <2>1. m \in Mbufs
    BY <1>2, <1>3 DEF Lists
  <2>2. m \in Armed
    BY <1>2, <1>3, ElemsAt, ZenonT(30) DEF Armed
  <2> QED BY <1>1, <2>1, <2>2, ZenonT(30) DEF SetsOK, Disjoint, Armed
<1>5. frame[m] = NoFrame
  BY <1>2, <1>3 DEF FrameInv
<1>6. PICK k \in FrameKinds : frame' = [frame EXCEPT ![m] = k]
  BY ZenonT(30) DEF NicReceive
<1>7. /\ pool' = pool /\ rxRing' = rxRing
      /\ \A r \in Queues : rxDone'[r] = IF r = q THEN d ELSE rxDone[r]
  BY <1>3, ZenonT(30) DEF NicReceive
<1>8. \A r \in Queues : \A i \in 1..Len(rxRing[r]) :
        /\ rxRing[r][i] \in Mbufs
        /\ rxRing[r][i] = m <=> r = q /\ i = d
  <2>1. OneEach(rxRing)
    BY <1>1, ZenonT(30) DEF SetsOK
  <2> QED BY <1>2, <1>3, <2>1 DEF OneEach, Lists
<1>9. \A r \in Queues : \A i \in 1..Len(rxRing[r]) :
        frame'[rxRing[r][i]] = NoFrame <=> i > rxDone'[r]
  <2> SUFFICES ASSUME NEW r \in Queues, NEW i \in 1..Len(rxRing[r])
               PROVE  frame'[rxRing[r][i]] = NoFrame <=> i > rxDone'[r]
    BY ZenonT(30)
  <2>1. frame[rxRing[r][i]] = NoFrame <=> i > rxDone[r]
    BY ZenonT(30) DEF FrameInv
  <2>2. rxDone[r] \in Nat /\ rxDone[q] \in Nat /\ i \in Nat
    BY <1>3
  <2>3. frame'[rxRing[r][i]] = IF r = q /\ i = d THEN k ELSE frame[rxRing[r][i]]
    BY <1>3, <1>4, <1>6, <1>8, ZenonT(30)
  <2> HIDE DEF m
  <2> QED BY <1>7, <2>1, <2>2, <2>3, KindIsFrame
<1>10. \A n \in pool' : frame'[n] = NoFrame
  BY <1>3, <1>4, <1>6, <1>7, ZenonT(30) DEF FrameInv
<1>11. FrameInv'
  BY <1>7, <1>9, <1>10, ZenonT(30) DEF FrameInv
<1> QED BY <1>4, <1>5, <1>6, <1>11, ZenonT(30)

-----------------------------------------------------------------------------
(* Every step is a step of MbufLife, or changes nothing it can see.        *)

LEMMA ReceiveLife ==
  ASSUME OInv, OInv', FrameInv, NEW q \in Queues, Receive(q)
  PROVE  Life!Next
<1> DEFINE m == Head(rxRing[q])
<1>1. PICK n \in pool :
           /\ m \in Armed /\ m \in Mbufs /\ n \in Mbufs
           /\ pool' = pool \ {n} /\ Armed' = (Armed \ {m}) \cup {n}
           /\ Got' = Got \cup {m} /\ UNCHANGED <<Kept, Rejected, Given>>
  BY ReceiveSets, ZenonT(30)
<1>2. frame' = frame /\ frame[m] # NoFrame
  BY ReceiveFrameInv, ZenonT(30)
<1>3. m \in Mbufs /\ m # n
  BY <1>1, StageFacts, ZenonT(30) DEF Disjoint
<1> HIDE DEF m
<1>4. Stages[m] = "armed" /\ Stages[n] = "pool"
  BY <1>1, <1>3, StageAt, StageAfter, ZenonT(30)
<1>5. Stages'[m] = "got" /\ Stages'[n] = "armed"
  BY <1>1, <1>3, StageAt, StageAfter, ZenonT(30)
<1>6. \A x \in Mbufs : x # m /\ x # n => Stages'[x] = Stages[x]
  BY <1>1, StageFacts, StageSame
<1>7. Stages' = [Stages EXCEPT ![m] = "got", ![n] = "armed"]
  BY <1>3, <1>5, <1>6, StageFacts, ZenonT(30)
<1>8. Life!Receive(m, n)
  BY <1>2, <1>4, <1>7, ZenonT(30) DEF Life!Receive, Stages
<1> QED BY <1>1, <1>3, <1>8, ZenonT(30) DEF Life!Next

LEMMA InspectLife ==
  ASSUME OInv, OInv', NEW q \in Queues, Inspect(q)
  PROVE  Life!Next
<1> DEFINE m == Head(burst[q])
           to == IF frame[m] = "v4" THEN "accepted" ELSE "rejected"
<1>1. /\ m \in Got /\ m \in Mbufs /\ Got' = Got \ {m}
      /\ Kept' = IF Accepted(m) THEN Kept \cup {m} ELSE Kept
      /\ Rejected' = IF Accepted(m) THEN Rejected ELSE Rejected \cup {m}
      /\ UNCHANGED <<pool, frame, Armed, Given>>
  BY InspectSets, ZenonT(30)
<1> HIDE DEF m
<1>2. Stages[m] = "got"
  BY <1>1, StageAt, StageAfter, ZenonT(30)
<1>3. Stages'[m] = to
  <2>1. CASE Accepted(m)
    BY <1>1, <2>1, StageAt, StageAfter, ZenonT(30) DEF Accepted
  <2>2. CASE ~Accepted(m)
    BY <1>1, <2>2, StageAt, StageAfter, ZenonT(30) DEF Accepted
  <2> QED BY <2>1, <2>2, ZenonT(30)
<1>4. \A x \in Mbufs : x # m => Stages'[x] = Stages[x]
  BY <1>1, StageFacts, StageSame
<1>5. Stages' = [Stages EXCEPT ![m] = to]
  BY <1>1, <1>3, <1>4, StageFacts, ZenonT(30)
<1>6. Life!Judge(m)
  BY <1>1, <1>2, <1>5, ZenonT(30) DEF Life!Judge, Stages
<1> QED BY <1>1, <1>6, ZenonT(30) DEF Life!Next

LEMMA FreeLife ==
  ASSUME OInv, OInv', NEW q \in Queues, Free(q)
  PROVE  Life!Next
<1> DEFINE m == Head(freeList[q])
<1>1. /\ m \in Rejected /\ m \in Mbufs /\ pool' = pool \cup {m}
      /\ frame' = [frame EXCEPT ![m] = NoFrame] /\ Rejected' = Rejected \ {m}
      /\ UNCHANGED <<Armed, Got, Kept, Given>>
  BY FreeSets, ZenonT(30)
<1> HIDE DEF m
<1>2. Stages[m] = "rejected" /\ Stages'[m] = "pool"
  BY <1>1, StageAt, StageAfter, ZenonT(30)
<1>3. \A x \in Mbufs : x # m => Stages'[x] = Stages[x]
  BY <1>1, StageFacts, StageSame
<1>4. Stages' = [Stages EXCEPT ![m] = "pool"]
  BY <1>1, <1>2, <1>3, StageFacts, ZenonT(30)
<1>5. Life!Free(m)
  BY <1>1, <1>2, <1>4, ZenonT(30) DEF Life!Free, Stages
<1> QED BY <1>1, <1>5, ZenonT(30) DEF Life!Next

LEMMA TransmitLife ==
  ASSUME OInv, OInv', NEW q \in Queues, Transmit(q)
  PROVE  Life!Next
<1> DEFINE m    == Head(sendList[q])
           old  == Head(txRing[q])
           full == Len(txRing[q]) = NbTxDesc
<1>1. /\ m \in Kept /\ m \in Mbufs /\ Kept' = Kept \ {m}
      /\ UNCHANGED <<Armed, Got, Rejected>>
      /\ ~full => Given' = Given \cup {m} /\ UNCHANGED <<pool, frame>>
      /\ full => /\ old \in Given /\ old \in Mbufs
                 /\ Given' = (Given \ {old}) \cup {m} /\ pool' = pool \cup {old}
                 /\ frame' = [frame EXCEPT ![old] = NoFrame]
  BY TransmitSets, ZenonT(30)
<1> HIDE DEF m, old, full
<1>2. Stages[m] = "accepted"
  BY <1>1, StageAt, ZenonT(30)
<1>3. CASE ~full
  <2>1. Stages'[m] = "sent"
    BY <1>1, <1>3, StageAfter, ZenonT(30)
  <2>2. \A x \in Mbufs : x # m => Stages'[x] = Stages[x]
    BY <1>1, <1>3, StageFacts, StageSame
  <2>3. Stages' = [Stages EXCEPT ![m] = "sent"]
    BY <1>1, <2>1, <2>2, StageFacts, ZenonT(30)
  <2>4. Life!Send(m)
    BY <1>1, <1>2, <1>3, <2>3, ZenonT(30) DEF Life!Send, Stages
  <2> QED BY <1>1, <2>4, ZenonT(30) DEF Life!Next
<1>4. CASE full
  <2>1. m # old
    BY <1>1, <1>4, StageFacts, ZenonT(30) DEF Disjoint
  <2>2. Stages[old] = "sent" /\ Stages'[m] = "sent" /\ Stages'[old] = "pool"
    BY <1>1, <1>4, <2>1, StageAt, StageAfter, ZenonT(30)
  <2>3. \A x \in Mbufs : x # m /\ x # old => Stages'[x] = Stages[x]
    BY <1>1, <1>4, StageFacts, StageSame
  <2>4. Stages' = [Stages EXCEPT ![m] = "sent", ![old] = "pool"]
    BY <1>1, <1>4, <2>1, <2>2, <2>3, StageFacts, ZenonT(30)
  <2>5. Life!SendReclaim(m, old)
    BY <1>1, <1>2, <1>4, <2>2, <2>4, ZenonT(30) DEF Life!SendReclaim, Stages
  <2> QED BY <1>1, <1>4, <2>5, ZenonT(30) DEF Life!Next
<1> QED BY <1>3, <1>4, ZenonT(30)

LEMMA SentLife ==
  ASSUME OInv, OInv', NEW q \in Queues, Sent(q)
  PROVE  Life!Next
<1> DEFINE S == Range(sendList[q])
<1>1. /\ S \subseteq Kept /\ S \subseteq Mbufs /\ Kept' = Kept \ S
      /\ UNCHANGED <<pool, frame, Armed, Got, Rejected, Given>>
  BY SentSets, ZenonT(30)
<1> HIDE DEF S
<1>2. \A x \in S : Stages[x] = "accepted"
  BY <1>1, StageAt, ZenonT(30)
<1>3. \A x \in S : Stages'[x] = "lost"
  <2> SUFFICES ASSUME NEW x \in S PROVE Stages'[x] = "lost"
    BY ZenonT(30)
  <2>1. x \notin pool' \cup Armed' \cup Got' \cup Kept' \cup Rejected' \cup Given'
    BY <1>1, StageFacts, ZenonT(30) DEF Disjoint
  <2> QED BY <1>1, <2>1, StageAfter, ZenonT(30)
<1>4. \A x \in Mbufs : x \notin S => Stages'[x] = Stages[x]
  BY <1>1, StageFacts, StageSame
<1>5. Stages' = [x \in Mbufs |-> IF x \in S THEN "lost" ELSE Stages[x]]
  BY <1>1, <1>3, <1>4, StageFacts, ZenonT(30)
<1>6. Life!Lose(S)
  BY <1>1, <1>2, <1>5, ZenonT(30) DEF Life!Lose, Stages
<1> QED BY <1>1, <1>6, ZenonT(30) DEF Life!Next

\* The frame arrives in a buffer that had none.
LEMMA NicReceiveLife ==
  ASSUME OInv, OInv', FrameInv, NEW q \in Queues, NicReceive(q), UNCHANGED appVars
  PROVE  Life!Next
<1> DEFINE m == rxRing[q][rxDone[q] + 1]
<1>1. /\ m \in Armed /\ m \in Mbufs /\ frame[m] = NoFrame
      /\ \E k \in FrameKinds : frame' = [frame EXCEPT ![m] = k]
  BY NicReceiveFrameInv, ZenonT(30)
<1> HIDE DEF m
<1>2. PICK k \in FrameKinds : frame' = [frame EXCEPT ![m] = k]
  BY <1>1, ZenonT(30)
<1>3. UNCHANGED <<pool, rxRing, txRing, burst, sendList, freeList>>
  BY ZenonT(30) DEF NicReceive, txVars, appVars
<1>4. Stages' = Stages
  BY <1>3 DEF Stages, Stage, HeldIn, Held
<1>5. Stages[m] = "armed"
  BY <1>1, StageAt, ZenonT(30)
<1>6. Life!Deliver(m, k)
  BY <1>1, <1>2, <1>4, <1>5, ZenonT(30) DEF Life!Deliver, Stages
<1> QED BY <1>1, <1>6, ZenonT(30) DEF Life!Next

\* The other steps.
LEMMA StillLife ==
  ASSUME UNCHANGED <<pool, frame, rxRing, txRing, burst, sendList, freeList>>
  PROVE  UNCHANGED Life!vars
<1>1. Stages' = Stages
  BY DEF Stages, Stage, HeldIn, Held
<1> QED BY <1>1, ZenonT(30) DEF Life!vars, Stages

-----------------------------------------------------------------------------
(* Putting the actions together.                                           *)

LEMMA StillSteps ==
  ASSUME NEW q \in Queues,
         \/ GotBurst(q) \/ Inspected(q) \/ BeginSend(q) \/ Freed(q)
         \/ NicTransmit(q) /\ UNCHANGED appVars
  PROVE  UNCHANGED <<pool, frame, rxRing, rxDone, txRing, burst, sendList, freeList>>
  BY ZenonT(30) DEF GotBurst, RxReturn, Inspected, BeginSend, TxBegin, Freed, NicTransmit,
         devVars, memVars, rxVars, txVars, appVars

LEMMA NextFrameInv == OInv /\ FrameInv /\ [Next]_vars => FrameInv'
<1> SUFFICES ASSUME OInv, FrameInv, [Next]_vars PROVE FrameInv'
  BY ZenonT(30)
<1>1. Disjoint(pool, Armed, Got, Kept, Rejected, Given)
  BY OInvSets, ZenonT(30) DEF SetsOK, Armed, Got, Kept, Rejected, Given
<1>2. ASSUME NEW q \in Queues, Receive(q) PROVE FrameInv'
  BY <1>2, ReceiveFrameInv, ZenonT(30)
<1>3. ASSUME NEW q \in Queues, Inspect(q) \/ Sent(q) PROVE FrameInv'
  BY <1>3, StillFrameInv, ZenonT(30) DEF Inspect, Sent, devVars, memVars, rxVars
<1>4. ASSUME NEW q \in Queues, Transmit(q) PROVE FrameInv'
  <2>1. CASE Len(txRing[q]) = NbTxDesc
    <3> DEFINE m == Head(txRing[q])
    <3>1. /\ m \in Given /\ m \in Mbufs /\ pool' = pool \cup {m}
          /\ frame' = [frame EXCEPT ![m] = NoFrame] /\ UNCHANGED <<rxRing, rxDone>>
      BY <1>4, <2>1, TransmitSets, ZenonT(30)
    <3>2. m \notin Armed
      BY <1>1, <3>1, ZenonT(30) DEF Disjoint
    <3> HIDE DEF m
    <3> QED BY <3>1, <3>2, ReturnFrameInv, ZenonT(30)
  <2>2. CASE Len(txRing[q]) # NbTxDesc
    BY <1>4, <2>2, TransmitSets, StillFrameInv, ZenonT(30)
  <2> QED BY <2>1, <2>2, ZenonT(30)
<1>5. ASSUME NEW q \in Queues, Free(q) PROVE FrameInv'
  <2> DEFINE m == Head(freeList[q])
  <2>1. /\ m \in Rejected /\ m \in Mbufs /\ pool' = pool \cup {m}
        /\ frame' = [frame EXCEPT ![m] = NoFrame] /\ UNCHANGED <<rxRing, rxDone>>
    BY <1>5, FreeSets, ZenonT(30)
  <2>2. m \notin Armed
    BY <1>1, <2>1, ZenonT(30) DEF Disjoint
  <2> HIDE DEF m
  <2> QED BY <2>1, <2>2, ReturnFrameInv, ZenonT(30)
<1>6. ASSUME NEW q \in Queues,
             \/ GotBurst(q) \/ Inspected(q) \/ BeginSend(q) \/ Freed(q)
             \/ NicTransmit(q) /\ UNCHANGED appVars
      PROVE  FrameInv'
  BY <1>6, StillSteps, StillFrameInv, ZenonT(30)
<1>7. ASSUME NEW q \in Queues, NicReceive(q) PROVE FrameInv'
  BY <1>7, NicReceiveFrameInv, ZenonT(30)
<1>8. CASE UNCHANGED vars
  BY <1>8, StillFrameInv, ZenonT(30) DEF vars, devVars, memVars, rxVars
<1> QED BY <1>2, <1>3, <1>4, <1>5, <1>6, <1>7, <1>8, ZenonT(30) DEF Next, Processor, Nic

LEMMA NextLife == OInv /\ OInv' /\ FrameInv /\ [Next]_vars => [Life!Next]_(Life!vars)
<1> SUFFICES ASSUME OInv, OInv', FrameInv, [Next]_vars
             PROVE  Life!Next \/ UNCHANGED Life!vars
  BY ZenonT(30)
<1>1. ASSUME NEW q \in Queues, Receive(q) PROVE Life!Next
  BY <1>1, ReceiveLife, ZenonT(30)
<1>2. ASSUME NEW q \in Queues, Inspect(q) PROVE Life!Next
  BY <1>2, InspectLife, ZenonT(30)
<1>3. ASSUME NEW q \in Queues, Transmit(q) PROVE Life!Next
  BY <1>3, TransmitLife, ZenonT(30)
<1>4. ASSUME NEW q \in Queues, Sent(q) PROVE Life!Next
  BY <1>4, SentLife, ZenonT(30)
<1>5. ASSUME NEW q \in Queues, Free(q) PROVE Life!Next
  BY <1>5, FreeLife, ZenonT(30)
<1>6. ASSUME NEW q \in Queues, NicReceive(q), UNCHANGED appVars PROVE Life!Next
  BY <1>6, NicReceiveLife, ZenonT(30)
<1>7. ASSUME NEW q \in Queues,
             \/ GotBurst(q) \/ Inspected(q) \/ BeginSend(q) \/ Freed(q)
             \/ NicTransmit(q) /\ UNCHANGED appVars
      PROVE  UNCHANGED Life!vars
  BY <1>7, StillSteps, StillLife, ZenonT(30)
<1>8. CASE UNCHANGED vars
  BY <1>8, StillLife, ZenonT(30) DEF vars, devVars, memVars, rxVars, txVars, appVars
<1> QED BY <1>1, <1>2, <1>3, <1>4, <1>5, <1>6, <1>7, <1>8, ZenonT(30) DEF Next, Processor, Nic

LEMMA InitLife == Init => FrameInv /\ Life!Init
<1> SUFFICES ASSUME Init PROVE FrameInv /\ Life!Init
  BY ZenonT(30)
<1>1. SetsOK
  BY InitOInv, OInvSets, ZenonT(30)
<1>2. \A m \in Mbufs : frame[m] = NoFrame
  BY ZenonT(30) DEF Init, DevInit
<1>3. FrameInv
  <2>1. /\ \A q \in Queues : \A i \in 1..Len(rxRing[q]) : rxRing[q][i] \in Mbufs
        /\ pool \subseteq Mbufs
    BY <1>1 DEF SetsOK, Lists, Init, DevInit
  <2>2. \A q \in Queues : \A i \in 1..Len(rxRing[q]) : i > rxDone[q]
    BY DEF Init, DevInit
  <2> QED BY <1>2, <2>1, <2>2, ZenonT(30) DEF FrameInv
<1>4. \A m \in Mbufs : m \in pool \/ m \in Armed
  BY ZenonT(30) DEF Init, DevInit, Armed, Elems
<1>5. Disjoint(pool, Armed, Got, Kept, Rejected, Given)
  BY <1>1, ZenonT(30) DEF SetsOK, Armed, Got, Kept, Rejected, Given
<1>6. \A m \in Mbufs : Stage(m) \in {"pool", "armed"}
  <2> SUFFICES ASSUME NEW m \in Mbufs PROVE Stage(m) \in {"pool", "armed"}
    BY ZenonT(30)
  <2> DEFINE v == StageOf(pool, Armed, Got, Kept, Rejected, Given, m)
  <2>1. v = "pool" <=> m \in pool
    BY <1>5, StageIs
  <2>2. v = "armed" <=> m \in Armed
    BY <1>5, StageIs
  <2>3. Stage(m) = v
    BY StageSets, ZenonT(30)
  <2> HIDE DEF v
  <2> QED BY <1>4, <2>1, <2>2, <2>3, ZenonT(30)
<1>7. frame = [m \in Mbufs |-> NoFrame]
  BY ZenonT(30) DEF Init, DevInit
<1>8. Life!Init
  BY <1>6, <1>7, ZenonT(30) DEF Life!Init
<1> QED BY <1>3, <1>8, ZenonT(30)

(***************************************************************************)
(* The firewall of DpdkJava-R implements the life cycle of MbufLife for    *)
(* any number of processor threads, mbufs and descriptors and any burst    *)
(* sizes: ReceivePoller, FirewallProcessor.inspect, PacketSender,          *)
(* PacketFreeer and the driver's rings give every frame to inspect() once, *)
(* and the buffer goes where the verdict on that very frame says.          *)
(***************************************************************************)
THEOREM FirewallImplementsLife == Spec => ImplementsLife
<1>1. Init => OInv /\ FrameInv /\ Life!Init
  BY InitOInv, InitLife, ZenonT(30)
<1>2. OInv /\ FrameInv /\ [Next]_vars => OInv' /\ FrameInv'
  BY NextOInv, NextFrameInv, ZenonT(30)
<1>3. OInv /\ OInv' /\ FrameInv /\ [Next]_vars => [Life!Next]_(Life!vars)
  BY NextLife, ZenonT(30)
<1> QED BY <1>1, <1>2, <1>3, PTL DEF Spec, ImplementsLife, Life!Spec

-----------------------------------------------------------------------------
(* The two action properties.                                              *)

\* What is in flight is in the transmit ring, and not where a full ring
\* takes its next packet.
LEMMA InFlightAt ==
  ASSUME OInv, NEW q \in Queues, NEW m \in InFlight(q)
  PROVE  \E i \in 1..Len(txRing[q]) :
           m = txRing[q][i] /\ (Len(txRing[q]) = NbTxDesc => i # 1)
<1> DEFINE l == Len(txRing[q])
<1>1. PICK i \in l - TxPending(q) + 1 .. l : m = txRing[q][i]
  BY ZenonT(30) DEF InFlight
<1>2. /\ l \in Nat /\ nbTxFree[q] \in Nat /\ txDone[q] \in Nat /\ NbTxDesc \in Nat
      /\ NbTxDesc - 1 - nbTxFree[q] <= l
  <2>1. DevTypeOK /\ RingsConsistent
    BY ZenonT(30) DEF OInv, TInv, DevInv
  <2>2. l \in Nat /\ nbTxFree[q] \in 0..NbTxDesc - 1 /\ txDone[q] \in 0..NbTxDesc - 1
    BY <2>1 DEF DevTypeOK
  <2> QED BY <2>1, <2>2, DeviceAssumption DEF RingsConsistent
<1> HIDE DEF l
<1>3. i \in 1..l /\ (l = NbTxDesc => i # 1)
  BY <1>2 DEF TxPending
<1> QED BY <1>1, <1>3, ZenonT(30) DEF l

LEMMA NextInFlight ==
  OInv /\ [Next]_vars => [\A q \in Queues : InFlight(q) \cap pool' = {}]_vars
<1> SUFFICES ASSUME OInv, Next, NEW q \in Queues, NEW m \in InFlight(q), m \in pool'
             PROVE  FALSE
  BY ZenonT(30)
<1>1. SetsOK /\ Disjoint(pool, Armed, Got, Kept, Rejected, Given)
  BY OInvSets, ZenonT(30) DEF SetsOK, Armed, Got, Kept, Rejected, Given
<1>2. PICK i \in 1..Len(txRing[q]) :
        m = txRing[q][i] /\ (Len(txRing[q]) = NbTxDesc => i # 1)
  BY InFlightAt, ZenonT(30)
<1>3. m \in Given /\ m \notin pool /\ m \notin Rejected
  <2>1. m \in Given
    BY <1>1, <1>2, ElemsAt, ZenonT(30) DEF SetsOK, Given
  <2> QED BY <1>1, <2>1, ZenonT(30) DEF Disjoint
<1>4. ASSUME NEW r \in Queues, Receive(r) PROVE FALSE
  BY <1>3, <1>4, ReceiveSets, ZenonT(30)
<1>5. ASSUME NEW r \in Queues, Free(r) PROVE FALSE
  BY <1>3, <1>5, FreeSets, ZenonT(30)
<1>6. ASSUME NEW r \in Queues, Transmit(r) PROVE FALSE
  <2>1. CASE Len(txRing[r]) = NbTxDesc
    <3>1. pool' = pool \cup {Head(txRing[r])}
      BY <1>6, <2>1, TransmitSets, ZenonT(30)
    <3>2. txRing \in Lists /\ OneEach(txRing)
      BY <1>1, ZenonT(30) DEF SetsOK
    <3>3. 1 \in 1..Len(txRing[r]) /\ Head(txRing[r]) = txRing[r][1]
      BY <2>1, <3>2, DeviceAssumption DEF Lists
    <3>4. txRing[q][i] = txRing[r][1]
      BY <1>2, <1>3, <3>1, <3>3, ZenonT(30)
    <3>5. \A j \in 1..Len(txRing[r]) : txRing[q][i] = txRing[r][j] => q = r /\ i = j
      BY <3>2, ZenonT(30) DEF OneEach
    <3>6. q = r /\ i = 1
      BY <3>3, <3>4, <3>5, ZenonT(30)
    <3> QED BY <1>2, <2>1, <3>6, ZenonT(30)
  <2>2. CASE Len(txRing[r]) # NbTxDesc
    BY <1>3, <1>6, <2>2, TransmitSets, ZenonT(30)
  <2> QED BY <2>1, <2>2, ZenonT(30)
<1>7. ASSUME NEW r \in Queues,
             \/ Inspect(r) \/ Sent(r) \/ GotBurst(r) \/ Inspected(r)
             \/ BeginSend(r) \/ Freed(r) \/ Nic(r)
      PROVE  FALSE
  <2>1. pool' = pool
    BY <1>7, ZenonT(30) DEF Inspect, Sent, GotBurst, RxReturn, Inspected, BeginSend, TxBegin,
                Freed, Nic, NicReceive, NicTransmit, devVars, memVars
  <2> QED BY <1>3, <2>1, ZenonT(30)
<1> QED BY <1>4, <1>5, <1>6, <1>7, ZenonT(30) DEF Next, Processor

(***************************************************************************)
(* eth_em_xmit_pkts frees the mbuf of a slot it reuses.  However cleanups, *)
(* transmissions and bursts interleave, that is never an mbuf the NIC has  *)
(* still to send, and nothing else returns one to the pool either.         *)
(***************************************************************************)
THEOREM InFlightKept == Spec => NoFreeInFlight
<1>1. Spec => []OInv
  BY InitOInv, NextOInv, PTL DEF Spec
<1> QED BY <1>1, NextInFlight, PTL DEF Spec, NoFreeInFlight

Known == pool \cup Armed \cup Got \cup Kept \cup Rejected \cup Given

LEMMA LostKnown == Lost = Mbufs \ Known
<1>1. \A m : (\E x \in Queues \X Places : m \in Range(Holding[x]))
               <=> \E q \in Queues, pl \in Places : m \in Range(Held(q, pl))
  BY HeldAt, ZenonT(30) DEF Holding
<1>2. \A m : (\E q \in Queues, pl \in Places : m \in Range(Held(q, pl)))
               <=> m \in Armed \cup Got \cup Kept \cup Rejected \cup Given
  BY ZenonT(30) DEF Places, Held, Armed, Got, Kept, Rejected, Given, Elems
<1>3. UNION {Range(Holding[x]) : x \in Queues \X Places}
        = Armed \cup Got \cup Kept \cup Rejected \cup Given
  BY <1>1, <1>2
<1> QED BY <1>3, ZenonT(30) DEF Lost, Known

LEMMA LostKnownNext == (Lost = Mbufs \ Known)'
  BY LostKnown, PTL

LEMMA NextLost ==
  OInv /\ [Next]_vars =>
    [Lost' # Lost =>
       \E q \in Queues : /\ Sent(q)
                         /\ ~TxRoom(q)
                         /\ Lost' = Lost \cup Range(sendList[q])]_vars
<1> SUFFICES ASSUME OInv, Next, Lost' # Lost
             PROVE  \E q \in Queues : /\ Sent(q)
                                      /\ ~TxRoom(q)
                                      /\ Lost' = Lost \cup Range(sendList[q])
  BY ZenonT(30)
<1>1. Lost = Mbufs \ Known /\ Lost' = Mbufs \ Known'
  BY LostKnown, LostKnownNext, ZenonT(30)
<1>2. Disjoint(pool, Armed, Got, Kept, Rejected, Given)
  BY OInvSets, ZenonT(30) DEF SetsOK, Armed, Got, Kept, Rejected, Given
<1>3. ASSUME NEW q \in Queues, Receive(q) PROVE Known' = Known
  BY <1>3, ReceiveSets DEF Known
<1>4. ASSUME NEW q \in Queues, Inspect(q) PROVE Known' = Known
  BY <1>4, InspectSets, ZenonT(30) DEF Known
<1>5. ASSUME NEW q \in Queues, Transmit(q) PROVE Known' = Known
  BY <1>5, TransmitSets, ZenonT(30) DEF Known
<1>6. ASSUME NEW q \in Queues, Free(q) PROVE Known' = Known
  BY <1>6, FreeSets, ZenonT(30) DEF Known
<1>7. ASSUME NEW q \in Queues,
             GotBurst(q) \/ Inspected(q) \/ BeginSend(q) \/ Freed(q) \/ Nic(q)
      PROVE  Known' = Known
  <2>1. UNCHANGED <<pool, rxRing, txRing, burst, sendList, freeList>>
    BY <1>7, ZenonT(30) DEF GotBurst, RxReturn, Inspected, BeginSend, TxBegin, Freed, Nic,
       NicReceive, NicTransmit, devVars, memVars, rxVars, txVars, appVars
  <2> QED BY <2>1, StillSets, ZenonT(30) DEF Known
<1>8. PICK q \in Queues : Sent(q)
  BY <1>1, <1>3, <1>4, <1>5, <1>6, <1>7, ZenonT(30) DEF Next, Processor
<1> DEFINE S == Range(sendList[q])
<1>9. /\ S \subseteq Kept /\ S \subseteq Mbufs /\ Kept' = Kept \ S
      /\ UNCHANGED <<pool, Armed, Got, Rejected, Given>>
  BY <1>8, SentSets, ZenonT(30)
<1>10. ~TxRoom(q)
  <2>1. SUFFICES ASSUME sendList[q] = <<>> PROVE FALSE
    BY <1>8, ZenonT(30) DEF Sent
  <2>2. S = {}
    BY <2>1 DEF Range
  <2> HIDE DEF S
  <2>3. Known' = Known
    BY <1>9, <2>2, ZenonT(30) DEF Known
  <2> QED BY <1>1, <2>3, ZenonT(30)
<1> HIDE DEF S
<1>11. Known' = Known \ S
  BY <1>2, <1>9, ZenonT(30) DEF Known, Disjoint
<1>12. Lost' = Lost \cup S
  BY <1>1, <1>9, <1>11, ZenonT(30)
<1> QED BY <1>8, <1>10, <1>12, ZenonT(30) DEF S

(***************************************************************************)
(* No list, ring or call of DpdkJava-R ever drops an mbuf, except that     *)
(* PacketSender.sendBurst forgets what a full transmit ring left it with,  *)
(* and then it forgets exactly that.                                       *)
(***************************************************************************)
THEOREM OnlyFullRingLoses == Spec => LostOnlyToFullRing
<1>1. Spec => []OInv
  BY InitOInv, NextOInv, PTL DEF Spec
<1> QED BY <1>1, NextLost, PTL DEF Spec, LostOnlyToFullRing

=============================================================================
