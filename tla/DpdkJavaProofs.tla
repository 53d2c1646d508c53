--------------------------- MODULE DpdkJavaProofs ---------------------------
(***************************************************************************)
(* Proofs about DpdkJava for any number of queues, mbufs and descriptors,  *)
(* any burst sizes and any number of lists returned twice.                 *)
(***************************************************************************)
EXTENDS DpdkJava, EthDevProofs, SequenceTheorems

\* A leaf names Zenon where it needs no arithmetic.
USE SMTT(30), ZenonT(30)

AppTypeOK ==
  /\ pc \in [Queues -> Locations]
  /\ got \in Lists /\ packets \in Lists
  /\ sendList \in Lists /\ freeList \in Lists
  /\ inspected \in [Queues -> Nat]
  /\ \A q \in Queues : inspected[q] <= Len(packets[q])
  /\ stale \in [Queues -> 0..MaxStale]

\* A list can be full only while it is being flushed.
Fit == \A q \in Queues :
  /\ Len(sendList[q]) <= SendBurst /\ Len(freeList[q]) <= FreeBurst
  /\ pc[q] \notin {"send", "xmit"} => Len(sendList[q]) < SendBurst
  /\ pc[q] # "free" => Len(freeList[q]) < FreeBurst

\* run() polls again only when it has inspected the whole list.
Consumed == \A q \in Queues : pc[q] = "poll" => inspected[q] = Len(packets[q])

TInv == DevInv /\ AppTypeOK /\ Fit /\ Consumed

LEMMA TypeSplit == TInv => TypeOK /\ RingsConsistent /\ ListsFit
<1> SUFFICES ASSUME TInv PROVE TypeOK /\ RingsConsistent /\ ListsFit
  OBVIOUS
<1>1. \A q \in Queues : inspected[q] \in 0..Len(packets[q])
  BY DEF TInv, AppTypeOK, Lists
<1>2. TypeOK /\ RingsConsistent
  BY <1>1 DEF TInv, DevInv, AppTypeOK, TypeOK, Lists
<1>3. ListsFit
  BY DEF TInv, Fit, ListsFit
<1> QED BY <1>2, <1>3

LEMMA InitTInv == Init => TInv
<1> SUFFICES ASSUME Init PROVE TInv
  OBVIOUS
<1>1. DevInv
  BY DevInitInv DEF Init
<1>2. AppTypeOK /\ Fit /\ Consumed
  BY PathAssumption DEF Init, AppTypeOK, Fit, Consumed, Locations, Lists
<1> QED BY <1>1, <1>2 DEF TInv

-----------------------------------------------------------------------------
(* Each action keeps the types and the bounds.                             *)

LEMMA ReceiveTInv ==
  ASSUME NEW q \in Queues, TInv, Receive(q)
  PROVE  TInv' /\ rxRing[q] # <<>> /\ Head(rxRing[q]) \in Mbufs
<1> USE DEF TInv
<1>1. PICK nmb \in pool : RxPacket(q, nmb)
  BY DEF Receive
<1>2. DevInv' /\ rxRing[q] # <<>> /\ Head(rxRing[q]) \in Mbufs
  BY <1>1, RxPacketInv
<1>3. /\ got' = [got EXCEPT ![q] = Append(@, Head(rxRing[q]))]
      /\ UNCHANGED <<pc, packets, inspected, sendList, freeList, stale>>
  BY DEF Receive
<1>4. AppTypeOK'
  BY <1>2, <1>3 DEF AppTypeOK, Lists
<1>5. Fit' /\ Consumed'
  BY <1>3 DEF Fit, Consumed
<1> QED BY <1>2, <1>4, <1>5

LEMMA PollTInv ==
  ASSUME NEW q \in Queues, TInv, GotBurst(q) \/ GotNothing(q)
  PROVE  TInv'
<1> USE DEF TInv
<1>1. /\ BurstEnds(q)
      /\ pc' = [pc EXCEPT ![q] = "inspect"]
      /\ inspected' = [inspected EXCEPT ![q] = 0]
      /\ UNCHANGED <<sendList, freeList>>
  BY DEF GotBurst, GotNothing, BurstEnds, Goto
<1>2. DevInv'
  BY <1>1, RxReturnInv DEF BurstEnds
<1>3. /\ got' \in Lists /\ packets' \in Lists
      /\ stale' \in [Queues -> 0..MaxStale]
  <2>1. CASE GotBurst(q)
    BY <2>1 DEF GotBurst, AppTypeOK, Lists
  <2>2. CASE GotNothing(q)
    <3>1. /\ UNCHANGED <<got, packets>>
          /\ \/ UNCHANGED stale
             \/ stale[q] < MaxStale /\ stale' = [stale EXCEPT ![q] = @ + 1]
      BY <2>2, ZenonT(30) DEF GotNothing, AppTypeOK
    <3> QED BY <3>1, PathAssumption DEF AppTypeOK
  <2> QED BY <2>1, <2>2
<1>4. \A r \in Queues : inspected'[r] <= Len(packets'[r])
  <2> SUFFICES ASSUME NEW r \in Queues PROVE inspected'[r] <= Len(packets'[r])
    OBVIOUS
  <2>1. CASE r = q
    BY <1>1, <1>3, <2>1 DEF AppTypeOK, Lists
  <2>2. CASE r # q
    BY <1>1, <2>2 DEF AppTypeOK, Lists, GotBurst, GotNothing
  <2> QED BY <2>1, <2>2
<1>5. AppTypeOK'
  BY <1>1, <1>3, <1>4, ZenonT(30) DEF AppTypeOK, Locations
<1>6. Fit'
  BY <1>1 DEF Fit, AppTypeOK, BurstEnds
<1>7. Consumed'
  <2>1. \A r \in Queues : r # q => packets'[r] = packets[r]
    BY DEF GotBurst, GotNothing, AppTypeOK, Lists
  <2> QED BY <1>1, <2>1, ZenonT(30) DEF Consumed, AppTypeOK
<1> QED BY <1>2, <1>5, <1>6, <1>7

LEMMA InspectTInv ==
  ASSUME NEW q \in Queues, TInv, Inspect(q)
  PROVE  TInv' /\ packets[q][inspected[q] + 1] \in Mbufs
<1> USE DEF TInv
<1> DEFINE m == packets[q][inspected[q] + 1]
<1>1. DevInv'
  BY DevStutterInv DEF Inspect
<1>2. /\ pc[q] = "inspect" /\ inspected[q] < Len(packets[q])
      /\ inspected' = [inspected EXCEPT ![q] = @ + 1]
      /\ UNCHANGED <<got, packets, stale>>
  BY DEF Inspect
<1>3. m \in Mbufs
  BY <1>2 DEF AppTypeOK, Lists
<1>4. /\ inspected' \in [Queues -> Nat]
      /\ \A r \in Queues : inspected'[r] <= Len(packets'[r])
  BY <1>2 DEF AppTypeOK, Lists
<1>5. CASE SendPacket(q, m)
  <2>1. AppTypeOK'
    BY <1>2, <1>3, <1>4, <1>5 DEF AppTypeOK, SendPacket, Goto, Locations, Lists
  <2>2. Fit'
    BY <1>2, <1>3, <1>5, PathAssumption DEF AppTypeOK, Fit, SendPacket, Goto, Lists
  <2>3. Consumed'
    BY <1>2, <1>5 DEF AppTypeOK, Consumed, SendPacket, Goto
  <2> QED BY <1>1, <1>3, <2>1, <2>2, <2>3
<1>6. CASE FreePacket(q, m)
  <2>1. AppTypeOK'
    BY <1>2, <1>3, <1>4, <1>6 DEF AppTypeOK, FreePacket, Goto, Locations, Lists
  <2>2. Fit'
    BY <1>2, <1>3, <1>6, PathAssumption DEF AppTypeOK, Fit, FreePacket, Goto, Lists
  <2>3. Consumed'
    BY <1>2, <1>6 DEF AppTypeOK, Consumed, FreePacket, Goto
  <2> QED BY <1>1, <1>3, <2>1, <2>2, <2>3
<1> QED BY <1>5, <1>6 DEF Inspect

LEMMA TransmitTInv ==
  ASSUME NEW q \in Queues, TInv, Transmit(q)
  PROVE  TInv'
<1> USE DEF TInv
<1>1. /\ sendList[q] \in Seq(Mbufs) /\ sendList[q] # <<>>
      /\ pc[q] = "xmit"
      /\ sendList' = [sendList EXCEPT ![q] = Tail(@)]
      /\ TxPacket(q, Head(sendList[q]))
      /\ UNCHANGED <<pc, got, packets, inspected, freeList, stale>>
  BY DEF Transmit, AppTypeOK, Lists
<1>2. /\ Head(sendList[q]) \in Mbufs
      /\ Tail(sendList[q]) \in Seq(Mbufs)
      /\ Len(Tail(sendList[q])) = Len(sendList[q]) - 1
      /\ Len(sendList[q]) \in Nat
  BY <1>1
<1>3. DevInv'
  BY <1>1, <1>2, TxPacketInv
<1>4. AppTypeOK'
  BY <1>1, <1>2 DEF AppTypeOK, Lists
<1>5. Fit'
  BY <1>1, <1>2, PathAssumption DEF AppTypeOK, Fit, Lists
<1>6. Consumed'
  BY <1>1 DEF Consumed
<1> QED BY <1>3, <1>4, <1>5, <1>6

LEMMA FreeTInv ==
  ASSUME NEW q \in Queues, TInv, Free(q)
  PROVE  TInv'
<1> USE DEF TInv
<1>1. /\ freeList[q] \in Seq(Mbufs) /\ freeList[q] # <<>>
      /\ pc[q] = "free"
      /\ freeList' = [freeList EXCEPT ![q] = Tail(@)]
      /\ UNCHANGED <<pc, got, packets, inspected, sendList, stale>>
  BY DEF Free, AppTypeOK, Lists
<1>2. /\ Head(freeList[q]) \in Mbufs
      /\ Tail(freeList[q]) \in Seq(Mbufs)
      /\ Len(Tail(freeList[q])) = Len(freeList[q]) - 1
      /\ Len(freeList[q]) \in Nat
  BY <1>1
<1>3. DevInv'
  BY <1>2, FreeMbufInv DEF Free
<1>4. AppTypeOK'
  BY <1>1, <1>2 DEF AppTypeOK, Lists
<1>5. Fit'
  BY <1>1, <1>2, PathAssumption DEF AppTypeOK, Fit, Lists
<1>6. Consumed'
  BY <1>1 DEF Consumed
<1> QED BY <1>3, <1>4, <1>5, <1>6

\* The steps that move the program counter, or empty a list at once.
LEMMA MoveTInv ==
  ASSUME NEW q \in Queues, TInv,
         Inspected(q) \/ BeginSend(q) \/ Sent(q) \/ Freed(q)
  PROVE  TInv'
<1> USE DEF TInv
<1>1. DevInv'
  BY DevStutterInv, TxBeginInv DEF Inspected, BeginSend, Sent, Freed
<1>2. AppTypeOK'
  <2>1. /\ pc' \in [Queues -> Locations]
        /\ UNCHANGED <<got, packets, inspected, freeList, stale>>
    BY ZenonT(30) DEF AppTypeOK, Inspected, BeginSend, Sent, Freed, Goto, Locations
  <2>2. sendList' \in Lists
    <3>1. \/ UNCHANGED sendList
          \/ sendList' = [sendList EXCEPT ![q] = <<>>]
      BY DEF Inspected, BeginSend, Sent, Freed
    <3>2. sendList \in Lists
      BY DEF AppTypeOK
    <3>3. [sendList EXCEPT ![q] = <<>>] \in Lists
      BY <3>2 DEF Lists
    <3> QED BY <3>1, <3>2, <3>3
  <2> QED BY <2>1, <2>2 DEF AppTypeOK
<1>3. Fit'
  <2>1. CASE Inspected(q) \/ BeginSend(q)
    BY <2>1 DEF AppTypeOK, Fit, Inspected, BeginSend, Goto
  <2>2. CASE Freed(q)
    BY <2>2, PathAssumption DEF AppTypeOK, Fit, Freed, Goto, Lists
  <2>3. CASE Sent(q)
    BY <2>3, PathAssumption DEF AppTypeOK, Fit, Sent, Goto, Lists
  <2> QED BY <2>1, <2>2, <2>3
<1>4. Consumed'
  BY ZenonT(30) DEF AppTypeOK, Consumed, Inspected, BeginSend, Sent, Freed, Goto
<1> QED BY <1>1, <1>2, <1>3, <1>4

LEMMA StillTInv ==
  ASSUME TInv, UNCHANGED appVars, DevInv'
  PROVE  TInv'
  BY DEF TInv, appVars, AppTypeOK, Fit, Consumed

LEMMA NextTInv == TInv /\ [Next]_vars => TInv'
<1> SUFFICES ASSUME TInv, [Next]_vars PROVE TInv'
  OBVIOUS
<1>1. CASE UNCHANGED vars
  BY <1>1, DevStutterInv, StillTInv DEF vars, TInv
<1>2. ASSUME NEW q \in Queues, Processor(q) PROVE TInv'
  BY <1>2, ReceiveTInv, PollTInv, InspectTInv, TransmitTInv, FreeTInv, MoveTInv
     DEF Processor
<1>3. ASSUME NEW q \in Queues, Nic(q) PROVE TInv'
  BY <1>3, NicReceiveInv, NicTransmitInv, StillTInv DEF Nic, TInv
<1>4. ASSUME NEW q \in Queues, BeyondBound(q) PROVE TInv'
  BY <1>1, <1>4 DEF BeyondBound
<1> QED BY <1>1, <1>2, <1>3, <1>4 DEF Next

(***************************************************************************)
(* The variables keep their types, and neither the sender's list nor the   *)
(* freeer's outgrows the native buffer it is written to, whatever the      *)
(* burst sizes and however often a list is returned again.                 *)
(***************************************************************************)
THEOREM BuffersNeverOverflow == Spec => [](TypeOK /\ ListsFit)
<1>1. Spec => []TInv
  BY InitTInv, NextTInv, PTL DEF Spec
<1> QED BY <1>1, TypeSplit, PTL

-----------------------------------------------------------------------------
(* Ownership.  What run() has not reached of the lists, and the mbufs in   *)
(* each kind of ring or list.                                              *)

Rest == [q \in Queues |-> SubSeq(packets[q], inspected[q] + 1, Len(packets[q]))]

Armed    == Elems(rxRing)
Got      == Elems(got)
Unseen   == Elems(Rest)
Kept     == Elems(sendList)
Rejected == Elems(freeList)
Given    == Elems(txRing)

Apart(P, A, B, C, D, E, F) == \A m :
  /\ m \in P => m \notin A \cup B \cup C \cup D \cup E \cup F
  /\ m \in A => m \notin B \cup C \cup D \cup E \cup F
  /\ m \in B => m \notin C \cup D \cup E \cup F
  /\ m \in C => m \notin D \cup E \cup F
  /\ m \in D => m \notin E \cup F
  /\ m \in E => m \notin F

NoRepeats ==
  /\ OneEach(rxRing) /\ OneEach(got) /\ OneEach(Rest)
  /\ OneEach(sendList) /\ OneEach(freeList) /\ OneEach(txRing)

Owning ==
  /\ NoRepeats
  /\ Apart(pool, Armed, Got, Unseen, Kept, Rejected, Given)
  /\ RefcntsExact

NeverStale == \A q \in Queues : stale[q] = 0

OInv == TInv /\ (NeverStale => Owning)

LEMMA ListTypes ==
  ASSUME TInv
  PROVE  /\ rxRing \in Lists /\ got \in Lists /\ Rest \in Lists
         /\ sendList \in Lists /\ freeList \in Lists /\ txRing \in Lists
<1>1. \A q \in Queues : Rest[q] \in Seq(Mbufs)
  <2> SUFFICES ASSUME NEW q \in Queues PROVE Rest[q] \in Seq(Mbufs)
    OBVIOUS
  <2>1. /\ packets[q] \in Seq(Mbufs) /\ inspected[q] + 1 \in Int
        /\ Len(packets[q]) \in Int
        /\ \A i \in inspected[q] + 1..Len(packets[q]) : packets[q][i] \in Mbufs
    BY DEF TInv, AppTypeOK, Lists
  <2>2. SubSeq(packets[q], inspected[q] + 1, Len(packets[q])) \in Seq(Mbufs)
    BY <2>1, SubSeqProperties
  <2> QED BY <2>2 DEF Rest
<1>2. Rest \in Lists
  BY <1>1 DEF Rest, Lists
<1> QED BY <1>2 DEF TInv, AppTypeOK, DevInv, DevTypeOK, Lists

\* Where an mbuf sits in a list of the six kinds.
LEMMA OwningIsExclusive == TInv /\ Owning => ExclusiveOwnership
<1> SUFFICES ASSUME TInv, Owning,
                    NEW q \in Queues, NEW pl \in Places, NEW i \in 1..Len(Held(q, pl))
             PROVE  /\ Held(q, pl)[i] \notin pool
                    /\ \A r \in Queues, pk \in Places : \A j \in 1..Len(Held(r, pk)) :
                         Held(q, pl)[i] = Held(r, pk)[j] => q = r /\ pl = pk /\ i = j
  BY DEF ExclusiveOwnership
<1> DEFINE Ring(x) == CASE x = "rx" -> rxRing [] x = "got" -> got [] x = "list" -> Rest
                        [] x = "send" -> sendList [] x = "free" -> freeList
                        [] x = "tx" -> txRing
<1>1. \A x \in Places : Ring(x) \in Lists
  BY ListTypes DEF Places
<1>2. \A x \in Places : OneEach(Ring(x))
  BY DEF Places, Owning, NoRepeats
<1>3. \A x \in Places : \A p \in Queues : Held(p, x) = Ring(x)[p]
  BY DEF Places, Held, Rest
<1>4. \A x \in Places, y \in Places : \A m :
        /\ m \in Elems(Ring(x)) => m \notin pool
        /\ m \in Elems(Ring(x)) /\ m \in Elems(Ring(y)) => x = y
  BY DEF Places, Owning, Apart, Armed, Got, Unseen, Kept, Rejected, Given
<1> HIDE DEF Ring
<1>5. \A x \in Places : \A p \in Queues : \A k \in 1..Len(Held(p, x)) :
        Held(p, x)[k] \in Elems(Ring(x))
  BY <1>1, <1>3, ElemsAt
<1>6. Held(q, pl)[i] \notin pool
  BY <1>4, <1>5
<1>7. ASSUME NEW r \in Queues, NEW pk \in Places, NEW j \in 1..Len(Held(r, pk)),
             Held(q, pl)[i] = Held(r, pk)[j]
      PROVE  q = r /\ pl = pk /\ i = j
  <2>1. pl = pk
    BY <1>4, <1>5, <1>7
  <2>2. \A k \in 1..Len(Ring(pl)[q]), l \in 1..Len(Ring(pl)[r]) :
          Ring(pl)[q][k] = Ring(pl)[r][l] => q = r /\ k = l
    BY <1>2 DEF OneEach
  <2> QED BY <1>3, <1>7, <2>1, <2>2
<1> QED BY <1>6, <1>7

LEMMA NoElems ==
  ASSUME NEW s \in Lists, \A q \in Queues : s[q] = <<>>
  PROVE  Elems(s) = {} /\ OneEach(s)
<1>1. \A q \in Queues : Len(s[q]) = 0
  OBVIOUS
<1> QED BY <1>1, ElemsAt DEF OneEach

LEMMA InitOwning == Init => Owning
<1> SUFFICES ASSUME Init PROVE Owning
  OBVIOUS
<1>1. TInv
  BY InitTInv
<1>2. \A q \in Queues : Rest[q] = <<>>
  <2> SUFFICES ASSUME NEW q \in Queues PROVE Rest[q] = <<>>
    OBVIOUS
  <2>1. Rest[q] = SubSeq(<<>>, 0 + 1, 0)
    BY DEF Init, Rest
  <2> QED BY <2>1, SubSeqEmpty
<1>3. \A q \in Queues : /\ got[q] = <<>> /\ sendList[q] = <<>>
                        /\ freeList[q] = <<>> /\ txRing[q] = <<>>
  BY DEF Init, DevInit
<1>4. /\ Got = {} /\ Unseen = {} /\ Kept = {} /\ Rejected = {} /\ Given = {}
      /\ OneEach(got) /\ OneEach(Rest) /\ OneEach(sendList) /\ OneEach(freeList)
      /\ OneEach(txRing)
  BY <1>1, <1>2, <1>3, ListTypes, NoElems DEF Got, Unseen, Kept, Rejected, Given
<1>5. OneEach(rxRing)
  BY DeviceAssumption DEF OneEach, NbRxDesc, Init, DevInit
<1>6. pool = Mbufs \ Armed
  BY DEF Init, DevInit, Armed, Elems
<1>7. RefcntsExact
  BY DEF Init, DevInit, RefcntsExact
<1> QED BY <1>4, <1>5, <1>6, <1>7 DEF Owning, NoRepeats, Apart

-----------------------------------------------------------------------------
(* Each action moves mbufs between the sets.                               *)

\* The sets and NoRepeats of the next state are those of the next lists.
LEMMA NextSets ==
  /\ Armed' = Elems(rxRing') /\ Got' = Elems(got') /\ Unseen' = Elems(Rest')
  /\ Kept' = Elems(sendList') /\ Rejected' = Elems(freeList') /\ Given' = Elems(txRing')
  BY DEF Armed, Got, Unseen, Kept, Rejected, Given, Elems

LEMMA NextNoRepeats ==
  ASSUME OneEach(rxRing'), OneEach(got'), OneEach(Rest'),
         OneEach(sendList'), OneEach(freeList'), OneEach(txRing')
  PROVE  NoRepeats'
  BY DEF NoRepeats, OneEach

LEMMA StillOwning ==
  ASSUME Owning, UNCHANGED <<pool, refcnt, rxRing, txRing, got, Rest, sendList, freeList>>
  PROVE  Owning'
<1>1. NoRepeats'
  BY DEF Owning, NoRepeats, OneEach
<1>2. UNCHANGED <<Armed, Got, Unseen, Kept, Rejected, Given>>
  BY DEF Armed, Got, Unseen, Kept, Rejected, Given, Elems
<1>3. RefcntsExact'
  BY DEF Owning, RefcntsExact
<1> QED BY <1>1, <1>2, <1>3 DEF Owning, Apart

LEMMA ReceiveOwning ==
  ASSUME TInv, Owning, NEW q \in Queues, Receive(q)
  PROVE  Owning'
<1>1. PICK n \in pool : RxPacket(q, n)
  BY DEF Receive
<1> DEFINE s == [rxRing EXCEPT ![q] = Tail(@)]
           m == Head(rxRing[q])
<1>2. n \in Mbufs /\ rxRing[q] # <<>> /\ rxRing \in Lists /\ got \in Lists
  BY ReceiveTInv, ListTypes, ZenonT(30) DEF TInv, DevInv, DevTypeOK, MemTypeOK
<1>3. /\ s \in Lists /\ m \in Armed /\ m \in Mbufs
      /\ Elems(s) = Armed \ {m} /\ OneEach(s)
  BY <1>2, ElemsTail, ZenonT(30) DEF Owning, NoRepeats, Armed
<1>4. /\ rxRing' = [s EXCEPT ![q] = Append(@, n)]
      /\ got' = [got EXCEPT ![q] = Append(@, m)]
      /\ pool' = pool \ {n} /\ refcnt' = [refcnt EXCEPT ![n] = 1]
      /\ UNCHANGED <<packets, inspected, sendList, freeList, txRing>>
  BY <1>1, <1>2 DEF Receive, RxPacket, txVars, Lists
<1> HIDE DEF s, m
<1>5. n \notin Armed /\ m \notin Got
  BY <1>3 DEF Owning, Apart
<1>6. Elems(rxRing') = Elems(s) \cup {n} /\ OneEach(rxRing')
  BY <1>2, <1>3, <1>4, <1>5, ElemsAppend, ZenonT(30)
<1>7. Elems(got') = Got \cup {m} /\ OneEach(got')
  BY <1>2, <1>3, <1>4, <1>5, ElemsAppend, ZenonT(30) DEF Owning, NoRepeats, Got
<1>8. UNCHANGED Rest
  BY <1>4 DEF Rest
<1>9. NoRepeats'
  <2>1. /\ OneEach(Rest') /\ OneEach(sendList') /\ OneEach(freeList')
        /\ OneEach(txRing')
    BY <1>4, <1>8 DEF Owning, NoRepeats
  <2> QED BY <1>6, <1>7, <2>1, NextNoRepeats
<1>10. /\ Armed' = (Armed \ {m}) \cup {n} /\ Got' = Got \cup {m}
       /\ UNCHANGED <<Unseen, Kept, Rejected, Given>>
  BY <1>3, <1>4, <1>6, <1>7, <1>8, NextSets DEF Unseen, Kept, Rejected, Given
<1>11. Apart(pool, Armed, Got, Unseen, Kept, Rejected, Given)'
  BY <1>1, <1>3, <1>4, <1>10 DEF Owning, Apart
<1>12. RefcntsExact'
  BY <1>2, <1>4 DEF Owning, RefcntsExact, TInv, DevInv, DevTypeOK, MemTypeOK
<1> QED BY <1>9, <1>11, <1>12 DEF Owning

\* The list takes over what was received; all of the old one was inspected.
LEMMA GotBurstOwning ==
  ASSUME TInv, Owning, NEW q \in Queues, GotBurst(q)
  PROVE  Owning'
<1>1. /\ Rest \in Lists /\ got \in Lists /\ OneEach(Rest) /\ OneEach(got)
      /\ Elems(Rest) \cap Elems(got) = {}
  BY ListTypes DEF Owning, NoRepeats, Apart, Got, Unseen
<1>2. Rest[q] = <<>>
  <2>1. inspected[q] = Len(packets[q]) /\ Len(packets[q]) \in Nat
    BY DEF TInv, Consumed, AppTypeOK, Lists, GotBurst, BurstEnds
  <2>2. SubSeq(packets[q], inspected[q] + 1, Len(packets[q])) = <<>>
    BY <2>1, SubSeqEmpty
  <2> QED BY <2>2 DEF Rest
<1>3. /\ got' = [got EXCEPT ![q] = <<>>]
      /\ packets' = [packets EXCEPT ![q] = got[q]]
      /\ inspected' = [inspected EXCEPT ![q] = 0]
      /\ UNCHANGED <<pool, refcnt, rxRing, txRing, sendList, freeList>>
  BY DEF GotBurst, BurstEnds, RxReturn, memVars, txVars
<1>4. Rest' = [Rest EXCEPT ![q] = got[q]]
  <2>1. SubSeq(got[q], 0 + 1, Len(got[q])) = got[q]
    BY <1>1, SubSeqFull DEF Lists
  <2>2. \A r \in Queues : Rest'[r] = IF r = q THEN got[q] ELSE Rest[r]
    BY <1>3, <2>1, ZenonT(30) DEF Rest, TInv, AppTypeOK, Lists
  <2>3. Rest' = [r \in Queues |-> Rest'[r]]
    BY ZenonT(30) DEF Rest
  <2> QED BY <1>1, <2>2, <2>3 DEF Lists
<1>5. Elems(Rest') = Unseen \cup Range(got[q]) /\ OneEach(Rest')
  BY <1>1, <1>2, <1>4, ElemsMove, ZenonT(30) DEF Unseen
<1>6. /\ Range(got[q]) \subseteq Got
      /\ Elems(got') = Got \ Range(got[q]) /\ OneEach(got')
  BY <1>1, <1>3, ElemsClear, ZenonT(30) DEF Got
<1>7. NoRepeats'
  <2>1. /\ OneEach(rxRing') /\ OneEach(sendList') /\ OneEach(freeList')
        /\ OneEach(txRing')
    BY <1>3 DEF Owning, NoRepeats
  <2> QED BY <1>5, <1>6, <2>1, NextNoRepeats
<1>8. /\ Unseen' = Unseen \cup Range(got[q]) /\ Got' = Got \ Range(got[q])
      /\ UNCHANGED <<Armed, Kept, Rejected, Given>>
  BY <1>3, <1>5, <1>6, NextSets DEF Armed, Kept, Rejected, Given
<1>9. Apart(pool, Armed, Got, Unseen, Kept, Rejected, Given)'
  BY <1>3, <1>6, <1>8 DEF Owning, Apart
<1>10. RefcntsExact'
  BY <1>3 DEF Owning, RefcntsExact
<1> QED BY <1>7, <1>9, <1>10 DEF Owning

\* An empty poll before anything was received.
LEMMA GotNothingOwning ==
  ASSUME TInv, Owning, NeverStale, NEW q \in Queues, GotNothing(q), NeverStale'
  PROVE  Owning'
<1>1. packets[q] = <<>>
  <2>1. stale'[q] = IF packets[q] = <<>> THEN stale[q] ELSE stale[q] + 1
    BY DEF GotNothing, TInv, AppTypeOK
  <2> QED BY <2>1 DEF NeverStale
<1>2. /\ inspected' = [inspected EXCEPT ![q] = 0]
      /\ UNCHANGED <<pool, refcnt, rxRing, txRing, got, packets, sendList, freeList>>
  BY DEF GotNothing, BurstEnds, RxReturn, memVars, txVars
<1>3. inspected[q] = 0
  BY <1>1 DEF TInv, AppTypeOK
<1>4. inspected' = inspected
  BY <1>2, <1>3 DEF TInv, AppTypeOK
<1>5. UNCHANGED Rest
  BY <1>2, <1>4, ZenonT(30) DEF Rest
<1> QED BY <1>2, <1>5, StillOwning

LEMMA InspectOwning ==
  ASSUME TInv, Owning, NEW q \in Queues, Inspect(q)
  PROVE  Owning'
<1> DEFINE m == packets[q][inspected[q] + 1]
<1>1. /\ inspected[q] + 1 \in 1..Len(packets[q]) /\ packets[q] \in Seq(Mbufs)
      /\ inspected' = [inspected EXCEPT ![q] = @ + 1]
      /\ UNCHANGED <<pool, refcnt, rxRing, txRing, got, packets>>
      /\ inspected \in [Queues -> Nat]
  BY DEF Inspect, TInv, AppTypeOK, Lists, devVars, memVars, rxVars, txVars
<1>2. Rest[q] # <<>> /\ Head(Rest[q]) = m /\ Rest' = [Rest EXCEPT ![q] = Tail(@)]
  <2> DEFINE a == inspected[q] + 1
             n == Len(packets[q])
  <2>1. a \in 1..n /\ n \in a..n /\ n \in Nat
    BY <1>1
  <2>2. /\ Head(SubSeq(packets[q], a, n)) = packets[q][a]
        /\ Tail(SubSeq(packets[q], a, n)) = SubSeq(packets[q], a + 1, n)
    BY <1>1, <2>1, HeadTailOfSubSeq, ZenonT(30)
  <2>3. Len(SubSeq(packets[q], a, n)) = n - a + 1
    <3>1. \A i \in a..n : packets[q][i] \in Mbufs
      BY <1>1, <2>1
    <3> QED BY <2>1, <3>1, SubSeqProperties
  <2>4. Rest[q] = SubSeq(packets[q], a, n)
    BY ZenonT(30) DEF Rest
  <2>5. Rest[q] # <<>>
    <3>1. Len(Rest[q]) > 0
      BY <2>1, <2>3, <2>4
    <3> QED BY <3>1
  <2>6. \A r \in Queues : Rest'[r] = IF r = q THEN Tail(Rest[q]) ELSE Rest[r]
    BY <1>1, <2>2, <2>4, ZenonT(30) DEF Rest
  <2>7. Rest' = [r \in Queues |-> Rest'[r]] /\ Rest = [r \in Queues |-> Rest[r]]
    BY ZenonT(30) DEF Rest
  <2> QED BY <2>2, <2>4, <2>5, <2>6, <2>7, ZenonT(30)
<1> HIDE DEF m
<1>3. /\ m \in Unseen /\ m \in Mbufs /\ Elems(Rest') = Unseen \ {m} /\ OneEach(Rest')
  BY <1>2, ListTypes, ElemsTail, ZenonT(30) DEF Owning, NoRepeats, Unseen
<1>4. m \notin Kept /\ m \notin Rejected
  BY <1>3 DEF Owning, Apart
<1>5. UNCHANGED <<Armed, Got, Given>> /\ Unseen' = Unseen \ {m}
  BY <1>1, <1>3, NextSets DEF Armed, Got, Given
<1>6. RefcntsExact'
  BY <1>1 DEF Owning, RefcntsExact
<1>7. OneEach(rxRing') /\ OneEach(got') /\ OneEach(txRing')
  BY <1>1 DEF Owning, NoRepeats
<1>8. CASE SendPacket(q, m)
  <2>1. sendList' = [sendList EXCEPT ![q] = Append(@, m)] /\ UNCHANGED freeList
    BY <1>8 DEF SendPacket
  <2>2. Elems(sendList') = Kept \cup {m} /\ OneEach(sendList')
    BY <1>3, <1>4, <2>1, ListTypes, ElemsAppend, ZenonT(30) DEF Owning, NoRepeats, Kept
  <2>3. Kept' = Kept \cup {m} /\ UNCHANGED Rejected /\ OneEach(freeList')
    BY <2>1, <2>2, NextSets, ZenonT(30) DEF Kept, Rejected, Owning, NoRepeats
  <2>4. NoRepeats'
    BY <1>3, <1>7, <2>2, <2>3, NextNoRepeats
  <2>5. Apart(pool, Armed, Got, Unseen, Kept, Rejected, Given)'
    BY <1>1, <1>3, <1>5, <2>3 DEF Owning, Apart
  <2> QED BY <1>6, <2>4, <2>5 DEF Owning
<1>9. CASE FreePacket(q, m)
  <2>1. freeList' = [freeList EXCEPT ![q] = Append(@, m)] /\ UNCHANGED sendList
    BY <1>9 DEF FreePacket
  <2>2. Elems(freeList') = Rejected \cup {m} /\ OneEach(freeList')
    BY <1>3, <1>4, <2>1, ListTypes, ElemsAppend, ZenonT(30) DEF Owning, NoRepeats, Rejected
  <2>3. Rejected' = Rejected \cup {m} /\ UNCHANGED Kept /\ OneEach(sendList')
    BY <2>1, <2>2, NextSets, ZenonT(30) DEF Kept, Rejected, Owning, NoRepeats
  <2>4. NoRepeats'
    BY <1>3, <1>7, <2>2, <2>3, NextNoRepeats
  <2>5. Apart(pool, Armed, Got, Unseen, Kept, Rejected, Given)'
    BY <1>1, <1>3, <1>5, <2>3 DEF Owning, Apart
  <2> QED BY <1>6, <2>4, <2>5 DEF Owning
<1> QED BY <1>8, <1>9 DEF Inspect, m

LEMMA FreeOwning ==
  ASSUME TInv, Owning, NEW q \in Queues, Free(q)
  PROVE  Owning'
<1> DEFINE m == Head(freeList[q])
<1>1. /\ freeList[q] # <<>> /\ freeList' = [freeList EXCEPT ![q] = Tail(@)]
      /\ FreeMbuf(m)
      /\ UNCHANGED <<rxRing, txRing, got, packets, inspected, sendList>>
  BY DEF Free, rxVars, txVars
<1>2. /\ m \in Rejected /\ m \in Mbufs /\ Elems(freeList') = Rejected \ {m}
      /\ OneEach(freeList')
  BY <1>1, ListTypes, ElemsTail, ZenonT(30) DEF Owning, NoRepeats, Rejected
<1> HIDE DEF m
<1>3. pool' = pool \cup {m} /\ RefcntsExact'
  <2>1. m \notin pool
    BY <1>2 DEF Owning, Apart
  <2> QED BY <1>1, <1>2, <2>1, FreeMbufExact DEF Owning, TInv, DevInv
<1>4. UNCHANGED Rest
  BY <1>1 DEF Rest
<1>5. NoRepeats'
  <2>1. /\ OneEach(rxRing') /\ OneEach(got') /\ OneEach(Rest') /\ OneEach(sendList')
        /\ OneEach(txRing')
    BY <1>1, <1>4 DEF Owning, NoRepeats
  <2> QED BY <1>2, <2>1, NextNoRepeats
<1>6. Rejected' = Rejected \ {m} /\ UNCHANGED <<Armed, Got, Unseen, Kept, Given>>
  BY <1>1, <1>2, <1>4, NextSets DEF Armed, Got, Unseen, Kept, Given
<1>7. Apart(pool, Armed, Got, Unseen, Kept, Rejected, Given)'
  BY <1>2, <1>3, <1>6 DEF Owning, Apart
<1> QED BY <1>3, <1>5, <1>7 DEF Owning

LEMMA SentOwning ==
  ASSUME TInv, Owning, NEW q \in Queues, Sent(q)
  PROVE  Owning'
<1>1. /\ sendList' = [sendList EXCEPT ![q] = <<>>]
      /\ UNCHANGED <<pool, refcnt, rxRing, txRing, got, packets, inspected, freeList>>
  BY DEF Sent, devVars, memVars, rxVars, txVars
<1>2. Elems(sendList') = Kept \ Range(sendList[q]) /\ OneEach(sendList')
  BY <1>1, ListTypes, ElemsClear, ZenonT(30) DEF Owning, NoRepeats, Kept
<1>3. UNCHANGED Rest
  BY <1>1 DEF Rest
<1>4. NoRepeats'
  <2>1. /\ OneEach(rxRing') /\ OneEach(got') /\ OneEach(Rest') /\ OneEach(freeList')
        /\ OneEach(txRing')
    BY <1>1, <1>3 DEF Owning, NoRepeats
  <2> QED BY <1>2, <2>1, NextNoRepeats
<1>5. /\ Kept' = Kept \ Range(sendList[q])
      /\ UNCHANGED <<Armed, Got, Unseen, Rejected, Given>>
  BY <1>1, <1>2, <1>3, NextSets DEF Armed, Got, Unseen, Rejected, Given
<1>6. Apart(pool, Armed, Got, Unseen, Kept, Rejected, Given)'
  BY <1>1, <1>5 DEF Owning, Apart
<1>7. RefcntsExact'
  BY <1>1 DEF Owning, RefcntsExact
<1> QED BY <1>4, <1>6, <1>7 DEF Owning

LEMMA TransmitOwning ==
  ASSUME TInv, Owning, NEW q \in Queues, Transmit(q)
  PROVE  Owning'
<1> DEFINE m    == Head(sendList[q])
           old  == Head(txRing[q])
           full == Len(txRing[q]) = NbTxDesc
<1>1. /\ sendList[q] # <<>> /\ sendList' = [sendList EXCEPT ![q] = Tail(@)]
      /\ UNCHANGED <<rxRing, got, packets, inspected, freeList>>
      /\ txRing' = [txRing EXCEPT ![q] = Append(IF full THEN Tail(@) ELSE @, m)]
      /\ IF full THEN FreeMbuf(old) ELSE UNCHANGED <<pool, refcnt>>
  BY DEF Transmit, TxPacket, rxVars, memVars
<1>2. /\ m \in Kept /\ m \in Mbufs /\ Elems(sendList') = Kept \ {m}
      /\ OneEach(sendList')
  BY <1>1, ListTypes, ElemsTail, ZenonT(30) DEF Owning, NoRepeats, Kept
<1>3. txRing \in Lists /\ OneEach(txRing)
  BY ListTypes DEF Owning, NoRepeats
<1> HIDE DEF m
<1>4. m \notin Given /\ UNCHANGED Rest
  BY <1>1, <1>2 DEF Owning, Apart, Rest
<1>5. OneEach(rxRing') /\ OneEach(got') /\ OneEach(Rest') /\ OneEach(freeList')
  BY <1>1, <1>4 DEF Owning, NoRepeats
<1>6. Kept' = Kept \ {m} /\ UNCHANGED <<Armed, Got, Unseen, Rejected>>
  BY <1>1, <1>2, <1>4, NextSets DEF Armed, Got, Unseen, Rejected
<1>7. CASE ~full
  <2>1. txRing' = [txRing EXCEPT ![q] = Append(@, m)] /\ UNCHANGED <<pool, refcnt>>
    BY <1>1, <1>7
  <2>2. Elems(txRing') = Given \cup {m} /\ OneEach(txRing')
    BY <1>2, <1>3, <1>4, <2>1, ElemsAppend, ZenonT(30) DEF Given
  <2>3. Given' = Given \cup {m} /\ NoRepeats'
    BY <1>2, <1>5, <2>2, NextSets, NextNoRepeats
  <2>4. Apart(pool, Armed, Got, Unseen, Kept, Rejected, Given)'
    BY <1>2, <1>6, <2>1, <2>3 DEF Owning, Apart
  <2>5. RefcntsExact'
    BY <2>1 DEF Owning, RefcntsExact
  <2> QED BY <2>3, <2>4, <2>5 DEF Owning
<1>8. CASE full
  <2> DEFINE s == [txRing EXCEPT ![q] = Tail(@)]
  <2>1. txRing[q] # <<>>
    BY <1>3, <1>8, DeviceAssumption DEF Lists
  <2>2. /\ s \in Lists /\ old \in Given /\ old \in Mbufs
        /\ Elems(s) = Given \ {old} /\ OneEach(s)
    BY <1>3, <2>1, ElemsTail, ZenonT(30) DEF Given
  <2>3. txRing' = [s EXCEPT ![q] = Append(@, m)] /\ FreeMbuf(old)
    BY <1>1, <1>3, <1>8, ZenonT(30) DEF Lists
  <2> HIDE DEF s, old
  <2>4. Elems(txRing') = (Given \ {old}) \cup {m} /\ OneEach(txRing')
    BY <1>2, <1>4, <2>2, <2>3, ElemsAppend, ZenonT(30)
  <2>5. Given' = (Given \ {old}) \cup {m} /\ NoRepeats'
    BY <1>2, <1>5, <2>4, NextSets, NextNoRepeats
  <2>6. pool' = pool \cup {old} /\ RefcntsExact'
    <3>1. old \notin pool
      BY <2>2 DEF Owning, Apart
    <3> QED BY <2>2, <2>3, <3>1, FreeMbufExact DEF Owning, TInv, DevInv
  <2>7. Apart(pool, Armed, Got, Unseen, Kept, Rejected, Given)'
    BY <1>2, <1>6, <2>2, <2>5, <2>6 DEF Owning, Apart
  <2> QED BY <2>5, <2>6, <2>7 DEF Owning
<1> QED BY <1>7, <1>8

\* The steps that leave every list and the pool as they are.
LEMMA IdleOwning ==
  ASSUME Owning, NEW q \in Queues,
         Inspected(q) \/ BeginSend(q) \/ Freed(q) \/ Nic(q)
  PROVE  Owning'
<1>1. UNCHANGED <<pool, refcnt, rxRing, txRing, got, packets, inspected,
                  sendList, freeList>>
  BY DEF Inspected, BeginSend, TxBegin, Freed, Nic, NicReceive, NicTransmit,
         appVars, devVars, memVars, rxVars, txVars
<1>2. UNCHANGED Rest
  BY <1>1 DEF Rest
<1> QED BY <1>1, <1>2, StillOwning

LEMMA NextOInv == OInv /\ [Next]_vars => OInv'
<1> SUFFICES ASSUME OInv, [Next]_vars PROVE OInv'
  OBVIOUS
<1>1. TInv /\ TInv'
  BY NextTInv DEF OInv
<1>2. ASSUME NeverStale' PROVE NeverStale
  <2>1. \A q \in Queues : stale[q] \in Nat /\ stale[q] <= stale'[q]
    <3>1. \/ UNCHANGED stale
          \/ \E q \in Queues : stale' = [stale EXCEPT ![q] = @ + 1]
      <4>1. ASSUME NEW q \in Queues, GotNothing(q)
            PROVE  \/ UNCHANGED stale
                   \/ stale' = [stale EXCEPT ![q] = @ + 1]
        BY <1>1, <4>1, ZenonT(30) DEF GotNothing, TInv, AppTypeOK
      <4>2. ASSUME NEW q \in Queues, Processor(q), ~GotNothing(q)
            PROVE  UNCHANGED stale
        BY <4>2 DEF Processor, Receive, GotBurst, Inspect, Inspected,
                    BeginSend, Transmit, Sent, Free, Freed
      <4>3. ASSUME NEW q \in Queues, Nic(q) \/ BeyondBound(q) PROVE UNCHANGED stale
        BY <4>3, ZenonT(30) DEF Nic, BeyondBound, vars, appVars
      <4> QED BY <4>1, <4>2, <4>3 DEF Next, vars, appVars
    <3>2. stale \in [Queues -> Nat]
      BY <1>1, PathAssumption DEF TInv, AppTypeOK
    <3>3. ASSUME NEW q \in Queues, stale' = [stale EXCEPT ![q] = @ + 1]
          PROVE  \A r \in Queues : stale[r] <= stale'[r]
      BY <3>2, <3>3
    <3> QED BY <3>1, <3>2, <3>3
  <2> QED BY <1>2, <2>1 DEF NeverStale
<1>3. SUFFICES ASSUME NeverStale' PROVE Owning'
  BY <1>1 DEF OInv
<1>4. NeverStale /\ Owning
  BY <1>2, <1>3 DEF OInv
<1>5. CASE UNCHANGED vars
  <2>1. UNCHANGED Rest
    BY <1>5 DEF vars, appVars, Rest
  <2> QED BY <1>4, <1>5, <2>1, StillOwning
          DEF vars, appVars, devVars, memVars, rxVars, txVars
<1>6. ASSUME NEW q \in Queues, Processor(q) PROVE Owning'
  BY <1>1, <1>3, <1>4, <1>6, ReceiveOwning, GotBurstOwning, GotNothingOwning,
     InspectOwning, FreeOwning, SentOwning, TransmitOwning, IdleOwning DEF Processor
<1>7. ASSUME NEW q \in Queues, Nic(q) \/ BeyondBound(q) PROVE Owning'
  BY <1>4, <1>5, <1>7, IdleOwning DEF BeyondBound
<1> QED BY <1>5, <1>6, <1>7 DEF Next

(***************************************************************************)
(* Until getBurst first returns a list for the second time, every mbuf has *)
(* one owner and an exact reference count: for any number of queues on the *)
(* pool, any ring and burst sizes, and whatever the one-second clocks do.  *)
(***************************************************************************)
THEOREM OwnedBeforeStale == Spec => []OwnedUntilStale
<1>1. Init => OInv
  BY InitTInv, InitOwning DEF OInv
<1>2. Spec => []OInv
  BY <1>1, NextOInv, PTL DEF Spec
<1>3. OInv => OwnedUntilStale
  BY OwningIsExclusive DEF OInv, OwnedUntilStale, NeverStale, Owning
<1> QED BY <1>2, <1>3, PTL

=============================================================================
