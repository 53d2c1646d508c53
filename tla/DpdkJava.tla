------------------------------ MODULE DpdkJava ------------------------------
(***************************************************************************)
(* The packet path of the first framework (apps/DpdkJava) under the        *)
(* applications of apps/java_apps, Firewall and PacketCap.  It differs     *)
(* from DpdkJavaR in three ways: getBurst keeps its List<Packet> between   *)
(* calls and returns it again when nothing was received, the sender and    *)
(* the freeer also flush when a second has passed since the last flush,    *)
(* and the native burst size is not the size of the buffer it writes to.   *)
(***************************************************************************)
EXTENDS EthDev

CONSTANTS
  Forward,     \* the frames inspect() sends on: {"v4"}, or {} for PacketCap
  GetBurst,    \* get_burst of the native library, rxburst of the config file
  SendBurst,   \* DEFAULT_SEND_BURST
  FreeBurst,   \* DEFAULT_FREE_BURST
  MaxStale     \* bound on the polls that return the previous list

ASSUME PathAssumption ==
  /\ Forward \subseteq Frames
  /\ GetBurst \in Nat \ {0}
  /\ SendBurst \in Nat \ {0} /\ FreeBurst \in Nat \ {0}
  /\ MaxStale \in Nat

VARIABLES
  pc,        \* pc[q]: where the processor thread of q is
  got,       \* got[q]: what nat_receive_burst has written to the buffer
  packets,   \* packets[q]: the list getBurst returns
  inspected, \* inspected[q]: how many of them run() has inspected
  sendList,  \* sendList[q]: the sender's buffer, less what the driver took
  freeList,  \* freeList[q]: the freeer's buffer, less what has been freed
  stale      \* stale[q]: polls so far that returned the previous list

appVars == <<pc, got, packets, inspected, sendList, freeList, stale>>
vars    == <<devVars, appVars>>

Locations == {"poll", "inspect", "send", "xmit", "free"}

TypeOK ==
  /\ DevTypeOK
  /\ pc \in [Queues -> Locations]
  /\ got \in [Queues -> Seq(Mbufs)]
  /\ packets \in [Queues -> Seq(Mbufs)]
  /\ \A q \in Queues : inspected[q] \in 0..Len(packets[q])
  /\ sendList \in [Queues -> Seq(Mbufs)]
  /\ freeList \in [Queues -> Seq(Mbufs)]
  /\ stale \in [Queues -> 0..MaxStale]

Init ==
  /\ DevInit
  /\ pc = [q \in Queues |-> "poll"]
  /\ got = [q \in Queues |-> <<>>]
  /\ packets = [q \in Queues |-> <<>>]
  /\ inspected = [q \in Queues |-> 0]
  /\ sendList = [q \in Queues |-> <<>>] /\ freeList = [q \in Queues |-> <<>>]
  /\ stale = [q \in Queues |-> 0]

Goto(q, l) == pc' = [pc EXCEPT ![q] = l]

-----------------------------------------------------------------------------
(* ReceivePoller.getBurst.                                                 *)

\* The driver returns one more packet and its address is stored.
Receive(q) ==
  /\ pc[q] = "poll"
  /\ Len(got[q]) < GetBurst
  /\ \E nmb \in pool : RxPacket(q, nmb)
  /\ got' = [got EXCEPT ![q] = Append(@, Head(rxRing[q]))]
  /\ UNCHANGED <<pc, packets, inspected, sendList, freeList, stale>>

\* rte_eth_rx_burst returns.
BurstEnds(q) ==
  /\ pc[q] = "poll"
  /\ Len(got[q]) = GetBurst \/ RxExhausted(q)
  /\ RxReturn(q)
  /\ Goto(q, "inspect")
  /\ inspected' = [inspected EXCEPT ![q] = 0]
  /\ UNCHANGED <<sendList, freeList>>

\* Mutant: packets.clear() is missing.
GotBurstKeeps(q) ==
  /\ got[q] # <<>>
  /\ BurstEnds(q)
  /\ packets' = [packets EXCEPT ![q] = @ \o got[q]]
  /\ got' = [got EXCEPT ![q] = <<>>]
  /\ UNCHANGED stale

\* The list is rebuilt from the buffer.
GotBurst(q) ==
  /\ got[q] # <<>>
  /\ BurstEnds(q)
  /\ packets' = [packets EXCEPT ![q] = got[q]]
  /\ got' = [got EXCEPT ![q] = <<>>]
  /\ UNCHANGED stale

\* Nothing was received: the previous list is returned as it is.
GotNothing(q) ==
  /\ got[q] = <<>>
  /\ packets[q] # <<>> => stale[q] < MaxStale
  /\ BurstEnds(q)
  /\ stale' = [stale EXCEPT ![q] = IF packets[q] = <<>> THEN @ ELSE @ + 1]
  /\ UNCHANGED <<got, packets>>

\* Where MaxStale ends the exploration: the poll is not followed any further.
BeyondBound(q) ==
  /\ pc[q] = "poll" /\ RxExhausted(q)
  /\ got[q] = <<>> /\ packets[q] # <<>> /\ stale[q] = MaxStale
  /\ UNCHANGED vars

-----------------------------------------------------------------------------
(* FirewallProcessor and CaptureProcessor: run and inspect.                *)

\* Mutant: never looks at the size of the list.
SendPacketLateOnly(q, m) ==
  /\ sendList' = [sendList EXCEPT ![q] = Append(@, m)]
  /\ \E late \in BOOLEAN : Goto(q, IF late THEN "send" ELSE "inspect")
  /\ UNCHANGED freeList

\* The list is flushed when it is full, or if a second has passed since it was
\* last flushed.
SendPacket(q, m) ==
  /\ sendList' = [sendList EXCEPT ![q] = Append(@, m)]
  /\ \E late \in BOOLEAN :
       Goto(q, IF Len(sendList[q]) + 1 >= SendBurst \/ late THEN "send" ELSE "inspect")
  /\ UNCHANGED freeList

FreePacket(q, m) ==
  /\ freeList' = [freeList EXCEPT ![q] = Append(@, m)]
  /\ \E late \in BOOLEAN :
       Goto(q, IF Len(freeList[q]) + 1 >= FreeBurst \/ late THEN "free" ELSE "inspect")
  /\ UNCHANGED sendList

\* The frames inspect() may find in m.  A packet of a list returned twice may
\* have been freed: then it finds what was there before.
Found(m) == IF frame[m] = NoFrame THEN FrameKinds ELSE {frame[m]}

Inspect(q) ==
  LET m == packets[q][inspected[q] + 1]
  IN /\ pc[q] = "inspect"
     /\ inspected[q] < Len(packets[q])
     /\ \E f \in Found(m) :
          IF f \in Forward THEN SendPacket(q, m) ELSE FreePacket(q, m)
     /\ inspected' = [inspected EXCEPT ![q] = @ + 1]
     /\ UNCHANGED <<devVars, got, packets, stale>>

Inspected(q) ==
  /\ pc[q] = "inspect"
  /\ inspected[q] = Len(packets[q])
  /\ Goto(q, "poll")
  /\ UNCHANGED <<devVars, got, packets, inspected, sendList, freeList, stale>>

-----------------------------------------------------------------------------
(* PacketSender.sendBurst and PacketFreeer.freeBurst.                      *)

BeginSend(q) ==
  /\ pc[q] = "send"
  /\ TxBegin(q)
  /\ Goto(q, "xmit")
  /\ UNCHANGED <<got, packets, inspected, sendList, freeList, stale>>

Transmit(q) ==
  /\ pc[q] = "xmit"
  /\ sendList[q] # <<>>
  /\ TxPacket(q, Head(sendList[q]))
  /\ sendList' = [sendList EXCEPT ![q] = Tail(@)]
  /\ UNCHANGED <<pc, got, packets, inspected, freeList, stale>>

\* current_count drops to 0, whatever the driver left.
Sent(q) ==
  /\ pc[q] = "xmit"
  /\ sendList[q] = <<>> \/ ~TxRoom(q)
  /\ sendList' = [sendList EXCEPT ![q] = <<>>]
  /\ Goto(q, "inspect")
  /\ UNCHANGED <<devVars, got, packets, inspected, freeList, stale>>

Free(q) ==
  /\ pc[q] = "free"
  /\ freeList[q] # <<>>
  /\ FreeMbuf(Head(freeList[q]))
  /\ freeList' = [freeList EXCEPT ![q] = Tail(@)]
  /\ UNCHANGED <<rxVars, txVars, pc, got, packets, inspected, sendList, stale>>

Freed(q) ==
  /\ pc[q] = "free"
  /\ freeList[q] = <<>>
  /\ Goto(q, "inspect")
  /\ UNCHANGED <<devVars, got, packets, inspected, sendList, freeList, stale>>

-----------------------------------------------------------------------------
Processor(q) ==
  \/ Receive(q) \/ GotBurst(q) \/ GotNothing(q)
  \/ Inspect(q) \/ Inspected(q)
  \/ BeginSend(q) \/ Transmit(q) \/ Sent(q)
  \/ Free(q) \/ Freed(q)

Nic(q) == (NicReceive(q) \/ NicTransmit(q)) /\ UNCHANGED appVars

Next == \E q \in Queues : Processor(q) \/ Nic(q) \/ BeyondBound(q)

Spec == Init /\ [][Next]_vars

\* The processor threads run, and the NIC does its work.
LiveSpec ==
  /\ Spec
  /\ \A q \in Queues : /\ WF_vars(Processor(q))
                       /\ WF_vars(NicTransmit(q) /\ UNCHANGED appVars)

-----------------------------------------------------------------------------
(* Properties.                                                             *)

Places == {"rx", "got", "list", "send", "free", "tx"}

\* The mbufs that place pl of queue q still has to deal with, in order.
Held(q, pl) ==
  CASE pl = "rx"   -> rxRing[q]
    [] pl = "got"  -> got[q]
    [] pl = "list" -> SubSeq(packets[q], inspected[q] + 1, Len(packets[q]))
    [] pl = "send" -> sendList[q]
    [] pl = "free" -> freeList[q]
    [] pl = "tx"   -> txRing[q]

\* An mbuf is in one place only: the pool, a ring, the part of the packet list
\* that run() has not reached, or a list waiting to be flushed.
ExclusiveOwnership ==
  \A q \in Queues, pl \in Places : \A i \in 1..Len(Held(q, pl)) :
    /\ Held(q, pl)[i] \notin pool
    /\ \A r \in Queues, pk \in Places : \A j \in 1..Len(Held(r, pk)) :
         Held(q, pl)[i] = Held(r, pk)[j] => q = r /\ pl = pk /\ i = j

(***************************************************************************)
(* getBurst returns the list of the previous burst when a poll comes back  *)
(* empty, and run() then sends or frees its mbufs again.  Until that first *)
(* happens every mbuf has one owner and an exact reference count, for any  *)
(* timing of bursts, flushes and the one-second clocks.                    *)
(***************************************************************************)
OwnedUntilStale ==
  (\A q \in Queues : stale[q] = 0) => ExclusiveOwnership /\ RefcntsExact

(***************************************************************************)
(* sendPacket and freePacket write at current_count without looking at the *)
(* size of the buffer.  It is large enough, even when a list returned      *)
(* twice feeds the same packets again, because the burst that fills it     *)
(* empties it before the next packet is looked at.                         *)
(***************************************************************************)
ListsFit == \A q \in Queues :
  /\ Len(sendList[q]) <= SendBurst /\ Len(freeList[q]) <= FreeBurst
  /\ pc[q] \in {"poll", "inspect"} =>
       Len(sendList[q]) < SendBurst /\ Len(freeList[q]) < FreeBurst

\* A packet of q is put on the list to be sent, or to be freed.
Forwards(q) == Inspect(q) /\ sendList'[q] # sendList[q]
Drops(q)    == Inspect(q) /\ freeList'[q] # freeList[q]

(***************************************************************************)
(* A full list is flushed whatever follows, and neither list keeps its     *)
(* packets for ever while inspect() goes on adding to it, whether or not a *)
(* second ever passes between two of its packets.                          *)
(***************************************************************************)
FlushedUnderTraffic == \A q \in Queues :
  /\ Len(sendList[q]) = SendBurst ~> sendList[q] = <<>>
  /\ Len(freeList[q]) = FreeBurst ~> freeList[q] = <<>>
  /\ []<><<Forwards(q)>>_vars => (sendList[q] # <<>> ~> sendList[q] = <<>>)
  /\ []<><<Drops(q)>>_vars => (freeList[q] # <<>> ~> freeList[q] = <<>>)

=============================================================================
