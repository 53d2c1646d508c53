------------------------------ MODULE DpdkJavaR ------------------------------
(***************************************************************************)
(* The packet path of the re-vamped framework (apps/DpdkJava-R) running    *)
(* its Firewall: each packet processor is a thread that polls its receive  *)
(* queue, inspects the burst packet by packet and gathers every packet in  *)
(* its PacketSender's or its PacketFreeer's list, handing a full list to   *)
(* the native library.                                                     *)
(*                                                                         *)
(* The threads share nothing but the mbuf pool of EthDev.                  *)
(***************************************************************************)
EXTENDS EthDev

CONSTANTS
  RxBurst,     \* packets asked of one rte_eth_rx_burst, and get_size
  SendBurst,   \* send_burst, the capacity of the send list
  FreeBurst    \* free_burst, the capacity of the free list

ASSUME BurstAssumption ==
  /\ RxBurst \in Nat \ {0}
  /\ SendBurst \in Nat \ {0}
  /\ FreeBurst \in Nat \ {0}

VARIABLES
  pc,        \* pc[q]: where the processor thread of q is
  burst,     \* burst[q]: received mbufs not yet inspected, in order
  sendList,  \* sendList[q]: PacketSender's list, less what the driver took
  freeList   \* freeList[q]: PacketFreeer's list, less what has been freed

appVars == <<pc, burst, sendList, freeList>>
vars    == <<devVars, appVars>>

\* poll: inside nat_receive_burst.  inspect: in the loop over the PacketList.
\* send: nat_send_packets entered.  xmit: in the driver's transmit loop.
\* free: inside nat_free_packets.
Locations == {"poll", "inspect", "send", "xmit", "free"}

TypeOK ==
  /\ DevTypeOK
  /\ pc \in [Queues -> Locations]
  /\ burst \in [Queues -> Seq(Mbufs)]
  /\ sendList \in [Queues -> Seq(Mbufs)]
  /\ freeList \in [Queues -> Seq(Mbufs)]

Init ==
  /\ DevInit
  /\ pc = [q \in Queues |-> "poll"]
  /\ burst = [q \in Queues |-> <<>>]
  /\ sendList = [q \in Queues |-> <<>>]
  /\ freeList = [q \in Queues |-> <<>>]

Goto(q, l) == pc' = [pc EXCEPT ![q] = l]

-----------------------------------------------------------------------------
(* ReceivePoller.getBurst.                                                 *)

\* The driver returns one more packet of the burst.
Receive(q) ==
  /\ pc[q] = "poll"
  /\ Len(burst[q]) < RxBurst
  /\ \E nmb \in pool : RxPacket(q, nmb)
  /\ burst' = [burst EXCEPT ![q] = Append(@, Head(rxRing[q]))]
  /\ UNCHANGED <<pc, sendList, freeList>>

\* Mutant: waits for a full burst.
GotBurstOnlyFull(q) ==
  /\ pc[q] = "poll"
  /\ Len(burst[q]) = RxBurst \/ RxExhausted(q)
  /\ RxReturn(q)
  /\ Goto(q, IF Len(burst[q]) < RxBurst THEN "poll" ELSE "inspect")
  /\ UNCHANGED <<burst, sendList, freeList>>

\* The burst is complete; an empty one is polled for again.
GotBurst(q) ==
  /\ pc[q] = "poll"
  /\ Len(burst[q]) = RxBurst \/ RxExhausted(q)
  /\ RxReturn(q)
  /\ Goto(q, IF burst[q] = <<>> THEN "poll" ELSE "inspect")
  /\ UNCHANGED <<burst, sendList, freeList>>

-----------------------------------------------------------------------------
(* FirewallProcessor.run and inspect.                                      *)

\* Mutant: the blacklist is not consulted.
AcceptedUnlisted(m) == frame[m] \in {"v4", "v4blacklisted"}

\* What inspect() sends on; everything else it frees.
Accepted(m) == frame[m] = "v4"

\* Mutant: flushes when the list is one past full.
SendPacketLate(q, m) ==
  /\ sendList' = [sendList EXCEPT ![q] = Append(@, m)]
  /\ Goto(q, IF Len(sendList[q]) = SendBurst THEN "send" ELSE "inspect")
  /\ UNCHANGED freeList

\* PacketSender.sendPacket: the full list is sent at once.
SendPacket(q, m) ==
  /\ sendList' = [sendList EXCEPT ![q] = Append(@, m)]
  /\ Goto(q, IF Len(sendList[q]) + 1 = SendBurst THEN "send" ELSE "inspect")
  /\ UNCHANGED freeList

\* PacketFreeer.freePacket: the full list is freed at once.
FreePacket(q, m) ==
  /\ freeList' = [freeList EXCEPT ![q] = Append(@, m)]
  /\ Goto(q, IF Len(freeList[q]) + 1 = FreeBurst THEN "free" ELSE "inspect")
  /\ UNCHANGED sendList

Inspect(q) ==
  LET m == Head(burst[q])
  IN /\ pc[q] = "inspect"
     /\ burst[q] # <<>>
     /\ IF Accepted(m) THEN SendPacket(q, m) ELSE FreePacket(q, m)
     /\ burst' = [burst EXCEPT ![q] = Tail(@)]
     /\ UNCHANGED devVars

\* The iterator has no next packet: back to getBurst.
Inspected(q) ==
  /\ pc[q] = "inspect"
  /\ burst[q] = <<>>
  /\ Goto(q, "poll")
  /\ UNCHANGED <<devVars, burst, sendList, freeList>>

-----------------------------------------------------------------------------
(* PacketSender.sendBurst and nat_send_packets.                            *)

BeginSend(q) ==
  /\ pc[q] = "send"
  /\ TxBegin(q)
  /\ Goto(q, "xmit")
  /\ UNCHANGED <<burst, sendList, freeList>>

Transmit(q) ==
  /\ pc[q] = "xmit"
  /\ sendList[q] # <<>>
  /\ TxPacket(q, Head(sendList[q]))
  /\ sendList' = [sendList EXCEPT ![q] = Tail(@)]
  /\ UNCHANGED <<pc, burst, freeList>>

\* Mutant: gives up on the rest after a partial burst.
SentEarly(q) ==
  /\ pc[q] = "xmit"
  /\ sendList' = [sendList EXCEPT ![q] = <<>>]
  /\ Goto(q, "inspect")
  /\ UNCHANGED <<devVars, burst, freeList>>

\* The call returns and the list is reset, whatever the driver left in it.
Sent(q) ==
  /\ pc[q] = "xmit"
  /\ sendList[q] = <<>> \/ ~TxRoom(q)
  /\ sendList' = [sendList EXCEPT ![q] = <<>>]
  /\ Goto(q, "inspect")
  /\ UNCHANGED <<devVars, burst, freeList>>

-----------------------------------------------------------------------------
(* PacketFreeer.freeBurst and nat_free_packets.                            *)

\* Mutant: the pointer into the list is not advanced.
FreeSame(q) ==
  /\ pc[q] = "free"
  /\ freeList[q] # <<>>
  /\ FreeMbuf(Head(freeList[q]))
  /\ UNCHANGED <<rxVars, txVars, pc, burst, sendList, freeList>>

Free(q) ==
  /\ pc[q] = "free"
  /\ freeList[q] # <<>>
  /\ FreeMbuf(Head(freeList[q]))
  /\ freeList' = [freeList EXCEPT ![q] = Tail(@)]
  /\ UNCHANGED <<rxVars, txVars, pc, burst, sendList>>

Freed(q) ==
  /\ pc[q] = "free"
  /\ freeList[q] = <<>>
  /\ Goto(q, "inspect")
  /\ UNCHANGED <<devVars, burst, sendList, freeList>>

-----------------------------------------------------------------------------
Processor(q) ==
  \/ Receive(q) \/ GotBurst(q)
  \/ Inspect(q) \/ Inspected(q)
  \/ BeginSend(q) \/ Transmit(q) \/ Sent(q)
  \/ Free(q) \/ Freed(q)

Nic(q) == (NicReceive(q) \/ NicTransmit(q)) /\ UNCHANGED appVars

Next == \E q \in Queues : Processor(q) \/ Nic(q)

Spec == Init /\ [][Next]_vars

(***************************************************************************)
(* A processor thread loops for ever and the operating system schedules    *)
(* it; the NIC finishes what it was given.  Nothing makes frames arrive.   *)
(***************************************************************************)
Fairness == \A q \in Queues :
  /\ WF_vars(Processor(q))
  /\ WF_vars(NicTransmit(q) /\ UNCHANGED appVars)

LiveSpec == Spec /\ Fairness

-----------------------------------------------------------------------------
(* Properties.                                                             *)

Places == {"rx", "burst", "send", "free", "tx"}

\* The mbufs that place pl of queue q refers to, in order.
Held(q, pl) ==
  CASE pl = "rx"    -> rxRing[q]
    [] pl = "burst" -> burst[q]
    [] pl = "send"  -> sendList[q]
    [] pl = "free"  -> freeList[q]
    [] pl = "tx"    -> txRing[q]

Holding == [x \in Queues \X Places |-> Held(x[1], x[2])]

(***************************************************************************)
(* Every mbuf is referred to from at most one place, once: the pool, or    *)
(* one entry of one ring or list of one queue.  No thread can free, send   *)
(* or inspect an mbuf that the driver, the NIC or another thread uses, and *)
(* rte_pktmbuf_free is never called twice for one rte_mempool_get.         *)
(***************************************************************************)
ExclusiveOwnership ==
  /\ \A x, y \in Queues \X Places :
       \A i \in 1..Len(Holding[x]), j \in 1..Len(Holding[y]) :
         Holding[x][i] = Holding[y][j] => x = y /\ i = j
  /\ \A x \in Queues \X Places :
       \A i \in 1..Len(Holding[x]) : Holding[x][i] \notin pool

\* What is being done with m, in the terms of MbufLife.
HeldIn(m, pl) == \E q \in Queues : m \in Range(Held(q, pl))

Stage(m) ==
  CASE m \in pool          -> "pool"
    [] HeldIn(m, "rx")    -> "armed"
    [] HeldIn(m, "burst") -> "got"
    [] HeldIn(m, "send")  -> "accepted"
    [] HeldIn(m, "free")  -> "rejected"
    [] HeldIn(m, "tx")    -> "sent"
    [] OTHER              -> "lost"

Life == INSTANCE MbufLife WITH
  stage <- [m \in Mbufs |-> Stage(m)], content <- frame

(***************************************************************************)
(* The rings of the driver and the lists of the threads, filled and        *)
(* emptied in bursts, implement the life cycle of MbufLife: inspect()      *)
(* forwards IPv4 frames whose address is not blacklisted and nothing else, *)
(* each frame is judged once, and by the time the list is flushed and the  *)
(* NIC reads the buffer it still holds the frame that was inspected.       *)
(***************************************************************************)
ImplementsLife == Life!Spec

(***************************************************************************)
(* PacketListCreate.add writes without looking at max_size, and            *)
(* nat_receive_burst without looking at memory_size: the buffers are large *)
(* enough because a list is flushed when it is exactly full, so outside a  *)
(* flush there is always room for one more packet.                         *)
(***************************************************************************)
ListsFit == \A q \in Queues :
  /\ Len(burst[q]) <= RxBurst
  /\ Len(sendList[q]) <= SendBurst
  /\ Len(freeList[q]) <= FreeBurst
  /\ pc[q] \notin {"send", "xmit"} => Len(sendList[q]) < SendBurst
  /\ pc[q] # "free" => Len(freeList[q]) < FreeBurst

\* The mbufs whose transmission the NIC has not finished.
InFlight(q) ==
  {txRing[q][i] : i \in Len(txRing[q]) - TxPending(q) + 1 .. Len(txRing[q])}

(***************************************************************************)
(* The driver frees a transmitted mbuf lazily, when its slot is reused.    *)
(* That never takes back a buffer the NIC is still reading, for any timing *)
(* of em_xmit_cleanup against the NIC.                                     *)
(***************************************************************************)
NoFreeInFlight ==
  [][\A q \in Queues : InFlight(q) \cap pool' = {}]_vars

(***************************************************************************)
(* sendBurst resets its list without looking at how many packets the       *)
(* driver took.  An mbuf drops out of every list, ring and the pool only   *)
(* there, and only when the transmit ring had no room for it.              *)
(***************************************************************************)
Lost == Mbufs \ (pool \cup UNION {Range(Holding[x]) : x \in Queues \X Places})

LostOnlyToFullRing ==
  [][Lost' # Lost =>
       \E q \in Queues : /\ Sent(q)
                         /\ ~TxRoom(q)
                         /\ Lost' = Lost \cup Range(sendList[q])]_vars

(***************************************************************************)
(* sendBurst will "send burst of packets and also frees them via dpdk      *)
(* library" (PacketSender.java): an mbuf that leaves the send list is with *)
(* the driver, which frees it once it is sent, or is free.                 *)
(***************************************************************************)
SentOrFreed ==
  [][\A q \in Queues : Range(sendList[q]) \ Range(sendList'[q])
                          \subseteq Range(txRing'[q]) \cup pool']_vars

(***************************************************************************)
(* A frame the NIC has written is handed to inspect(), unless the pool     *)
(* runs out of mbufs to take its place in the ring.                        *)
(***************************************************************************)
FrameInspected == \A q \in Queues, m \in Mbufs :
  (\E i \in 1..rxDone[q] : rxRing[q][i] = m)
    ~> \/ m \in Range(sendList[q]) \cup Range(freeList[q])
       \/ pool = {}

(***************************************************************************)
(* A full list is always flushed: the send path never waits for the NIC,   *)
(* it gives up on what does not fit.                                       *)
(***************************************************************************)
FullListFlushed == \A q \in Queues :
  /\ Len(sendList[q]) = SendBurst ~> sendList[q] = <<>>
  /\ Len(freeList[q]) = FreeBurst ~> freeList[q] = <<>>

=============================================================================
