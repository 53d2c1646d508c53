------------------------------- MODULE EthDev -------------------------------
(***************************************************************************)
(* The Ethernet device underneath both packet-pro frameworks: the mbuf     *)
(* pool shared by every queue, and one receive and one transmit descriptor *)
(* ring per queue, as the em poll-mode driver of the vendored DPDK 2.0     *)
(* keeps them.  The actions of the NIC and the steps of rte_eth_rx_burst,  *)
(* rte_eth_tx_burst and rte_pktmbuf_free are here; the modules that extend *)
(* this one add the threads that call them.                                *)
(*                                                                         *)
(* Every pool operation is one step of its own, so threads interleave      *)
(* between any two mbufs of a burst.  Packets are single-segment and ask   *)
(* for no offload, so a packet takes exactly one transmit descriptor.      *)
(***************************************************************************)
EXTENDS Integers, Sequences, FiniteSets, Functions

CONSTANTS
  Queues,         \* rx/tx queue pairs, one per packet processor
  Mbufs,          \* the packet buffers of the pool
  FrameKinds,     \* what the wire delivers, see Frames
  RxInit,         \* RxInit[q]: the mbufs rte_eth_dev_start arms the rx queue with
  RxFreeThresh,   \* rx_free_thresh: descriptors held back from the NIC
  NbTxDesc,       \* descriptors of a transmit ring
  TxFreeThresh,   \* tx_free_thresh: used descriptors that trigger a cleanup
  TxRsThresh      \* tx_rs_thresh: descriptors reclaimed by one cleanup

(***************************************************************************)
(* What the code tells apart about a frame: the IP version whichIP() finds *)
(* and, for IPv4, whether the blacklist contains its address.              *)
(***************************************************************************)
Frames == {"v4", "v4blacklisted", "v6", "nonIP"}

NoFrame == "none"   \* a buffer the NIC has not written yet

RefcntMod == 65536  \* refcnt is a uint16_t

\* nb_rx_desc: descriptors of the receive ring of q.
NbRxDesc(q) == Len(RxInit[q])

ASSUME DeviceAssumption ==
  /\ FrameKinds \subseteq Frames
  /\ RxInit \in [Queues -> Seq(Mbufs)]
  /\ \A q, r \in Queues : \A i \in 1..NbRxDesc(q), j \in 1..NbRxDesc(r) :
       RxInit[q][i] = RxInit[r][j] => q = r /\ i = j
  /\ RxFreeThresh \in Nat
  /\ \A q \in Queues : RxFreeThresh + 1 < NbRxDesc(q)
  /\ NbTxDesc \in Nat /\ TxFreeThresh \in Nat /\ TxRsThresh \in Nat
  /\ 0 < TxRsThresh /\ TxRsThresh <= TxFreeThresh
  /\ TxFreeThresh < NbTxDesc - 1

VARIABLES
  pool,      \* free mbufs
  refcnt,    \* refcnt[m]: reference count of m, 0 once m is free
  frame,     \* frame[m]: the frame in m, NoFrame once m is free
  rxRing,    \* rxRing[q]: sw_ring of the rx queue, from rx_tail on
  rxDone,    \* rxDone[q]: leading descriptors whose DD bit is set
  rxHold,    \* rxHold[q]: nb_rx_hold, re-armed but not yet given to the NIC
  txRing,    \* txRing[q]: non-NULL sw_ring entries of the tx queue, oldest first
  nbTxFree,  \* nbTxFree[q]: nb_tx_free
  txDone     \* txDone[q]: descriptors transmitted but not yet cleaned

rxVars  == <<rxRing, rxDone, rxHold>>
txVars  == <<txRing, nbTxFree, txDone>>
memVars == <<pool, refcnt, frame>>
devVars == <<memVars, rxVars, txVars>>

MemTypeOK ==
  /\ pool \in SUBSET Mbufs
  /\ refcnt \in [Mbufs -> 0..RefcntMod - 1]
  /\ frame \in [Mbufs -> FrameKinds \cup {NoFrame}]

DevTypeOK ==
  /\ MemTypeOK
  /\ rxRing \in [Queues -> Seq(Mbufs)]
  /\ rxDone \in [Queues -> Nat]
  /\ rxHold \in [Queues -> Nat]
  /\ txRing \in [Queues -> Seq(Mbufs)]
  /\ nbTxFree \in [Queues -> 0..NbTxDesc - 1]
  /\ txDone \in [Queues -> 0..NbTxDesc - 1]

(***************************************************************************)
(* The state rte_eth_dev_start leaves: every receive descriptor has an     *)
(* mbuf of its own, the transmit rings are empty, and one transmit         *)
(* descriptor stays unallocated.                                           *)
(***************************************************************************)
DevInit ==
  /\ rxRing = RxInit
  /\ pool = Mbufs \ UNION {Range(rxRing[q]) : q \in Queues}
  /\ refcnt = [m \in Mbufs |-> IF m \in pool THEN 0 ELSE 1]
  /\ frame = [m \in Mbufs |-> NoFrame]
  /\ rxDone = [q \in Queues |-> 0]
  /\ rxHold = [q \in Queues |-> 0]
  /\ txRing = [q \in Queues |-> <<>>]
  /\ nbTxFree = [q \in Queues |-> NbTxDesc - 1]
  /\ txDone = [q \in Queues |-> 0]

-----------------------------------------------------------------------------
(* The NIC.                                                                *)

\* Descriptors handed to the NIC whose transmission is not finished.
TxPending(q) == NbTxDesc - 1 - nbTxFree[q] - txDone[q]

\* A frame arrives: DMA into the next armed descriptor, then its DD bit.
\* RDT trails rx_tail by one, so one descriptor is never the NIC's.
NicReceive(q) ==
  /\ rxDone[q] + rxHold[q] < NbRxDesc(q) - 1
  /\ \E k \in FrameKinds :
       frame' = [frame EXCEPT ![rxRing[q][rxDone[q] + 1]] = k]
  /\ rxDone' = [rxDone EXCEPT ![q] = @ + 1]
  /\ UNCHANGED <<pool, refcnt, rxRing, rxHold, txVars>>

\* The oldest pending descriptor has been sent and is written back.
NicTransmit(q) ==
  /\ TxPending(q) > 0
  /\ txDone' = [txDone EXCEPT ![q] = @ + 1]
  /\ UNCHANGED <<memVars, rxVars, txRing, nbTxFree>>

-----------------------------------------------------------------------------
(* The driver calls.                                                       *)

\* rte_pktmbuf_free of a single-segment mbuf: only the last reference
\* returns it to the pool, and a count that is already 0 wraps around.  What
\* is in a buffer of the pool no longer matters.
FreeMbuf(m) ==
  /\ refcnt' = [refcnt EXCEPT ![m] = IF @ = 0 THEN RefcntMod - 1 ELSE @ - 1]
  /\ pool' = IF refcnt[m] = 1 THEN pool \cup {m} ELSE pool
  /\ frame' = IF refcnt[m] = 1 THEN [frame EXCEPT ![m] = NoFrame] ELSE frame

\* One turn of the receive loop: a new mbuf replaces the filled one.
RxPacket(q, nmb) ==
  /\ rxDone[q] > 0
  /\ nmb \in pool
  /\ pool' = pool \ {nmb}
  /\ refcnt' = [refcnt EXCEPT ![nmb] = 1]
  /\ rxRing' = [rxRing EXCEPT ![q] = Append(Tail(@), nmb)]
  /\ rxDone' = [rxDone EXCEPT ![q] = @ - 1]
  /\ rxHold' = [rxHold EXCEPT ![q] = @ + 1]
  /\ UNCHANGED <<frame, txVars>>

\* The receive loop stops: nothing arrived, or no mbuf to re-arm with.
RxExhausted(q) == rxDone[q] = 0 \/ pool = {}

\* The end of the receive call gives the held descriptors back to the NIC.
RxReturn(q) ==
  /\ rxHold' = [rxHold EXCEPT ![q] = IF @ > RxFreeThresh THEN 0 ELSE @]
  /\ UNCHANGED <<memVars, rxRing, rxDone, txVars>>

\* Mutant: cleans without looking at the DD bit.
CanAlwaysClean(q) == nbTxFree[q] + TxRsThresh < NbTxDesc

\* em_xmit_cleanup succeeds when the next tx_rs_thresh descriptors are done.
CanClean(q) == txDone[q] >= TxRsThresh

\* Mutant: last_desc_cleaned is not advanced.
TxBeginForgets(q) ==
  /\ IF NbTxDesc - nbTxFree[q] > TxFreeThresh /\ CanClean(q)
       THEN nbTxFree' = [nbTxFree EXCEPT ![q] = @ + TxRsThresh]
       ELSE UNCHANGED nbTxFree
  /\ UNCHANGED <<memVars, rxVars, txRing, txDone>>

\* The start of the transmit call cleans once when the ring is filling up.
TxBegin(q) ==
  /\ IF NbTxDesc - nbTxFree[q] > TxFreeThresh /\ CanClean(q)
       THEN /\ nbTxFree' = [nbTxFree EXCEPT ![q] = @ + TxRsThresh]
            /\ txDone' = [txDone EXCEPT ![q] = @ - TxRsThresh]
       ELSE UNCHANGED <<nbTxFree, txDone>>
  /\ UNCHANGED <<memVars, rxVars, txRing>>

\* A descriptor is free, or can be reclaimed.
TxRoom(q) == nbTxFree[q] > 0 \/ CanClean(q)

\* One turn of the transmit loop: the mbuf the slot held is freed, then m
\* takes its place.
TxPacket(q, m) ==
  LET clean == nbTxFree[q] = 0
      full  == Len(txRing[q]) = NbTxDesc
  IN /\ TxRoom(q)
     /\ txRing' = [txRing EXCEPT ![q] = Append(IF full THEN Tail(@) ELSE @, m)]
     /\ IF full THEN FreeMbuf(Head(txRing[q])) ELSE UNCHANGED memVars
     /\ nbTxFree' = [nbTxFree EXCEPT ![q] = IF clean THEN TxRsThresh - 1 ELSE @ - 1]
     /\ txDone' = [txDone EXCEPT ![q] = IF clean THEN @ - TxRsThresh ELSE @]
     /\ UNCHANGED rxVars

-----------------------------------------------------------------------------
(***************************************************************************)
(* The driver's counters describe its rings: every receive descriptor      *)
(* always has an mbuf, the NIC never owns the whole ring (RDT never meets  *)
(* RDH), and every descriptor counted as used has its mbuf in the transmit *)
(* ring, however cleanups, transmissions and bursts interleave.            *)
(***************************************************************************)
RingsConsistent == \A q \in Queues :
  /\ Len(rxRing[q]) = NbRxDesc(q)
  /\ rxDone[q] + rxHold[q] < NbRxDesc(q)
  /\ Len(txRing[q]) <= NbTxDesc
  /\ nbTxFree[q] + txDone[q] < NbTxDesc
  /\ NbTxDesc - 1 - nbTxFree[q] <= Len(txRing[q])

(***************************************************************************)
(* A free mbuf has reference count 0 and any other mbuf has 1.  The        *)
(* library asserts the first half when it takes an mbuf from the pool and  *)
(* when it puts one back (RTE_MBUF_ASSERT in rte_mbuf.h, compiled out of a *)
(* release build): one free too many makes the count wrap around, one too  *)
(* few keeps the mbuf out of the pool for ever.                            *)
(***************************************************************************)
RefcntsExact == \A m \in Mbufs : refcnt[m] = IF m \in pool THEN 0 ELSE 1

=============================================================================
