------------------------------ MODULE CFirewall ------------------------------
(***************************************************************************)
(* The C firewall (apps/c_apps/firewall): every worker lcore runs          *)
(* main_loop on a queue pair of its own, but the array rx_mbufs and the    *)
(* send_list are globals that all of them use without a lock.  Each access *)
(* to a global is a step.  The C packet capture (apps/c_apps/pktcapture)   *)
(* is the same loop with every frame dropped.                              *)
(***************************************************************************)
EXTENDS EthDev

CONSTANTS
  MaxPktBurst,  \* MAX_PKT_BURST
  Drop          \* the frames main_loop frees; all of them for pktcapture

ASSUME FirewallAssumption ==
  /\ MaxPktBurst \in Nat \ {0}
  /\ Drop \subseteq Frames

Null == "NULL"

VARIABLES
  rxMbufs,   \* rx_mbufs, shared
  sendArr,   \* send_list.list, shared
  sendLen,   \* send_list.len, shared
  pc,        \* pc[q]: where the lcore of q is
  recvCnt,   \* recvCnt[q]: packets rte_eth_rx_burst has stored
  i,         \* i[q]: packets of the burst dealt with
  m,         \* m[q]: the packet in hand
  len,       \* len[q]: send_packet's copy of send_list.len
  ret,       \* ret[q]: packets of the list dealt with by send_burst
  overlap    \* an lcore received while another was busy with a burst

sharedVars == <<rxMbufs, sendArr, sendLen>>
localVars  == <<pc, recvCnt, i, m, len, ret>>
vars       == <<devVars, sharedVars, localVars, overlap>>

Locations == {"poll", "inspect", "free", "read", "store", "send", "xmit",
              "rest", "write"}
Slots == 1..MaxPktBurst

TypeOK ==
  /\ DevTypeOK
  /\ rxMbufs \in [Slots -> Mbufs \cup {Null}]
  /\ sendArr \in [Slots -> Mbufs \cup {Null}]
  /\ sendLen \in 0..MaxPktBurst - 1
  /\ pc \in [Queues -> Locations]
  /\ m \in [Queues -> Mbufs \cup {Null}]
  /\ recvCnt \in [Queues -> 0..MaxPktBurst]
  /\ len \in [Queues -> 0..MaxPktBurst]
  /\ ret \in [Queues -> 0..MaxPktBurst]
  /\ i \in [Queues -> 0..MaxPktBurst]
  /\ \A q \in Queues : i[q] <= recvCnt[q]
  /\ overlap \in BOOLEAN

Init ==
  /\ DevInit
  /\ rxMbufs = [s \in Slots |-> Null]
  /\ sendArr = [s \in Slots |-> Null]
  /\ sendLen = 0
  /\ pc = [q \in Queues |-> "poll"]
  /\ m = [q \in Queues |-> Null]
  /\ recvCnt = [q \in Queues |-> 0] /\ i = [q \in Queues |-> 0]
  /\ len = [q \in Queues |-> 0] /\ ret = [q \in Queues |-> 0]
  /\ overlap = FALSE

\* Lcore q has packets of a burst in rx_mbufs.
Busy(q) == recvCnt[q] > 0

Goto(q, l) == pc' = [pc EXCEPT ![q] = l]

-----------------------------------------------------------------------------
(* main_loop.                                                              *)

Receive(q) ==
  /\ pc[q] = "poll"
  /\ recvCnt[q] < MaxPktBurst
  /\ \E nmb \in pool : RxPacket(q, nmb)
  /\ rxMbufs' = [rxMbufs EXCEPT ![recvCnt[q] + 1] = Head(rxRing[q])]
  /\ recvCnt' = [recvCnt EXCEPT ![q] = @ + 1]
  /\ overlap' = \E r \in Queues \ {q} : Busy(r)
  /\ UNCHANGED <<sendArr, sendLen, pc, i, m, len, ret>>

GotBurst(q) ==
  /\ pc[q] = "poll"
  /\ recvCnt[q] = MaxPktBurst \/ RxExhausted(q)
  /\ RxReturn(q)
  /\ Goto(q, "inspect")
  /\ UNCHANGED <<sharedVars, recvCnt, i, m, len, ret>>

\* The next packet of the array is looked at.
Inspect(q) ==
  /\ pc[q] = "inspect"
  /\ i[q] < recvCnt[q]
  /\ m' = [m EXCEPT ![q] = rxMbufs[i[q] + 1]]
  /\ Goto(q, IF frame[m'[q]] \in Drop THEN "free" ELSE "read")
  /\ UNCHANGED <<devVars, sharedVars, recvCnt, i, len, ret>>

Inspected(q) ==
  /\ pc[q] = "inspect"
  /\ i[q] = recvCnt[q]
  /\ recvCnt' = [recvCnt EXCEPT ![q] = 0]
  /\ i' = [i EXCEPT ![q] = 0]
  /\ Goto(q, "poll")
  /\ UNCHANGED <<devVars, sharedVars, m, len, ret>>

\* The locals m, len and ret are forgotten when they are dead.
FreePacket(q) ==
  /\ pc[q] = "free"
  /\ FreeMbuf(m[q])
  /\ i' = [i EXCEPT ![q] = @ + 1]
  /\ m' = [m EXCEPT ![q] = Null]
  /\ Goto(q, "inspect")
  /\ UNCHANGED <<rxVars, txVars, sharedVars, recvCnt, len, ret>>

-----------------------------------------------------------------------------
(* send_packet: read send_list.len, store the packet, write it back.       *)

ReadLen(q) ==
  /\ pc[q] = "read"
  /\ len' = [len EXCEPT ![q] = sendLen]
  /\ Goto(q, "store")
  /\ UNCHANGED <<devVars, sharedVars, recvCnt, i, m, ret>>

Store(q) ==
  /\ pc[q] = "store"
  /\ sendArr' = [sendArr EXCEPT ![len[q] + 1] = m[q]]
  /\ len' = [len EXCEPT ![q] = @ + 1]
  /\ Goto(q, IF len[q] + 1 = MaxPktBurst THEN "send" ELSE "write")
  /\ UNCHANGED <<devVars, rxMbufs, sendLen, recvCnt, i, m, ret>>

\* Mutant: no continue, the packet just queued is freed as well.
WriteLenFallsThrough(q) ==
  /\ pc[q] = "write"
  /\ sendLen' = len[q]
  /\ Goto(q, "free")
  /\ UNCHANGED <<devVars, rxMbufs, sendArr, recvCnt, i, m, len, ret>>

WriteLen(q) ==
  /\ pc[q] = "write"
  /\ sendLen' = len[q]
  /\ i' = [i EXCEPT ![q] = @ + 1]
  /\ m' = [m EXCEPT ![q] = Null]
  /\ len' = [len EXCEPT ![q] = 0] /\ ret' = [ret EXCEPT ![q] = 0]
  /\ Goto(q, "inspect")
  /\ UNCHANGED <<devVars, rxMbufs, sendArr, recvCnt>>

-----------------------------------------------------------------------------
(* send_burst: what rte_eth_tx_burst does not take is freed.               *)

BeginSend(q) ==
  /\ pc[q] = "send"
  /\ TxBegin(q)
  /\ ret' = [ret EXCEPT ![q] = 0]
  /\ Goto(q, "xmit")
  /\ UNCHANGED <<sharedVars, recvCnt, i, m, len>>

Transmit(q) ==
  /\ pc[q] = "xmit"
  /\ ret[q] < MaxPktBurst
  /\ TxPacket(q, sendArr[ret[q] + 1])
  /\ ret' = [ret EXCEPT ![q] = @ + 1]
  /\ UNCHANGED <<sharedVars, pc, recvCnt, i, m, len>>

Transmitted(q) ==
  /\ pc[q] = "xmit"
  /\ ret[q] = MaxPktBurst \/ ~TxRoom(q)
  /\ Goto(q, "rest")
  /\ UNCHANGED <<devVars, sharedVars, recvCnt, i, m, len, ret>>

FreeRest(q) ==
  /\ pc[q] = "rest"
  /\ ret[q] < MaxPktBurst
  /\ FreeMbuf(sendArr[ret[q] + 1])
  /\ ret' = [ret EXCEPT ![q] = @ + 1]
  /\ UNCHANGED <<rxVars, txVars, sharedVars, pc, recvCnt, i, m, len>>

\* Mutant: what was not sent is forgotten, as in the Java frameworks.
SentForgets(q) ==
  /\ pc[q] = "rest"
  /\ len' = [len EXCEPT ![q] = 0]
  /\ Goto(q, "write")
  /\ UNCHANGED <<devVars, sharedVars, recvCnt, i, m, ret>>

Sent(q) ==
  /\ pc[q] = "rest"
  /\ ret[q] = MaxPktBurst
  /\ len' = [len EXCEPT ![q] = 0]
  /\ Goto(q, "write")
  /\ UNCHANGED <<devVars, sharedVars, recvCnt, i, m, ret>>

-----------------------------------------------------------------------------
MainLoop(q) ==
  \/ Receive(q)
  \/ /\ \/ GotBurst(q) \/ Inspect(q) \/ Inspected(q) \/ FreePacket(q)
        \/ ReadLen(q) \/ Store(q) \/ WriteLen(q)
        \/ BeginSend(q) \/ Transmit(q) \/ Transmitted(q) \/ FreeRest(q) \/ Sent(q)
     /\ UNCHANGED overlap

Nic(q) ==
  (NicReceive(q) \/ NicTransmit(q)) /\ UNCHANGED <<sharedVars, localVars, overlap>>

\* An overlap ends the exploration: from then on the lcores overwrite each
\* other's packets.
Overlapped == overlap /\ UNCHANGED vars

Next == (\E q \in Queues : ~overlap /\ (MainLoop(q) \/ Nic(q))) \/ Overlapped

Spec == Init /\ [][Next]_vars

-----------------------------------------------------------------------------
(* Properties.                                                             *)

\* Lcore q is in send_packet and has stored its packet.
Sending(q) == pc[q] \in {"send", "xmit", "rest", "write"}

\* The entries of rx_mbufs that lcore q has not settled yet.
BurstSlots(q) == i[q] + (IF Sending(q) THEN 2 ELSE 1) .. recvCnt[q]

\* The entries of send_list that hold a packet: as the lcore that is in the
\* middle of send_packet sees them, or else by its length.
SeenSlots(q) ==
  CASE pc[q] = "write" -> 1..len[q]
    [] pc[q] = "send"  -> Slots
    [] OTHER           -> ret[q] + 1..MaxPktBurst

ListSlots ==
  IF \E q \in Queues : Sending(q)
    THEN UNION {SeenSlots(q) : q \in {r \in Queues : Sending(r)}}
    ELSE 1..sendLen

\* Every pointer to an mbuf that will be followed, and the mbuf it points to.
Pointers ==
  (UNION {{<<"rx", q, k>> : k \in 1..Len(rxRing[q])} \cup
          {<<"burst", q, k>> : k \in BurstSlots(q)} \cup
          {<<"tx", q, k>> : k \in 1..Len(txRing[q])} : q \in Queues})
  \cup {<<"list", Null, k>> : k \in ListSlots}

Target(p) ==
  CASE p[1] = "rx"    -> rxRing[p[2]][p[3]]
    [] p[1] = "burst" -> rxMbufs[p[3]]
    [] p[1] = "tx"    -> txRing[p[2]][p[3]]
    [] p[1] = "list"  -> sendArr[p[3]]

(***************************************************************************)
(* The lcores share rx_mbufs and send_list without a lock: one leaves a    *)
(* list half full, another goes on filling it and sends it on a queue of   *)
(* its own.  As long as no two are busy with a burst at once, every mbuf   *)
(* out of the pool is reached by exactly one pointer and has the reference *)
(* count 1: none is lost, none is freed or sent twice.  send_burst keeps   *)
(* it so by freeing what did not fit the transmit ring.                    *)
(***************************************************************************)
NothingLost == ~overlap =>
  /\ RefcntsExact
  /\ \A p, r \in Pointers : Target(p) = Target(r) => p = r
  /\ {Target(p) : p \in Pointers} = Mbufs \ pool

(***************************************************************************)
(* What is queued or in a transmit ring passed the blacklist, and still    *)
(* holds the frame that did, until two bursts overlap.                     *)
(***************************************************************************)
VerdictHolds == ~overlap => \A p \in Pointers :
  p[1] \in {"list", "tx"} => frame[Target(p)] \in FrameKinds \ Drop

=============================================================================
