------------------------------- MODULE Stats -------------------------------
(***************************************************************************)
(* The Java statistics.  Every ReceivePoller adds what it receives to its  *)
(* own packet_interval; once a second the timer thread's CollectStats adds *)
(* the intervals up and sets each back to 0.  Nothing is synchronised, so  *)
(* "packet_interval += packet_count" is a read followed by a write, and    *)
(* the collector's get and reset are two steps.  A poll that receives      *)
(* nothing also adds, 0, to the interval.                                  *)
(***************************************************************************)
EXTENDS Integers, Sequences, FiniteSets, Functions

CONSTANTS
  Workers,     \* the processor threads, each with its poller and its sender
  MaxBurst,    \* packets of one poll
  SendSize,    \* send_burst
  MaxPackets,  \* bound on packet_all of a poller
  MaxTotal     \* no round starts with more than this in received_packet_total

ASSUME StatsAssumption ==
  /\ IsFiniteSet(Workers)
  /\ MaxBurst \in Nat /\ SendSize \in Nat \ {0} /\ MaxPackets \in Nat
  /\ MaxTotal \in Nat

VARIABLES
  started,      \* startAll was called
  receivers,    \* Stats.receivers
  packetAll,    \* packet_all of each poller
  interval,     \* packet_interval of each poller
  adding,       \* the worker is between the read and the write of +=
  loaded,       \* the value it read
  got,          \* packet_count
  sent,         \* packets the sender gave to dpdk_send_packets
  txAll,        \* packet_all of each sender
  txInterval,   \* packet_interval of each sender
  collector,    \* "idle", "get" or "reset" receivers[cur]
  cur,
  received,     \* received_packet_interval
  receivedTotal,
  transmittedTotal

pollVars  == <<packetAll, interval, adding, loaded, got>>
sendVars  == <<sent, txAll, txInterval, transmittedTotal>>
timeVars  == <<collector, cur, received, receivedTotal>>
statsVars == <<started, receivers, pollVars, sendVars, timeVars>>

StatsTypeOK ==
  /\ started \in BOOLEAN
  /\ receivers \in Seq(Workers) /\ IsInjective(receivers)
  /\ packetAll \in [Workers -> 0..MaxPackets]
  /\ interval \in [Workers -> Nat] /\ loaded \in [Workers -> Nat]
  /\ got \in [Workers -> 0..MaxBurst] /\ adding \in [Workers -> BOOLEAN]
  /\ sent \in [Workers -> Nat]
  /\ txAll \in [Workers -> Nat] /\ txInterval \in [Workers -> Nat]
  /\ collector \in {"idle", "get", "reset"} /\ cur \in 1..Cardinality(Workers) + 1
  /\ received \in Nat /\ receivedTotal \in Nat /\ transmittedTotal \in Nat

Zero == [w \in Workers |-> 0]

StatsInit ==
  /\ started = FALSE /\ receivers = <<>>
  /\ packetAll = Zero /\ interval = Zero /\ loaded = Zero /\ got = Zero
  /\ adding = [w \in Workers |-> FALSE]
  /\ sent = Zero /\ txAll = Zero /\ txInterval = Zero
  /\ collector = "idle" /\ cur = 1
  /\ received = 0 /\ receivedTotal = 0 /\ transmittedTotal = 0

-----------------------------------------------------------------------------
(* main.                                                                   *)

AddReceivers(w) ==
  /\ ~started
  /\ receivers' = IF w \in Range(receivers) THEN receivers ELSE Append(receivers, w)
  /\ UNCHANGED <<started, pollVars, sendVars, timeVars>>

StartThreads ==
  /\ ~started
  /\ started' = TRUE
  /\ UNCHANGED <<receivers, pollVars, sendVars, timeVars>>

-----------------------------------------------------------------------------
(* A worker: getBurst and sendBurst.                                       *)

GetBurstOf(w, n) ==
  /\ started /\ ~adding[w]
  /\ packetAll[w] + n <= MaxPackets
  /\ packetAll' = [packetAll EXCEPT ![w] = @ + n]
  /\ got' = [got EXCEPT ![w] = n]
  /\ loaded' = [loaded EXCEPT ![w] = interval[w]]
  /\ adding' = [adding EXCEPT ![w] = TRUE]
  /\ UNCHANGED <<started, receivers, interval, sendVars, timeVars>>

AddInterval(w) ==
  /\ adding[w]
  /\ interval' = [interval EXCEPT ![w] = loaded[w] + got[w]]
  /\ adding' = [adding EXCEPT ![w] = FALSE]
  /\ UNCHANGED <<started, receivers, packetAll, loaded, got, sendVars, timeVars>>

\* sendBurst touches none of the sender's counters.
SendBurstOf(w) ==
  /\ started /\ ~adding[w]
  /\ sent[w] + SendSize <= packetAll[w]
  /\ sent' = [sent EXCEPT ![w] = @ + SendSize]
  /\ UNCHANGED <<started, receivers, pollVars, txAll, txInterval,
                 transmittedTotal, timeVars>>

-----------------------------------------------------------------------------
(* The timer thread: CollectStats.run.                                     *)

\* The senders come first; no one else writes their counters.
CollectTransmitters ==
  /\ started /\ collector = "idle" /\ receivedTotal <= MaxTotal
  /\ transmittedTotal' = transmittedTotal + FoldFunction(+, 0, txInterval)
  /\ txInterval' = Zero
  /\ received' = 0
  /\ collector' = "get" /\ cur' = 1
  /\ UNCHANGED <<started, receivers, pollVars, sent, txAll, receivedTotal>>

GetInterval ==
  /\ collector = "get" /\ cur <= Len(receivers)
  /\ received' = received + interval[receivers[cur]]
  /\ collector' = "reset"
  /\ UNCHANGED <<started, receivers, pollVars, sendVars, cur, receivedTotal>>

\* Mutant: the reset is forgotten.
ResetIntervalForgotten ==
  /\ collector = "reset"
  /\ collector' = "get" /\ cur' = cur + 1
  /\ UNCHANGED <<started, receivers, pollVars, sendVars, received, receivedTotal>>

ResetInterval ==
  /\ collector = "reset"
  /\ interval' = [interval EXCEPT ![receivers[cur]] = 0]
  /\ collector' = "get" /\ cur' = cur + 1
  /\ UNCHANGED <<started, receivers, packetAll, adding, loaded, got, sendVars,
                 received, receivedTotal>>

Totals ==
  /\ collector = "get" /\ cur > Len(receivers)
  /\ receivedTotal' = receivedTotal + received
  /\ received' = 0
  /\ collector' = "idle" /\ cur' = 1
  /\ UNCHANGED <<started, receivers, pollVars, sendVars>>

StatsNext ==
  \/ \E w \in Workers : AddReceivers(w)
  \/ StartThreads
  \/ \E w \in Workers, n \in 0..MaxBurst : GetBurstOf(w, n)
  \/ \E w \in Workers : AddInterval(w) \/ SendBurstOf(w)
  \/ CollectTransmitters \/ GetInterval \/ ResetInterval \/ Totals

StatsSpec == StatsInit /\ [][StatsNext]_statsVars

-----------------------------------------------------------------------------
(* Properties.                                                             *)

\* The collector is between the get and the reset of w's poller.
InWindow(w) == collector = "reset" /\ receivers[cur] = w

\* What the worker's counter still holds for a later round.
Pending(w) ==
  (IF InWindow(w) THEN 0 ELSE IF adding[w] THEN loaded[w] ELSE interval[w])
  + (IF adding[w] THEN got[w] ELSE 0)

\* What the poller received and does not hold: the totals should have it.
Handed(w) == packetAll[w] - Pending(w)

Counted == receivedTotal + received

\* The totals gain exactly what the poller of w hands over.
Transfer(w) ==
  /\ Counted' - Counted = Handed(w)' - Handed(w)
  /\ \A v \in Range(receivers) \ {w} : Handed(v)' = Handed(v)

Keep == Counted' = Counted /\ \A w \in Range(receivers) : Handed(w)' = Handed(w)

\* A step of the one thread inside the two-step access of the other.
Overlap(w) ==
  \/ AddInterval(w) /\ InWindow(w)
  \/ (GetInterval \/ ResetInterval) /\ receivers[cur] = w /\ adding[w]

(***************************************************************************)
(* The final report accepts that the counters "can potentially have        *)
(* synchronisation issues": this says how far that goes.  Packets are      *)
(* counted twice or lost only by a step of the collector or of the worker  *)
(* that falls between the other's two accesses to the same counter; every  *)
(* other step leaves all counts alone, or the totals gain exactly what one *)
(* poller hands over, so that each packet is counted once.                 *)
(***************************************************************************)
DriftOnlyOnOverlap ==
  [][started => Keep \/ \E w \in Range(receivers) : Transfer(w) \/ Overlap(w)]_statsVars

=============================================================================
