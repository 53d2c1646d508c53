---------------------------- MODULE StartupProofs ----------------------------
(***************************************************************************)
(* The start of a Java application, for every configuration: any number of *)
(* listed ports, threads, queues, passes of the link check and processors; *)
(* and its statistics, the Java ones and the native ones.                  *)
(***************************************************************************)
EXTENDS Startup, NativeStats, Stats, SequenceTheorems, TLAPS

\* A leaf names Zenon where it needs no arithmetic.
USE SMTT(30), ZenonT(30)

-----------------------------------------------------------------------------
(* The native statistics count exactly, for every number of counters and   *)
(* every width of register and counter.                                    *)

\* uint64_t arithmetic: what was added to a counter comes back as the
\* difference, wrapped or not.
LEMMA DifferenceOfSum ==
  ASSUME NEW x \in 0..Wrap - 1, NEW y \in 0..RegMax
  PROVE  /\ PlusU(x, y) \in 0..Wrap - 1
         /\ MinusU(PlusU(x, y), x) = y
         /\ MinusU(x, x) = 0
  BY NativeAssumption DEF NativeAssumption, PlusU, MinusU

LEMMA DifferenceType ==
  ASSUME NEW x \in 0..Wrap - 1, NEW y \in 0..Wrap - 1
  PROVE  MinusU(x, y) \in Nat
  BY NativeAssumption DEF NativeAssumption, MinusU

\* The exact count is inductive only with the fact that a difference covers a
\* single reading.
CountInv == NativeTypeOK /\ SettledCounters /\ NothingMiscounted

LEMMA InitCountInv == NativeInit => CountInv
<1> SUFFICES ASSUME NativeInit PROVE CountInv
  BY ZenonT(30)
<1>1. NativeTypeOK
  BY NativeAssumption DEF NativeAssumption, NativeInit, NativeTypeOK, Counters
<1>2. SettledCounters
  BY ZenonT(30) DEF NativeInit, SettledCounters
<1>3. NothingMiscounted
  BY DEF NativeInit, NothingMiscounted, MinusU
<1> QED  BY <1>1, <1>2, <1>3, ZenonT(30) DEF CountInv

\* The counters that a report has nothing to say of.
Settled(c) ==
  \/ statsPc = "sleep"
  \/ statsPc = "read" /\ idx <= c
  \/ statsPc = "print" /\ c < idx

LEMMA NextCountInv == CountInv /\ [NativeNext]_nativeVars => CountInv'
<1> SUFFICES ASSUME CountInv, [NativeNext]_nativeVars PROVE CountInv'
  BY ZenonT(30)
<1> USE NativeAssumption DEF NativeAssumption
<1> NativeTypeOK
  BY ZenonT(30) DEF CountInv
<1>0. /\ \A c \in Counters : c \in Int /\ 1 <= c /\ c <= NbCounters
      /\ idx \in Int /\ 1 <= idx
  BY DEF CountInv, NativeTypeOK, Counters
<1>1. ASSUME NEW c \in Counters, CardCounts(c) PROVE CountInv'
  <2>1. NativeTypeOK'
    BY <1>1 DEF CountInv, NativeTypeOK, CardCounts
  <2>2. SettledCounters'
    BY <1>1, ZenonT(30) DEF CountInv, SettledCounters, CardCounts
  <2>3. ASSUME NEW d \in Counters
        PROVE  events'[d] = reported'[d] + MinusU(stats'[d], pre'[d]) + reg'[d]
    <3>1. MinusU(stats[d], pre[d]) \in Nat
      BY DifferenceType, ZenonT(30) DEF CountInv, NativeTypeOK
    <3>2. events'[d] - reg'[d] = events[d] - reg[d]
      BY <1>1 DEF CountInv, NativeTypeOK, CardCounts
    <3>3. /\ events'[d] \in Nat /\ reg'[d] \in Nat /\ events[d] \in Nat
          /\ reg[d] \in Nat /\ reported[d] \in Nat
          /\ events[d] = reported[d] + MinusU(stats[d], pre[d]) + reg[d]
      BY <2>1 DEF CountInv, NativeTypeOK, NothingMiscounted
    <3>4. stats'[d] = stats[d] /\ pre'[d] = pre[d] /\ reported'[d] = reported[d]
      BY <1>1, ZenonT(30) DEF CardCounts
    <3> QED  BY <3>1, <3>2, <3>3, <3>4
  <2> QED  BY <2>1, <2>2, <2>3, ZenonT(30) DEF CountInv, NothingMiscounted
<1>2. CASE Wake \/ ReadAll \/ Sleep
  <2>1. NativeTypeOK'
    BY <1>2 DEF CountInv, NativeTypeOK, Wake, ReadAll, Sleep
  <2>2. SettledCounters'
    <3> SUFFICES ASSUME NEW d \in Counters, Settled(d)' PROVE stats'[d] = pre'[d]
      BY ZenonT(30) DEF SettledCounters, Settled
    <3>1. Settled(d)
      BY <1>0, <1>2 DEF Settled, Wake, ReadAll, Sleep
    <3>2. stats[d] = pre[d]
      BY <3>1, ZenonT(30) DEF CountInv, SettledCounters, Settled
    <3> QED  BY <1>2, <3>2, ZenonT(30) DEF Wake, ReadAll, Sleep
  <2>3. NothingMiscounted'
    BY <1>2, ZenonT(30) DEF CountInv, NothingMiscounted, MinusU, Wake, ReadAll, Sleep
  <2> QED  BY <2>1, <2>2, <2>3, ZenonT(30) DEF CountInv
<1>3. CASE ReadRegister
  <2>0. idx \in Counters /\ stats[idx] \in 0..Wrap - 1 /\ reg[idx] \in 0..RegMax
    BY <1>3 DEF CountInv, NativeTypeOK, ReadRegister, Counters
  <2>1. NativeTypeOK'
    <3>1. PlusU(stats[idx], reg[idx]) \in 0..Wrap - 1
      BY <2>0, DifferenceOfSum, ZenonT(30)
    <3>2. stats' \in [Counters -> 0..Wrap - 1] /\ reg' \in [Counters -> 0..RegMax]
      <4>1. stats' \in [Counters -> 0..Wrap - 1]
        BY ONLY <1>3, <3>1, NativeTypeOK, ZenonT(30) DEF NativeTypeOK, ReadRegister
      <4>2. 0 \in 0..RegMax
        OBVIOUS
      <4>3. reg' \in [Counters -> 0..RegMax]
        BY ONLY <1>3, <4>2, NativeTypeOK, ZenonT(30) DEF NativeTypeOK, ReadRegister
      <4> QED  BY <4>1, <4>3, ZenonT(30)
    <3>3. idx' \in 1..NbCounters + 1
      BY <1>0, <1>3 DEF ReadRegister
    <3> QED  BY <1>3, <3>2, <3>3, ZenonT(30) DEF CountInv, NativeTypeOK, ReadRegister
  <2>2. SettledCounters'
    <3> SUFFICES ASSUME NEW d \in Counters, Settled(d)' PROVE stats'[d] = pre'[d]
      BY ZenonT(30) DEF SettledCounters, Settled
    <3>1. d # idx /\ Settled(d)
      BY <1>0, <1>3 DEF Settled, ReadRegister
    <3>2. stats[d] = pre[d]
      BY <3>1, ZenonT(30) DEF CountInv, SettledCounters, Settled
    <3> QED  BY <1>3, <3>1, <3>2, ZenonT(30) DEF ReadRegister, CountInv, NativeTypeOK
  <2>3. ASSUME NEW d \in Counters
        PROVE  events'[d] = reported'[d] + MinusU(stats'[d], pre'[d]) + reg'[d]
    <3>1. CASE d = idx
      <4>1. stats[d] = pre[d]
        BY <1>3, <3>1 DEF CountInv, NativeTypeOK, SettledCounters, ReadRegister, Counters
      <4>2. MinusU(stats'[d], pre'[d]) = reg[d] /\ reg'[d] = 0
        BY <1>3, <2>0, <3>1, <4>1, DifferenceOfSum DEF CountInv, NativeTypeOK, ReadRegister
      <4>3. MinusU(stats[d], pre[d]) = 0
        BY <2>0, <3>1, <4>1, DifferenceOfSum, ZenonT(30)
      <4>4. events'[d] = events[d] /\ reported'[d] = reported[d]
        BY <1>3, ZenonT(30) DEF ReadRegister
      <4>5. /\ events[d] = reported[d] + MinusU(stats[d], pre[d]) + reg[d]
            /\ reported[d] \in Nat /\ reg[d] \in Nat
        BY DEF CountInv, NativeTypeOK, NothingMiscounted
      <4> QED  BY <4>2, <4>3, <4>4, <4>5
    <3>2. CASE d # idx
      BY <1>3, <3>2, ZenonT(30) DEF CountInv, NativeTypeOK, NothingMiscounted, ReadRegister
    <3> QED  BY <3>1, <3>2, ZenonT(30)
  <2> QED  BY <2>1, <2>2, <2>3, ZenonT(30) DEF CountInv, NothingMiscounted
<1>4. CASE PrintDiff
  <2>0. /\ idx \in Counters /\ stats[idx] \in 0..Wrap - 1
        /\ MinusU(stats[idx], pre[idx]) \in Nat
    BY <1>4, DifferenceType DEF CountInv, NativeTypeOK, PrintDiff, Counters
  <2>1. NativeTypeOK'
    <3>1. reported' \in [Counters -> Nat] /\ pre' \in [Counters -> 0..Wrap - 1]
      BY <1>4, <2>0 DEF CountInv, NativeTypeOK, PrintDiff
    <3>2. idx' \in 1..NbCounters + 1
      BY <1>0, <1>4 DEF PrintDiff
    <3> QED  BY <1>4, <3>1, <3>2, ZenonT(30) DEF CountInv, NativeTypeOK, PrintDiff
  <2>2. SettledCounters'
    <3> SUFFICES ASSUME NEW d \in Counters, Settled(d)' PROVE stats'[d] = pre'[d]
      BY ZenonT(30) DEF SettledCounters, Settled
    <3>1. d = idx \/ Settled(d)
      BY <1>0, <1>4 DEF Settled, PrintDiff
    <3>2. CASE d = idx
      BY <1>4, <3>2, ZenonT(30) DEF PrintDiff, CountInv, NativeTypeOK
    <3>3. CASE d # idx /\ Settled(d)
      <4>1. stats[d] = pre[d]
        BY <3>3, ZenonT(30) DEF CountInv, SettledCounters, Settled
      <4> QED  BY <1>4, <3>3, <4>1, ZenonT(30) DEF PrintDiff, CountInv, NativeTypeOK
    <3> QED  BY <3>1, <3>2, <3>3, ZenonT(30)
  <2>3. ASSUME NEW d \in Counters
        PROVE  events'[d] = reported'[d] + MinusU(stats'[d], pre'[d]) + reg'[d]
    <3>1. CASE d = idx
      <4>1. stats'[d] = stats[d] /\ pre'[d] = stats[d]
        BY <1>4, <3>1, ZenonT(30) DEF CountInv, NativeTypeOK, PrintDiff
      <4>2. MinusU(stats'[d], pre'[d]) = 0
        BY <2>0, <3>1, <4>1, DifferenceOfSum
      <4>3. /\ reported'[d] = reported[d] + MinusU(stats[d], pre[d])
            /\ events'[d] = events[d] /\ reg'[d] = reg[d]
        BY <1>4, <3>1, ZenonT(30) DEF CountInv, NativeTypeOK, PrintDiff
      <4>4. /\ events[d] = reported[d] + MinusU(stats[d], pre[d]) + reg[d]
            /\ reported[d] \in Nat /\ reg[d] \in Nat
        BY DEF CountInv, NativeTypeOK, NothingMiscounted
      <4> QED  BY <2>0, <3>1, <4>2, <4>3, <4>4
    <3>2. CASE d # idx
      BY <1>4, <3>2, ZenonT(30) DEF CountInv, NativeTypeOK, NothingMiscounted, PrintDiff
    <3> QED  BY <3>1, <3>2, ZenonT(30)
  <2> QED  BY <2>1, <2>2, <2>3, ZenonT(30) DEF CountInv, NothingMiscounted
<1>5. CASE UNCHANGED nativeVars
  BY <1>5, ZenonT(30) DEF CountInv, NativeTypeOK, SettledCounters, NothingMiscounted, MinusU, nativeVars
<1> QED  BY <1>1, <1>2, <1>3, <1>4, <1>5, ZenonT(30) DEF NativeNext, Thread

\* do_stats reports every event exactly once: in one printed difference, or in
\* a register or a difference that is still to be printed.
THEOREM CountsExact == NativeSpec => [](NativeTypeOK /\ NothingMiscounted)
<1>1. NativeSpec => []CountInv
  BY InitCountInv, NextCountInv, PTL DEF NativeSpec
<1>2. CountInv => NativeTypeOK /\ NothingMiscounted
  BY ZenonT(30) DEF CountInv
<1> QED  BY <1>1, <1>2, PTL

-----------------------------------------------------------------------------
(* The Java statistics, for any number of pollers and any length of run.   *)

\* Outside a round nothing is collected, and the collector resets the counter
\* of a receiver.
CollectInv ==
  /\ receivers \in Seq(Workers)
  /\ packetAll \in [Workers -> Nat] /\ interval \in [Workers -> Nat]
  /\ loaded \in [Workers -> Nat] /\ got \in [Workers -> Nat]
  /\ adding \in [Workers -> BOOLEAN]
  /\ received \in Nat /\ receivedTotal \in Nat /\ cur \in Nat \ {0}
  /\ collector \in {"idle", "get", "reset"}
  /\ collector = "idle" => received = 0
  /\ collector = "reset" => cur \in 1..Len(receivers)

LEMMA InitCollectInv == StatsInit => CollectInv
  BY DEF StatsInit, CollectInv, Zero

LEMMA NextCollectInv == CollectInv /\ [StatsNext]_statsVars => CollectInv'
<1> SUFFICES ASSUME CollectInv, [StatsNext]_statsVars PROVE CollectInv'
  OBVIOUS
<1> USE DEF CollectInv
<1>1. ASSUME NEW w \in Workers, AddReceivers(w) PROVE CollectInv'
  <2>1. /\ receivers' = receivers \/ receivers' = Append(receivers, w)
        /\ UNCHANGED <<pollVars, timeVars>>
    BY <1>1, ZenonT(30) DEF AddReceivers
  <2>2. /\ Append(receivers, w) \in Seq(Workers)
        /\ Len(Append(receivers, w)) = Len(receivers) + 1
    BY AppendProperties, ZenonT(30)
  <2>3. Len(receivers) \in Nat
    OBVIOUS
  <2>4. receivers' \in Seq(Workers) /\ Len(receivers') \in {Len(receivers), Len(receivers) + 1}
    BY <2>1, <2>2, ZenonT(30)
  <2>5. 1..Len(receivers) \subseteq 1..Len(receivers')
    BY ONLY <2>3, <2>4, SMTT(30)
  <2> QED  BY <2>1, <2>4, <2>5, ZenonT(30) DEF pollVars, timeVars
<1>2. CASE StartThreads
  BY <1>2 DEF StartThreads, pollVars, timeVars
<1>3. ASSUME NEW w \in Workers, NEW b \in 0..MaxBurst, GetBurstOf(w, b) PROVE CollectInv'
  BY <1>3, StatsAssumption DEF GetBurstOf, timeVars, StatsAssumption
<1>4. ASSUME NEW w \in Workers, AddInterval(w) PROVE CollectInv'
  BY <1>4 DEF AddInterval, timeVars
<1>5. ASSUME NEW w \in Workers, SendBurstOf(w) PROVE CollectInv'
  BY <1>5 DEF SendBurstOf, pollVars, timeVars
<1>6. CASE CollectTransmitters
  <2>1. received' = 0 /\ collector' = "get" /\ cur' = 1
        /\ UNCHANGED <<receivers, pollVars, receivedTotal>>
    BY <1>6, ZenonT(30) DEF CollectTransmitters
  <2> QED  BY <2>1 DEF pollVars
<1>7. CASE GetInterval
  <2>1. interval[receivers[cur]] \in Nat
    BY <1>7 DEF GetInterval
  <2>2. /\ received' = received + interval[receivers[cur]] /\ cur <= Len(receivers)
        /\ collector' = "reset"
    BY <1>7, ZenonT(30) DEF GetInterval
  <2>3. UNCHANGED <<receivers, pollVars, cur, receivedTotal>>
    BY <1>7, ZenonT(30) DEF GetInterval
  <2>4. received' \in Nat /\ cur \in 1..Len(receivers)
    BY <2>1, <2>2
  <2> QED  BY <2>2, <2>3, <2>4, ZenonT(30) DEF pollVars
<1>8. CASE ResetInterval
  <2>1. receivers[cur] \in Workers
    BY <1>8 DEF ResetInterval
  <2>2. interval' \in [Workers -> Nat] /\ cur' \in Nat \ {0} /\ collector' = "get"
    BY <1>8, <2>1 DEF ResetInterval
  <2>3. UNCHANGED <<receivers, packetAll, adding, loaded, got, received, receivedTotal>>
    BY <1>8, ZenonT(30) DEF ResetInterval
  <2> QED  BY <2>2, <2>3
<1>9. CASE Totals
  BY <1>9 DEF Totals, pollVars
<1>10. CASE UNCHANGED statsVars
  BY <1>10 DEF statsVars, pollVars, timeVars
<1> QED  BY <1>1, <1>2, <1>3, <1>4, <1>5, <1>6, <1>7, <1>8, <1>9, <1>10, ZenonT(30) DEF StatsNext

LEMMA ReceiversWork ==
  ASSUME CollectInv
  PROVE  Range(receivers) \subseteq Workers
  BY DEF CollectInv, Range

\* What is kept of a poller whose counter is not touched.
LEMMA HandedKept ==
  ASSUME NEW v \in Workers, InWindow(v)' <=> InWindow(v),
         packetAll'[v] = packetAll[v], interval'[v] = interval[v],
         loaded'[v] = loaded[v], got'[v] = got[v], adding'[v] = adding[v]
  PROVE  Handed(v)' = Handed(v)
<1>1. Pending(v)' = Pending(v)
  BY ZenonT(30) DEF Pending
<1> QED  BY <1>1, ZenonT(30) DEF Handed

LEMMA PollKeeps ==
  ASSUME CollectInv, NEW w \in Workers, NEW b \in 0..MaxBurst, GetBurstOf(w, b)
  PROVE  Keep
<1> SUFFICES ASSUME NEW v \in Range(receivers) PROVE Handed(v)' = Handed(v)
  BY ZenonT(30) DEF Keep, Counted, GetBurstOf, timeVars
<1>1. v \in Workers /\ b \in Nat
  BY ReceiversWork, StatsAssumption DEF StatsAssumption
<1>2. InWindow(v)' <=> InWindow(v)
  BY ZenonT(30) DEF GetBurstOf, timeVars, InWindow
<1>3. CASE v # w
  <2>1. /\ packetAll'[v] = packetAll[v] /\ interval'[v] = interval[v]
        /\ loaded'[v] = loaded[v] /\ got'[v] = got[v] /\ adding'[v] = adding[v]
    BY <1>1, <1>3 DEF CollectInv, GetBurstOf
  <2> QED  BY <1>1, <1>2, <2>1, HandedKept, ZenonT(30)
<1>4. CASE v = w
  <2>1. /\ packetAll'[v] = packetAll[v] + b /\ ~adding[v] /\ adding'[v]
        /\ loaded'[v] = interval[v] /\ got'[v] = b
    BY <1>1, <1>4 DEF CollectInv, GetBurstOf
  <2>2. packetAll[v] \in Nat /\ interval[v] \in Nat
    BY <1>1 DEF CollectInv
  <2>3. Pending(v)' = Pending(v) + b /\ Pending(v) \in Nat
    BY <1>1, <1>2, <2>1, <2>2 DEF Pending
  <2> QED  BY <1>1, <2>1, <2>2, <2>3 DEF Handed
<1> QED  BY <1>3, <1>4, ZenonT(30)

LEMMA AddKeeps ==
  ASSUME CollectInv, NEW w \in Workers, AddInterval(w), ~InWindow(w)
  PROVE  Keep
<1> SUFFICES ASSUME NEW v \in Range(receivers) PROVE Handed(v)' = Handed(v)
  BY ZenonT(30) DEF Keep, Counted, AddInterval, timeVars
<1>1. v \in Workers
  BY ReceiversWork, ZenonT(30)
<1>2. InWindow(v)' <=> InWindow(v)
  BY ZenonT(30) DEF AddInterval, timeVars, InWindow
<1>3. CASE v # w
  <2>1. /\ packetAll'[v] = packetAll[v] /\ interval'[v] = interval[v]
        /\ loaded'[v] = loaded[v] /\ got'[v] = got[v] /\ adding'[v] = adding[v]
    BY <1>1, <1>3 DEF CollectInv, AddInterval
  <2> QED  BY <1>1, <1>2, <2>1, HandedKept, ZenonT(30)
<1>4. CASE v = w
  <2>1. /\ packetAll'[v] = packetAll[v] /\ adding[v] /\ ~adding'[v]
        /\ interval'[v] = loaded[v] + got[v]
    BY <1>1, <1>4 DEF CollectInv, AddInterval
  <2>2. loaded[v] \in Nat /\ got[v] \in Nat
    BY <1>1 DEF CollectInv
  <2>3. Pending(v)' = Pending(v)
    BY <1>2, <1>4, <2>1, <2>2 DEF Pending
  <2> QED  BY <2>1, <2>3, ZenonT(30) DEF Handed
<1> QED  BY <1>3, <1>4, ZenonT(30)

LEMMA GetTransfers ==
  ASSUME CollectInv, GetInterval
  PROVE  \E w \in Range(receivers) : Transfer(w) \/ Overlap(w)
<1> PICK w \in Range(receivers) : w = receivers[cur]
  <2>1. cur \in DOMAIN receivers
    BY DEF CollectInv, GetInterval
  <2> QED  BY <2>1, ZenonT(30) DEF Range
<1>1. /\ w \in Workers /\ interval[w] \in Nat /\ packetAll[w] \in Nat
      /\ received \in Nat /\ receivedTotal \in Nat
  BY ReceiversWork DEF CollectInv
<1>2. /\ collector = "get" /\ collector' = "reset" /\ received' = received + interval[w]
      /\ UNCHANGED <<receivers, pollVars, cur, receivedTotal>>
  BY ZenonT(30) DEF GetInterval
<1>3. CASE adding[w]
  BY <1>3, ZenonT(30) DEF Overlap
<1>4. CASE ~adding[w]
  <2>1. Pending(w) = interval[w] /\ Pending(w)' = 0
    BY <1>1, <1>2, <1>4 DEF Pending, InWindow, pollVars
  <2>2. Counted' - Counted = Handed(w)' - Handed(w)
    BY <1>1, <1>2, <2>1 DEF Counted, Handed, pollVars
  <2>3. ASSUME NEW v \in Range(receivers) \ {w} PROVE Handed(v)' = Handed(v)
    <3>1. v \in Workers /\ ~InWindow(v) /\ ~InWindow(v)'
      BY <1>2, ReceiversWork, ZenonT(30) DEF InWindow
    <3> QED  BY <1>2, <3>1, HandedKept, ZenonT(30) DEF pollVars
  <2> QED  BY <2>2, <2>3, ZenonT(30) DEF Transfer
<1> QED  BY <1>3, <1>4, ZenonT(30)

LEMMA ResetKeeps ==
  ASSUME CollectInv, ResetInterval
  PROVE  Keep \/ \E w \in Range(receivers) : Overlap(w)
<1> PICK w \in Range(receivers) : w = receivers[cur]
  <2>1. cur \in DOMAIN receivers
    BY DEF CollectInv, ResetInterval
  <2> QED  BY <2>1, ZenonT(30) DEF Range
<1>1. w \in Workers
  BY ReceiversWork, ZenonT(30)
<1>2. /\ collector = "reset" /\ collector' = "get"
      /\ interval' = [interval EXCEPT ![w] = 0]
      /\ UNCHANGED <<receivers, packetAll, adding, loaded, got, received, receivedTotal>>
  BY ZenonT(30) DEF ResetInterval
<1>3. CASE adding[w]
  BY <1>3, ZenonT(30) DEF Overlap
<1>4. CASE ~adding[w]
  <2>1. ASSUME NEW v \in Range(receivers) PROVE Handed(v)' = Handed(v)
    <3>1. v \in Workers /\ ~InWindow(v)'
      BY <1>2, ReceiversWork, ZenonT(30) DEF InWindow
    <3>2. CASE v = w
      <4>1. InWindow(v) /\ interval'[v] = 0 /\ ~adding[v] /\ ~adding'[v]
        BY <1>1, <1>2, <1>4, <3>2 DEF InWindow, CollectInv
      <4>2. Pending(v)' = Pending(v)
        BY <3>1, <4>1 DEF Pending
      <4> QED  BY <1>2, <4>2, ZenonT(30) DEF Handed
    <3>3. CASE v # w
      <4>1. ~InWindow(v) /\ interval'[v] = interval[v]
        BY <1>1, <1>2, <3>1, <3>3 DEF InWindow, CollectInv
      <4> QED  BY <1>2, <3>1, <4>1, HandedKept, ZenonT(30)
    <3> QED  BY <3>2, <3>3, ZenonT(30)
  <2>2. Counted' = Counted
    BY <1>2, ZenonT(30) DEF Counted
  <2> QED  BY <2>1, <2>2, ZenonT(30) DEF Keep
<1> QED  BY <1>3, <1>4, ZenonT(30)

\* The steps that begin and end a round, and those of the senders.
LEMMA RoundKeeps ==
  ASSUME CollectInv, collector # "reset", collector' # "reset", Counted' = Counted,
         UNCHANGED <<receivers, pollVars>>
  PROVE  Keep
<1>1. ASSUME NEW v \in Range(receivers) PROVE Handed(v)' = Handed(v)
  <2>1. v \in Workers /\ ~InWindow(v) /\ ~InWindow(v)'
    BY ReceiversWork, ZenonT(30) DEF InWindow
  <2> QED  BY <2>1, HandedKept, ZenonT(30) DEF pollVars
<1> QED  BY <1>1, ZenonT(30) DEF Keep

\* The timer thread and the pollers count every packet once, except in a step
\* of one of them between the two accesses of the other.
THEOREM DriftNeedsOverlap == StatsSpec => DriftOnlyOnOverlap
<1> DEFINE Counts == Keep \/ \E w \in Range(receivers) : Transfer(w) \/ Overlap(w)
<1>1. ASSUME CollectInv, started, [StatsNext]_statsVars PROVE [Counts]_statsVars
  <2>1. ASSUME NEW w \in Workers, NEW b \in 0..MaxBurst, GetBurstOf(w, b) PROVE Counts
    BY <1>1, <2>1, PollKeeps, ZenonT(30)
  <2>2. ASSUME NEW w \in Workers, AddInterval(w) PROVE Counts
    <3>1. CASE ~InWindow(w)
      BY <1>1, <2>2, <3>1, AddKeeps, ZenonT(30)
    <3>2. CASE InWindow(w)
      <4>1. w \in Range(receivers)
        <5>1. cur \in DOMAIN receivers /\ w = receivers[cur]
          BY <1>1, <3>2 DEF InWindow, CollectInv
        <5> QED  BY <5>1, ZenonT(30) DEF Range
      <4> QED  BY <2>2, <3>2, <4>1, ZenonT(30) DEF Overlap
    <3> QED  BY <3>1, <3>2, ZenonT(30)
  <2>3. ASSUME NEW w \in Workers, SendBurstOf(w) PROVE Counts
    <3>1. UNCHANGED <<receivers, pollVars, timeVars>>
      BY <2>3, ZenonT(30) DEF SendBurstOf
    <3>2. ASSUME NEW v \in Range(receivers) PROVE Handed(v)' = Handed(v)
      <4>1. v \in Workers /\ (InWindow(v)' <=> InWindow(v))
        BY <1>1, <3>1, ReceiversWork, ZenonT(30) DEF InWindow, timeVars
      <4> QED  BY <3>1, <4>1, HandedKept, ZenonT(30) DEF pollVars
    <3>3. Counted' = Counted
      BY <3>1, ZenonT(30) DEF Counted, timeVars
    <3> QED  BY <3>2, <3>3, ZenonT(30) DEF Keep
  <2>4. CASE CollectTransmitters
    <3>1. /\ collector = "idle" /\ collector' = "get" /\ received' = 0
          /\ UNCHANGED <<receivers, pollVars, receivedTotal>>
      BY <2>4, ZenonT(30) DEF CollectTransmitters
    <3>2. Counted' = Counted
      BY <1>1, <3>1, ZenonT(30) DEF CollectInv, Counted
    <3> QED  BY <1>1, <3>1, <3>2, RoundKeeps
  <2>5. CASE GetInterval
    BY <1>1, <2>5, GetTransfers, ZenonT(30)
  <2>6. CASE ResetInterval
    BY <1>1, <2>6, ResetKeeps, ZenonT(30)
  <2>7. CASE Totals
    <3>1. /\ collector = "get" /\ collector' = "idle"
          /\ received' = 0 /\ receivedTotal' = receivedTotal + received
          /\ UNCHANGED <<receivers, pollVars>>
      BY <2>7, ZenonT(30) DEF Totals
    <3>2. received \in Nat /\ receivedTotal \in Nat
      BY <1>1, ZenonT(30) DEF CollectInv
    <3>3. Counted' = Counted
      BY <3>1, <3>2 DEF Counted
    <3> QED  BY <1>1, <3>1, <3>3, RoundKeeps
  <2> QED  BY <1>1, <2>1, <2>2, <2>3, <2>4, <2>5, <2>6, <2>7, ZenonT(30)
           DEF StatsNext, AddReceivers, StartThreads
<1>2. CollectInv /\ [StatsNext]_statsVars => [started => Counts]_statsVars
  BY <1>1, ZenonT(30)
<1> QED  BY <1>2, InitCollectInv, NextCollectInv, PTL DEF StatsSpec, DriftOnlyOnOverlap

-----------------------------------------------------------------------------
(* The command line.                                                       *)

\* Listed ports whose "-b" is among the arguments passed.
Passed == IF revised THEN Len(config) - 1 ELSE Len(config)

Built == IF revised THEN NatInitEalR ELSE NatInitEal

\* How far getopt is, and what it has taken.
Parsed ==
  \/ pos \in {2, 4, 6, 8} /\ excluded = {}
  \/ revised /\ pos = 9 /\ excluded = {}
  \/ \E i \in 0..Passed : pos = 10 + 2 * i /\ excluded = {config[j] : j \in 1..i}

BeforeArgs == {"config", "send", "threads", "args"}

ArgsInv ==
  /\ EalTypeOK
  /\ pc \notin {"config", "send"} => blacklist = config
  /\ pc \in BeforeArgs => argv = <<>> /\ pos = 1 /\ excluded = {}
  /\ pc \notin BeforeArgs => argv = Built /\ Parsed

\* The fixed words.
Fixed ==
  <<"program", "-c", "value", "-n", "value", "--file-prefix", "value", "-m", "value">>
FixedR ==
  <<"program", "-c", "value", "-n", "value", "--file-prefix", "value", "leftover",
    "leftover">>

LEMMA ConfigType ==
  ASSUME config \in Configs
  PROVE  /\ config \in Seq(PciPorts) /\ Len(config) \in Nat \ {0}
         /\ \A i \in 1..Len(config) : config[i] \in PciPorts
<1>1. PICK n \in 1..MaxListed : config \in [1..n -> PciPorts]
  BY ZenonT(30) DEF Configs
<1>2. n \in Nat /\ 1 <= n
  BY <1>1, EalAssumption DEF EalAssumption
<1> QED BY <1>1, <1>2

LEMMA BlacklistWords ==
  ASSUME config \in Configs, blacklist = config
  PROVE  /\ BlacklistArgs \in Seq(Words) /\ Len(BlacklistArgs) = 2 * Len(config)
         /\ \A i \in 1..Len(config) : /\ BlacklistArgs[2 * i - 1] = "-b"
                                      /\ BlacklistArgs[2 * i] = config[i]
<1> DEFINE n == Len(config)
<1>1. n \in Nat /\ 2 * n \in Nat /\ \A i \in 1..n : config[i] \in PciPorts
  BY ConfigType
<1>2. ASSUME NEW j \in 1..2 * n
      PROVE  (IF j % 2 = 1 THEN "-b" ELSE config[j \div 2]) \in Words
  <2>1. CASE j % 2 = 1
    BY <2>1, ZenonT(30) DEF Words, Options
  <2>2. CASE j % 2 # 1
    <3>1. j \div 2 \in 1..n
      BY <1>1, <2>2
    <3> QED BY <1>1, <2>2, <3>1, ZenonT(30) DEF Words
  <2> QED BY <2>1, <2>2, ZenonT(30)
<1>3. BlacklistArgs \in [1..2 * n -> Words]
  BY <1>2, ZenonT(30) DEF BlacklistArgs
<1>4. ASSUME NEW i \in 1..n
      PROVE  BlacklistArgs[2 * i - 1] = "-b" /\ BlacklistArgs[2 * i] = config[i]
  <2>1. /\ 2 * i - 1 \in 1..2 * n /\ 2 * i \in 1..2 * n
        /\ (2 * i - 1) % 2 = 1 /\ (2 * i) % 2 = 0 /\ (2 * i) \div 2 = i
    BY <1>1
  <2> QED BY <2>1 DEF BlacklistArgs
<1> QED BY <1>1, <1>3, <1>4

\* Nine fixed words f, followed by "-b" and every listed port.
LaidOut(g, f) ==
  /\ g \in Seq(Words) /\ Len(g) = 9 + 2 * Len(config)
  /\ \A i \in 1..9 : g[i] = f[i]
  /\ \A i \in 1..Len(config) : g[8 + 2 * i] = "-b" /\ g[9 + 2 * i] = config[i]

LEMMA ArgsLaidOut ==
  ASSUME config \in Configs, blacklist = config, NEW f \in Seq(Words), Len(f) = 9
  PROVE  LaidOut(f \o BlacklistArgs, f)
<1> DEFINE n == Len(config)
           B == BlacklistArgs
           g == f \o BlacklistArgs
<1>1. n \in Nat
  BY ConfigType, ZenonT(30)
<1>2. /\ B \in Seq(Words) /\ Len(B) = 2 * n
      /\ \A i \in 1..n : B[2 * i - 1] = "-b" /\ B[2 * i] = config[i]
  BY BlacklistWords, ZenonT(30)
<1>3. /\ g \in Seq(Words) /\ Len(g) = Len(f) + Len(B)
      /\ \A i \in 1..Len(f) + Len(B) : g[i] = IF i <= Len(f) THEN f[i] ELSE B[i - Len(f)]
  BY <1>2, ConcatProperties, ZenonT(30)
<1> HIDE DEF n, B, g
<1>4. \A i \in 1..9 + 2 * n : g[i] = IF i <= 9 THEN f[i] ELSE B[i - 9]
  BY ONLY <1>1, <1>2, Len(f) = 9, <1>3, ZenonT(30)
<1>5. ASSUME NEW i \in 1..n PROVE g[8 + 2 * i] = "-b" /\ g[9 + 2 * i] = config[i]
  <2>1. /\ 8 + 2 * i \in 1..9 + 2 * n /\ 9 + 2 * i \in 1..9 + 2 * n
        /\ 8 + 2 * i > 9 /\ 9 + 2 * i > 9
        /\ 8 + 2 * i - 9 = 2 * i - 1 /\ 9 + 2 * i - 9 = 2 * i
    BY <1>1
  <2> QED BY ONLY <1>2, <1>4, <2>1, i \in 1..n, SMTT(30)
<1>6. \A i \in 1..9 : g[i] = f[i]
  BY ONLY <1>1, <1>4, SMTT(30)
<1>7. Len(g) = 9 + 2 * n
  BY ONLY <1>1, <1>2, Len(f) = 9, <1>3, ZenonT(30)
<1> QED BY <1>3, <1>5, <1>6, <1>7, ZenonT(30) DEF LaidOut, n, g

\* What the two command lines have where getopt looks.
Laid ==
  /\ Built \in Seq(Words) /\ Len(Built) = 9 + 2 * Passed /\ Passed \in Nat
  /\ \A i \in {2, 4, 6} : Built[i] \in Options \ {"-b"}
  /\ ~revised => Built[8] \in Options \ {"-b"}
  /\ revised => Built[8] \notin Options /\ Built[9] \notin Options
  /\ \A i \in 1..Passed : Built[8 + 2 * i] = "-b" /\ Built[9 + 2 * i] = config[i]

LEMMA BuiltWords ==
  ASSUME config \in Configs, blacklist = config, revised \in BOOLEAN
  PROVE  Laid
<1> DEFINE n == Len(config)
<1>1. n \in Nat \ {0}
  BY ConfigType, ZenonT(30)
<1>2. CASE ~revised
  <2>1. Fixed \in Seq(Words) /\ Len(Fixed) = 9
    BY DEF Fixed, Words, Options
  <2>2. Built = Fixed \o BlacklistArgs /\ Passed = n
    BY <1>2, ZenonT(30) DEF Built, NatInitEal, Fixed, Passed
  <2>3. LaidOut(Built, Fixed)
    BY <2>1, <2>2, ArgsLaidOut, ZenonT(30)
  <2> HIDE DEF n
  <2>4. \A i \in {2, 4, 6, 8} : i \in 1..9 /\ Fixed[i] \in Options \ {"-b"}
    BY DEF Fixed, Options
  <2>5. \A i \in {2, 4, 6, 8} : Built[i] \in Options \ {"-b"}
    BY <2>3, <2>4, ZenonT(30) DEF LaidOut
  <2> QED BY <1>1, <1>2, <2>2, <2>3, <2>5, ZenonT(30) DEF LaidOut, Laid, n
<1>3. CASE revised
  <2> DEFINE A == FixedR \o BlacklistArgs
  <2>1. FixedR \in Seq(Words) /\ Len(FixedR) = 9
    BY DEF FixedR, Words, Options
  <2>2. Built = SubSeq(A, 1, Len(A) - 2) /\ Passed = n - 1
    BY <1>3, ZenonT(30) DEF Built, NatInitEalR, FixedR, Passed
  <2>3. LaidOut(A, FixedR)
    BY <2>1, ArgsLaidOut, ZenonT(30)
  <2> HIDE DEF A, n
  <2>4. /\ A \in Seq(Words) /\ Len(A) = 9 + 2 * n
        /\ \A i \in 1..9 : A[i] = FixedR[i]
        /\ \A i \in 1..n : A[8 + 2 * i] = "-b" /\ A[9 + 2 * i] = config[i]
    BY <2>3, ZenonT(30) DEF LaidOut, n
  <2>5. /\ Built \in Seq(Words) /\ Len(Built) = 7 + 2 * n
        /\ \A i \in 1..7 + 2 * n : Built[i] = A[i]
    BY ONLY <1>1, <2>2, <2>4, SMTT(30)
  <2>6. \A i \in 1..9 : Built[i] = FixedR[i]
    BY ONLY <1>1, <2>4, <2>5, SMTT(30)
  <2>7. /\ \A i \in {2, 4, 6} : FixedR[i] \in Options \ {"-b"}
        /\ FixedR[8] \notin Options /\ FixedR[9] \notin Options
    BY DEF FixedR, Options
  <2>8. /\ \A i \in {2, 4, 6} : Built[i] \in Options \ {"-b"}
        /\ Built[8] \notin Options /\ Built[9] \notin Options
    BY ONLY <2>6, <2>7, SMTT(30)
  <2>9. ASSUME NEW i \in 1..Passed
        PROVE  Built[8 + 2 * i] = "-b" /\ Built[9 + 2 * i] = config[i]
    <3>1. i \in 1..n /\ 8 + 2 * i \in 1..7 + 2 * n /\ 9 + 2 * i \in 1..7 + 2 * n
      BY ONLY <1>1, <2>2, i \in 1..Passed, SMTT(30)
    <3> QED BY ONLY <2>4, <2>5, <3>1, ZenonT(30)
  <2>10. Len(Built) = 9 + 2 * Passed /\ Passed \in Nat
    BY ONLY <1>1, <2>2, <2>5, SMTT(30)
  <2> QED BY <1>3, <2>5, <2>8, <2>9, <2>10, ZenonT(30) DEF Laid
<1> QED BY <1>2, <1>3, ZenonT(30)

-----------------------------------------------------------------------------
(* Steps.                                                                  *)

\* The order in which main makes its calls.
LEMMA CallOrder ==
  ASSUME Call
  PROVE  \/ pc = "config" /\ pc' = "send"
         \/ pc = "threads" /\ pc' \in {"threads", "args"}
         \/ pc = "eal" /\ pc' = "mempool"
         \/ pc = "mempool" /\ pc' = "ports"
         \/ pc = "ports" /\ pc' = "configure"
         \/ pc = "configure" /\ pc' = "rx"
         \/ pc = "rx" /\ pc' = "tx"
         \/ pc = "tx" /\ pc' \in {"rx", "start"}
         \/ pc = "start" /\ pc' = "link"
         \/ pc = "stats" /\ pc' = "startAll"
         \/ pc = "startAll" /\ pc' \in {"run", "done"}
         \/ pc = "run" /\ pc' \in {"run", "done"}
<1>1. CASE ReadConfig
  BY <1>1, ZenonT(30) DEF ReadConfig, At, Go
<1>2. CASE CreateAffinityThreads
  BY <1>2, ZenonT(30) DEF CreateAffinityThreads, At, Go
<1>3. CASE InitEal
  BY <1>3, ZenonT(30) DEF InitEal, At, Go
<1>4. CASE CreateMempool
  BY <1>4, ZenonT(30) DEF CreateMempool, At, Go
<1>5. CASE CheckPorts
  BY <1>5, ZenonT(30) DEF CheckPorts, At, Go
<1>6. CASE ConfigureDev
  BY <1>6, ZenonT(30) DEF ConfigureDev, At, Go
<1>7. CASE ConfigureRxQueue
  BY <1>7, ZenonT(30) DEF ConfigureRxQueue, At, Go
<1>8. CASE ConfigureTxQueue
  BY <1>8, ZenonT(30) DEF ConfigureTxQueue, At, Go
<1>9. CASE DevStart
  BY <1>9, ZenonT(30) DEF DevStart, At, Go
<1>10. CASE StartNativeStats
  BY <1>10, ZenonT(30) DEF StartNativeStats, At, Go
<1>11. CASE StartAll
  BY <1>11, ZenonT(30) DEF StartAll, At, Go
<1>12. CASE StartThread
  BY <1>12, ZenonT(30) DEF StartThread, At, Go
<1> QED
  BY <1>1, <1>2, <1>3, <1>4, <1>5, <1>6, <1>7, <1>8, <1>9, <1>10, <1>11, <1>12, ZenonT(30)
     DEF Call

LEMMA InitArgsInv == Init => ArgsInv
<1> SUFFICES ASSUME Init PROVE ArgsInv
  BY ZenonT(30)
<1>1. EalTypeOK
  BY DEF Init, EalInit, EalTypeOK
<1> QED BY <1>1, ZenonT(30) DEF Init, EalInit, ArgsInv, BeforeArgs

LEMMA StillArgsInv ==
  ASSUME ArgsInv, UNCHANGED ealVars,
         pc' \in {"config", "send"} <=> pc \in {"config", "send"},
         pc' \in BeforeArgs <=> pc \in BeforeArgs
  PROVE  ArgsInv'
<1>1. EalTypeOK'
  BY ZenonT(30) DEF ArgsInv, EalTypeOK, ealVars
<1>2. Built' = Built
  BY ZenonT(30) DEF Built, NatInitEal, NatInitEalR, BlacklistArgs, ealVars
<1>3. Parsed' <=> Parsed
  BY DEF Parsed, Passed, ealVars
<1> QED BY <1>1, <1>2, <1>3, ZenonT(30) DEF ArgsInv, ealVars

\* nat_init_eal writes the arguments.
LEMMA BuildArgsInv ==
  ASSUME ArgsInv, NatInitEalArgs
  PROVE  ArgsInv'
<1>1. /\ pc = "args" /\ pc' = "eal" /\ argv' = Built /\ pos' = 2
      /\ UNCHANGED <<revised, config, blacklist, excluded>>
  BY ZenonT(30) DEF NatInitEalArgs, BuildArgs, At, Go, Built
<1>2. /\ config \in Configs /\ revised \in BOOLEAN /\ blacklist = config
      /\ excluded = {} /\ blacklist \in Configs \cup {<<>>}
  BY <1>1, ZenonT(30) DEF ArgsInv, EalTypeOK, BeforeArgs
<1>3. Built' = Built
  BY <1>1, ZenonT(30) DEF Built, NatInitEal, NatInitEalR, BlacklistArgs
<1>4. Built \in Seq(Words) /\ Len(Built) >= 9
  BY <1>2, BuiltWords DEF Laid
<1>5. EalTypeOK'
  BY <1>1, <1>2, <1>4 DEF EalTypeOK
<1> QED BY <1>1, <1>2, <1>3, <1>5, ZenonT(30) DEF ArgsInv, BeforeArgs, Parsed

\* No listed port has been reached.
LEMMA NothingTaken ==
  ASSUME Passed \in Nat, Passed' = Passed, pos' = 10, excluded' = {}
  PROVE  Parsed'
<1>1. excluded' = {config'[j] : j \in 1..0} /\ pos' = 10 + 2 * 0 /\ 0 \in 0..Passed'
  OBVIOUS
<1> QED BY <1>1, ZenonT(30) DEF Parsed

\* The EAL reads one option, or passes over a word.
LEMMA ParseArgsInv ==
  ASSUME ArgsInv, ParseArgs
  PROVE  ArgsInv'
<1>1. /\ pc = "eal" /\ pc' = "eal" /\ argv' = argv
      /\ UNCHANGED <<revised, config, blacklist>>
  BY ZenonT(30) DEF ParseArgs, ParseOption, ParseOther, At
<1>2. /\ config \in Configs /\ revised \in BOOLEAN /\ blacklist = config
      /\ argv = Built /\ Parsed /\ EalTypeOK
  BY <1>1, ZenonT(30) DEF ArgsInv, EalTypeOK, BeforeArgs
<1>3. Built' = Built /\ Passed' = Passed
  BY <1>1, ZenonT(30) DEF Built, NatInitEal, NatInitEalR, BlacklistArgs, Passed
<1>4. Laid
  BY <1>2, BuiltWords, ZenonT(30)
<1>5. \/ /\ pos < Len(Built) /\ Built[pos] \in Options /\ pos' = pos + 2
         /\ excluded' = IF Built[pos] = "-b" THEN excluded \cup {Built[pos + 1]}
                                             ELSE excluded
      \/ /\ pos <= Len(Built) /\ Built[pos] \notin Options /\ pos' = pos + 1
         /\ excluded' = excluded
  BY <1>2, ZenonT(30) DEF ParseArgs, ParseOption, ParseOther
<1>6. Passed \in Nat /\ Len(Built) = 9 + 2 * Passed
  BY <1>4, ZenonT(30) DEF Laid
<1>7. Parsed'
  <2>1. CASE pos \in {2, 4, 6} /\ excluded = {}
    <3>1. Built[pos] \in Options \ {"-b"}
      BY <1>4, <2>1, ZenonT(30) DEF Laid
    <3>2. pos' = pos + 2 /\ excluded' = {}
      BY <1>5, <2>1, <3>1, ZenonT(30)
    <3> QED BY <2>1, <3>2 DEF Parsed
  <2>2. CASE pos = 8 /\ excluded = {} /\ revised
    <3>1. pos' = 9 /\ excluded' = {}
      BY <1>4, <1>5, <2>2 DEF Laid
    <3> QED BY <1>1, <2>2, <3>1, ZenonT(30) DEF Parsed
  <2>3. CASE pos = 8 /\ excluded = {} /\ ~revised
    <3>1. pos' = 10 /\ excluded' = {}
      BY <1>4, <1>5, <2>3 DEF Laid
    <3> QED BY <1>3, <1>6, <3>1, NothingTaken, ZenonT(30)
  <2>4. CASE revised /\ pos = 9 /\ excluded = {}
    <3>1. pos' = 10 /\ excluded' = {}
      BY <1>4, <1>5, <2>4 DEF Laid
    <3> QED BY <1>3, <1>6, <3>1, NothingTaken, ZenonT(30)
  <2>5. ASSUME NEW i \in 0..Passed, pos = 10 + 2 * i,
               excluded = {config[j] : j \in 1..i}
        PROVE  Parsed'
    <3>1. i + 1 \in 1..Passed /\ pos = 8 + 2 * (i + 1) /\ pos + 1 = 9 + 2 * (i + 1)
      BY <1>5, <1>6, <2>5
    <3>2. Built[pos] = "-b" /\ Built[pos + 1] = config[i + 1]
      BY <1>4, <3>1, ZenonT(30) DEF Laid
    <3>3. pos' = pos + 2 /\ excluded' = excluded \cup {config[i + 1]}
      BY <1>5, <3>2, ZenonT(30) DEF Options
    <3>4. excluded' = {config'[j] : j \in 1..i + 1}
      BY <1>1, <2>5, <3>3
    <3>5. pos' = 10 + 2 * (i + 1) /\ i + 1 \in 0..Passed'
      BY <1>3, <1>6, <2>5, <3>1, <3>3
    <3> QED BY <3>4, <3>5, ZenonT(30) DEF Parsed
  <2> QED BY <1>2, <2>1, <2>2, <2>3, <2>4, <2>5, ZenonT(30) DEF Parsed
<1>8. pos' \in 1..Len(argv') + 1 /\ excluded' \subseteq PciPorts
  <2>1. \A j \in 1..Passed : config[j] \in PciPorts
    BY <1>2, ConfigType DEF Passed
  <2>2. Len(argv') = 9 + 2 * Passed
    BY <1>1, <1>2, <1>6, ZenonT(30)
  <2>3. CASE pos' \in {2, 4, 6, 8, 9} /\ excluded' = {}
    BY <1>6, <2>2, <2>3
  <2>4. ASSUME NEW i \in 0..Passed, pos' = 10 + 2 * i,
               excluded' = {config[j] : j \in 1..i}
        PROVE  pos' \in 1..Len(argv') + 1 /\ excluded' \subseteq PciPorts
    <3>1. pos' \in 1..Len(argv') + 1 /\ 1..i \subseteq 1..Passed
      BY <1>6, <2>2, <2>4
    <3> QED BY <2>1, <2>4, <3>1, ZenonT(30)
  <2>5. \/ pos' \in {2, 4, 6, 8, 9} /\ excluded' = {}
        \/ \E i \in 0..Passed : pos' = 10 + 2 * i /\ excluded' = {config[j] : j \in 1..i}
    BY <1>1, <1>3, <1>7 DEF Parsed
  <2> QED BY <2>3, <2>4, <2>5, ZenonT(30)
<1>9. EalTypeOK'
  BY <1>1, <1>2, <1>8, ZenonT(30) DEF EalTypeOK
<1> QED BY <1>1, <1>2, <1>3, <1>7, <1>9, ZenonT(30) DEF ArgsInv, BeforeArgs

LEMMA NextArgsInv == ArgsInv /\ [Next]_vars => ArgsInv'
<1> SUFFICES ASSUME ArgsInv, [Next]_vars PROVE ArgsInv'
  BY ZenonT(30)
<1>1. CASE SendDPDKInformation
  <2>1. /\ pc = "send" /\ pc' = "threads" /\ blacklist' = config
        /\ UNCHANGED <<revised, config, argv, pos, excluded>>
    BY <1>1, ZenonT(30) DEF SendDPDKInformation, SetBlacklist, At, Go
  <2>2. EalTypeOK'
    BY <2>1, ZenonT(30) DEF ArgsInv, EalTypeOK
  <2> QED BY <2>1, <2>2, ZenonT(30) DEF ArgsInv, BeforeArgs
<1>2. CASE NatInitEalArgs
  BY <1>2, BuildArgsInv, ZenonT(30)
<1>3. CASE ParseArgs
  BY <1>3, ParseArgsInv, ZenonT(30)
<1>4. CASE CheckLinks \/ Link \/ UNCHANGED vars
  <2>1. UNCHANGED ealVars /\ (pc' = pc \/ (pc = "link" /\ pc' = "stats"))
    <3>1. CASE CheckLinks
      BY <3>1, ZenonT(30) DEF CheckLinks, At, Go, ealVars
    <3>2. CASE Link
      BY <3>2, ZenonT(30) DEF Link, ealVars
    <3>3. CASE UNCHANGED vars
      BY <3>3, ZenonT(30) DEF vars, ealVars
    <3> QED BY <1>4, <3>1, <3>2, <3>3, ZenonT(30)
  <2> QED BY <2>1, StillArgsInv, ZenonT(30) DEF BeforeArgs
<1>5. CASE Call /\ UNCHANGED <<ealVars, linkVars>>
  <2>1. /\ pc' \in {"config", "send"} <=> pc \in {"config", "send"}
        /\ pc' \in BeforeArgs <=> pc \in BeforeArgs
    BY <1>5, CallOrder, ZenonT(30) DEF BeforeArgs
  <2> QED BY <1>5, <2>1, StillArgsInv, ZenonT(30)
<1> QED BY <1>1, <1>2, <1>3, <1>4, <1>5, ZenonT(30) DEF Next, Main, Finished

(***************************************************************************)
(* The ports that rte_eal_init excludes, for every configuration: all that *)
(* are listed in the first framework, and all but the last in the revised  *)
(* one, whose nat_init_eal passes a count two words short.                 *)
(***************************************************************************)
THEOREM PortsExcluded == Spec => []LastPortCutOff
<1>1. Spec => []ArgsInv
  BY InitArgsInv, NextArgsInv, PTL DEF Spec
<1>2. ArgsInv => LastPortCutOff
  <2> SUFFICES ASSUME ArgsInv, ArgsRead
               PROVE  excluded = Range(IF revised THEN SubSeq(config, 1, Len(config) - 1) ELSE config)
    BY ZenonT(30) DEF LastPortCutOff
  <2>1. /\ pc \notin BeforeArgs /\ argv = Built /\ Parsed
        /\ config \in Configs /\ revised \in BOOLEAN /\ blacklist = config
    BY ZenonT(30) DEF ArgsInv, ArgsRead, EalTypeOK, BeforeArgs
  <2>2. pos > 9 + 2 * Passed /\ Passed \in Nat
    BY <2>1, BuiltWords, ZenonT(30) DEF Laid, ArgsRead
  <2>3. excluded = {config[j] : j \in 1..Passed}
    BY <2>1, <2>2 DEF Parsed
  <2>4. config \in Seq(PciPorts) /\ Len(config) \in Nat \ {0}
    BY <2>1, ConfigType, ZenonT(30)
  <2>5. CASE revised
    <3> DEFINE front == SubSeq(config, 1, Len(config) - 1)
    <3>1. /\ front = SubSeq(config, 1, Passed)
          /\ \A j \in 1..Passed : config[j] \in PciPorts
      BY <2>4, <2>5 DEF Passed
    <3> HIDE DEF front
    <3>2. /\ front \in Seq(PciPorts)
          /\ Len(front) = IF 1 <= Passed THEN Passed - 1 + 1 ELSE 0
          /\ \A j \in 1..Passed - 1 + 1 : front[j] = config[1 + j - 1]
      BY <2>2, <3>1, SubSeqProperties
    <3>3. DOMAIN front = 1..Passed
      BY <2>2, <3>2
    <3>4. \A j \in 1..Passed : front[j] = config[j]
      BY <2>2, <3>2
    <3> QED BY <2>3, <2>5, <3>3, <3>4, ZenonT(30) DEF Range, front
  <2>6. CASE ~revised
    <3>1. DOMAIN config = 1..Passed
      BY <2>4, <2>6 DEF Passed
    <3> QED BY <2>3, <2>6, <3>1, ZenonT(30) DEF Range
  <2> QED BY <2>1, <2>5, <2>6, ZenonT(30)
<1> QED BY <1>1, <1>2, PTL

-----------------------------------------------------------------------------
(* The link check.                                                         *)

LinkIdle ==
  /\ stage = "pass" /\ count = 0 /\ portid = 0 /\ allPortsUp = TRUE
  /\ printFlag = FALSE /\ delays = 0 /\ output = <<>> /\ seenUp = {}

\* A checking pass knows how far it is from seenUp, a reporting pass from
\* output.  Until the flag is set every pass has waited, and there is a pass
\* left to report in.
CheckInv ==
  /\ LinkTypeOK
  /\ \A n \in 1..Len(output) : output[n][1] = n - 1
  /\ ~printFlag => /\ output = <<>> /\ delays = count
                   /\ count < MaxCheckTime /\ stage # "done"
  /\ stage = "pass" => allPortsUp
  /\ ~printFlag /\ stage = "pass" => seenUp = 0..portid - 1
  /\ ~printFlag /\ stage = "end" /\ allPortsUp => seenUp = Ports
  /\ printFlag => Len(output) = IF stage = "pass" THEN portid ELSE numPorts
  /\ printFlag /\ delays < MaxCheckTime => seenUp = Ports

BeforeLink == {"config", "send", "threads", "args", "eal", "mempool", "ports",
               "configure", "rx", "tx", "start"}

LinkInv ==
  /\ numPorts \in 0..MaxPorts
  /\ pc \in BeforeLink => LinkIdle
  /\ CheckInv

LEMMA IdleChecks ==
  ASSUME LinkIdle, numPorts \in 0..MaxPorts, link \in [0..MaxPorts - 1 -> BOOLEAN]
  PROVE  CheckInv
<1> USE LinkAssumption DEF LinkAssumption
<1>1. output \in Seq(Ports \X BOOLEAN)
  <2> HIDE DEF Ports
  <2>1. <<>> \in Seq(Ports \X BOOLEAN)
    OBVIOUS
  <2> QED BY <2>1, ZenonT(30) DEF LinkIdle
<1>2. 0 \in 0..MaxCheckTime /\ 0 \in 0..numPorts
  OBVIOUS
<1>3. LinkTypeOK
  BY <1>1, <1>2, ZenonT(30) DEF LinkIdle, LinkTypeOK
<1> QED BY <1>3 DEF LinkIdle, CheckInv

LEMMA InitLinkInv == Init => LinkInv
<1> SUFFICES ASSUME Init PROVE LinkInv
  BY ZenonT(30)
<1>1. /\ LinkIdle /\ numPorts \in 0..MaxPorts
      /\ link \in [0..MaxPorts - 1 -> BOOLEAN]
  BY LinkAssumption DEF LinkAssumption, Init, LinkInit, LinkIdle
<1> QED BY <1>1, IdleChecks, ZenonT(30) DEF LinkInv

LEMMA StillLinkInv ==
  ASSUME LinkInv, UNCHANGED linkVars, numPorts' = numPorts,
         pc' \in BeforeLink => pc \in BeforeLink
  PROVE  LinkInv'
<1>1. LinkTypeOK'
  BY ZenonT(30) DEF LinkInv, CheckInv, LinkTypeOK, linkVars, Ports
<1>2. CheckInv'
  BY <1>1, ZenonT(30) DEF LinkInv, CheckInv, linkVars, Ports
<1> QED BY <1>2, ZenonT(30) DEF LinkInv, LinkIdle, linkVars

\* rte_eal_init finds the ports.
LEMMA InitEalLinkInv ==
  ASSUME LinkInv, ArgsInv, InitEal, UNCHANGED linkVars
  PROVE  LinkInv'
<1>1. numPorts' \in 0..MaxPorts
  <2>1. CASE numPorts' \in 0..Cardinality(PciPorts \ excluded)
    <3>1. Cardinality(PciPorts \ excluded) \in 0..MaxPorts
      BY StartupAssumption, ZenonT(30) DEF StartupAssumption
    <3> QED BY <2>1, <3>1, LinkAssumption DEF LinkAssumption
  <2>2. CASE numPorts' = numPorts
    BY <2>2, ZenonT(30) DEF LinkInv
  <2> QED BY <2>1, <2>2, ZenonT(30) DEF InitEal
<1>2. LinkIdle' /\ link' \in [0..MaxPorts - 1 -> BOOLEAN]
  <2>1. pc = "eal"
    BY ZenonT(30) DEF InitEal, At
  <2> QED BY <2>1, ZenonT(30) DEF LinkInv, CheckInv, LinkTypeOK, BeforeLink, LinkIdle, linkVars
<1>3. CheckInv'
  <2>1. output' \in Seq(Ports' \X BOOLEAN)
    <3>1. <<>> \in Seq(Ports' \X BOOLEAN)
      OBVIOUS
    <3> QED BY <1>2, <3>1, ZenonT(30) DEF LinkIdle
  <2>2. 0 \in 0..MaxCheckTime /\ 0 \in 0..numPorts'
    BY <1>1, LinkAssumption DEF LinkAssumption
  <2>3. LinkTypeOK'
    BY <1>2, <2>1, <2>2, ZenonT(30) DEF LinkIdle, LinkTypeOK
  <2> QED BY <1>1, <1>2, <2>3, LinkAssumption DEF LinkAssumption, LinkIdle, CheckInv
<1> QED BY <1>1, <1>2, <1>3, ZenonT(30) DEF LinkInv

LEMMA ReportCheckInv ==
  ASSUME CheckInv, numPorts \in 0..MaxPorts, numPorts' = numPorts, Report
  PROVE  CheckInv'
<1> DEFINE entry == <<portid, link[portid]>>
<1>1. /\ stage = "pass" /\ printFlag /\ portid < numPorts /\ portid' = portid + 1
      /\ output' = Append(output, entry)
      /\ UNCHANGED <<link, stage, count, allPortsUp, printFlag, delays, seenUp>>
  BY ZenonT(30) DEF Report
<1>2. /\ LinkTypeOK /\ Len(output) = portid /\ Ports' = Ports
      /\ \A n \in 1..Len(output) : output[n][1] = n - 1
  BY <1>1, ZenonT(30) DEF CheckInv, Ports
<1>3. portid \in Nat /\ portid \in Ports /\ link[portid] \in BOOLEAN
  BY <1>1, <1>2, LinkAssumption DEF LinkAssumption, LinkTypeOK, Ports
<1>4. entry \in Ports \X BOOLEAN /\ entry[1] = portid /\ output \in Seq(Ports \X BOOLEAN)
  BY <1>2, <1>3, ZenonT(30) DEF LinkTypeOK
<1> HIDE DEF entry
<1>5. /\ output' \in Seq(Ports \X BOOLEAN) /\ Len(output') = portid'
      /\ \A n \in 1..Len(output') : output'[n][1] = n - 1
  <2>1. Len(output') = portid + 1 /\ output' \in Seq(Ports \X BOOLEAN)
    BY <1>1, <1>2, <1>4
  <2>2. ASSUME NEW n \in 1..portid PROVE output'[n][1] = n - 1
    BY <1>1, <1>2, <1>3, <1>4
  <2>3. output'[portid + 1][1] = portid
    BY <1>1, <1>2, <1>3, <1>4
  <2> QED BY <1>1, <1>3, <2>1, <2>2, <2>3
<1>6. LinkTypeOK'
  BY <1>1, <1>2, <1>3, <1>5 DEF LinkTypeOK
<1> QED BY <1>1, <1>2, <1>5, <1>6, ZenonT(30) DEF CheckInv

LEMMA CheckCheckInv ==
  ASSUME CheckInv, numPorts \in 0..MaxPorts, numPorts' = numPorts, Check
  PROVE  CheckInv'
<1>1. /\ stage = "pass" /\ ~printFlag /\ portid < numPorts
      /\ UNCHANGED <<link, count, printFlag, delays, output>>
  BY ZenonT(30) DEF Check
<1>2. /\ LinkTypeOK /\ Ports' = Ports /\ seenUp = 0..portid - 1 /\ allPortsUp
      /\ portid \in Nat /\ portid \in Ports
  BY <1>1 DEF CheckInv, Ports, LinkTypeOK
<1>3. CASE /\ portid' = portid + 1 /\ seenUp' = seenUp \cup {portid}
           /\ UNCHANGED <<stage, allPortsUp>>
  <2>1. seenUp' = 0..portid' - 1
    BY <1>2, <1>3
  <2>2. LinkTypeOK'
    BY <1>1, <1>2, <1>3 DEF LinkTypeOK
  <2> QED BY <1>1, <1>2, <1>3, <2>1, <2>2, ZenonT(30) DEF CheckInv
<1>4. CASE allPortsUp' = FALSE /\ stage' = "end" /\ UNCHANGED <<portid, seenUp>>
  <2>1. LinkTypeOK'
    BY <1>1, <1>2, <1>4, ZenonT(30) DEF LinkTypeOK
  <2> QED BY <1>1, <1>2, <1>4, <2>1, ZenonT(30) DEF CheckInv
<1> QED BY <1>3, <1>4, ZenonT(30) DEF Check

LEMMA PassEndsCheckInv ==
  ASSUME CheckInv, numPorts \in 0..MaxPorts, numPorts' = numPorts, PassEnds
  PROVE  CheckInv'
<1>1. /\ stage = "pass" /\ portid = numPorts /\ stage' = "end"
      /\ UNCHANGED <<link, count, portid, allPortsUp, printFlag, delays, output, seenUp>>
  BY ZenonT(30) DEF PassEnds
<1>2. LinkTypeOK' /\ Ports' = Ports
  BY <1>1, ZenonT(30) DEF CheckInv, LinkTypeOK, Ports
<1>3. ~printFlag => seenUp = Ports
  BY <1>1, ZenonT(30) DEF CheckInv, Ports
<1> QED BY <1>1, <1>2, <1>3, ZenonT(30) DEF CheckInv

\* The pass after which the flag is set leaves one to report in.
LEMMA NextPassCheckInv ==
  ASSUME CheckInv, numPorts \in 0..MaxPorts, numPorts' = numPorts, NextPass
  PROVE  CheckInv'
<1>1. /\ stage = "end" /\ ~printFlag /\ count' = count + 1
      /\ delays' = IF allPortsUp THEN delays ELSE delays + 1
      /\ printFlag' = (allPortsUp \/ count = MaxCheckTime - 1)
      /\ stage' = IF count = MaxCheckTime THEN "done" ELSE "pass"
      /\ portid' = 0 /\ allPortsUp' = TRUE
      /\ seenUp' = IF printFlag' THEN seenUp ELSE {}
      /\ UNCHANGED <<link, output>>
  BY ZenonT(30) DEF NextPass
<1>2. /\ LinkTypeOK /\ Ports' = Ports /\ output = <<>> /\ delays = count
      /\ count < MaxCheckTime /\ (allPortsUp => seenUp = Ports)
      /\ count \in Nat /\ MaxCheckTime \in Nat
  BY <1>1, LinkAssumption DEF LinkAssumption, CheckInv, LinkTypeOK, Ports
<1>3. /\ stage' = "pass" /\ count' \in 0..MaxCheckTime /\ delays' \in 0..MaxCheckTime
      /\ printFlag' \in BOOLEAN
      /\ ~printFlag' => delays' = count' /\ count' < MaxCheckTime
      /\ printFlag' /\ delays' < MaxCheckTime => allPortsUp
  <2>1. /\ stage' = "pass" /\ count' \in 0..MaxCheckTime
        /\ delays' \in 0..MaxCheckTime /\ printFlag' \in BOOLEAN
    BY <1>1, <1>2
  <2>2. CASE allPortsUp
    <3>1. printFlag' = TRUE
      BY <1>1, <2>2, ZenonT(30)
    <3> QED BY <2>1, <2>2, <3>1, ZenonT(30)
  <2>3. CASE ~allPortsUp /\ count = MaxCheckTime - 1
    <3>1. printFlag' = TRUE
      BY <1>1, <2>3, ZenonT(30)
    <3>2. delays' = MaxCheckTime
      BY <1>1, <1>2, <2>3
    <3> QED BY <1>2, <2>1, <3>1, <3>2
  <2>4. CASE ~allPortsUp /\ count # MaxCheckTime - 1
    <3>1. printFlag' = FALSE
      BY <1>1, <2>4, ZenonT(30)
    <3>2. delays' = count + 1 /\ count' = count + 1 /\ count + 1 < MaxCheckTime
      BY <1>1, <1>2, <2>4
    <3> QED BY <2>1, <3>1, <3>2, ZenonT(30)
  <2> QED BY <2>2, <2>3, <2>4, ZenonT(30)
<1>4. LinkTypeOK'
  <2>1. seenUp' \subseteq Ports /\ 0 \in 0..numPorts
    BY <1>1, <1>2 DEF LinkTypeOK
  <2> QED BY <1>1, <1>2, <1>3, <2>1, ZenonT(30) DEF LinkTypeOK
<1>5. /\ \A n \in 1..Len(output') : output'[n][1] = n - 1
      /\ output' = <<>> /\ Len(output') = 0
  BY <1>1, <1>2
<1>6. ~printFlag' => seenUp' = 0..portid' - 1
  BY <1>1
<1>7. printFlag' /\ delays' < MaxCheckTime => seenUp' = Ports'
  BY <1>1, <1>2, <1>3, ZenonT(30)
<1> QED BY <1>1, <1>3, <1>4, <1>5, <1>6, <1>7 DEF CheckInv

LEMMA ReturnCheckInv ==
  ASSUME CheckInv, numPorts' = numPorts, Return
  PROVE  CheckInv'
<1>1. LinkTypeOK' /\ Ports' = Ports
  BY ZenonT(30) DEF Return, CheckInv, LinkTypeOK, Ports
<1> QED BY <1>1, ZenonT(30) DEF Return, CheckInv

LEMMA LinkChangesCheckInv ==
  ASSUME CheckInv, numPorts' = numPorts, NEW p \in Ports, LinkChanges(p)
  PROVE  CheckInv'
<1>1. link' \in [0..MaxPorts - 1 -> BOOLEAN]
  BY ZenonT(30) DEF LinkChanges, CheckInv, LinkTypeOK
<1>2. LinkTypeOK' /\ Ports' = Ports
  BY <1>1, ZenonT(30) DEF LinkChanges, CheckInv, LinkTypeOK, Ports
<1> QED BY <1>2, ZenonT(30) DEF LinkChanges, CheckInv

\* Only rte_eal_init counts the ports.
LEMMA PortsCounted ==
  ASSUME Call
  PROVE  InitEal \/ numPorts' = numPorts
<1>1. CASE ReadConfig \/ CreateAffinityThreads \/ CheckPorts
  BY <1>1, ZenonT(30) DEF ReadConfig, CreateAffinityThreads, CheckPorts, devVars
<1>2. CASE StartNativeStats \/ StartAll \/ StartThread
  BY <1>2, ZenonT(30) DEF StartNativeStats, StartAll, StartThread, devVars
<1>3. CASE CreateMempool \/ ConfigureDev \/ DevStart
  BY <1>3, ZenonT(30) DEF CreateMempool, ConfigureDev, DevStart
<1>4. CASE ConfigureRxQueue \/ ConfigureTxQueue
  BY <1>4, ZenonT(30) DEF ConfigureRxQueue, ConfigureTxQueue
<1> QED BY <1>1, <1>2, <1>3, <1>4, ZenonT(30) DEF Call

LEMMA NextLinkInv == LinkInv /\ ArgsInv /\ [Next]_vars => LinkInv'
<1> SUFFICES ASSUME LinkInv, ArgsInv, [Next]_vars PROVE LinkInv'
  BY ZenonT(30)
<1>0. numPorts \in 0..MaxPorts /\ CheckInv
  BY ZenonT(30) DEF LinkInv
<1>1. CASE SendDPDKInformation
  <2>1. /\ UNCHANGED linkVars /\ numPorts' = numPorts
        /\ pc = "send" /\ pc' = "threads"
    BY <1>1, ZenonT(30) DEF SendDPDKInformation, linkVars, appVars, devVars, At, Go
  <2> QED BY <2>1, StillLinkInv, ZenonT(30) DEF BeforeLink
<1>2. CASE NatInitEalArgs
  <2>1. /\ UNCHANGED linkVars /\ numPorts' = numPorts
        /\ pc = "args" /\ pc' = "eal"
    BY <1>2, ZenonT(30) DEF NatInitEalArgs, linkVars, appVars, devVars, At, Go
  <2> QED BY <2>1, StillLinkInv, ZenonT(30) DEF BeforeLink
<1>3. CASE ParseArgs \/ UNCHANGED vars
  <2>1. UNCHANGED linkVars /\ numPorts' = numPorts /\ pc' = pc
    BY <1>3, ZenonT(30) DEF ParseArgs, linkVars, vars, appVars, devVars
  <2> QED BY <2>1, StillLinkInv, ZenonT(30)
<1>4. CASE Call /\ UNCHANGED <<ealVars, linkVars>>
  <2>1. CASE InitEal
    BY <1>4, <2>1, InitEalLinkInv, ZenonT(30)
  <2>2. CASE numPorts' = numPorts
    <3>1. pc' \in BeforeLink => pc \in BeforeLink
      BY <1>4, CallOrder, ZenonT(30) DEF BeforeLink
    <3> QED BY <1>4, <2>2, <3>1, StillLinkInv, ZenonT(30)
  <2> QED BY <1>4, <2>1, <2>2, PortsCounted, ZenonT(30)
<1>5. CASE CheckLinks
  <2>1. numPorts' = numPorts /\ pc = "link"
    BY <1>5, ZenonT(30) DEF CheckLinks, appVars, devVars, At
  <2>2. CASE CheckLinkStatus /\ UNCHANGED <<cores, pc, k>>
    <3>1. CheckInv'
      BY <1>0, <2>1, <2>2, ReportCheckInv, CheckCheckInv, PassEndsCheckInv,
         NextPassCheckInv, ReturnCheckInv, ZenonT(30) DEF CheckLinkStatus
    <3> QED BY <1>0, <2>1, <2>2, <3>1, ZenonT(30) DEF LinkInv, BeforeLink
  <2>3. CASE stage = "done" /\ Go("stats", 0) /\ UNCHANGED linkVars
    BY <2>1, <2>3, StillLinkInv, ZenonT(30) DEF Go, BeforeLink
  <2> QED BY <1>5, <2>2, <2>3, ZenonT(30) DEF CheckLinks
<1>6. CASE Link
  <2>1. PICK p \in Ports : LinkChanges(p)
    BY <1>6, ZenonT(30) DEF Link
  <2>2. numPorts' = numPorts /\ pc' = pc /\ pc = "link"
    BY <1>6, ZenonT(30) DEF Link, appVars, devVars, At
  <2>3. CheckInv'
    BY <1>0, <2>1, <2>2, LinkChangesCheckInv, ZenonT(30)
  <2> QED BY <1>0, <2>2, <2>3, ZenonT(30) DEF LinkInv, BeforeLink
<1> QED BY <1>1, <1>2, <1>3, <1>4, <1>5, <1>6, ZenonT(30) DEF Next, Main, Finished

(***************************************************************************)
(* nat_check_ports_link_status, for any number of ports and any bound on   *)
(* its passes: it returns having reported every port once, in order, and   *)
(* it reports before the time is up only if a whole pass found the links   *)
(* up, however they flap between two polls.                                *)
(***************************************************************************)
THEOREM LinksReported == Spec => []EveryPortReported
<1>1. Spec => [](ArgsInv /\ LinkInv)
  BY InitArgsInv, NextArgsInv, InitLinkInv, NextLinkInv, PTL DEF Spec
<1>2. LinkInv => EveryPortReported
  <2> SUFFICES ASSUME CheckInv PROVE EveryPortReported
    BY ZenonT(30) DEF LinkInv
  <2>1. stage = "done" => Len(output) = numPorts
    BY ZenonT(30) DEF CheckInv
  <2>2. ASSUME stage = "done", NEW n \in 1..numPorts PROVE output[n][1] = n - 1
    BY <2>1, <2>2, ZenonT(30) DEF CheckInv
  <2>3. printFlag /\ delays < MaxCheckTime => seenUp = Ports
    BY ZenonT(30) DEF CheckInv
  <2> QED BY <2>1, <2>2, <2>3, ZenonT(30) DEF EveryPortReported
<1> QED BY <1>1, <1>2, PTL

-----------------------------------------------------------------------------
(* The flag "working", the threads and the device.                         *)

CallTypeOK ==
  /\ pc \in Calls /\ k \in Nat
  /\ status \in {"up", "exited", "panicked", "crashed"}
  /\ working \in BOOLEAN /\ poolMade \in BOOLEAN /\ devStarted \in BOOLEAN

ThreadTypeOK ==
  /\ cores \in CoreSets
  /\ mainCore \in Nat \cup {AnyCore}
  /\ affThreads \in Seq(Nat)
  /\ running \in Seq(Nat \cup {AnyCore})

QueueTypeOK ==
  /\ nbRx \in 0..RxNum /\ nbTx \in 0..RxNum
  /\ rxReady \subseteq 0..RxNum - 1 /\ txReady \subseteq 0..RxNum - 1

AppTypeOK == CallTypeOK /\ ThreadTypeOK /\ QueueTypeOK

LEMMA InitAppTypeOK == Init => AppTypeOK
<1> SUFFICES ASSUME Init PROVE AppTypeOK
  BY ZenonT(30)
<1>1. CallTypeOK
  BY ZenonT(30) DEF Init, CallTypeOK, Calls
<1>2. ThreadTypeOK
  BY DEF Init, ThreadTypeOK, AnyCore
<1>3. QueueTypeOK
  BY StartupAssumption DEF StartupAssumption, Init, QueueTypeOK
<1> QED BY <1>1, <1>2, <1>3, ZenonT(30) DEF AppTypeOK

\* The steps that are not calls of their own.
Elsewhere ==
  \/ SendDPDKInformation \/ NatInitEalArgs \/ ParseArgs \/ CheckLinks \/ Link
  \/ UNCHANGED vars

LEMMA ElsewhereMoves ==
  ASSUME Elsewhere
  PROVE  /\ UNCHANGED <<cores, status, working, mainCore, affThreads, numPorts, poolMade,
                        nbRx, nbTx, rxReady, txReady, devStarted, running>>
         /\ \/ UNCHANGED <<pc, k>>
            \/ pc = "send" /\ pc' = "threads" /\ k' = 0
            \/ pc = "args" /\ pc' = "eal" /\ k' = 0
            \/ pc = "link" /\ pc' = "stats" /\ k' = 0
<1>1. CASE SendDPDKInformation
  BY <1>1, ZenonT(30) DEF SendDPDKInformation, At, Go, appVars, devVars
<1>2. CASE NatInitEalArgs
  BY <1>2, ZenonT(30) DEF NatInitEalArgs, At, Go, appVars, devVars
<1>3. CASE ParseArgs
  BY <1>3, ZenonT(30) DEF ParseArgs, appVars, devVars
<1>4. CASE CheckLinks
  BY <1>4, ZenonT(30) DEF CheckLinks, At, Go, appVars, devVars
<1>5. CASE Link
  BY <1>5, ZenonT(30) DEF Link, appVars, devVars
<1>6. CASE UNCHANGED vars
  BY <1>6, ZenonT(30) DEF vars, appVars, devVars
<1> QED BY <1>1, <1>2, <1>3, <1>4, <1>5, <1>6, ZenonT(30) DEF Elsewhere

LEMMA NextIs == [Next]_vars => Elsewhere \/ Call
  BY ZenonT(30) DEF Next, Main, Finished, Elsewhere

LEMMA NextCallTypeOK == CallTypeOK /\ [Next]_vars => CallTypeOK'
<1> SUFFICES ASSUME CallTypeOK, [Next]_vars PROVE CallTypeOK'
  BY ZenonT(30)
<1> USE DEF CallTypeOK
<1>1. CASE Elsewhere
  BY <1>1, ElsewhereMoves DEF Calls
<1>2. CASE ReadConfig \/ StartAll
  BY <1>2 DEF ReadConfig, StartAll, Go, devVars, Calls
<1>3. CASE CreateAffinityThreads
  <2>1. working' \in BOOLEAN
    BY <1>3, ZenonT(30) DEF CreateAffinityThreads
  <2>2. k' \in Nat /\ pc' \in Calls
    <3>1. k' \in {0, k + 1} /\ pc' \in {"threads", "args"}
      BY <1>3, ZenonT(30) DEF CreateAffinityThreads, Go
    <3> QED BY <3>1 DEF Calls
  <2> QED BY <1>3, <2>1, <2>2, ZenonT(30) DEF CreateAffinityThreads, devVars
<1>4. CASE StartNativeStats \/ StartThread
  BY <1>4 DEF StartNativeStats, StartThread, Go, devVars, Calls
<1>5. CASE InitEal
  BY <1>5, ZenonT(30) DEF InitEal, Go, Calls
<1>6. CASE CreateMempool
  BY <1>6, ZenonT(30) DEF CreateMempool, Go, Calls
<1>7. CASE CheckPorts \/ ConfigureDev
  <2>1. working' \in BOOLEAN
    BY <1>7, ZenonT(30) DEF CheckPorts, ConfigureDev
  <2>2. pc' \in {"configure", "rx"} /\ k' = 0 /\ UNCHANGED <<status, poolMade, devStarted>>
    BY <1>7, ZenonT(30) DEF CheckPorts, ConfigureDev, Go, devVars
  <2> QED BY <2>1, <2>2, ZenonT(30) DEF Calls
<1>8. CASE ConfigureRxQueue
  BY <1>8, ZenonT(30) DEF ConfigureRxQueue, Go, Calls
<1>9. CASE ConfigureTxQueue
  <2>1. working' \in BOOLEAN
    BY <1>9, ZenonT(30) DEF ConfigureTxQueue
  <2>2. k' \in Nat /\ pc' \in Calls
    <3>1. k' \in {0, k + 1} /\ pc' \in {"rx", "start"}
      BY <1>9, ZenonT(30) DEF ConfigureTxQueue, Go
    <3> QED BY <3>1 DEF Calls
  <2> QED BY <1>9, <2>1, <2>2, ZenonT(30) DEF ConfigureTxQueue
<1>10. CASE DevStart
  BY <1>10, ZenonT(30) DEF DevStart, Go, Calls
<1> QED
  BY <1>1, <1>2, <1>3, <1>4, <1>5, <1>6, <1>7, <1>8, <1>9, <1>10, NextIs, ZenonT(30) DEF Call

\* The calls that have nothing to do with the threads.
LEMMA ThreadsAlone ==
  ASSUME CreateMempool \/ CheckPorts \/ ConfigureDev \/ ConfigureRxQueue
           \/ ConfigureTxQueue \/ DevStart \/ ReadConfig \/ StartAll
  PROVE  UNCHANGED <<cores, mainCore, affThreads, running>>
<1>1. CASE ReadConfig \/ StartAll \/ CheckPorts
  BY <1>1, ZenonT(30) DEF ReadConfig, StartAll, CheckPorts, Go
<1>2. CASE CreateMempool \/ ConfigureDev
  BY <1>2, ZenonT(30) DEF CreateMempool, ConfigureDev, Go
<1>3. CASE ConfigureRxQueue \/ ConfigureTxQueue
  BY <1>3, ZenonT(30) DEF ConfigureRxQueue, ConfigureTxQueue, Go
<1>4. CASE DevStart
  BY <1>4, ZenonT(30) DEF DevStart, Go
<1> QED BY <1>1, <1>2, <1>3, <1>4, ZenonT(30)

LEMMA NextThreadTypeOK == ThreadTypeOK /\ CallTypeOK /\ [Next]_vars => ThreadTypeOK'
<1> SUFFICES ASSUME ThreadTypeOK, CallTypeOK, [Next]_vars PROVE ThreadTypeOK'
  BY ZenonT(30)
<1>1. CASE Elsewhere
  BY <1>1, ElsewhereMoves, ZenonT(30) DEF ThreadTypeOK
<1>2. ASSUME NEW core \in Nat, NewAffinityThread(core), UNCHANGED <<cores, running>>
      PROVE  ThreadTypeOK'
  BY <1>2 DEF NewAffinityThread, SetThreadAffinity, ThreadTypeOK
<1>3. CASE CreateAffinityThreads
  <2>1. UNCHANGED <<cores, running>>
    BY <1>3, ZenonT(30) DEF CreateAffinityThreads, Go
  <2>2. CASE UNCHANGED <<mainCore, affThreads>>
    BY <2>1, <2>2, ZenonT(30) DEF ThreadTypeOK
  <2>3. CASE k < Len(Threads) /\ NewAffinityThread(Threads[k + 1])
    <3>1. Threads[k + 1] \in Nat
      BY <2>3, StartupAssumption DEF StartupAssumption, CallTypeOK
    <3> QED BY <1>2, <2>1, <2>3, <3>1, ZenonT(30)
  <2> QED BY <1>3, <2>2, <2>3, ZenonT(30) DEF CreateAffinityThreads
<1>4. CASE StartNativeStats
  <2>1. UNCHANGED <<cores, running>> /\ NewAffinityThread(StatsCore)
    BY <1>4, ZenonT(30) DEF StartNativeStats, Go
  <2> QED BY <1>2, <2>1, StartupAssumption, ZenonT(30) DEF StartupAssumption
<1>5. CASE InitEal
  BY <1>5 DEF InitEal, Go, MasterCore, ThreadTypeOK
<1>6. CASE StartThread
  <2>1. UNCHANGED <<cores, mainCore, affThreads>>
    BY <1>6, ZenonT(30) DEF StartThread, Go
  <2>2. running' \in {running, Append(running, mainCore)}
    BY <1>6, ZenonT(30) DEF StartThread
  <2>3. running' \in Seq(Nat \cup {AnyCore})
    <3> DEFINE S == Nat \cup {AnyCore}
    <3>1. running \in Seq(S) /\ mainCore \in S
      BY ZenonT(30) DEF ThreadTypeOK
    <3> HIDE DEF S
    <3>2. Append(running, mainCore) \in Seq(S)
      BY <3>1
    <3> QED BY <2>2, <3>1, <3>2, ZenonT(30) DEF S
  <2> QED BY <2>1, <2>3, ZenonT(30) DEF ThreadTypeOK
<1>7. CASE UNCHANGED <<cores, mainCore, affThreads, running>>
  BY <1>7, ZenonT(30) DEF ThreadTypeOK
<1> QED BY <1>1, <1>3, <1>4, <1>5, <1>6, <1>7, NextIs, ThreadsAlone, ZenonT(30) DEF Call

\* The calls that have nothing to do with the device.
LEMMA DeviceAlone ==
  ASSUME \/ ReadConfig \/ CreateAffinityThreads \/ CheckPorts
         \/ StartNativeStats \/ StartAll \/ StartThread
  PROVE  UNCHANGED <<numPorts, poolMade, nbRx, nbTx, rxReady, txReady, devStarted>>
<1>1. CASE ReadConfig \/ CreateAffinityThreads \/ CheckPorts
  BY <1>1, ZenonT(30) DEF ReadConfig, CreateAffinityThreads, CheckPorts, devVars
<1>2. CASE StartNativeStats \/ StartAll \/ StartThread
  BY <1>2, ZenonT(30) DEF StartNativeStats, StartAll, StartThread, devVars
<1> QED BY <1>1, <1>2, ZenonT(30)

LEMMA NextQueueTypeOK == QueueTypeOK /\ CallTypeOK /\ [Next]_vars => QueueTypeOK'
<1> SUFFICES ASSUME QueueTypeOK, CallTypeOK, [Next]_vars PROVE QueueTypeOK'
  BY ZenonT(30)
<1> RxNum \in Nat /\ k \in Nat
  BY StartupAssumption, ZenonT(30) DEF StartupAssumption, CallTypeOK
<1>1. CASE Elsewhere
  BY <1>1, ElsewhereMoves, ZenonT(30) DEF QueueTypeOK
<1>2. CASE ConfigureDev
  BY <1>2 DEF ConfigureDev, QueueTypeOK
<1>3. CASE ConfigureRxQueue
  <2>1. UNCHANGED <<nbRx, nbTx, txReady>>
    BY <1>3, ZenonT(30) DEF ConfigureRxQueue
  <2>2. rxReady' = rxReady \/ (k < RxNum /\ rxReady' = rxReady \cup {k})
    BY <1>3 DEF ConfigureRxQueue
  <2>3. rxReady' \subseteq 0..RxNum - 1
    <3>1. k < RxNum => k \in 0..RxNum - 1
      OBVIOUS
    <3> QED BY <2>2, <3>1, ZenonT(30) DEF QueueTypeOK
  <2> QED BY <2>1, <2>3, ZenonT(30) DEF QueueTypeOK
<1>4. CASE ConfigureTxQueue
  <2>1. UNCHANGED <<nbRx, nbTx, rxReady>>
    BY <1>4, ZenonT(30) DEF ConfigureTxQueue
  <2>2. txReady' = txReady \/ (k < nbTx /\ txReady' = txReady \cup {k})
    BY <1>4, ZenonT(30) DEF ConfigureTxQueue
  <2>3. txReady' \subseteq 0..RxNum - 1
    <3>1. k < nbTx => k \in 0..RxNum - 1
      BY DEF QueueTypeOK
    <3> QED BY <2>2, <3>1, ZenonT(30) DEF QueueTypeOK
  <2> QED BY <2>1, <2>3, ZenonT(30) DEF QueueTypeOK
<1>5. CASE InitEal \/ CreateMempool \/ DevStart
  BY <1>5, ZenonT(30) DEF InitEal, CreateMempool, DevStart, QueueTypeOK
<1>6. CASE UNCHANGED <<numPorts, poolMade, nbRx, nbTx, rxReady, txReady, devStarted>>
  BY <1>6, ZenonT(30) DEF QueueTypeOK
<1> QED BY <1>1, <1>2, <1>3, <1>4, <1>5, <1>6, NextIs, DeviceAlone, ZenonT(30) DEF Call

LEMMA CallRunsUp == Call => status = "up"
<1>1. ReadConfig \/ CreateAffinityThreads \/ InitEal \/ CreateMempool => status = "up"
  BY ZenonT(30) DEF ReadConfig, CreateAffinityThreads, InitEal, CreateMempool, At
<1>2. CheckPorts \/ ConfigureDev \/ ConfigureRxQueue \/ ConfigureTxQueue => status = "up"
  BY ZenonT(30) DEF CheckPorts, ConfigureDev, ConfigureRxQueue, ConfigureTxQueue, At
<1>3. DevStart \/ StartNativeStats \/ StartAll \/ StartThread => status = "up"
  BY ZenonT(30) DEF DevStart, StartNativeStats, StartAll, StartThread, At
<1> QED BY <1>1, <1>2, <1>3, ZenonT(30) DEF Call

(***************************************************************************)
(* From rte_eal_init on the main thread sits on the master core, and from  *)
(* the last AffinityThread on the core that one wanted, if it is online.   *)
(***************************************************************************)
Shared == IF StatsCore \in cores THEN StatsCore ELSE MasterCore

OnMaster == {"mempool", "ports", "configure", "rx", "tx", "start", "link", "stats"}

CoreInv ==
  /\ pc \in OnMaster /\ status = "up" => mainCore = MasterCore
  /\ pc \in {"startAll", "run", "done"} => mainCore = Shared
  /\ running # <<>> => pc \in {"run", "done"}
  /\ \A t \in 1..Len(running) : running[t] = Shared

LEMMA InitCoreInv == Init => CoreInv
  BY DEF Init, CoreInv, OnMaster

LEMMA StillCoreInv ==
  ASSUME CoreInv, UNCHANGED <<cores, mainCore, running>>,
         \/ pc' = pc /\ status' = status
         \/ pc \in OnMaster /\ pc' \in OnMaster /\ (status' = "up" => status = "up")
         \/ pc' \in {"run", "done"} /\ pc \in {"startAll", "run"}
         \/ pc' \notin OnMaster \cup {"startAll", "run", "done"} /\ running = <<>>
  PROVE  CoreInv'
<1>1. Shared' = Shared
  BY ZenonT(30) DEF Shared
<1> QED BY <1>1, ZenonT(30) DEF CoreInv, OnMaster

LEMMA NextCoreInv == CoreInv /\ ThreadTypeOK /\ [Next]_vars => CoreInv'
<1> SUFFICES ASSUME CoreInv, ThreadTypeOK, [Next]_vars PROVE CoreInv'
  BY ZenonT(30)
<1>1. CASE Elsewhere
  BY <1>1, ElsewhereMoves, StillCoreInv, ZenonT(30) DEF CoreInv, OnMaster
<1>2. CASE ReadConfig
  BY <1>2, StillCoreInv, ZenonT(30) DEF ReadConfig, At, Go, CoreInv, OnMaster
<1>3. CASE CreateAffinityThreads
  <2>1. /\ running' = running /\ running = <<>> /\ pc' \in {"threads", "args"}
    BY <1>3, ZenonT(30) DEF CreateAffinityThreads, At, Go, CoreInv
  <2> QED BY <2>1 DEF CoreInv, OnMaster
<1>4. CASE InitEal
  <2>1. running' = running /\ running = <<>> /\ pc' = "mempool"
    BY <1>4, ZenonT(30) DEF InitEal, At, Go, CoreInv
  <2>2. mainCore' = MasterCore \/ status' # "up"
    BY <1>4, ZenonT(30) DEF InitEal
  <2> QED BY <2>1, <2>2 DEF CoreInv, OnMaster
<1>5. CASE \/ CreateMempool \/ CheckPorts \/ ConfigureDev \/ ConfigureRxQueue
           \/ ConfigureTxQueue \/ DevStart
  <2>1. status = "up"
    BY <1>5, CallRunsUp, ZenonT(30) DEF Call
  <2>2. pc \in OnMaster /\ pc' \in OnMaster
    <3>1. CASE CreateMempool \/ CheckPorts \/ ConfigureDev
      BY <3>1, ZenonT(30) DEF CreateMempool, CheckPorts, ConfigureDev, At, Go, OnMaster
    <3>2. CASE ConfigureRxQueue \/ ConfigureTxQueue \/ DevStart
      BY <3>2, ZenonT(30) DEF ConfigureRxQueue, ConfigureTxQueue, DevStart, At, Go, OnMaster
    <3> QED BY <1>5, <3>1, <3>2, ZenonT(30)
  <2>3. UNCHANGED <<cores, mainCore, running>>
    BY <1>5, ThreadsAlone, ZenonT(30)
  <2> QED BY <2>1, <2>2, <2>3, StillCoreInv, ZenonT(30)
<1>6. CASE StartNativeStats
  <2>1. /\ pc = "stats" /\ pc' = "startAll" /\ status = "up"
        /\ UNCHANGED <<cores, running>> /\ SetThreadAffinity(StatsCore)
    BY <1>6, ZenonT(30) DEF StartNativeStats, At, Go, NewAffinityThread
  <2>2. mainCore = MasterCore /\ running = <<>> /\ Shared' = Shared
    BY <2>1, ZenonT(30) DEF CoreInv, OnMaster, Shared
  <2>3. mainCore' = Shared'
    BY <2>1, <2>2, ZenonT(30) DEF SetThreadAffinity, Shared
  <2> QED BY <2>1, <2>2, <2>3, ZenonT(30) DEF CoreInv, OnMaster
<1>7. CASE StartAll
  <2>1. pc = "startAll" /\ pc' \in {"run", "done"}
    BY <1>7, ZenonT(30) DEF StartAll, At, Go
  <2>2. UNCHANGED <<cores, mainCore, running>>
    BY <1>7, ThreadsAlone, ZenonT(30)
  <2> QED BY <2>1, <2>2, StillCoreInv, ZenonT(30)
<1>8. CASE StartThread
  <2>1. /\ pc = "run" /\ pc' \in {"run", "done"} /\ UNCHANGED <<cores, mainCore>>
        /\ running' = running \/ running' = Append(running, mainCore)
    BY <1>8, ZenonT(30) DEF StartThread, At, Go
  <2>2. mainCore = Shared /\ Shared' = Shared /\ running \in Seq(Nat \cup {AnyCore})
    BY <2>1, ZenonT(30) DEF CoreInv, Shared, ThreadTypeOK
  <2>3. \A t \in 1..Len(running') : running'[t] = Shared
    <3>1. CASE running' = running
      BY <3>1, ZenonT(30) DEF CoreInv
    <3>2. CASE running' = Append(running, mainCore)
      <4>1. \A t \in 1..Len(running) : running[t] = Shared
        BY ZenonT(30) DEF CoreInv
      <4> HIDE DEF Shared
      <4> QED BY <2>2, <3>2, <4>1
    <3> QED BY <2>1, <3>1, <3>2, ZenonT(30)
  <2> QED BY <2>1, <2>2, <2>3, ZenonT(30) DEF CoreInv, OnMaster
<1> QED BY <1>1, <1>2, <1>3, <1>4, <1>5, <1>6, <1>7, <1>8, NextIs, ZenonT(30) DEF Call

AppInv == ArgsInv /\ LinkInv /\ AppTypeOK

LEMMA AlwaysApp == Spec => []AppInv
<1>1. Init => AppInv
  BY InitArgsInv, InitLinkInv, InitAppTypeOK, ZenonT(30) DEF AppInv
<1>2. AppInv /\ [Next]_vars => AppInv'
  BY NextArgsInv, NextLinkInv, NextCallTypeOK, NextThreadTypeOK, NextQueueTypeOK, ZenonT(30)
     DEF AppInv, AppTypeOK
<1> QED BY <1>1, <1>2, PTL DEF Spec

\* Start-up keeps its types: main's calls, the command line, the link check
\* and the device, whose queues are counted by rx_num alone.
THEOREM StartupTypes == Spec => []TypeOK
<1>1. AppInv => TypeOK
  <2> SUFFICES ASSUME AppInv PROVE TypeOK
    BY ZenonT(30)
  <2>1. EalTypeOK /\ LinkTypeOK /\ numPorts \in 0..MaxPorts
    BY ZenonT(30) DEF AppInv, ArgsInv, LinkInv, CheckInv
  <2>2. CallTypeOK /\ ThreadTypeOK /\ QueueTypeOK
    BY ZenonT(30) DEF AppInv, AppTypeOK
  <2> QED BY <2>1, <2>2, ZenonT(30) DEF TypeOK, CallTypeOK, ThreadTypeOK, QueueTypeOK
<1> QED BY <1>1, AlwaysApp, PTL

(***************************************************************************)
(* Whatever cores the threads of an application ask for, they all run on   *)
(* the same one: the constructor of AffinityThread pins the thread it runs *)
(* in, and start() hands that affinity down.                               *)
(***************************************************************************)
THEOREM OneCoreForAll == Spec => []ThreadsShareCore
<1>1. AppInv => ThreadTypeOK
  BY ZenonT(30) DEF AppInv, AppTypeOK
<1>2. Spec => []CoreInv
  BY <1>1, AlwaysApp, InitCoreInv, NextCoreInv, PTL DEF Spec
<1>3. CoreInv => ThreadsShareCore
  BY ZenonT(30) DEF CoreInv, ThreadsShareCore, Shared
<1> QED BY <1>2, <1>3, PTL

-----------------------------------------------------------------------------
(* What "working" stands for, call by call.                                *)

AfterThreads == Calls \ {"config", "send", "threads"}
AfterMempool == AfterThreads \ {"args", "eal", "mempool"}
AfterPorts   == AfterMempool \ {"ports"}
AfterDev     == AfterPorts \ {"configure"}
AfterQueues  == AfterDev \ {"rx", "tx"}

\* The first n threads were created, each on a core that is online.
Placed(n) ==
  /\ n <= Len(affThreads)
  /\ \A t \in 1..n : affThreads[t] = Threads[t] /\ Threads[t] \in cores

ThreadsInv ==
  /\ pc \in {"config", "send"} => affThreads = <<>>
  /\ pc = "threads" => /\ k <= Len(Threads) /\ Len(affThreads) = k
                       /\ working => Placed(k)
  /\ pc \in AfterThreads /\ working => Placed(Len(Threads))

\* The receive queues below m and the transmit queues below n were set up.
SetUp(m, n) ==
  /\ rxReady = {q \in 0..RxNum - 1 : q < m}
  /\ txReady = {q \in 0..TxNum - 1 : q < n}

DeviceInv == working =>
  /\ pc \in AfterMempool => poolMade
  /\ pc \in AfterPorts => numPorts > 0
  /\ pc \in AfterDev => nbRx = RxNum /\ nbTx = RxNum
  /\ pc \notin AfterDev => rxReady = {} /\ txReady = {}
  /\ pc = "rx" => SetUp(k, k)
  /\ pc = "tx" => SetUp(k + 1, k)
  /\ pc \in AfterQueues => SetUp(RxNum, TxNum)

RunInv ==
  /\ pc \in AfterQueues \ {"start"} /\ status = "up" /\ working => devStarted
  /\ pc = "run" => status = "up" /\ working
  /\ pc = "done" /\ status = "up" => working
  /\ running # <<>> => pc \in {"run", "done"} /\ status = "up"

ReadyInv == ThreadsInv /\ DeviceInv /\ RunInv

LEMMA InitReadyInv == Init => ReadyInv
<1> SUFFICES ASSUME Init PROVE ReadyInv
  BY ZenonT(30)
<1>1. ThreadsInv
  BY ZenonT(30) DEF Init, ThreadsInv, AfterThreads, Calls
<1>2. DeviceInv
  BY ZenonT(30) DEF Init, DeviceInv, AfterQueues, AfterDev, AfterPorts, AfterMempool, AfterThreads
<1>3. RunInv
  BY ZenonT(30) DEF Init, RunInv, AfterQueues, AfterDev, AfterPorts, AfterMempool, AfterThreads
<1> QED BY <1>1, <1>2, <1>3, ZenonT(30) DEF ReadyInv

LEMMA StillThreadsInv ==
  ASSUME ThreadsInv, UNCHANGED <<cores, affThreads>>, working' => working,
         \/ UNCHANGED <<pc, k>>
         \/ pc = "config" /\ pc' = "send"
         \/ pc \in AfterThreads /\ pc' \in AfterThreads
         \/ pc = "send" /\ pc' = "threads" /\ k' = 0
  PROVE  ThreadsInv'
<1>1. \A n : Placed(n)' <=> Placed(n)
  BY ZenonT(30) DEF Placed
<1>2. CASE UNCHANGED <<pc, k>>
  BY <1>1, <1>2, ZenonT(30) DEF ThreadsInv
<1>3. CASE pc = "config" /\ pc' = "send"
  BY <1>3, ZenonT(30) DEF ThreadsInv, AfterThreads
<1>4. CASE pc \in AfterThreads /\ pc' \in AfterThreads
  BY <1>1, <1>4, ZenonT(30) DEF ThreadsInv, AfterThreads
<1>5. CASE pc = "send" /\ pc' = "threads" /\ k' = 0
  <2>1. affThreads' = <<>> /\ Placed(0)'
    BY <1>5 DEF ThreadsInv, Placed
  <2>2. 0 <= Len(Threads) /\ Len(<<>>) = 0
    BY StartupAssumption DEF StartupAssumption
  <2> QED BY <1>5, <2>1, <2>2, ZenonT(30) DEF ThreadsInv, AfterThreads
<1> QED BY <1>2, <1>3, <1>4, <1>5, ZenonT(30)

LEMMA NextThreadsInv == ThreadsInv /\ AppTypeOK /\ [Next]_vars => ThreadsInv'
<1> SUFFICES ASSUME ThreadsInv, AppTypeOK, [Next]_vars PROVE ThreadsInv'
  BY ZenonT(30)
<1>0. affThreads \in Seq(Nat) /\ k \in Nat /\ Threads \in Seq(Nat)
  BY StartupAssumption, ZenonT(30) DEF StartupAssumption, AppTypeOK, ThreadTypeOK, CallTypeOK
<1>1. CASE Elsewhere
  <2>1. \/ UNCHANGED <<pc, k>>
        \/ pc \in AfterThreads /\ pc' \in AfterThreads
        \/ pc = "send" /\ pc' = "threads" /\ k' = 0
    BY <1>1, ElsewhereMoves, ZenonT(30) DEF AfterThreads, Calls
  <2> QED BY <1>1, <2>1, ElsewhereMoves, StillThreadsInv
<1>2. CASE ReadConfig
  BY <1>2, StillThreadsInv, ZenonT(30) DEF ReadConfig, At, Go
<1>3. CASE CreateAffinityThreads
  <2>1. pc = "threads" /\ cores' = cores
    BY <1>3, ZenonT(30) DEF CreateAffinityThreads, At, Go
  <2>2. k <= Len(Threads) /\ Len(affThreads) = k /\ (working => Placed(k))
    BY <2>1, ZenonT(30) DEF ThreadsInv
  <2>3. CASE working' = FALSE /\ pc' = "args"
    BY <2>3, ZenonT(30) DEF ThreadsInv
  <2>4. CASE /\ k < Len(Threads) /\ NewAffinityThread(Threads[k + 1])
             /\ working' = (working /\ Threads[k + 1] \in cores)
             /\ Go("threads", k + 1)
    <3>1. /\ affThreads' = Append(affThreads, Threads[k + 1]) /\ Threads[k + 1] \in Nat
          /\ k' = k + 1 /\ pc' = "threads"
      BY <1>0, <2>4 DEF NewAffinityThread, Go
    <3>2. Len(affThreads') = k' /\ k' <= Len(Threads)
      BY <1>0, <2>2, <2>4, <3>1
    <3>3. ASSUME working' PROVE Placed(k)'
      <4>1. working /\ Threads[k + 1] \in cores
        BY <2>4, <3>3, ZenonT(30)
      <4>2. \A t \in 1..k : affThreads[t] = Threads[t] /\ Threads[t] \in cores
        BY <2>2, <4>1, ZenonT(30) DEF Placed
      <4>3. \A t \in 1..k : affThreads'[t] = Threads[t]
        BY <1>0, <2>2, <3>1, <4>2
      <4>4. affThreads'[k + 1] = Threads[k + 1]
        BY <1>0, <2>2, <3>1
      <4>5. \A t \in 1..k + 1 : affThreads'[t] = Threads[t] /\ Threads[t] \in cores
        BY <1>0, <4>1, <4>2, <4>3, <4>4
      <4> QED BY <1>0, <2>1, <3>1, <3>2, <4>5 DEF Placed
    <3> QED BY <3>1, <3>2, <3>3, ZenonT(30) DEF ThreadsInv, AfterThreads
  <2>5. CASE k = Len(Threads) /\ Go("args", 0) /\ UNCHANGED <<working, affThreads>>
    <3>1. Placed(Len(Threads))' <=> Placed(Len(Threads))
      BY <2>1, <2>5, ZenonT(30) DEF Placed
    <3> QED BY <2>2, <2>5, <3>1, ZenonT(30) DEF ThreadsInv, Go
  <2> QED BY <1>3, <2>3, <2>4, <2>5, ZenonT(30) DEF CreateAffinityThreads, Go
<1>4. CASE StartNativeStats
  <2>1. /\ pc = "stats" /\ pc' = "startAll" /\ UNCHANGED <<cores, working>>
        /\ affThreads' = Append(affThreads, StatsCore) /\ StatsCore \in Nat
    BY <1>4, StartupAssumption, ZenonT(30)
       DEF StartupAssumption, StartNativeStats, At, Go, NewAffinityThread
  <2>2. ASSUME working PROVE Placed(Len(Threads))'
    <3>1. Placed(Len(Threads))
      BY <2>1, <2>2, ZenonT(30) DEF ThreadsInv, AfterThreads, Calls
    <3>2. /\ Len(affThreads') = Len(affThreads) + 1
          /\ \A t \in 1..Len(affThreads) : affThreads'[t] = affThreads[t]
      BY <1>0, <2>1
    <3>3. Len(Threads) \in Nat /\ Len(affThreads) \in Nat
      BY <1>0
    <3> QED BY <2>1, <3>1, <3>2, <3>3 DEF Placed
  <2> QED BY <2>1, <2>2, ZenonT(30) DEF ThreadsInv
<1>5. CASE \/ InitEal \/ CreateMempool \/ CheckPorts \/ ConfigureDev \/ ConfigureRxQueue
           \/ ConfigureTxQueue \/ DevStart \/ StartAll \/ StartThread
  <2>1. UNCHANGED <<cores, affThreads>>
    <3>1. CASE InitEal \/ StartThread
      BY <3>1, ZenonT(30) DEF InitEal, StartThread, Go
    <3> QED BY <1>5, <3>1, ThreadsAlone, ZenonT(30)
  <2>2. pc \in AfterThreads /\ pc' \in AfterThreads
    <3>1. pc \notin {"config", "threads"}
      <4>1. CASE InitEal \/ CreateMempool \/ CheckPorts \/ ConfigureDev
        BY <4>1, ZenonT(30) DEF InitEal, CreateMempool, CheckPorts, ConfigureDev, At
      <4>2. CASE ConfigureRxQueue \/ ConfigureTxQueue \/ DevStart
        BY <4>2, ZenonT(30) DEF ConfigureRxQueue, ConfigureTxQueue, DevStart, At
      <4>3. CASE StartAll \/ StartThread
        BY <4>3, ZenonT(30) DEF StartAll, StartThread, At
      <4> QED BY <1>5, <4>1, <4>2, <4>3, ZenonT(30)
    <3>2. Call
      BY <1>5, ZenonT(30) DEF Call
    <3> QED BY <3>1, <3>2, CallOrder, ZenonT(30) DEF AfterThreads, Calls
  <2>3. working' => working
    <3>1. CASE InitEal \/ CreateMempool \/ CheckPorts
      BY <3>1, ZenonT(30) DEF InitEal, CreateMempool, CheckPorts
    <3>2. CASE ConfigureDev \/ ConfigureRxQueue \/ ConfigureTxQueue
      BY <3>2, ZenonT(30) DEF ConfigureDev, ConfigureRxQueue, ConfigureTxQueue
    <3>3. CASE DevStart \/ StartAll \/ StartThread
      BY <3>3, ZenonT(30) DEF DevStart, StartAll, StartThread
    <3> QED BY <1>5, <3>1, <3>2, <3>3, ZenonT(30)
  <2> QED BY <2>1, <2>2, <2>3, StillThreadsInv, ZenonT(30)
<1> QED BY <1>1, <1>2, <1>3, <1>4, <1>5, NextIs, ZenonT(30) DEF Call

Early == {"config", "send", "threads", "args", "eal", "mempool"}

\* Where the calls of each part of the invariant are.
LEMMA CallSets ==
  /\ AfterQueues = {"start", "link", "stats", "startAll", "run", "done"}
  /\ AfterDev = {"rx", "tx"} \cup AfterQueues
  /\ AfterPorts = {"configure"} \cup AfterDev
  /\ AfterMempool = {"ports"} \cup AfterPorts
  BY ZenonT(30) DEF AfterQueues, AfterDev, AfterPorts, AfterMempool, AfterThreads, Calls

LEMMA EarlyDeviceInv ==
  ASSUME DeviceInv, pc \in Early, pc' \in Early, working' => working,
         UNCHANGED <<rxReady, txReady>>
  PROVE  DeviceInv'
  BY CallSets, ZenonT(30) DEF DeviceInv, Early

LEMMA LateDeviceInv ==
  ASSUME DeviceInv, working' => working,
         UNCHANGED <<numPorts, poolMade, nbRx, nbTx, rxReady, txReady>>,
         UNCHANGED <<pc, k>> \/ (pc \in AfterQueues /\ pc' \in AfterQueues)
  PROVE  DeviceInv'
<1>1. \A m, n : SetUp(m, n)' <=> SetUp(m, n)
  BY ZenonT(30) DEF SetUp
<1>2. CASE UNCHANGED <<pc, k>>
  BY <1>1, <1>2, ZenonT(30) DEF DeviceInv
<1>3. CASE pc \in AfterQueues /\ pc' \in AfterQueues
  BY <1>1, <1>3, CallSets, ZenonT(30) DEF DeviceInv
<1> QED BY <1>2, <1>3, ZenonT(30)

\* What main knows while it sets up the queues.
LEMMA DeviceKnown ==
  ASSUME DeviceInv, working, pc \in {"rx", "tx"}
  PROVE  poolMade /\ numPorts > 0 /\ nbRx = RxNum /\ nbTx = RxNum
  BY CallSets, ZenonT(30) DEF DeviceInv

LEMMA RxDeviceInv ==
  ASSUME DeviceInv, AppTypeOK, ConfigureRxQueue
  PROVE  DeviceInv'
<1>1. /\ pc = "rx" /\ pc' = "tx" /\ k' = k /\ k \in Nat /\ RxNum \in Nat
      /\ UNCHANGED <<numPorts, poolMade, nbRx, nbTx, txReady>>
  BY StartupAssumption, ZenonT(30) DEF StartupAssumption, ConfigureRxQueue, At, Go, AppTypeOK, CallTypeOK
<1> SUFFICES ASSUME working' PROVE DeviceInv'
  BY ZenonT(30) DEF DeviceInv
<1>2. \/ k >= RxNum /\ working /\ rxReady' = rxReady
      \/ working /\ ~poolMade
      \/ ~(k >= RxNum) /\ working /\ rxReady' = rxReady \cup {k}
  BY ZenonT(30) DEF ConfigureRxQueue
<1>3. working /\ poolMade /\ numPorts > 0 /\ nbRx = RxNum /\ nbTx = RxNum
  BY <1>1, <1>2, DeviceKnown, ZenonT(30)
<1>4. rxReady = {q \in 0..RxNum - 1 : q < k} /\ txReady = {q \in 0..TxNum - 1 : q < k}
  BY <1>1, <1>3, ZenonT(30) DEF DeviceInv, SetUp
<1>5. rxReady' = {q \in 0..RxNum - 1 : q < k + 1}
  BY <1>1, <1>2, <1>3, <1>4
<1>6. SetUp(k + 1, k)'
  BY <1>1, <1>4, <1>5, ZenonT(30) DEF SetUp
<1> QED BY <1>1, <1>3, <1>6, CallSets, ZenonT(30) DEF DeviceInv

LEMMA TxDeviceInv ==
  ASSUME DeviceInv, AppTypeOK, ConfigureTxQueue
  PROVE  DeviceInv'
<1>1. /\ pc = "tx" /\ k \in Nat /\ RxNum \in Nat /\ TxNum \in Nat
      /\ UNCHANGED <<numPorts, poolMade, nbRx, nbTx, rxReady>>
  BY StartupAssumption, ZenonT(30) DEF StartupAssumption, ConfigureTxQueue, At, AppTypeOK, CallTypeOK
<1> SUFFICES ASSUME working' PROVE DeviceInv'
  BY ZenonT(30) DEF DeviceInv
<1>2. \/ k >= TxNum /\ working /\ txReady' = txReady
      \/ ~(k >= TxNum) /\ working /\ txReady' = txReady \cup {k}
  BY ZenonT(30) DEF ConfigureTxQueue
<1>3. poolMade /\ numPorts > 0 /\ nbRx = RxNum /\ nbTx = RxNum
  BY <1>1, <1>2, DeviceKnown, ZenonT(30)
<1>4. /\ rxReady = {q \in 0..RxNum - 1 : q < k + 1}
      /\ txReady = {q \in 0..TxNum - 1 : q < k}
  BY <1>1, <1>2, ZenonT(30) DEF DeviceInv, SetUp
<1>5. txReady' = {q \in 0..TxNum - 1 : q < k + 1}
  BY <1>1, <1>2, <1>4
<1>6. \/ pc' = "rx" /\ k' = k + 1
      \/ pc' = "start" /\ k + 1 >= RxNum /\ k + 1 >= TxNum
  BY <1>1 DEF ConfigureTxQueue, Go
<1>7. CASE pc' = "rx" /\ k' = k + 1
  <2>1. SetUp(k, k)'
    BY <1>1, <1>4, <1>5, <1>7, ZenonT(30) DEF SetUp
  <2> QED BY <1>1, <1>3, <1>7, <2>1, CallSets, ZenonT(30) DEF DeviceInv
<1>8. CASE pc' = "start" /\ k + 1 >= RxNum /\ k + 1 >= TxNum
  <2>1. /\ rxReady' = {q \in 0..RxNum - 1 : q < RxNum}
        /\ txReady' = {q \in 0..TxNum - 1 : q < TxNum}
    BY <1>1, <1>4, <1>5, <1>8
  <2>2. SetUp(RxNum, TxNum)'
    BY <2>1, ZenonT(30) DEF SetUp
  <2> QED BY <1>1, <1>3, <1>8, <2>2, CallSets, ZenonT(30) DEF DeviceInv
<1> QED BY <1>6, <1>7, <1>8, ZenonT(30)

LEMMA NextDeviceInv == DeviceInv /\ AppTypeOK /\ [Next]_vars => DeviceInv'
<1> SUFFICES ASSUME DeviceInv, AppTypeOK, [Next]_vars PROVE DeviceInv'
  BY ZenonT(30)
<1>1. CASE Elsewhere
  <2>1. \/ UNCHANGED <<pc, k>>
        \/ pc \in Early /\ pc' \in Early
        \/ pc \in AfterQueues /\ pc' \in AfterQueues
    BY <1>1, ElsewhereMoves, CallSets, ZenonT(30) DEF Early
  <2> QED BY <1>1, <2>1, ElsewhereMoves, EarlyDeviceInv, LateDeviceInv
<1>2. CASE ReadConfig \/ CreateAffinityThreads
  <2>1. pc \in Early /\ pc' \in Early
    BY <1>2, ZenonT(30) DEF ReadConfig, CreateAffinityThreads, At, Go, Early
  <2>2. working' => working
    BY <1>2, ZenonT(30) DEF ReadConfig, CreateAffinityThreads
  <2> QED BY <1>2, <2>1, <2>2, DeviceAlone, EarlyDeviceInv, ZenonT(30)
<1>3. CASE InitEal
  BY <1>3, EarlyDeviceInv, ZenonT(30) DEF InitEal, At, Go, Early
<1>4. CASE CreateMempool
  <2>1. pc = "mempool" /\ pc' = "ports" /\ UNCHANGED <<rxReady, txReady>>
    BY <1>4, ZenonT(30) DEF CreateMempool, At, Go
  <2>2. working' => working /\ poolMade'
    BY <1>4, ZenonT(30) DEF CreateMempool
  <2> QED BY <2>1, <2>2, CallSets, ZenonT(30) DEF DeviceInv
<1>5. CASE CheckPorts
  <2>1. pc = "ports" /\ pc' = "configure"
    BY <1>5, ZenonT(30) DEF CheckPorts, At, Go
  <2>2. working' => working /\ numPorts > 0
    BY <1>5, ZenonT(30) DEF CheckPorts
  <2>3. UNCHANGED <<numPorts, poolMade, rxReady, txReady>>
    BY <1>5, DeviceAlone, ZenonT(30)
  <2> QED BY <2>1, <2>2, <2>3, CallSets, ZenonT(30) DEF DeviceInv
<1>6. CASE ConfigureDev
  <2>1. /\ pc = "configure" /\ pc' = "rx" /\ k' = 0
        /\ UNCHANGED <<numPorts, poolMade, rxReady, txReady>>
    BY <1>6, ZenonT(30) DEF ConfigureDev, At, Go
  <2>2. working' => working /\ nbRx' = RxNum /\ nbTx' = RxNum
    BY <1>6, ZenonT(30) DEF ConfigureDev
  <2>3. working => rxReady = {} /\ txReady = {} /\ poolMade /\ numPorts > 0
    BY <2>1, CallSets, ZenonT(30) DEF DeviceInv
  <2>4. working' => SetUp(k, k)'
    <3>1. \A n \in Nat : {q \in 0..n - 1 : q < 0} = {}
      OBVIOUS
    <3> QED BY <2>1, <2>2, <2>3, <3>1, StartupAssumption, ZenonT(30) DEF StartupAssumption, SetUp
  <2> QED BY <2>1, <2>2, <2>3, <2>4, CallSets, ZenonT(30) DEF DeviceInv
<1>7. CASE ConfigureRxQueue
  BY <1>7, RxDeviceInv, ZenonT(30)
<1>8. CASE ConfigureTxQueue
  BY <1>8, TxDeviceInv, ZenonT(30)
<1>9. CASE DevStart \/ StartNativeStats \/ StartAll \/ StartThread
  <2>1. pc \in AfterQueues /\ pc' \in AfterQueues
    <3>1. CASE DevStart \/ StartNativeStats
      BY <3>1, CallSets, ZenonT(30) DEF DevStart, StartNativeStats, At, Go
    <3>2. CASE StartAll \/ StartThread
      BY <3>2, CallSets, ZenonT(30) DEF StartAll, StartThread, At, Go
    <3> QED BY <1>9, <3>1, <3>2, ZenonT(30)
  <2>2. working' => working
    BY <1>9, ZenonT(30) DEF DevStart, StartNativeStats, StartAll, StartThread
  <2>3. UNCHANGED <<numPorts, poolMade, nbRx, nbTx, rxReady, txReady>>
    <3>1. CASE DevStart
      BY <3>1, ZenonT(30) DEF DevStart
    <3> QED BY <1>9, <3>1, DeviceAlone, ZenonT(30)
  <2> QED BY <2>1, <2>2, <2>3, LateDeviceInv, ZenonT(30)
<1> QED BY <1>1, <1>2, <1>3, <1>4, <1>5, <1>6, <1>7, <1>8, <1>9, NextIs, ZenonT(30) DEF Call

LEMMA NextRunInv == RunInv /\ [Next]_vars => RunInv'
<1> SUFFICES ASSUME RunInv, [Next]_vars PROVE RunInv'
  BY ZenonT(30)
<1>1. CASE Elsewhere
  BY <1>1, ElsewhereMoves, CallSets DEF RunInv
<1>2. ASSUME running' = running, pc \notin {"run", "done"},
             pc' \notin {"link", "stats", "startAll", "run", "done"}
      PROVE  RunInv'
  BY <1>2, CallSets, ZenonT(30) DEF RunInv
<1>3. CASE \/ ReadConfig \/ CreateAffinityThreads \/ InitEal \/ CreateMempool
           \/ CheckPorts \/ ConfigureDev \/ ConfigureRxQueue \/ ConfigureTxQueue
  <2>1. running' = running
    <3>1. CASE CreateAffinityThreads \/ InitEal
      BY <3>1, ZenonT(30) DEF CreateAffinityThreads, InitEal
    <3> QED BY <1>3, <3>1, ThreadsAlone, ZenonT(30)
  <2>2. /\ pc \notin {"run", "done"}
        /\ pc' \notin {"link", "stats", "startAll", "run", "done"}
    <3>1. CASE ReadConfig \/ CreateAffinityThreads \/ InitEal
      BY <3>1, ZenonT(30) DEF ReadConfig, CreateAffinityThreads, InitEal, At, Go
    <3>2. CASE CreateMempool \/ CheckPorts \/ ConfigureDev
      BY <3>2, ZenonT(30) DEF CreateMempool, CheckPorts, ConfigureDev, At, Go
    <3>3. CASE ConfigureRxQueue \/ ConfigureTxQueue
      BY <3>3, ZenonT(30) DEF ConfigureRxQueue, ConfigureTxQueue, At, Go
    <3> QED BY <1>3, <3>1, <3>2, <3>3, ZenonT(30)
  <2> QED BY <1>2, <2>1, <2>2, ZenonT(30)
<1>4. CASE DevStart
  <2>1. pc = "start" /\ pc' = "link" /\ running' = running
    BY <1>4, ZenonT(30) DEF DevStart, At, Go
  <2>2. status' = "up" /\ working' => devStarted'
    BY <1>4, ZenonT(30) DEF DevStart, At
  <2> QED BY <2>1, <2>2, ZenonT(30) DEF RunInv
<1>5. CASE StartNativeStats
  <2>1. /\ pc = "stats" /\ pc' = "startAll"
        /\ UNCHANGED <<status, working, running, devStarted>>
    BY <1>5, DeviceAlone, ZenonT(30) DEF StartNativeStats, At, Go
  <2> QED BY <2>1, CallSets, ZenonT(30) DEF RunInv
<1>6. CASE StartAll
  <2>1. /\ pc = "startAll" /\ status = "up" /\ UNCHANGED <<working, running, devStarted>>
        /\ \/ working /\ pc' = "run" /\ status' = status
           \/ pc' = "done" /\ status' = "exited"
    BY <1>6, DeviceAlone, ZenonT(30) DEF StartAll, At, Go
  <2> QED BY <2>1, CallSets, ZenonT(30) DEF RunInv
<1>7. CASE StartThread
  <2>1. /\ pc = "run" /\ pc' \in {"run", "done"}
        /\ UNCHANGED <<status, working, devStarted>>
    BY <1>7, DeviceAlone, ZenonT(30) DEF StartThread, At, Go
  <2> QED BY <2>1, CallSets, ZenonT(30) DEF RunInv
<1> QED BY <1>1, <1>3, <1>4, <1>5, <1>6, <1>7, NextIs, ZenonT(30) DEF Call

LEMMA AlwaysReady == Spec => [](AppInv /\ ReadyInv)
<1>1. AppInv /\ ReadyInv /\ [Next]_vars => ReadyInv'
  BY NextThreadsInv, NextDeviceInv, NextRunInv, ZenonT(30) DEF AppInv, ReadyInv
<1> QED BY <1>1, AlwaysApp, InitReadyInv, PTL DEF Spec

(***************************************************************************)
(* A processor thread runs only if every call before startAll succeeded:   *)
(* the flag "working", looked at once, stands for a pool, a started port,  *)
(* all the queues asked for and threads on cores that are online, for any  *)
(* number of threads and queues.                                           *)
(***************************************************************************)
THEOREM ReadyBeforeRunning == Spec => []RunsOnlyWhenReady
<1>1. AppInv /\ ReadyInv => RunsOnlyWhenReady
  <2> SUFFICES ASSUME AppInv, ReadyInv, running # <<>>
               PROVE  /\ status = "up" /\ working
                      /\ poolMade /\ numPorts > 0 /\ devStarted
                      /\ rxReady = 0..RxNum - 1 /\ 0..TxNum - 1 \subseteq txReady
                      /\ \A t \in 1..Len(Threads) :
                           affThreads[t] = Threads[t] /\ Threads[t] \in cores
    BY ZenonT(30) DEF RunsOnlyWhenReady
  <2>1. pc \in {"run", "done"} /\ status = "up" /\ working /\ devStarted
    BY CallSets, ZenonT(30) DEF ReadyInv, RunInv
  <2>2. poolMade /\ numPorts > 0 /\ SetUp(RxNum, TxNum)
    BY <2>1, CallSets, ZenonT(30) DEF ReadyInv, DeviceInv
  <2>3. rxReady = 0..RxNum - 1 /\ 0..TxNum - 1 \subseteq txReady
    BY <2>2, StartupAssumption DEF StartupAssumption, SetUp
  <2>4. Placed(Len(Threads))
    BY <2>1, ZenonT(30) DEF ReadyInv, ThreadsInv, AfterThreads, Calls
  <2> QED BY <2>1, <2>2, <2>3, <2>4, ZenonT(30) DEF Placed
<1> QED BY <1>1, AlwaysReady, PTL

(***************************************************************************)
(* With at least as many transmit as receive queues asked for, DPDK is     *)
(* handed an unset pool or an unset queue only after a call that failed    *)
(* and cleared "working".  (rte_eth_dev_configure is given rx_num for both *)
(* counts: with fewer transmit queues one of them is never set up.)        *)
(***************************************************************************)
THEOREM CrashMeansFailure == TxNum >= RxNum => (Spec => []CrashOnlyAfterFailure)
<1> SUFFICES ASSUME TxNum >= RxNum PROVE Spec => []CrashOnlyAfterFailure
  BY ZenonT(30)
<1>1. Init => CrashOnlyAfterFailure
  BY ZenonT(30) DEF Init, CrashOnlyAfterFailure
<1>2. AppInv /\ ReadyInv /\ CrashOnlyAfterFailure /\ [Next]_vars => CrashOnlyAfterFailure'
  <2> SUFFICES ASSUME AppInv, ReadyInv, CrashOnlyAfterFailure, [Next]_vars,
                      status' = "crashed"
               PROVE  ~working'
    BY ZenonT(30) DEF CrashOnlyAfterFailure
  <2>1. CASE Elsewhere
    BY <2>1, ElsewhereMoves, ZenonT(30) DEF CrashOnlyAfterFailure
  <2>2. CASE ConfigureRxQueue
    <3>1. status = "up" /\ pc = "rx"
      BY <2>2, ZenonT(30) DEF ConfigureRxQueue, At
    <3>2. ~poolMade /\ working' = working
      BY <2>2, <3>1, ZenonT(30) DEF ConfigureRxQueue
    <3> QED BY <3>1, <3>2, DeviceKnown, ZenonT(30) DEF ReadyInv
  <2>3. CASE DevStart
    <3>1. status = "up" /\ pc = "start"
      BY <2>3, ZenonT(30) DEF DevStart, At
    <3>2. ~QueuesReady /\ working' = working
      BY <2>3, <3>1, ZenonT(30) DEF DevStart
    <3>3. ASSUME working PROVE QueuesReady
      <4>1. nbRx = RxNum /\ nbTx = RxNum /\ SetUp(RxNum, TxNum)
        BY <3>1, <3>3, CallSets, ZenonT(30) DEF ReadyInv, DeviceInv
      <4>2. RxNum \in Nat /\ TxNum \in Nat /\ txReady \subseteq 0..RxNum - 1
        BY StartupAssumption, ZenonT(30)
           DEF StartupAssumption, AppInv, AppTypeOK, QueueTypeOK
      <4>3. rxReady = 0..RxNum - 1 /\ txReady = 0..TxNum - 1
        BY <4>1, <4>2 DEF SetUp
      <4>4. txReady = 0..RxNum - 1
        BY <4>2, <4>3
      <4> QED BY <4>1, <4>3, <4>4, ZenonT(30) DEF QueuesReady
    <3> QED BY <3>2, <3>3, ZenonT(30)
  <2>4. CASE \/ ReadConfig \/ CreateAffinityThreads \/ InitEal \/ CreateMempool
             \/ CheckPorts \/ ConfigureDev \/ ConfigureTxQueue
             \/ StartNativeStats \/ StartAll \/ StartThread
    <3>1. status = "up"
      BY <2>4, CallRunsUp, ZenonT(30) DEF Call
    <3>2. status' \in {status, "exited", "panicked"}
      <4>1. CASE ReadConfig \/ CreateAffinityThreads \/ InitEal \/ CreateMempool
        BY <4>1, ZenonT(30) DEF ReadConfig, CreateAffinityThreads, InitEal, CreateMempool
      <4>2. CASE CheckPorts \/ ConfigureDev \/ ConfigureTxQueue
        BY <4>2, ZenonT(30) DEF CheckPorts, ConfigureDev, ConfigureTxQueue
      <4>3. CASE StartNativeStats \/ StartAll \/ StartThread
        BY <4>3, ZenonT(30) DEF StartNativeStats, StartAll, StartThread
      <4> QED BY <2>4, <4>1, <4>2, <4>3, ZenonT(30)
    <3> QED BY <3>1, <3>2, ZenonT(30)
  <2> QED BY <2>1, <2>2, <2>3, <2>4, NextIs, ZenonT(30) DEF Call
<1> QED BY <1>1, <1>2, AlwaysReady, PTL DEF Spec

=============================================================================
