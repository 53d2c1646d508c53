---------------------------- MODULE NativeStats ----------------------------
(***************************************************************************)
(* The native statistics thread: once a second do_stats asks the driver    *)
(* for the counters of port 0 and prints how much each has grown.  The     *)
(* card counts in registers that reading clears; the driver adds what it   *)
(* reads, one register after the other, to software counters that wrap     *)
(* (uint64_t), while frames keep arriving.                                 *)
(***************************************************************************)
EXTENDS Integers

CONSTANTS
  NbCounters,  \* ibytes, ipackets, imissed, ierrors, opackets
  Wrap,        \* a software counter counts modulo this: 2^64
  RegMax,      \* a register holds at most this: the card counts less between
               \* two readings
  MaxEvents    \* bound on what a counter counts altogether

ASSUME NativeAssumption ==
  /\ NbCounters \in Nat /\ RegMax \in Nat /\ MaxEvents \in Nat
  /\ Wrap \in Nat /\ RegMax < Wrap

Counters == 1..NbCounters

VARIABLES
  events,    \* what the card has counted since the start
  reg,       \* its registers
  stats,     \* the driver's software counters
  pre,       \* pre_ibytes, pre_ipackets, ...
  reported,  \* the sum of the differences printed
  statsPc,   \* "sleep", "read" counter idx, "print" counter idx
  idx

nativeVars == <<events, reg, stats, pre, reported, statsPc, idx>>

NativeTypeOK ==
  /\ events \in [Counters -> Nat]
  /\ reg \in [Counters -> 0..RegMax]
  /\ stats \in [Counters -> 0..Wrap - 1]
  /\ pre \in [Counters -> 0..Wrap - 1]
  /\ reported \in [Counters -> Nat]
  /\ statsPc \in {"sleep", "read", "print"}
  /\ idx \in 1..NbCounters + 1

NativeInit ==
  /\ events = [c \in Counters |-> 0] /\ reg = [c \in Counters |-> 0]
  /\ stats = [c \in Counters |-> 0] /\ pre = [c \in Counters |-> 0]
  /\ reported = [c \in Counters |-> 0]
  /\ statsPc = "sleep" /\ idx = 1

\* uint64_t addition and subtraction.
PlusU(x, y)  == IF x + y < Wrap THEN x + y ELSE x + y - Wrap
MinusU(x, y) == IF y <= x THEN x - y ELSE x - y + Wrap

\* The card counts something.
CardCounts(c) ==
  /\ reg[c] < RegMax /\ events[c] < MaxEvents
  /\ reg' = [reg EXCEPT ![c] = @ + 1]
  /\ events' = [events EXCEPT ![c] = @ + 1]
  /\ UNCHANGED <<stats, pre, reported, statsPc, idx>>

\* sleep(1) is over.
Wake ==
  /\ statsPc = "sleep"
  /\ statsPc' = "read" /\ idx' = 1
  /\ UNCHANGED <<events, reg, stats, pre, reported>>

\* Mutant: the software counter is overwritten.
ReadRegisterOverwrites ==
  /\ statsPc = "read" /\ idx <= NbCounters
  /\ stats' = [stats EXCEPT ![idx] = reg[idx]]
  /\ reg' = [reg EXCEPT ![idx] = 0]
  /\ idx' = idx + 1
  /\ UNCHANGED <<events, pre, reported, statsPc>>

ReadRegister ==
  /\ statsPc = "read" /\ idx <= NbCounters
  /\ stats' = [stats EXCEPT ![idx] = PlusU(@, reg[idx])]
  /\ reg' = [reg EXCEPT ![idx] = 0]
  /\ idx' = idx + 1
  /\ UNCHANGED <<events, pre, reported, statsPc>>

ReadAll ==
  /\ statsPc = "read" /\ idx > NbCounters
  /\ statsPc' = "print" /\ idx' = 1
  /\ UNCHANGED <<events, reg, stats, pre, reported>>

PrintDiff ==
  /\ statsPc = "print" /\ idx <= NbCounters
  /\ reported' = [reported EXCEPT ![idx] = @ + MinusU(stats[idx], pre[idx])]
  /\ pre' = [pre EXCEPT ![idx] = stats[idx]]
  /\ idx' = idx + 1
  /\ UNCHANGED <<events, reg, stats, statsPc>>

Sleep ==
  /\ statsPc = "print" /\ idx > NbCounters
  /\ statsPc' = "sleep" /\ idx' = 1
  /\ UNCHANGED <<events, reg, stats, pre, reported>>

Thread == Wake \/ ReadRegister \/ ReadAll \/ PrintDiff \/ Sleep

NativeNext == Thread \/ \E c \in Counters : CardCounts(c)

NativeSpec == NativeInit /\ [][NativeNext]_nativeVars

\* The thread has a core and never blocks but in sleep.
NativeLiveSpec == NativeSpec /\ WF_nativeVars(Thread)

-----------------------------------------------------------------------------
(* Properties.                                                             *)

(***************************************************************************)
(* "very accurate on-board data collection" (final report): whatever the   *)
(* card counts while the registers are being read, and however often the   *)
(* software counters wrap, each event is in exactly one printed difference *)
(* or still on its way to one.                                             *)
(***************************************************************************)
NothingMiscounted == \A c \in Counters :
  events[c] = reported[c] + MinusU(stats[c], pre[c]) + reg[c]

\* Outside a report, and for a counter not yet read or already printed, the
\* difference is zero: a difference never spans two readings.
SettledCounters == \A c \in Counters :
  \/ statsPc = "sleep"
  \/ statsPc = "read" /\ idx <= c
  \/ statsPc = "print" /\ c < idx
  => stats[c] = pre[c]

(***************************************************************************)
(* Everything the card counts is printed in the end.                       *)
(***************************************************************************)
EverythingPrinted == \A c \in Counters : \A n \in 1..MaxEvents :
  events[c] >= n ~> reported[c] >= n

=============================================================================
