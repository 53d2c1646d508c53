----------------------------- MODULE StatsTimer -----------------------------
(***************************************************************************)
(* The statistics of the C applications: one periodic timer of librte_timer*)
(* on the master lcore, whose callback prints the packets received since   *)
(* it last ran.  It is the program's only timer, so the pending list of    *)
(* the library holds it or is empty, and only the master touches it.       *)
(*                                                                         *)
(* Time is relative to the clock: left is the time until the timer         *)
(* expires, negative when it is overdue.                                   *)
(***************************************************************************)
EXTENDS Integers

CONSTANTS
  Period,   \* rte_get_timer_hz(): ticks between two callbacks
  MaxLag,   \* bound on the ticks that pass during one rte_timer_manage
  Modulus   \* the counters are unsigned integers modulo 2^64

ASSUME TimerAssumption ==
  /\ Period \in Nat \ {0} /\ MaxLag \in Nat
  /\ Modulus \in Nat /\ Modulus > 1

VARIABLES
  status,    \* state of the timer
  left,      \* expire less the current time
  lag,       \* current time less cur_time of the rte_timer_manage under way
  gprc,      \* the port's register of received packets, cleared by a read
  ipackets,  \* the sum of what was read from it, reported by the driver
  pre,       \* pre_ipackets
  fresh,     \* packets received since the last line printed
  printed    \* the last line printed

timerVars == <<status, left, lag>>
countVars == <<gprc, ipackets, pre, fresh, printed>>

StatsTypeOK ==
  /\ status \in {"STOP", "PENDING", "RUNNING"}
  /\ left \in -MaxLag..Period /\ lag \in 0..MaxLag
  /\ {gprc, ipackets, pre, fresh, printed} \subseteq 0..Modulus - 1

StatsInit ==
  /\ status = "STOP" /\ left = 0 /\ lag = 0
  /\ gprc = 0 /\ ipackets = 0 /\ pre = 0 /\ fresh = 0 /\ printed = 0

\* The clock.  How far the master falls behind is bounded by MaxLag.
Tick ==
  /\ \/ /\ status = "PENDING" /\ left > -MaxLag
        /\ left' = left - 1 /\ UNCHANGED lag
     \/ /\ status = "RUNNING" /\ lag < MaxLag
        /\ lag' = lag + 1 /\ UNCHANGED left
  /\ UNCHANGED <<status, countVars>>

\* The port receives a packet.  Fewer than Modulus arrive between two lines.
CountPacket ==
  /\ fresh < Modulus - 1
  /\ gprc' = gprc + 1
  /\ fresh' = fresh + 1
  /\ UNCHANGED <<timerVars, ipackets, pre, printed>>

\* timer_setup: the timer is stopped, so rte_timer_reset succeeds.
ResetTimer ==
  /\ status' = "PENDING" /\ left' = Period
  /\ UNCHANGED <<lag, countVars>>

-----------------------------------------------------------------------------
(* rte_timer_manage.                                                       *)

\* Nothing is pending, or it is not due: nothing is done.
NotExpired ==
  /\ status = "PENDING" => left > 0
  /\ UNCHANGED <<timerVars, countVars>>

\* The expired timer leaves the list and runs.
Expire ==
  /\ status = "PENDING" /\ left <= 0
  /\ status' = "RUNNING" /\ left' = 0
  /\ UNCHANGED <<lag, countVars>>

\* eth_em_stats_get: the driver adds the register to its sum.
StatsGet ==
  /\ ipackets' = (ipackets + gprc) % Modulus
  /\ gprc' = 0

\* Mutant: pre_ipackets is not brought up to date.
DoStatsAgain ==
  /\ StatsGet
  /\ printed' = (ipackets' - pre) % Modulus
  /\ fresh' = 0
  /\ UNCHANGED <<timerVars, pre>>

DoStats ==
  /\ StatsGet
  /\ printed' = (ipackets' - pre) % Modulus
  /\ pre' = ipackets'
  /\ fresh' = 0
  /\ UNCHANGED timerVars

\* Mutant: a timer whose next expiry is already past is not added again.
ReloadFuture ==
  /\ status' = IF lag < Period THEN "PENDING" ELSE "STOP"
  /\ left' = Period - lag
  /\ lag' = 0
  /\ UNCHANGED countVars

\* The callback did not touch the timer: a periodic one is added again, its
\* period counted from the time this rte_timer_manage began.
Reload ==
  /\ status' = "PENDING" /\ left' = Period - lag
  /\ lag' = 0
  /\ UNCHANGED countVars

=============================================================================
