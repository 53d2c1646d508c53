----------------------------- MODULE LinkStatus -----------------------------
(***************************************************************************)
(* nat_check_ports_link_status: poll the ports until all links are up or   *)
(* nine seconds have passed, then make one more pass that reports every    *)
(* port.  Links go up and down by themselves between any two polls.        *)
(***************************************************************************)
EXTENDS Integers, Sequences

CONSTANTS
  MaxPorts,      \* bound on the ports the EAL finds
  MaxCheckTime   \* MAX_CHECK_TIME: passes, one every CHECK_INTERVAL

ASSUME LinkAssumption == MaxPorts \in Nat /\ MaxCheckTime \in Nat \ {0}

VARIABLES
  numPorts,   \* num_ports, set before the call and not changed by it
  link,       \* link[p]: the link of port p is up
  stage,      \* "pass": in the loop over the ports; "end": after it; "done"
  count,      \* passes before this one
  portid,     \* next port of the pass
  allPortsUp, \* all_ports_up
  printFlag,  \* print_flag
  delays,     \* how often rte_delay_ms was called
  output,     \* the ports reported: <<port, link up>>
  seenUp      \* ports that answered "up" in the last complete checking pass

linkVars == <<link, stage, count, portid, allPortsUp, printFlag, delays, output,
              seenUp>>

Ports == 0..numPorts - 1

LinkTypeOK ==
  /\ link \in [0..MaxPorts - 1 -> BOOLEAN]
  /\ stage \in {"pass", "end", "done"}
  /\ count \in 0..MaxCheckTime /\ portid \in 0..numPorts
  /\ allPortsUp \in BOOLEAN /\ printFlag \in BOOLEAN
  /\ delays \in 0..MaxCheckTime
  /\ output \in Seq(Ports \X BOOLEAN)
  /\ seenUp \subseteq Ports

LinkInit ==
  /\ link = [p \in 0..MaxPorts - 1 |-> FALSE]
  /\ stage = "pass" /\ count = 0 /\ portid = 0
  /\ allPortsUp = TRUE /\ printFlag = FALSE
  /\ delays = 0 /\ output = <<>> /\ seenUp = {}

\* A cable is plugged or pulled.
LinkChanges(p) ==
  /\ link' = [link EXCEPT ![p] = ~@]
  /\ UNCHANGED <<stage, count, portid, allPortsUp, printFlag, delays, output, seenUp>>

\* The reporting pass: the status is read again.
Report ==
  /\ stage = "pass" /\ printFlag /\ portid < numPorts
  /\ output' = Append(output, <<portid, link[portid]>>)
  /\ portid' = portid + 1
  /\ UNCHANGED <<link, stage, count, allPortsUp, printFlag, delays, seenUp>>

\* A checking pass: the first link that is down ends it.
Check ==
  /\ stage = "pass" /\ ~printFlag /\ portid < numPorts
  /\ IF link[portid]
       THEN /\ portid' = portid + 1
            /\ seenUp' = seenUp \cup {portid}
            /\ UNCHANGED <<stage, allPortsUp>>
       ELSE /\ allPortsUp' = FALSE
            /\ stage' = "end"
            /\ UNCHANGED <<portid, seenUp>>
  /\ UNCHANGED <<link, count, printFlag, delays, output>>

PassEnds ==
  /\ stage = "pass" /\ portid = numPorts
  /\ stage' = "end"
  /\ UNCHANGED <<link, count, portid, allPortsUp, printFlag, delays, output, seenUp>>

\* Mutant: the flag is set one pass too late for the loop's bound.
NextPassLate ==
  /\ stage = "end" /\ ~printFlag
  /\ delays' = IF allPortsUp THEN delays ELSE delays + 1
  /\ printFlag' = (allPortsUp \/ count = MaxCheckTime)
  /\ count' = IF count = MaxCheckTime THEN count ELSE count + 1
  /\ stage' = IF count = MaxCheckTime THEN "done" ELSE "pass"
  /\ portid' = 0 /\ allPortsUp' = TRUE
  /\ seenUp' = IF printFlag' THEN seenUp ELSE {}
  /\ UNCHANGED <<link, output>>

\* Mutant: waits for ever for the links to come up.
NextPassPatient ==
  /\ stage = "end" /\ ~printFlag
  /\ delays' = IF allPortsUp \/ delays = MaxCheckTime THEN delays ELSE delays + 1
  /\ printFlag' = allPortsUp
  /\ count' = IF count = MaxCheckTime THEN count ELSE count + 1
  /\ stage' = "pass" /\ portid' = 0 /\ allPortsUp' = TRUE
  /\ seenUp' = IF printFlag' THEN seenUp ELSE {}
  /\ UNCHANGED <<link, output>>

\* Wait if a link is down; report in the next pass if none is, or if this
\* was the last but one.
NextPass ==
  /\ stage = "end" /\ ~printFlag
  /\ delays' = IF allPortsUp THEN delays ELSE delays + 1
  /\ printFlag' = (allPortsUp \/ count = MaxCheckTime - 1)
  /\ count' = count + 1
  /\ stage' = IF count = MaxCheckTime THEN "done" ELSE "pass"
  /\ portid' = 0 /\ allPortsUp' = TRUE
  /\ seenUp' = IF printFlag' THEN seenUp ELSE {}
  /\ UNCHANGED <<link, output>>

Return ==
  /\ stage = "end" /\ printFlag
  /\ stage' = "done"
  /\ UNCHANGED <<link, count, portid, allPortsUp, printFlag, delays, output, seenUp>>

CheckLinkStatus == Report \/ Check \/ PassEnds \/ NextPass \/ Return

-----------------------------------------------------------------------------
(* Properties.                                                             *)

(***************************************************************************)
(* "after finally printing all link status, get out" (DpdkAccess.c): the   *)
(* loop's bound and the flag set one pass before it leave room for exactly *)
(* one reporting pass, so the call returns with every port reported once,  *)
(* in order, whether the links came up, stayed down or flapped.  It        *)
(* reports early only after a pass that found every link up, each at the   *)
(* moment it was asked; otherwise it has waited MAX_CHECK_TIME times.      *)
(***************************************************************************)
EveryPortReported ==
  /\ stage = "done" => /\ Len(output) = numPorts
                       /\ \A n \in 1..numPorts : output[n][1] = n - 1
  /\ printFlag /\ delays < MaxCheckTime => seenUp = Ports

=============================================================================
