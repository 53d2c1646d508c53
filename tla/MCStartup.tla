----------------------------- MODULE MCStartup ------------------------------
(***************************************************************************)
(* For TLC, a Java application from its start to its statistics.  The      *)
(* threads are those of Firewall.main with its second queue enabled:       *)
(* processors on cores 3 and 5, native statistics on core 1.               *)
(*                                                                         *)
(* Stats reads and writes nothing of Startup and begins where that ends,   *)
(* so it is followed after one start-up: of the revised framework, with    *)
(* every processor online, one port listed and all links up at once.       *)
(***************************************************************************)
EXTENDS Startup, Stats

CONSTANT pa

mcVars == <<vars, statsVars>>

FirewallThreads == <<3, 5>>

StatsFollowed ==
  /\ pc = "done" /\ status = "up"
  /\ revised /\ config = <<pa>> /\ cores = 0..5
  /\ delays = 0 /\ \A p \in Ports : link[p] /\ <<p, TRUE>> \in Range(output)

MCInit == Init /\ StatsInit

MCMain == Main /\ UNCHANGED statsVars

MCNext ==
  \/ MCMain
  \/ (Link \/ Finished) /\ UNCHANGED statsVars
  \/ StatsFollowed /\ StatsNext /\ UNCHANGED vars

MCSpec == MCInit /\ [][MCNext]_mcVars

\* The fairness of LiveSpec.
MCLiveSpec == MCSpec /\ WF_mcVars(MCMain)

=============================================================================
