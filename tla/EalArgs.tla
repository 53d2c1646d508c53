------------------------------ MODULE EalArgs ------------------------------
(***************************************************************************)
(* The command line that nat_init_eal builds for rte_eal_init from the     *)
(* configuration, in the first framework (DpdkJava) and in the revised one *)
(* (DpdkJava-R), and what the EAL takes from it.                           *)
(***************************************************************************)
EXTENDS Integers, Sequences, Functions

CONSTANTS
  PciPorts,   \* PCI addresses of the machine's Ethernet ports
  MaxListed   \* bound on the ports in the configuration

ASSUME EalAssumption == MaxListed \in Nat /\ PciPorts \cap STRING = {}

\* Words of the command line.  An argument never written is some leftover
\* text that is not an option.
Options == {"-c", "-n", "--file-prefix", "-m", "-b"}
Words   == Options \cup {"program", "value", "leftover"} \cup PciPorts

VARIABLES
  revised,    \* TRUE for DpdkJava-R
  config,     \* ports of the "blacklist" key, in order, no port twice
  blacklist,  \* the global of DpdkAccess.c
  argv,       \* the arguments passed: the first argc of the array
  pos,        \* the argument getopt looks at
  excluded    \* PCI addresses the EAL has put on its own blacklist

ealVars == <<revised, config, blacklist, argv, pos, excluded>>

Configs == {s \in UNION {[1..n -> PciPorts] : n \in 1..MaxListed} : IsInjective(s)}

EalTypeOK ==
  /\ revised \in BOOLEAN
  /\ config \in Configs /\ blacklist \in Configs \cup {<<>>}
  /\ argv \in Seq(Words) /\ pos \in 1..Len(argv) + 1
  /\ excluded \subseteq PciPorts

EalInit ==
  /\ revised \in BOOLEAN /\ config \in Configs
  /\ blacklist = <<>> /\ argv = <<>> /\ pos = 1 /\ excluded = {}

\* sendDPDKInformation splits the list; nat_set_blacklist keeps it.
SetBlacklist ==
  /\ blacklist' = config
  /\ UNCHANGED <<revised, config, argv, pos, excluded>>

\* -b and the port, for every blacklisted port.
BlacklistArgs ==
  [j \in 1..2 * Len(blacklist) |-> IF j % 2 = 1 THEN "-b" ELSE blacklist[j \div 2]]

\* Mutant: the flag is written for the first port only.
NatInitEalOneFlag ==
  <<"program", "-c", "value", "-n", "value", "--file-prefix", "value",
    "-m", "value">> \o (IF blacklist = <<>> THEN <<>> ELSE <<"-b">> \o blacklist)

\* DpdkJava: the arguments passed.
NatInitEal ==
  <<"program", "-c", "value", "-n", "value", "--file-prefix", "value",
    "-m", "value">> \o BlacklistArgs

\* DpdkJava-R: arguments 7 and 8 are not written, and argc is two less.
NatInitEalR ==
  LET args == <<"program", "-c", "value", "-n", "value", "--file-prefix", "value",
                "leftover", "leftover">> \o BlacklistArgs
  IN  SubSeq(args, 1, Len(args) - 2)

BuildArgs ==
  /\ argv = <<>>
  /\ argv' = IF revised THEN NatInitEalR ELSE NatInitEal
  /\ pos' = 2
  /\ UNCHANGED <<revised, config, blacklist, excluded>>

\* The EAL's getopt loop: an option takes the next word as its value.
ParseOption ==
  /\ pos < Len(argv) /\ argv[pos] \in Options
  /\ excluded' = IF argv[pos] = "-b" THEN excluded \cup {argv[pos + 1]} ELSE excluded
  /\ pos' = pos + 2
  /\ UNCHANGED <<revised, config, blacklist, argv>>

\* A word that is no option is passed over.
ParseOther ==
  /\ pos <= Len(argv) /\ argv[pos] \notin Options
  /\ pos' = pos + 1
  /\ UNCHANGED <<revised, config, blacklist, argv, excluded>>

ArgsRead == argv # <<>> /\ pos > Len(argv)

-----------------------------------------------------------------------------
(* Properties.                                                             *)

(***************************************************************************)
(* What the EAL makes of the listed ports: in the first framework it       *)
(* excludes exactly those; in the revised one, whose command line has      *)
(* unwritten words and is two words short, every listed port but the last, *)
(* and no other.                                                           *)
(***************************************************************************)
LastPortCutOff == ArgsRead =>
  excluded = Range(IF revised THEN SubSeq(config, 1, Len(config) - 1) ELSE config)

(***************************************************************************)
(* blacklist is "A list of Ethernet ports, separated by commas, which      *)
(* won't be counted as active ports on EAL initialisation" (final report,  *)
(* design): the EAL excludes every port listed.                            *)
(***************************************************************************)
ListedPortsExcluded == ArgsRead => Range(config) \subseteq excluded

=============================================================================
