------------------------------ MODULE Blacklist ------------------------------
(***************************************************************************)
(* A firewall thread and the packets it looks at: readBlacklist turns      *)
(* every line of blacklist.txt into a number, and inspect looks the source *)
(* address of a packet in memory up among them.  Between two inspections   *)
(* any accessor of a packet may be called; a setter also stands for the    *)
(* NIC, which writes the same bytes.                                       *)
(***************************************************************************)
EXTENDS PacketHeader

CONSTANTS
  Lines,     \* possible lines of the file: sequences of four numbers
  MaxLines   \* bound on the lines of the file

ASSUME BlacklistAssumption == Lines \subseteq [1..4 -> Nat] /\ MaxLines \in Nat

VARIABLES
  file,       \* the lines not yet read
  read,       \* the lines read
  blacklist,  \* the set of longs
  verdict     \* <<packet, "send" or "free">> when the last call was inspect

rules == <<file, read, blacklist>>
vars  == <<headerVars, rules, verdict>>

Long == [1..8 -> Byte]

TypeOK ==
  /\ HeaderTypeOK
  /\ file \in Seq(Lines) /\ read \in Seq(Lines)
  /\ blacklist \subseteq Long
  /\ verdict \in {<<>>} \cup ((DOMAIN Kind) \X {"send", "free"})

Init ==
  /\ HeaderInit
  /\ file \in UNION {[1..n -> Lines] : n \in 0..MaxLines}
  /\ read = <<>> /\ blacklist = {} /\ verdict = <<>>

\* Mutant: the first part counts least.
IpToIntReversed(parts) ==
  [i \in 1..8 |-> IF i \in 1..Len(parts) THEN parts[i] % 256 ELSE 0]

\* Mutant: a part is not reduced to a byte.
IpToIntUnreduced(parts) ==
  [i \in 1..8 |-> IF 5 - i \in 1..Len(parts) THEN parts[5 - i] ELSE 0]

\* Utils.IpToInt: the first part counts 256^3, and each is reduced to a byte.
IpToInt(parts) ==
  [i \in 1..8 |-> IF 5 - i \in 1..Len(parts) THEN parts[5 - i] % 256 ELSE 0]

\* Utils.intToIp
IntToIp(value) == <<value[4], value[3], value[2], value[1]>>

\* Ipv4Packet.getSrcAddr
GetSrcAddr(p) ==
  SignToUnsign(GetUnsafe(mem, Pointer[p] + Ipv4Fields.src_addr[1], 4), 8)

\* readBlacklist, in the constructor: before any packet is looked at.
ReadLine ==
  /\ file # <<>>
  /\ blacklist' = blacklist \cup {IpToInt(Head(file))}
  /\ read' = Append(read, Head(file)) /\ file' = Tail(file)
  /\ UNCHANGED <<headerVars, verdict>>

\* Mutant: what is neither IPv4 nor IPv6 is let through.
InspectLenient(p) ==
  /\ file = <<>> /\ Kind[p] = "v4"
  /\ verdict' = <<p, IF WhichIP(p) = 6 \/ GetSrcAddr(p) \in blacklist
                     THEN "free" ELSE "send">>
  /\ ua' = Pointer[p] + 16
  /\ UNCHANGED <<mem, result, rules>>

\* The pollers hand out Ipv4Packet objects, whatever the frame is.
Inspect(p) ==
  /\ file = <<>> /\ Kind[p] = "v4"
  /\ verdict' = <<p, IF WhichIP(p) = 4 /\ GetSrcAddr(p) \notin blacklist
                     THEN "send" ELSE "free">>
  /\ ua' = Pointer[p] + (IF WhichIP(p) = 4 THEN 16 ELSE 1)
  /\ UNCHANGED <<mem, result, rules>>

Next ==
  \/ ReadLine
  \/ \E p \in DOMAIN Kind : Inspect(p)
  \/ Access /\ file = <<>> /\ verdict' = <<>> /\ UNCHANGED rules

Spec == Init /\ [][Next]_vars

-----------------------------------------------------------------------------
(* Properties.                                                             *)

Record == INSTANCE HeaderRecord WITH
  fields <- [p \in DOMAIN Kind |-> [f \in DOMAIN FieldsOf(p) |->
               GetUnsafe(mem, Pointer[p] + Offset(p, f), Width[p][f])]]

(***************************************************************************)
(* The accessors implement a record of independent fields: setting one     *)
(* changes no other field of this or of another packet, a value that does  *)
(* not fit loses its high bytes and nothing else, and a getter returns     *)
(* what was last set, as an unsigned number although it is read through a  *)
(* signed type, whatever inspect and other accessors did to the shared     *)
(* cursor in between.                                                      *)
(***************************************************************************)
ImplementsRecord == Record!Spec

\* The rules the lines read become: of each number the low byte counts, so a
\* line is a rule as it is written if it is an address.
Ipv4Addresses == [1..4 -> Byte]
Rules == {[i \in 1..4 |-> l[i] % 256] : l \in Range(read)}

(***************************************************************************)
(* printBlacklist shows every address of the file as the file has it, so   *)
(* no two addresses become one rule, and besides them only the rules of    *)
(* lines with a number above 255, each number reduced to its low byte:     *)
(* intToIp undoes IpToInt up to that reduction.                            *)
(***************************************************************************)
PrintedAsRead ==
  LET printed == {IntToIp(v) : v \in blacklist}
  IN  /\ Range(read) \cap Ipv4Addresses \subseteq printed
      /\ printed = Rules

\* The frame last inspected: its version, and its source address as the wire
\* has it, which is how blacklist.txt writes addresses.
Version == mem[Pointer[verdict[1]]] \div 16
Source  == [i \in 1..4 |-> mem[Pointer[verdict[1]] + 11 + i]]

\* The same four numbers, read backwards.
Reversed == [i \in 1..4 |-> Source[5 - i]]

(***************************************************************************)
(* What inspect decides, in terms of the file and the frame: only IPv4     *)
(* frames pass, and those are stopped whose address, with its four numbers *)
(* read backwards, is a rule: a line of the file, reduced to bytes.  For   *)
(* an address that reads the same both ways, like the 255.255.255.255 of   *)
(* the repository's file, that is the rule as written.                     *)
(***************************************************************************)
StopsReversed == verdict # <<>> =>
  (verdict[2] = "send" <=> Version = 4 /\ Reversed \notin Rules)

(***************************************************************************)
(* The source address is "checked against a set of rules"; if the checks   *)
(* do not pass, "the packet is dropped and freed from memory" (final       *)
(* report).                                                                *)
(***************************************************************************)
ListedAreDropped == verdict # <<>> /\ Source \in Range(read) => verdict[2] = "free"

=============================================================================
