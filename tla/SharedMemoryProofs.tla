------------------------- MODULE SharedMemoryProofs -------------------------
(***************************************************************************)
(* Bytes in shared memory, for every layout of the frames, every length of *)
(* the lists and every blacklist file: the header accessors implement      *)
(* records, the firewall's rules mean what Blacklist says, and the buffers *)
(* between C and Java implement FIFO channels.                             *)
(***************************************************************************)
EXTENDS Blacklist, PacketBuffers, TLAPS

\* A leaf names Zenon where it needs no arithmetic.
USE SMTT(30), ZenonT(30)

-----------------------------------------------------------------------------
(* The rules: readBlacklist and inspect.                                   *)

\* A line of the file as the rule it becomes.
RuleOf(l) == [i \in 1..4 |-> l[i] % 256]

\* IpToInt gives the line's numbers in a long, least significant first.
LEMMA LongOfLine ==
  ASSUME NEW l \in [1..4 -> Nat]
  PROVE  /\ IpToInt(l) = [i \in 1..8 |-> IF i <= 4 THEN l[5 - i] % 256 ELSE 0]
         /\ IpToInt(l) \in Long
         /\ \A i \in 1..4 : l[i] % 256 \in Byte
<1>1. Len(l) = 4
  OBVIOUS
<1>2. \A i \in 1..4 : l[i] % 256 \in Byte
  BY DEF Byte
<1>3. \A i \in 1..8 : (5 - i \in 1..4) <=> (i <= 4)
  OBVIOUS
<1>4. IpToInt(l) = [i \in 1..8 |-> IF i <= 4 THEN l[5 - i] % 256 ELSE 0]
  BY <1>1, <1>3 DEF IpToInt
<1>5. IpToInt(l) \in Long
  BY <1>2, <1>4 DEF Long, Byte
<1> QED  BY <1>2, <1>4, <1>5

\* intToIp undoes IpToInt.
LEMMA PrintedLine ==
  ASSUME NEW l \in [1..4 -> Nat]
  PROVE  IntToIp(IpToInt(l)) = RuleOf(l)
<1> DEFINE v == IpToInt(l)
<1>1. v[1] = l[4] % 256 /\ v[2] = l[3] % 256 /\ v[3] = l[2] % 256 /\ v[4] = l[1] % 256
  BY LongOfLine
<1> HIDE DEF v
<1>2. IntToIp(v) = <<l[1] % 256, l[2] % 256, l[3] % 256, l[4] % 256>>
  BY <1>1 DEF IntToIp
<1> QED  BY <1>2 DEF v, RuleOf

\* What the constructor has made of the lines read so far.
RulesInv == /\ file \in Seq(Lines) /\ read \in Seq(Lines)
            /\ blacklist = {IpToInt(l) : l \in Range(read)}

LEMMA ReadLines ==
  RulesInv => /\ Range(read) \subseteq [1..4 -> Nat]
              /\ blacklist \subseteq Long
              /\ Rules = {RuleOf(l) : l \in Range(read)}
<1> SUFFICES ASSUME RulesInv
             PROVE  /\ Range(read) \subseteq [1..4 -> Nat]
                    /\ blacklist \subseteq Long
                    /\ Rules = {RuleOf(l) : l \in Range(read)}
  OBVIOUS
<1>1. Range(read) \subseteq [1..4 -> Nat]
  BY BlacklistAssumption DEF BlacklistAssumption, RulesInv, Range
<1>2. \A l \in Range(read) : IpToInt(l) \in Long
  BY <1>1, LongOfLine, ZenonT(30)
<1>3. blacklist \subseteq Long
  BY <1>2, ZenonT(30) DEF RulesInv
<1> QED  BY <1>1, <1>3, ZenonT(30) DEF Rules, RuleOf

LEMMA InitRulesInv == Init => RulesInv
<1> SUFFICES ASSUME Init PROVE RulesInv
  OBVIOUS
<1>1. file \in Seq(Lines) /\ read = <<>> /\ blacklist = {}
  BY DEF Init
<1>2. Range(read) = {}
  BY <1>1 DEF Range
<1>3. read \in Seq(Lines)
  BY <1>1
<1> QED  BY <1>1, <1>2, <1>3 DEF RulesInv

\* Inspecting and accessing leave the rules alone.
LEMMA Steps ==
  ASSUME [Next]_vars
  PROVE  ReadLine \/ UNCHANGED rules
BY DEF Next, vars, Inspect

LEMMA NextRulesInv == RulesInv /\ [Next]_vars => RulesInv'
<1> SUFFICES ASSUME RulesInv, [Next]_vars PROVE RulesInv'
  OBVIOUS
<1>1. CASE ReadLine
  <2> DEFINE h == Head(file)
  <2>1. /\ file # <<>> /\ blacklist' = blacklist \cup {IpToInt(h)}
        /\ read' = Append(read, h) /\ file' = Tail(file)
    BY <1>1 DEF ReadLine
  <2>2. h \in Lines /\ file' \in Seq(Lines)
    BY <2>1 DEF RulesInv
  <2> HIDE DEF h
  <2>3. read' \in Seq(Lines)
    BY <2>1, <2>2 DEF RulesInv
  <2>4. Range(read') = Range(read) \cup {h}
    <3>1. /\ read \in Seq(Lines)
          /\ DOMAIN read = 1..Len(read) /\ DOMAIN read' = 1..Len(read) + 1
          /\ \A i \in 1..Len(read) : read'[i] = read[i]
          /\ read'[Len(read) + 1] = h
      BY <2>1, <2>2 DEF RulesInv
    <3>2. 1..Len(read) + 1 = (1..Len(read)) \cup {Len(read) + 1}
      BY <3>1
    <3> QED  BY <3>1, <3>2 DEF Range
  <2>5. blacklist' = {IpToInt(l) : l \in Range(read')}
    BY <2>1, <2>4, ZenonT(30) DEF RulesInv
  <2> QED  BY <2>2, <2>3, <2>5 DEF RulesInv
<1>2. CASE UNCHANGED rules
  BY <1>2 DEF rules, RulesInv
<1> QED  BY <1>1, <1>2, Steps

\* An address is a rule as it stands.
LEMMA RuleOfAddress ==
  ASSUME NEW l \in Ipv4Addresses
  PROVE  RuleOf(l) = l
<1>1. \A i \in 1..4 : l[i] % 256 = l[i]
  BY DEF Ipv4Addresses, Byte
<1>2. l = <<l[1], l[2], l[3], l[4]>>
  BY DEF Ipv4Addresses
<1> QED  BY <1>1, <1>2 DEF RuleOf

\* printBlacklist: every rule is printed, an address as its line has it.
LEMMA RulesPrinted == RulesInv => PrintedAsRead
<1> SUFFICES ASSUME RulesInv PROVE PrintedAsRead
  OBVIOUS
<1>1. \A l \in Range(read) : IntToIp(IpToInt(l)) = RuleOf(l)
  BY ReadLines, PrintedLine, ZenonT(30)
<1>2. blacklist = {IpToInt(l) : l \in Range(read)} /\ Rules = {RuleOf(l) : l \in Range(read)}
  BY ReadLines DEF RulesInv
<1>3. {IntToIp(v) : v \in blacklist} = Rules
  BY <1>1, <1>2, ZenonT(30)
<1>4. Range(read) \cap Ipv4Addresses \subseteq Rules
  BY <1>2, RuleOfAddress, ZenonT(30)
<1> QED  BY <1>3, <1>4, ZenonT(30) DEF PrintedAsRead

(***************************************************************************)
(* printBlacklist shows every address of blacklist.txt as it is written,   *)
(* for every file: IpToInt and intToIp lose nothing but what does not fit  *)
(* a byte.                                                                 *)
(***************************************************************************)
THEOREM RulesPrintedAsRead == Spec => []PrintedAsRead
BY InitRulesInv, NextRulesInv, RulesPrinted, PTL DEF Spec

-----------------------------------------------------------------------------
(* The layout of the headers.                                              *)

V4Fields == {"version_ihl", "type_of_service", "total_length", "packet_id",
             "fragment_offset", "time_to_live", "next_proto_id", "hdr_checksum",
             "src_addr", "dst_addr"}
V6Fields == {"vtc_flow", "payload_length", "proto", "hop_limits", "src_addr",
             "dst_addr"}

\* The bytes of field f of packet p.
Cells(p, f) == Pointer[p] + Offset(p, f)..Pointer[p] + Offset(p, f) + Width[p][f] - 1

LEMMA V4Layout ==
  /\ DOMAIN Ipv4Fields = V4Fields
  /\ \A f \in V4Fields :
       /\ Ipv4Fields[f][1] \in 0..19 /\ Ipv4Fields[f][2] \in 1..4
       /\ Ipv4Fields[f][1] + Ipv4Fields[f][2] <= 20
  /\ \A f, g \in V4Fields : f # g =>
       \/ Ipv4Fields[f][1] + Ipv4Fields[f][2] <= Ipv4Fields[g][1]
       \/ Ipv4Fields[g][1] + Ipv4Fields[g][2] <= Ipv4Fields[f][1]
BY DEF Ipv4Fields, V4Fields

LEMMA V6Layout ==
  /\ DOMAIN Ipv6Fields = V6Fields
  /\ \A f \in V6Fields :
       /\ Ipv6Fields[f][1] \in 0..39 /\ Ipv6Fields[f][2] \in 1..16
       /\ Ipv6Fields[f][1] + Ipv6Fields[f][2] <= 40
  /\ \A f, g \in V6Fields : f # g =>
       \/ Ipv6Fields[f][1] + Ipv6Fields[f][2] <= Ipv6Fields[g][1]
       \/ Ipv6Fields[g][1] + Ipv6Fields[g][2] <= Ipv6Fields[f][1]
BY DEF Ipv6Fields, V6Fields

\* The fields of a packet lie in its header and do not overlap.
LEMMA FieldLayout ==
  ASSUME NEW p \in DOMAIN Kind
  PROVE  /\ Pointer[p] \in Nat
         /\ \A f \in DOMAIN FieldsOf(p) :
              /\ Offset(p, f) \in Nat /\ Width[p][f] \in Nat \ {0}
              /\ Offset(p, f) + Width[p][f] <= (IF Kind[p] = "v4" THEN 20 ELSE 40)
         /\ \A f, g \in DOMAIN FieldsOf(p) : f # g =>
              \/ Offset(p, f) + Width[p][f] <= Offset(p, g)
              \/ Offset(p, g) + Width[p][g] <= Offset(p, f)
<1>1. Kind[p] \in {"v4", "v6"} /\ Pointer[p] \in Nat
  BY HeaderAssumption, ZenonT(30) DEF HeaderAssumption
<1>2. \A f \in DOMAIN FieldsOf(p) : Width[p][f] = FieldsOf(p)[f][2]
  BY ZenonT(30) DEF Width
<1>3. CASE Kind[p] = "v4"
  <2>1. FieldsOf(p) = Ipv4Fields
    BY <1>3 DEF FieldsOf
  <2> QED  BY <1>1, <1>2, <1>3, <2>1, V4Layout DEF Offset
<1>4. CASE Kind[p] # "v4"
  <2>1. FieldsOf(p) = Ipv6Fields
    BY <1>4 DEF FieldsOf
  <2> QED  BY <1>1, <1>2, <1>4, <2>1, V6Layout DEF Offset
<1> QED  BY <1>3, <1>4

LEMMA CellsInHeader ==
  ASSUME NEW p \in DOMAIN Kind, NEW f \in DOMAIN FieldsOf(p)
  PROVE  Cells(p, f) \subseteq Header(p) /\ Cells(p, f) \subseteq DOMAIN Memory
<1>1. Header(p) \subseteq DOMAIN Memory
  BY HeaderAssumption, ZenonT(30) DEF HeaderAssumption
<1>2. Cells(p, f) \subseteq Header(p)
  BY FieldLayout DEF Cells, Header
<1> QED  BY <1>1, <1>2

\* Two fields, of one packet or of two, have no byte in common.
LEMMA CellsDisjoint ==
  ASSUME NEW p \in DOMAIN Kind, NEW f \in DOMAIN FieldsOf(p),
         NEW q \in DOMAIN Kind, NEW g \in DOMAIN FieldsOf(q),
         p # q \/ f # g
  PROVE  Cells(p, f) \cap Cells(q, g) = {}
<1>1. CASE p # q
  <2>1. Header(p) \cap Header(q) = {}
    BY <1>1, HeaderAssumption, ZenonT(30) DEF HeaderAssumption
  <2> QED  BY <2>1, CellsInHeader, ZenonT(30)
<1>2. CASE p = q
  BY <1>2, FieldLayout DEF Cells
<1> QED  BY <1>1, <1>2

-----------------------------------------------------------------------------
(* Putting and getting bytes.                                              *)

\* A put changes the bytes it is for, and only those.
LEMMA PutThenGet ==
  ASSUME NEW D, NEW m \in [D -> Byte], NEW pos \in Nat, NEW v \in Seq(Byte),
         pos..pos + Len(v) - 1 \subseteq D
  PROVE  /\ PutUnsafe(m, pos, v) \in [D -> Byte]
         /\ GetUnsafe(PutUnsafe(m, pos, v), pos, Len(v)) = v
<1> DEFINE after == PutUnsafe(m, pos, v)
<1>1. \A a \in pos..pos + Len(v) - 1 : v[a - pos + 1] \in Byte
  OBVIOUS
<1>2. after \in [D -> Byte]
  BY <1>1 DEF PutUnsafe
<1>3. \A i \in 1..Len(v) : pos + i - 1 \in D /\ after[pos + i - 1] = v[i]
  BY DEF PutUnsafe
<1> HIDE DEF after
<1>4. GetUnsafe(after, pos, Len(v)) = v
  BY <1>3 DEF GetUnsafe
<1> QED  BY <1>2, <1>4 DEF after

LEMMA PutElsewhere ==
  ASSUME NEW D, NEW m \in [D -> Byte], NEW pos \in Nat, NEW v \in Seq(Byte),
         NEW at \in Nat, NEW k \in Nat, at..at + k - 1 \subseteq D,
         (pos..pos + Len(v) - 1) \cap (at..at + k - 1) = {}
  PROVE  GetUnsafe(PutUnsafe(m, pos, v), at, k) = GetUnsafe(m, at, k)
<1>1. \A i \in 1..k : at + i - 1 \in at..at + k - 1
  OBVIOUS
<1>2. \A i \in 1..k : at + i - 1 \in D /\ at + i - 1 \notin pos..pos + Len(v) - 1
  BY <1>1, ZenonT(30)
<1>3. \A a \in D : a \notin pos..pos + Len(v) - 1 => PutUnsafe(m, pos, v)[a] = m[a]
  BY ZenonT(30) DEF PutUnsafe
<1>4. \A i \in 1..k : PutUnsafe(m, pos, v)[at + i - 1] = m[at + i - 1]
  BY <1>2, <1>3, ZenonT(30)
<1> QED  BY <1>4, ZenonT(30) DEF GetUnsafe

LEMMA BytesSeq ==
  ASSUME NEW k \in Nat, NEW b \in [1..k -> Byte]
  PROVE  b \in Seq(Byte) /\ Len(b) = k
OBVIOUS

LEMMA GetBytes ==
  ASSUME NEW D, NEW m \in [D -> Byte], NEW at \in Nat, NEW k \in Nat,
         at..at + k - 1 \subseteq D
  PROVE  GetUnsafe(m, at, k) \in [1..k -> Byte] /\ GetUnsafe(m, at, k) \in Seq(Byte)
<1>1. \A i \in 1..k : at + i - 1 \in at..at + k - 1
  OBVIOUS
<1>2. \A i \in 1..k : m[at + i - 1] \in Byte
  BY <1>1
<1>3. GetUnsafe(m, at, k) \in [1..k -> Byte]
  BY <1>2, ZenonT(30) DEF GetUnsafe
<1> QED  BY <1>3

-----------------------------------------------------------------------------
(* The accessors.                                                          *)

Fields == [p \in DOMAIN Kind |-> [f \in DOMAIN FieldsOf(p) |->
             GetUnsafe(mem, Pointer[p] + Offset(p, f), Width[p][f])]]

LEMMA InitHeader == HeaderInit => HeaderTypeOK
BY HeaderAssumption DEF HeaderAssumption, HeaderInit, HeaderTypeOK

LEMMA InputType ==
  ASSUME NEW p \in DOMAIN Kind, NEW f \in DOMAIN Inputs[p], NEW v \in Inputs[p][f]
  PROVE  /\ f \in DOMAIN FieldsOf(p)
         /\ Truncate(v, Width[p][f]) \in Seq(Byte)
         /\ Len(Truncate(v, Width[p][f])) = Width[p][f]
<1>1. f \in DOMAIN FieldsOf(p) /\ v \in Seq(Byte) /\ Len(v) >= Width[p][f]
  BY HeaderAssumption, ZenonT(30) DEF HeaderAssumption
<1>2. Width[p][f] \in Nat \ {0}
  BY <1>1, FieldLayout
<1> QED  BY <1>1, <1>2 DEF Truncate

LEMMA SetType ==
  ASSUME HeaderTypeOK, NEW p \in DOMAIN Kind, NEW f \in DOMAIN Inputs[p],
         NEW v \in Inputs[p][f], Set(p, f, v)
  PROVE  HeaderTypeOK'
<1> DEFINE t == Truncate(v, Width[p][f])
           at == Pointer[p] + Offset(p, f)
<1>1. /\ f \in DOMAIN FieldsOf(p) /\ t \in Seq(Byte) /\ Len(t) = Width[p][f]
  BY InputType
<1>2. at \in Nat /\ Width[p][f] \in Nat
  BY <1>1, FieldLayout
<1>3. at..at + Len(t) - 1 \subseteq DOMAIN Memory
  BY <1>1, CellsInHeader DEF Cells
<1>4. mem' = PutUnsafe(mem, at, t) /\ ua' = at + Width[p][f] /\ result' = result
  BY DEF Set
<1>5. mem \in [DOMAIN Memory -> Byte] /\ result \in Seq(Byte)
  BY DEF HeaderTypeOK
<1> HIDE DEF t, at
<1>6. mem' \in [DOMAIN Memory -> Byte]
  BY <1>1, <1>2, <1>3, <1>4, <1>5, PutThenGet
<1> QED  BY <1>2, <1>4, <1>5, <1>6 DEF HeaderTypeOK

LEMMA ReadType ==
  ASSUME HeaderTypeOK, NEW p \in DOMAIN Kind, NEW f \in DOMAIN Inputs[p], Read(p, f)
  PROVE  HeaderTypeOK'
<1>1. f \in DOMAIN FieldsOf(p)
  BY HeaderAssumption, ZenonT(30) DEF HeaderAssumption
<1> DEFINE at == Pointer[p] + Offset(p, f)
<1>2. at \in Nat /\ Width[p][f] \in Nat
  BY <1>1, FieldLayout
<1>3. at..at + Width[p][f] - 1 \subseteq DOMAIN Memory
  BY <1>1, CellsInHeader DEF Cells
<1> DEFINE g == GetUnsafe(mem, at, Width[p][f])
           n == IF Width[p][f] = 16 THEN 16 ELSE 8
<1>4. result' = SignToUnsign(g, n) /\ ua' = at + Width[p][f] /\ mem' = mem
  BY DEF Read
<1>5. mem \in [DOMAIN Memory -> Byte]
  BY DEF HeaderTypeOK
<1> HIDE DEF at
<1>6. result' \in Seq(Byte)
  <2>1. g \in Seq(Byte)
    BY <1>2, <1>3, <1>5, GetBytes, ZenonT(30)
  <2>2. n \in Nat
    OBVIOUS
  <2> HIDE DEF g, n
  <2>3. \A i \in 1..n : (IF i <= Len(g) THEN g[i] ELSE 0) \in Byte
    <3>1. Len(g) \in Nat /\ \A i \in 1..Len(g) : g[i] \in Byte
      BY <2>1
    <3>2. 0 \in Byte
      BY DEF Byte
    <3> TAKE i \in 1..n
    <3>3. CASE i <= Len(g)
      BY <2>2, <3>1, <3>3
    <3> QED  BY <3>2, <3>3
  <2>4. SignToUnsign(g, n) \in [1..n -> Byte]
    BY <2>3 DEF SignToUnsign
  <2> QED  BY <1>4, <2>2, <2>4
<1> QED  BY <1>2, <1>4, <1>5, <1>6 DEF HeaderTypeOK

LEMMA NextHeader == HeaderTypeOK /\ [Next]_vars => HeaderTypeOK'
<1> SUFFICES ASSUME HeaderTypeOK, [Next]_vars PROVE HeaderTypeOK'
  OBVIOUS
<1>1. CASE UNCHANGED headerVars
  BY <1>1 DEF headerVars, HeaderTypeOK
<1>2. CASE \E p \in DOMAIN Kind : Inspect(p)
  <2>1. PICK p \in DOMAIN Kind : Inspect(p)
    BY <1>2
  <2>2. Pointer[p] \in Nat
    BY FieldLayout
  <2> QED  BY <2>1, <2>2 DEF Inspect, HeaderTypeOK
<1>3. CASE Access
  BY <1>3, SetType, ReadType, HeaderAssumption DEF Access, HeaderAssumption
<1> QED  BY <1>1, <1>2, <1>3 DEF Next, vars, ReadLine

\* A setter changes its field, to the value cut to the field's width, and no
\* other field of this or of another packet.
LEMMA SetOneField ==
  ASSUME HeaderTypeOK, NEW p \in DOMAIN Kind, NEW f \in DOMAIN Inputs[p],
         NEW v \in Inputs[p][f], Set(p, f, v)
  PROVE  Fields' = [Fields EXCEPT ![p][f] = SubSeq(v, 1, Width[p][f])]
<1> DEFINE t == Truncate(v, Width[p][f])
           at == Pointer[p] + Offset(p, f)
<1>1. /\ f \in DOMAIN FieldsOf(p) /\ t \in Seq(Byte) /\ Len(t) = Width[p][f]
      /\ t = SubSeq(v, 1, Width[p][f])
  BY InputType DEF Truncate
<1>2. at \in Nat /\ Width[p][f] \in Nat
  BY <1>1, FieldLayout
<1>3. at..at + Len(t) - 1 = Cells(p, f) /\ Cells(p, f) \subseteq DOMAIN Memory
  BY <1>1, CellsInHeader DEF Cells
<1>4. mem' = PutUnsafe(mem, at, t)
  BY DEF Set
<1>5. mem \in [DOMAIN Memory -> Byte]
  BY DEF HeaderTypeOK
<1> HIDE DEF t, at
<1>6. GetUnsafe(mem', at, Width[p][f]) = t
  <2>1. at..at + Len(t) - 1 \subseteq DOMAIN Memory
    BY <1>3, ZenonT(30)
  <2>2. t \in Seq(Byte) /\ at \in Nat
    BY <1>1, <1>2
  <2>3. GetUnsafe(PutUnsafe(mem, at, t), at, Len(t)) = t
    BY ONLY <1>5, <2>1, <2>2, PutThenGet, SMTT(30)
  <2> QED  BY <1>1, <1>4, <2>3, ZenonT(30)
<1>7. ASSUME NEW q \in DOMAIN Kind, NEW g \in DOMAIN FieldsOf(q), q # p \/ g # f
      PROVE  GetUnsafe(mem', Pointer[q] + Offset(q, g), Width[q][g])
               = GetUnsafe(mem, Pointer[q] + Offset(q, g), Width[q][g])
  <2> DEFINE to == Pointer[q] + Offset(q, g)
             k  == Width[q][g]
  <2>1. to \in Nat /\ k \in Nat
    BY FieldLayout
  <2>2. to..to + k - 1 = Cells(q, g) /\ Cells(q, g) \subseteq DOMAIN Memory
    BY CellsInHeader DEF Cells
  <2>3. Cells(p, f) \cap Cells(q, g) = {}
    BY <1>1, <1>7, CellsDisjoint
  <2> HIDE DEF to, k
  <2>4. /\ to..to + k - 1 \subseteq DOMAIN Memory
        /\ (at..at + Len(t) - 1) \cap (to..to + k - 1) = {}
    BY <1>3, <2>2, <2>3, ZenonT(30)
  <2>5. t \in Seq(Byte) /\ at \in Nat
    BY <1>1, <1>2
  <2>6. GetUnsafe(PutUnsafe(mem, at, t), to, k) = GetUnsafe(mem, to, k)
    BY ONLY <1>5, <2>1, <2>4, <2>5, PutElsewhere, SMTT(30)
  <2> QED  BY <1>4, <2>6, ZenonT(30) DEF to, k
<1>8. Fields'[p] = [Fields[p] EXCEPT ![f] = t]
  <2>1. Fields'[p] = [g \in DOMAIN FieldsOf(p) |->
                        GetUnsafe(mem', Pointer[p] + Offset(p, g), Width[p][g])]
    BY DEF Fields
  <2>2. Fields[p] = [g \in DOMAIN FieldsOf(p) |->
                        GetUnsafe(mem, Pointer[p] + Offset(p, g), Width[p][g])]
    BY DEF Fields
  <2>3. ASSUME NEW g \in DOMAIN FieldsOf(p)
        PROVE  Fields'[p][g] = IF g = f THEN t ELSE Fields[p][g]
    <3>1. /\ Fields'[p][g] = GetUnsafe(mem', Pointer[p] + Offset(p, g), Width[p][g])
          /\ Fields[p][g] = GetUnsafe(mem, Pointer[p] + Offset(p, g), Width[p][g])
      BY <2>1, <2>2, ZenonT(30)
    <3> HIDE DEF Fields
    <3>2. CASE g = f
      BY <1>6, <3>1, <3>2 DEF at
    <3>3. CASE g # f
      BY <1>7, <3>1, <3>3
    <3> QED  BY <3>2, <3>3
  <2>4. [Fields[p] EXCEPT ![f] = t]
          = [g \in DOMAIN FieldsOf(p) |-> IF g = f THEN t ELSE Fields[p][g]]
    BY <1>1, <2>2, ZenonT(30)
  <2> QED  BY <2>1, <2>3, <2>4, ZenonT(30)
<1>9. \A q \in DOMAIN Kind : q # p => Fields'[q] = Fields[q]
  BY <1>7, ZenonT(30) DEF Fields
<1>10. /\ Fields = [q \in DOMAIN Kind |-> Fields[q]]
       /\ Fields' = [q \in DOMAIN Kind |-> Fields'[q]]
  BY ZenonT(30) DEF Fields
<1> HIDE DEF Fields
<1>11. Fields' = [Fields EXCEPT ![p] = [Fields[p] EXCEPT ![f] = t]]
  BY <1>8, <1>9, <1>10, ZenonT(30)
<1> QED  BY <1>1, <1>11

LEMMA RecordStep ==
  HeaderTypeOK /\ [Next]_vars => [Record!Next]_(Record!vars)
<1> SUFFICES ASSUME HeaderTypeOK, [Next]_vars PROVE [Record!Next]_(Record!vars)
  OBVIOUS
<1>1. CASE mem' = mem /\ result' = result
  <2>1. Fields' = Fields
    BY <1>1 DEF Fields
  <2> QED  BY <1>1, <2>1 DEF Fields, Record!vars
<1>2. ASSUME NEW p \in DOMAIN Kind, NEW f \in DOMAIN Inputs[p], Read(p, f)
      PROVE  Record!Next
  <2>1. f \in DOMAIN FieldsOf(p) /\ p \in DOMAIN Inputs
    BY HeaderAssumption, ZenonT(30) DEF HeaderAssumption
  <2>2. /\ result' = SignToUnsign(Fields[p][f], IF Width[p][f] = 16 THEN 16 ELSE 8)
        /\ Fields' = Fields
    BY <1>2, <2>1 DEF Read, Fields
  <2>3. Width[p][f] \in Nat
    BY <2>1, FieldLayout
  <2>4. Len(Fields[p][f]) = Width[p][f]
    BY <2>1, <2>3 DEF Fields, GetUnsafe
  <2>5. Record!Read(p, f)
    BY <2>2, <2>4 DEF Record!Read, Fields, SignToUnsign
  <2> QED  BY <2>1, <2>5, ZenonT(30) DEF Record!Next
<1>3. ASSUME NEW p \in DOMAIN Kind, NEW f \in DOMAIN Inputs[p],
             NEW v \in Inputs[p][f], Set(p, f, v)
      PROVE  Record!Next
  <2>1. p \in DOMAIN Inputs
    BY HeaderAssumption, ZenonT(30) DEF HeaderAssumption
  <2>2. /\ Fields' = [Fields EXCEPT ![p][f] = SubSeq(v, 1, Width[p][f])]
        /\ result' = result
    BY <1>3, SetOneField DEF Set
  <2>3. Record!Set(p, f, v)
    BY <2>2 DEF Record!Set, Fields
  <2> QED  BY <2>1, <2>3, ZenonT(30) DEF Record!Next
<1>4. CASE Access
  <2>1. PICK p \in DOMAIN Kind : \E f \in DOMAIN Inputs[p] :
          \/ Read(p, f)
          \/ \E v \in Inputs[p][f] : Set(p, f, v)
    BY <1>4 DEF Access
  <2>2. PICK f \in DOMAIN Inputs[p] :
          \/ Read(p, f)
          \/ \E v \in Inputs[p][f] : Set(p, f, v)
    BY <2>1
  <2> QED  BY <1>2, <1>3, <2>2, ZenonT(30)
<1>5. CASE ReadLine \/ (\E p \in DOMAIN Kind : Inspect(p)) \/ UNCHANGED vars
  <2>1. mem' = mem /\ result' = result
    BY <1>5 DEF ReadLine, Inspect, vars, headerVars
  <2> QED  BY <1>1, <2>1
<1> QED  BY <1>4, <1>5 DEF Next

(***************************************************************************)
(* The accessors of Ipv4Packet and Ipv6Packet implement records of         *)
(* independent fields, wherever the frames lie in memory and whatever      *)
(* values the setters are given: a setter writes its field, cut to its     *)
(* width, and nothing else, and a getter returns what the field holds, as  *)
(* an unsigned number, although all of them share one cursor.              *)
(***************************************************************************)
THEOREM AccessorsImplementRecord == Spec => ImplementsRecord
<1>1. Init => HeaderTypeOK /\ result = <<>>
  BY InitHeader DEF Init, HeaderInit
<1> QED  BY <1>1, NextHeader, RecordStep, PTL DEF Spec, ImplementsRecord, Record!Spec

-----------------------------------------------------------------------------
(* What inspect decides.                                                   *)

\* The source address of packet p, its four numbers read backwards.
Backwards(p) == [i \in 1..4 |-> mem[Pointer[p] + 16 - i]]

\* inspect finds an address among the rules exactly if it is there backwards.
LEMMA AddressListed ==
  ASSUME HeaderTypeOK, RulesInv, NEW p \in DOMAIN Kind, Kind[p] = "v4"
  PROVE  GetSrcAddr(p) \in blacklist <=> Backwards(p) \in Rules
<1> DEFINE at == Pointer[p]
           addr == GetSrcAddr(p)
<1>0. at \in Nat
  BY FieldLayout
<1> HIDE DEF at
<1>1. addr = [i \in 1..8 |-> IF i <= 4 THEN mem[at + 11 + i] ELSE 0]
  <2>1. Ipv4Fields.src_addr[1] = 12
    BY DEF Ipv4Fields
  <2> DEFINE g == GetUnsafe(mem, at + 12, 4)
  <2>2. g = [i \in 1..4 |-> mem[at + 12 + i - 1]] /\ Len(g) = 4
    BY DEF GetUnsafe
  <2>3. \A i \in 1..4 : g[i] = mem[at + 11 + i]
    <3>1. \A i \in 1..4 : at + 12 + i - 1 = at + 11 + i
      BY <1>0
    <3> QED  BY <2>2, <3>1
  <2> HIDE DEF g
  <2>4. SignToUnsign(g, 8) = [i \in 1..8 |-> IF i <= 4 THEN mem[at + 11 + i] ELSE 0]
    BY <2>2, <2>3 DEF SignToUnsign
  <2> QED  BY <2>1, <2>4 DEF GetSrcAddr, g, at
<1>2. Backwards(p) = [i \in 1..4 |-> mem[at + 16 - i]]
  BY DEF Backwards, at
<1> HIDE DEF addr
<1>3. ASSUME NEW l \in [1..4 -> Nat]
      PROVE  addr = IpToInt(l) <=> Backwards(p) = RuleOf(l)
  <2>1. IpToInt(l) = [i \in 1..8 |-> IF i <= 4 THEN l[5 - i] % 256 ELSE 0]
    BY LongOfLine
  <2>2. addr = IpToInt(l) <=> \A i \in 1..4 : mem[at + 11 + i] = l[5 - i] % 256
    BY <1>1, <2>1
  <2>3. Backwards(p) = RuleOf(l) <=> \A i \in 1..4 : mem[at + 16 - i] = l[i] % 256
    BY <1>2 DEF RuleOf
  <2>4. (\A i \in 1..4 : mem[at + 11 + i] = l[5 - i] % 256)
          <=> (\A i \in 1..4 : mem[at + 16 - i] = l[i] % 256)
    <3>1. /\ at + 11 + 1 = at + 16 - 4 /\ at + 11 + 2 = at + 16 - 3
          /\ at + 11 + 3 = at + 16 - 2 /\ at + 11 + 4 = at + 16 - 1
      BY <1>0
    <3> QED  BY <3>1
  <2> QED  BY <2>2, <2>3, <2>4
<1>4. /\ blacklist = {IpToInt(l) : l \in Range(read)}
      /\ Rules = {RuleOf(l) : l \in Range(read)}
      /\ Range(read) \subseteq [1..4 -> Nat]
  BY ReadLines DEF RulesInv
<1>5. \A l \in Range(read) : addr = IpToInt(l) <=> Backwards(p) = RuleOf(l)
  BY <1>3, <1>4, ZenonT(30)
<1> QED  BY <1>4, <1>5, ZenonT(30) DEF addr

LEMMA VersionFour ==
  ASSUME HeaderTypeOK, NEW p \in DOMAIN Kind
  PROVE  WhichIP(p) = 4 <=> mem[Pointer[p]] \div 16 = 4
<1>1. Pointer[p] \in Nat
  BY FieldLayout
<1>2. GetUnsafe(mem, Pointer[p], 1)[1] = mem[Pointer[p]]
  BY <1>1 DEF GetUnsafe
<1> DEFINE ver == mem[Pointer[p]] \div 16
<1>3. WhichIP(p) = IF ver \in {4, 6} THEN ver ELSE 0
  BY <1>2, ZenonT(30) DEF WhichIP
<1> HIDE DEF ver
<1>4. WhichIP(p) = 4 <=> ver = 4
  BY <1>3
<1> QED  BY <1>4 DEF ver

\* A verdict stands until the frame may have changed, and rules are read
\* before the first one.
VerdictInv ==
  /\ verdict \in {<<>>} \cup ((DOMAIN Kind) \X {"send", "free"})
  /\ verdict # <<>> => file = <<>>
  /\ StopsReversed

LEMMA InspectVerdict ==
  ASSUME HeaderTypeOK, RulesInv, NEW p \in DOMAIN Kind, Inspect(p)
  PROVE  VerdictInv'
<1>1. /\ file = <<>> /\ Kind[p] = "v4"
      /\ verdict' = <<p, IF WhichIP(p) = 4 /\ GetSrcAddr(p) \notin blacklist
                         THEN "send" ELSE "free">>
      /\ mem' = mem /\ file' = file /\ read' = read
  BY DEF Inspect, rules
<1>2. /\ verdict' \in (DOMAIN Kind) \X {"send", "free"}
      /\ verdict'[1] = p /\ verdict' # <<>>
      /\ verdict'[2] = "send" <=> WhichIP(p) = 4 /\ GetSrcAddr(p) \notin blacklist
  BY <1>1
<1>3. Pointer[p] \in Nat
  BY FieldLayout
<1>4. Version' = mem[Pointer[p]] \div 16
  BY <1>1, <1>2, ZenonT(30) DEF Version
<1>5. Reversed' = Backwards(p)
  <2>1. Source' = [i \in 1..4 |-> mem[Pointer[p] + 11 + i]]
    BY <1>1, <1>2, ZenonT(30) DEF Source
  <2>2. \A i \in 1..4 : 5 - i \in 1..4 /\ Pointer[p] + 11 + (5 - i) = Pointer[p] + 16 - i
    BY <1>3
  <2>3. \A i \in 1..4 : Source'[5 - i] = mem[Pointer[p] + 16 - i]
    BY <2>1, <2>2
  <2>4. Reversed' = [i \in 1..4 |-> Source'[5 - i]]
    BY ZenonT(30) DEF Reversed
  <2> QED  BY <2>3, <2>4, ZenonT(30) DEF Backwards
<1>6. Rules' = Rules
  BY <1>1, ZenonT(30) DEF Rules, Range
<1>7. StopsReversed'
  BY <1>1, <1>2, <1>4, <1>5, <1>6, AddressListed, VersionFour DEF StopsReversed
<1> QED  BY <1>1, <1>2, <1>7 DEF VerdictInv

LEMMA NextVerdict == HeaderTypeOK /\ RulesInv /\ VerdictInv /\ [Next]_vars => VerdictInv'
<1> SUFFICES ASSUME HeaderTypeOK, RulesInv, VerdictInv, [Next]_vars PROVE VerdictInv'
  OBVIOUS
<1>1. CASE ReadLine
  <2>1. verdict = <<>> /\ verdict' = <<>>
    BY <1>1 DEF ReadLine, VerdictInv
  <2> QED  BY <2>1 DEF VerdictInv, StopsReversed
<1>2. ASSUME NEW p \in DOMAIN Kind, Inspect(p) PROVE VerdictInv'
  BY <1>2, InspectVerdict
<1>3. CASE verdict' = <<>>
  BY <1>3 DEF VerdictInv, StopsReversed
<1>4. CASE UNCHANGED vars
  BY <1>4 DEF vars, headerVars, rules, VerdictInv, StopsReversed, Version, Reversed,
              Source, Rules, Range
<1> QED  BY <1>1, <1>2, <1>3, <1>4 DEF Next

LEMMA AlwaysJudged == Spec => [](HeaderTypeOK /\ RulesInv /\ VerdictInv)
<1>1. Init => HeaderTypeOK /\ RulesInv /\ VerdictInv
  BY InitHeader, InitRulesInv DEF Init, VerdictInv, StopsReversed
<1> QED  BY <1>1, NextHeader, NextRulesInv, NextVerdict, PTL DEF Spec

(***************************************************************************)
(* For every file and every frame: inspect lets an IPv4 frame through      *)
(* exactly if its source address, read backwards, is not a line of         *)
(* blacklist.txt, and nothing else.                                        *)
(***************************************************************************)
THEOREM InspectStopsReversed == Spec => []StopsReversed
<1>1. VerdictInv => StopsReversed
  BY DEF VerdictInv
<1> QED  BY <1>1, AlwaysJudged, PTL

\* The cursor stays a position, memory stays bytes, and every line becomes a
\* long whose parts fit their bytes.
THEOREM BlacklistTypes == Spec => []TypeOK
<1>1. HeaderTypeOK /\ RulesInv /\ VerdictInv => TypeOK
  BY ReadLines DEF TypeOK, RulesInv, VerdictInv
<1> QED  BY <1>1, AlwaysJudged, PTL

-----------------------------------------------------------------------------
(* The buffers between C and Java.                                         *)

Bytes8 == [1..8 -> Byte]

\* The two cursors stand where the counters say, and the packet in use has
\* the pointers of one packet.
BufferInv ==
  /\ shared \in [Addresses -> Byte]
  /\ size \in 0..GetSize /\ current \in 0..size
  /\ uaList = 2 + 16 * current \/ (uaList = 0 /\ size = 0)
  /\ currentSize \in 0..SendBurst - 1
  /\ uaCreate = ListStart + 2 + 8 * currentSize
  /\ returned = <<>> \/ \E b, c \in Bytes8 : returned = <<<<b, c>>>>

Queue == [i \in 1..size - current |->
            <<Get(shared, 2 + 16 * (current + i - 1), 8),
              Get(shared, 2 + 16 * (current + i - 1) + 8, 8)>>]
Batch == [i \in 1..currentSize |-> Get(shared, ListStart + 2 + 8 * (i - 1), 8)]

\* The two insert functions and the two get functions do the same.
LEMMA SameAccess ==
  /\ \A m, pos, v : Insert(m, pos, v) = PutUnsafe(m, pos, v)
  /\ \A m, pos, k : Get(m, pos, k) = GetUnsafe(m, pos, k)
BY ZenonT(30) DEF Insert, PutUnsafe, Get, GetUnsafe

\* A count survives its two bytes.
LEMMA CountBytes ==
  ASSUME NEW k \in Nat, k < 65536
  PROVE  /\ Short(k) \in Seq(Byte) /\ Len(Short(k)) = 2
         /\ Short(k)[1] = k % 256 /\ Short(k)[2] = k \div 256
         /\ OfShort(Short(k)) = k
<1>1. k % 256 \in 0..255 /\ k = (k % 256) + 256 * (k \div 256) /\ k \div 256 \in Int
  OBVIOUS
<1>2. k \div 256 \in 0..255
  BY <1>1
<1>3. /\ Len(Short(k)) = 2 /\ Short(k)[1] = k % 256 /\ Short(k)[2] = k \div 256
      /\ Short(k) \in Seq(Byte)
  BY <1>1, <1>2 DEF Short, Byte
<1> QED  BY <1>1, <1>3 DEF OfShort

LEMMA Places ==
  /\ GetSize \in Nat /\ SendBurst \in Nat \ {0}
  /\ ListStart \in Nat /\ ListStart >= 16 * GetSize + 16
  /\ \A i \in 0..GetSize - 1 : 2 + 16 * i..2 + 16 * i + 15 \subseteq Addresses
  /\ \A i \in 0..SendBurst - 1 :
       ListStart + 2 + 8 * i..ListStart + 2 + 8 * i + 7 \subseteq Addresses
  /\ 0 \in Addresses /\ 1 \in Addresses
  /\ ListStart \in Addresses /\ ListStart + 1 \in Addresses
<1>1. /\ GetSize \in Nat /\ SendBurst \in Nat \ {0}
      /\ ListStart \in Nat /\ ListStart = 16 * GetSize + 16
  BY BufferAssumption DEF BufferAssumption, ListStart
<1>2. \A i \in 0..GetSize - 1 : 2 + 16 * i..2 + 16 * i + 15 \subseteq Addresses
  BY <1>1 DEF Addresses
<1>3. \A i \in 0..SendBurst - 1 :
        ListStart + 2 + 8 * i..ListStart + 2 + 8 * i + 7 \subseteq Addresses
  <2> HIDE DEF ListStart
  <2> QED  BY <1>1 DEF Addresses
<1> QED  BY <1>1, <1>2, <1>3 DEF Addresses

LEMMA InitBuffer == BufferInit => BufferInv
BY Places DEF BufferInit, BufferInv, Byte

\* nat_receive_burst writes each pointer where the iterator will look for it.
LEMMA StoreBytes ==
  ASSUME NEW m \in [Addresses -> Byte], NEW k \in 0..GetSize,
         NEW ps \in [1..k -> Packets]
  PROVE  /\ Store(m, ps, 2) \in [Addresses -> Byte]
         /\ \A a \in Addresses : (a < 2 \/ a >= 2 + 16 * k) => Store(m, ps, 2)[a] = m[a]
         /\ \A i \in 1..k : \A j \in 1..8 :
              /\ Store(m, ps, 2)[2 + 16 * (i - 1) + j - 1] = ps[i][1][j]
              /\ Store(m, ps, 2)[2 + 16 * (i - 1) + 8 + j - 1] = ps[i][2][j]
<1> DEFINE D(a) == a - 2
           V(a) == ps[(D(a) \div 16) + 1][IF D(a) % 16 < 8 THEN 1 ELSE 2][(D(a) % 8) + 1]
<1>0. Len(ps) = k /\ k \in Nat /\ k <= GetSize
  BY Places
<1>1. Addresses \subseteq Int
  BY DEF Addresses
<1>2. \A i \in 1..k : ps[i][1] \in Bytes8 /\ ps[i][2] \in Bytes8
  BY BufferAssumption DEF BufferAssumption, Bytes8
<1>3. Store(m, ps, 2) = [a \in Addresses |->
                           IF D(a) \in 0..16 * k - 1 THEN V(a) ELSE m[a]]
  <2>1. DOMAIN m = Addresses
    OBVIOUS
  <2> QED  BY <1>0, <2>1, ZenonT(30) DEF Store
<1>4. ASSUME NEW a \in Addresses, D(a) \in 0..16 * k - 1
      PROVE  V(a) \in Byte
  <2>1. (D(a) \div 16) + 1 \in 1..k /\ (D(a) % 8) + 1 \in 1..8
    BY <1>0, <1>1, <1>4
  <2> QED  BY <1>2, <2>1 DEF Bytes8
<1>5. Store(m, ps, 2) \in [Addresses -> Byte]
  BY <1>3, <1>4, ZenonT(30)
<1>6. ASSUME NEW a \in Addresses, a < 2 \/ a >= 2 + 16 * k
      PROVE  Store(m, ps, 2)[a] = m[a]
  <2>1. D(a) \notin 0..16 * k - 1
    BY <1>0, <1>1, <1>6
  <2> QED  BY <1>3, <2>1, ZenonT(30)
<1>7. ASSUME NEW i \in 1..k, NEW j \in 1..8
      PROVE  Store(m, ps, 2)[2 + 16 * (i - 1) + j - 1] = ps[i][1][j]
  <2> DEFINE a == 2 + 16 * (i - 1) + j - 1
  <2>1. a \in Addresses
    <3>1. GetSize \in Nat /\ SendBurst \in Nat
      BY Places
    <3> QED  BY <1>0, <3>1 DEF Addresses, ListStart
  <2>2. D(a) = 16 * (i - 1) + (j - 1)
    OBVIOUS
  <2>3. /\ D(a) \in 0..16 * k - 1 /\ (D(a) \div 16) + 1 = i
        /\ D(a) % 16 < 8 /\ (D(a) % 8) + 1 = j
    <3> HIDE DEF D, a
    <3> QED  BY <1>0, <2>2
  <2> HIDE DEF a, D
  <2> QED  BY <1>3, <2>1, <2>3 DEF a
<1>8. ASSUME NEW i \in 1..k, NEW j \in 1..8
      PROVE  Store(m, ps, 2)[2 + 16 * (i - 1) + 8 + j - 1] = ps[i][2][j]
  <2> DEFINE a == 2 + 16 * (i - 1) + 8 + j - 1
  <2>1. a \in Addresses
    <3>1. GetSize \in Nat /\ SendBurst \in Nat
      BY Places
    <3> QED  BY <1>0, <3>1 DEF Addresses, ListStart
  <2>2. D(a) = 16 * (i - 1) + (8 + j - 1)
    OBVIOUS
  <2>3. /\ D(a) \in 0..16 * k - 1 /\ (D(a) \div 16) + 1 = i
        /\ ~(D(a) % 16 < 8) /\ (D(a) % 8) + 1 = j
    <3> HIDE DEF D, a
    <3> QED  BY <1>0, <2>2
  <2> HIDE DEF a, D
  <2> QED  BY <1>3, <2>1, <2>3 DEF a
<1> QED  BY <1>5, <1>6, <1>7, <1>8, ZenonT(30)

\* A burst stored in the buffer is the iterator's queue, and the list of mbufs
\* to send stays as it is.
LEMMA ArriveStep ==
  ASSUME BufferInv, NEW k \in 0..GetSize, NEW ps \in [1..k -> Packets], GetBurst(ps)
  PROVE  BufferInv' /\ Queue = <<>> /\ Queue' = ps /\ Batch' = Batch
<1> DEFINE m == Insert(shared, 0, Short(k))
<1>1. /\ current = size /\ returned = <<>> /\ shared' = Store(m, ps, 2)
      /\ UNCHANGED <<returned, uaCreate, currentSize, sentMbufs>>
  BY DEF GetBurst
<1>2. /\ GetSize \in Nat /\ SendBurst \in Nat \ {0} /\ ListStart \in Nat
      /\ ListStart >= 16 * GetSize + 16 /\ k \in Nat /\ k <= GetSize /\ k < 65536
  BY Places, BufferAssumption DEF BufferAssumption
<1>3. shared \in [Addresses -> Byte]
  BY DEF BufferInv
<1>4. /\ m \in [Addresses -> Byte] /\ m[0] = k % 256 /\ m[1] = k \div 256
      /\ \A a \in Addresses : a >= 2 => m[a] = shared[a]
  <2>1. m = [a \in Addresses |-> IF a \in 0..1 THEN Short(k)[a + 1] ELSE shared[a]]
    <3>1. DOMAIN shared = Addresses /\ Len(Short(k)) = 2
      BY <1>2, <1>3, CountBytes
    <3>2. 0..0 + 2 - 1 = 0..1 /\ \A a \in Addresses : a - 0 + 1 = a + 1
      BY DEF Addresses
    <3> QED  BY <3>1, <3>2, ZenonT(30) DEF Insert, m
  <2>2. /\ Short(k)[1] \in Byte /\ Short(k)[2] \in Byte
        /\ Short(k)[1] = k % 256 /\ Short(k)[2] = k \div 256
    BY <1>2, CountBytes
  <2>3. \A a \in 0..1 : Short(k)[a + 1] \in Byte
    BY <2>2
  <2>4. m \in [Addresses -> Byte]
    BY <1>3, <2>1, <2>3, ZenonT(30)
  <2>5. m[0] = k % 256 /\ m[1] = k \div 256
    BY <2>1, <2>2, Places
  <2>6. \A a \in Addresses : a >= 2 => m[a] = shared[a]
    BY <2>1
  <2> QED  BY <2>4, <2>5, <2>6
<1> HIDE DEF m
<1>5. /\ shared' \in [Addresses -> Byte]
      /\ \A a \in Addresses : (a < 2 \/ a >= 2 + 16 * k) => shared'[a] = m[a]
      /\ \A i \in 1..k : \A j \in 1..8 :
           /\ shared'[2 + 16 * (i - 1) + j - 1] = ps[i][1][j]
           /\ shared'[2 + 16 * (i - 1) + 8 + j - 1] = ps[i][2][j]
  <2>1. m \in [Addresses -> Byte] /\ k \in 0..GetSize /\ ps \in [1..k -> Packets]
    BY <1>4
  <2> DEFINE stored == Store(m, ps, 2)
  <2>2. /\ stored \in [Addresses -> Byte]
        /\ \A a \in Addresses : (a < 2 \/ a >= 2 + 16 * k) => stored[a] = m[a]
        /\ \A i \in 1..k : \A j \in 1..8 :
             /\ stored[2 + 16 * (i - 1) + j - 1] = ps[i][1][j]
             /\ stored[2 + 16 * (i - 1) + 8 + j - 1] = ps[i][2][j]
    BY ONLY <2>1, StoreBytes, ZenonT(30)
  <2>3. shared' = stored
    BY <1>1
  <2> HIDE DEF stored
  <2> QED  BY ONLY <2>2, <2>3, ZenonT(30)
<1>6. OfShort(GetUnsafe(shared', 0, 2)) = k
  <2>1. shared'[0] = k % 256 /\ shared'[1] = k \div 256
    BY <1>2, <1>4, <1>5, Places
  <2>2. GetUnsafe(shared', 0, 2)[1] = shared'[0] /\ GetUnsafe(shared', 0, 2)[2] = shared'[1]
    BY DEF GetUnsafe
  <2>3. OfShort(GetUnsafe(shared', 0, 2)) = (k % 256) + 256 * (k \div 256)
    BY <2>1, <2>2 DEF OfShort
  <2> QED  BY <1>2, <2>3
<1>7. IF k > 0 THEN size' = k /\ current' = 0 /\ uaList' = 2
               ELSE UNCHANGED <<size, current, uaList>>
  BY <1>6, ZenonT(30) DEF GetBurst
<1>8. BufferInv'
  <2>1. /\ size' \in 0..GetSize /\ current' \in 0..size'
        /\ uaList' = 2 + 16 * current' \/ (uaList' = 0 /\ size' = 0)
    <3>1. CASE k > 0
      BY <1>2, <1>7, <3>1
    <3>2. CASE ~(k > 0)
      BY <1>7, <3>2 DEF BufferInv
    <3> QED  BY <3>1, <3>2
  <2>2. /\ currentSize' \in 0..SendBurst - 1
        /\ uaCreate' = ListStart + 2 + 8 * currentSize'
    BY <1>1 DEF BufferInv
  <2> QED  BY <1>1, <1>5, <2>1, <2>2 DEF BufferInv
<1>9. Queue = <<>>
  BY <1>1 DEF Queue, BufferInv
<1>10. Queue' = ps
  <2>1. CASE k = 0
    <3>1. Queue' = <<>>
      BY <1>1, <1>7, <2>1 DEF Queue, BufferInv
    <3> QED  BY <2>1, <3>1
  <2>2. CASE k > 0
    <3>1. size' = k /\ current' = 0
      BY <1>7, <2>2
    <3>2. ASSUME NEW i \in 1..k
          PROVE  /\ Get(shared', 2 + 16 * (i - 1), 8) = ps[i][1]
                 /\ Get(shared', 2 + 16 * (i - 1) + 8, 8) = ps[i][2]
      <4>1. ps[i][1] \in Bytes8 /\ ps[i][2] \in Bytes8
        BY BufferAssumption DEF BufferAssumption, Bytes8
      <4>2. \A j \in 1..8 :
              /\ shared'[2 + 16 * (i - 1) + j - 1] = ps[i][1][j]
              /\ shared'[2 + 16 * (i - 1) + 8 + j - 1] = ps[i][2][j]
        BY <1>5, ZenonT(30)
      <4>3. /\ ps[i][1] = [j \in 1..8 |-> ps[i][1][j]]
            /\ ps[i][2] = [j \in 1..8 |-> ps[i][2][j]]
        BY <4>1 DEF Bytes8
      <4> QED  BY <4>2, <4>3, ZenonT(30) DEF Get
    <3>3. \A i \in 1..k : ps[i] = <<ps[i][1], ps[i][2]>>
      BY BufferAssumption DEF BufferAssumption
    <3>4. Queue' = [i \in 1..k |-> <<Get(shared', 2 + 16 * (i - 1), 8),
                                     Get(shared', 2 + 16 * (i - 1) + 8, 8)>>]
      <4>1. k - 0 = k /\ \A i \in 1..k : 0 + i - 1 = i - 1
        BY <1>2
      <4> QED  BY <3>1, <4>1, ZenonT(30) DEF Queue
    <3> QED  BY <3>2, <3>3, <3>4, ZenonT(30)
  <2> QED  BY <1>2, <2>1, <2>2
<1>11. Batch' = Batch
  <2>1. ASSUME NEW i \in 1..currentSize
        PROVE  Get(shared', ListStart + 2 + 8 * (i - 1), 8)
                 = Get(shared, ListStart + 2 + 8 * (i - 1), 8)
    <3> DEFINE at == ListStart + 2 + 8 * (i - 1)
    <3>1. i - 1 \in 0..SendBurst - 1 /\ at \in Nat /\ at >= 2 + 16 * k
      BY <1>2 DEF BufferInv
    <3>2. at..at + 7 \subseteq Addresses
      BY <3>1, Places, ZenonT(30)
    <3> HIDE DEF at
    <3>3. \A j \in 1..8 : at + j - 1 \in Addresses /\ at + j - 1 >= 2 + 16 * k
                          /\ at + j - 1 >= 2
      BY <1>2, <3>1, <3>2
    <3>4. \A j \in 1..8 : shared'[at + j - 1] = shared[at + j - 1]
      BY <1>4, <1>5, <3>3
    <3> QED  BY <3>4, ZenonT(30) DEF Get, at
  <2> QED  BY <1>1, <2>1, ZenonT(30) DEF Batch
<1> QED  BY <1>8, <1>9, <1>10, <1>11

\* PacketIterator.next takes the head of the queue.
LEMMA TakeStep ==
  ASSUME BufferInv, NextPacket
  PROVE  /\ BufferInv' /\ Queue # <<>> /\ Batch' = Batch
         /\ returned' = <<Head(Queue)>> /\ Queue' = Tail(Queue)
<1>1. /\ current < size /\ returned = <<>> /\ uaList' = uaList + 16
      /\ returned' = <<<<GetUnsafe(shared, uaList, 8), GetUnsafe(shared, uaList + 8, 8)>>>>
      /\ current' = current + 1
      /\ UNCHANGED <<shared, size, uaCreate, currentSize, sentMbufs>>
  BY DEF NextPacket
<1>2. /\ GetSize \in Nat /\ size \in Nat /\ current \in Nat /\ size <= GetSize
      /\ uaList = 2 + 16 * current /\ shared \in [Addresses -> Byte]
  BY <1>1, Places DEF BufferInv
<1>3. 2 + 16 * current..2 + 16 * current + 15 \subseteq Addresses
  <2>1. current \in 0..GetSize - 1
    BY <1>1, <1>2
  <2> QED  BY <2>1, Places
<1>4. /\ GetUnsafe(shared, uaList, 8) \in Bytes8
      /\ GetUnsafe(shared, uaList + 8, 8) \in Bytes8
  <2>1. /\ uaList \in Nat /\ uaList + 8 \in Nat
        /\ uaList..uaList + 8 - 1 \subseteq Addresses
        /\ uaList + 8..uaList + 8 + 8 - 1 \subseteq Addresses
    BY <1>2, <1>3
  <2>2. 8 \in Nat /\ shared \in [Addresses -> Byte]
    BY <1>2
  <2> QED  BY ONLY <2>1, <2>2, GetBytes, ZenonT(30) DEF Bytes8
<1>5. BufferInv'
  <2>1. returned' = <<>> \/ \E b, c \in Bytes8 : returned' = <<<<b, c>>>>
    BY <1>1, <1>4, ZenonT(30)
  <2>2. /\ size' \in 0..GetSize /\ current' \in 0..size'
        /\ uaList' = 2 + 16 * current' \/ (uaList' = 0 /\ size' = 0)
    BY <1>1, <1>2
  <2> QED  BY <1>1, <2>1, <2>2 DEF BufferInv
<1> DEFINE P(i) == <<Get(shared, 2 + 16 * (current + i - 1), 8),
                     Get(shared, 2 + 16 * (current + i - 1) + 8, 8)>>
           len == size - current
<1>6. Queue = [i \in 1..len |-> P(i)] /\ len \in Nat \ {0}
  BY <1>1, <1>2 DEF Queue
<1>7. Queue' = [i \in 1..len - 1 |-> P(i + 1)]
  <2>1. size' - current' = len - 1
    BY <1>1, <1>2
  <2>2. \A i \in 1..len - 1 : current' + i - 1 = current + (i + 1) - 1
    BY <1>1, <1>2
  <2>3. Queue' = [i \in 1..size' - current' |->
                    <<Get(shared', 2 + 16 * (current' + i - 1), 8),
                      Get(shared', 2 + 16 * (current' + i - 1) + 8, 8)>>]
    BY DEF Queue
  <2> HIDE DEF len
  <2> QED  BY <1>1, <2>1, <2>2, <2>3, ZenonT(30)
<1>8. returned' = <<P(1)>>
  <2>1. current + 1 - 1 = current
    BY <1>2
  <2> QED  BY <1>1, <1>2, <2>1, SameAccess, ZenonT(30)
<1>9. Batch' = Batch
  BY <1>1 DEF Batch
<1> HIDE DEF P, len, Queue
<1>10. Queue' = Tail(Queue)
  BY <1>6, <1>7
<1>11. Queue # <<>> /\ Head(Queue) = P(1)
  BY <1>6
<1> QED  BY <1>5, <1>8, <1>9, <1>10, <1>11

\* PacketListCreate.add: the pointer goes behind those of the list.
LEMMA AddPointer ==
  ASSUME BufferInv, NEW b \in Bytes8
  PROVE  LET m == PutUnsafe(shared, uaCreate, b)
         IN  /\ m \in [Addresses -> Byte]
             /\ \A a \in Addresses : a < ListStart + 2 => m[a] = shared[a]
             /\ [i \in 1..currentSize + 1 |-> Get(m, ListStart + 2 + 8 * (i - 1), 8)]
                  = Append(Batch, b)
<1> DEFINE m == PutUnsafe(shared, uaCreate, b)
           L(i) == ListStart + 2 + 8 * (i - 1)
<1>1. /\ ListStart \in Nat /\ SendBurst \in Nat \ {0} /\ currentSize \in Nat
      /\ currentSize < SendBurst /\ uaCreate = ListStart + 2 + 8 * currentSize
      /\ shared \in [Addresses -> Byte] /\ Addresses \subseteq Int
  BY Places DEF BufferInv, Addresses
<1>2. b \in Seq(Byte) /\ Len(b) = 8 /\ uaCreate \in Nat
  <2>1. b \in [1..8 -> Byte]
    BY DEF Bytes8
  <2>2. 8 \in Nat
    OBVIOUS
  <2>3. b \in Seq(Byte) /\ Len(b) = 8
    BY ONLY <2>1, <2>2, BytesSeq, ZenonT(30)
  <2> QED  BY <1>1, <2>3
<1>3. uaCreate..uaCreate + Len(b) - 1 \subseteq Addresses
  <2>1. currentSize \in 0..SendBurst - 1
    BY <1>1
  <2>2. uaCreate..uaCreate + 7 \subseteq Addresses
    BY <1>1, <2>1, Places
  <2> QED  BY <1>2, <2>2
<1>4. m \in [Addresses -> Byte] /\ GetUnsafe(m, uaCreate, Len(b)) = b
  <2>1. b \in Seq(Byte) /\ uaCreate \in Nat /\ shared \in [Addresses -> Byte]
    BY <1>1, <1>2
  <2> QED  BY ONLY <1>3, <2>1, PutThenGet, SMTT(30)
<1>5. \A a \in Addresses : a < ListStart + 2 => m[a] = shared[a]
  BY <1>1, <1>2 DEF PutUnsafe
<1>6. ASSUME NEW i \in 1..currentSize
      PROVE  Get(m, L(i), 8) = Get(shared, L(i), 8)
  <2>1. L(i) \in Nat /\ L(i) + 8 <= uaCreate /\ i - 1 \in 0..SendBurst - 1
    BY <1>1
  <2>2. L(i)..L(i) + 7 \subseteq Addresses
    BY <2>1, Places, ZenonT(30)
  <2> HIDE DEF L
  <2>3. /\ 8 \in Nat /\ L(i)..L(i) + 8 - 1 \subseteq Addresses
        /\ (uaCreate..uaCreate + Len(b) - 1) \cap (L(i)..L(i) + 8 - 1) = {}
    BY <1>2, <2>1, <2>2
  <2>4. GetUnsafe(m, L(i), 8) = GetUnsafe(shared, L(i), 8)
    <3>1. b \in Seq(Byte) /\ uaCreate \in Nat /\ shared \in [Addresses -> Byte]
      BY <1>1, <1>2
    <3> DEFINE l == L(i)
    <3>2. l \in Nat
      BY <2>1
    <3>3. /\ 8 \in Nat /\ l..l + 8 - 1 \subseteq Addresses
          /\ (uaCreate..uaCreate + Len(b) - 1) \cap (l..l + 8 - 1) = {}
      BY <2>3
    <3> HIDE DEF l
    <3>4. GetUnsafe(PutUnsafe(shared, uaCreate, b), l, 8) = GetUnsafe(shared, l, 8)
      BY ONLY <3>1, <3>2, <3>3, PutElsewhere, SMTT(30)
    <3> QED  BY <3>4, ZenonT(30) DEF l, m
  <2> QED  BY <2>4, SameAccess, ZenonT(30)
<1>7. Get(m, L(currentSize + 1), 8) = b
  <2>1. L(currentSize + 1) = uaCreate
    BY <1>1
  <2> QED  BY <1>2, <1>4, <2>1, SameAccess, ZenonT(30)
<1>8. Batch = [i \in 1..currentSize |-> Get(shared, L(i), 8)]
  BY ZenonT(30) DEF Batch
<1> HIDE DEF m, L, Batch
<1>9. \A i \in 1..currentSize + 1 :
        Append(Batch, b)[i] = IF i = currentSize + 1 THEN b ELSE Get(shared, L(i), 8)
  BY <1>1, <1>8
<1>10. /\ Append(Batch, b) = [i \in 1..currentSize + 1 |-> Append(Batch, b)[i]]
       /\ \A i \in 1..currentSize + 1 : i = currentSize + 1 \/ i \in 1..currentSize
  BY <1>1, <1>8
<1>11. [i \in 1..currentSize + 1 |-> Get(m, L(i), 8)] = Append(Batch, b)
  BY <1>6, <1>7, <1>9, <1>10, ZenonT(30)
<1> QED  BY <1>4, <1>5, <1>11 DEF m, L

\* The queue is in front of the list, out of the sender's reach.
LEMMA QueueKept ==
  ASSUME BufferInv, NEW m \in [Addresses -> Byte],
         \A a \in Addresses : a < ListStart => m[a] = shared[a]
  PROVE  Queue = [i \in 1..size - current |->
                    <<Get(m, 2 + 16 * (current + i - 1), 8),
                      Get(m, 2 + 16 * (current + i - 1) + 8, 8)>>]
<1>1. ASSUME NEW i \in 1..size - current
      PROVE  /\ Get(m, 2 + 16 * (current + i - 1), 8)
                  = Get(shared, 2 + 16 * (current + i - 1), 8)
             /\ Get(m, 2 + 16 * (current + i - 1) + 8, 8)
                  = Get(shared, 2 + 16 * (current + i - 1) + 8, 8)
  <2> DEFINE at == 2 + 16 * (current + i - 1)
  <2>1. /\ GetSize \in Nat /\ size \in Nat /\ current \in Nat /\ size <= GetSize
        /\ ListStart \in Nat /\ ListStart >= 16 * GetSize + 16
    BY Places DEF BufferInv
  <2>2. at \in Nat /\ at + 16 <= ListStart /\ current + i - 1 \in 0..GetSize - 1
    BY <2>1
  <2>3. at..at + 15 \subseteq Addresses
    BY <2>2, Places
  <2> HIDE DEF at
  <2>4. \A j \in 1..8 : m[at + j - 1] = shared[at + j - 1]
    BY <2>1, <2>2, <2>3
  <2>5. \A j \in 1..8 : m[at + 8 + j - 1] = shared[at + 8 + j - 1]
    BY <2>1, <2>2, <2>3
  <2> QED  BY <2>4, <2>5, ZenonT(30) DEF Get, at
<1> QED  BY <1>1, ZenonT(30) DEF Queue

\* sendPacket appends to the batch, and a full list goes out as it is.
LEMMA AcceptStep ==
  ASSUME BufferInv, SendPacket
  PROVE  /\ BufferInv' /\ Queue' = Queue /\ returned # <<>> /\ returned' = <<>>
         /\ IF Len(Append(Batch, returned[1][1])) = SendBurst
              THEN sentMbufs' = Append(Batch, returned[1][1]) /\ Batch' = <<>>
              ELSE Batch' = Append(Batch, returned[1][1]) /\ UNCHANGED sentMbufs
<1> DEFINE b == returned[1][1]
           m == PutUnsafe(shared, uaCreate, b)
           full == PutUnsafe(m, ListStart, Short(currentSize + 1))
<1>1. /\ returned # <<>> /\ returned' = <<>>
      /\ UNCHANGED <<uaList, size, current>>
  BY DEF SendPacket
<1>2. b \in Bytes8
  BY <1>1 DEF BufferInv
<1>3. /\ m \in [Addresses -> Byte]
      /\ \A a \in Addresses : a < ListStart + 2 => m[a] = shared[a]
      /\ [i \in 1..currentSize + 1 |-> Get(m, ListStart + 2 + 8 * (i - 1), 8)]
           = Append(Batch, b)
  BY <1>2, AddPointer, ZenonT(30)
<1>4. /\ ListStart \in Nat /\ SendBurst \in Nat \ {0} /\ currentSize \in Nat
      /\ currentSize < SendBurst /\ SendBurst < 65536
      /\ Addresses \subseteq Int
  BY Places, BufferAssumption DEF BufferInv, Addresses, BufferAssumption
<1>5. Len(Append(Batch, b)) = currentSize + 1
  BY <1>4 DEF Batch
<1>6. /\ size \in 0..GetSize /\ current \in 0..size
      /\ uaList = 2 + 16 * current \/ (uaList = 0 /\ size = 0)
  BY DEF BufferInv
<1>7. CASE currentSize + 1 # SendBurst
  <2>1. /\ shared' = m /\ currentSize' = currentSize + 1 /\ uaCreate' = uaCreate + 8
        /\ UNCHANGED sentMbufs
    BY <1>7 DEF SendPacket
  <2> HIDE DEF b, m
  <2>2. Queue' = Queue
    <3>1. \A a \in Addresses : a < ListStart => m[a] = shared[a]
      BY <1>3, <1>4
    <3> QED  BY <1>1, <1>3, <2>1, <3>1, QueueKept DEF Queue
  <2>3. Batch' = Append(Batch, b)
    BY <1>3, <2>1, ZenonT(30) DEF Batch
  <2>4. currentSize' \in 0..SendBurst - 1 /\ uaCreate' = ListStart + 2 + 8 * currentSize'
    BY <1>4, <1>7, <2>1 DEF BufferInv
  <2>5. BufferInv'
    BY <1>1, <1>3, <1>6, <2>1, <2>4 DEF BufferInv
  <2> QED  BY <1>1, <1>5, <1>7, <2>1, <2>2, <2>3, <2>5 DEF b
<1>8. CASE currentSize + 1 = SendBurst
  <2>1. /\ shared' = full /\ sentMbufs' = Load(shared', ListStart)
        /\ currentSize' = 0 /\ uaCreate' = ListStart + 2
    BY <1>8 DEF SendPacket, ResetList
  <2>2. /\ Short(currentSize + 1) \in Seq(Byte) /\ Len(Short(currentSize + 1)) = 2
        /\ OfShort(Short(currentSize + 1)) = currentSize + 1
    BY <1>4, CountBytes
  <2> DEFINE sh == Short(currentSize + 1)
  <2> HIDE DEF b, m, full, sh
  <2>3. ListStart..ListStart + Len(sh) - 1 \subseteq Addresses
    <3>1. Len(sh) = 2
      BY <2>2 DEF sh
    <3>2. ListStart..ListStart + 2 - 1 \subseteq Addresses
      BY <1>4 DEF Addresses
    <3> QED  BY <3>1, <3>2, ZenonT(30)
  <2>4. /\ full \in [Addresses -> Byte]
        /\ GetUnsafe(full, ListStart, Len(sh)) = sh
    <3>1. sh \in Seq(Byte) /\ ListStart \in Nat /\ m \in [Addresses -> Byte]
      BY <1>3, <1>4, <2>2 DEF sh
    <3> QED  BY ONLY <2>3, <3>1, PutThenGet, SMTT(30) DEF full, sh
  <2>5. /\ \A a \in Addresses : a < ListStart => full[a] = shared[a]
        /\ \A a \in Addresses : a >= ListStart + 2 => full[a] = m[a]
    <3>1. full = [a \in Addresses |-> IF a \in ListStart..ListStart + 2 - 1
                                      THEN sh[a - ListStart + 1] ELSE m[a]]
      BY <1>3, <2>2, ZenonT(30) DEF full, sh, PutUnsafe
    <3> QED  BY <1>3, <1>4, <3>1
  <2>6. OfShort(Get(full, ListStart, 2)) = SendBurst
    BY <1>8, <2>2, <2>4, SameAccess, ZenonT(30) DEF sh
  <2>7. ASSUME NEW i \in 1..SendBurst
        PROVE  Get(full, ListStart + 2 + 8 * (i - 1), 8) = Get(m, ListStart + 2 + 8 * (i - 1), 8)
    <3> DEFINE at == ListStart + 2 + 8 * (i - 1)
    <3>1. at \in Nat /\ at >= ListStart + 2 /\ i - 1 \in 0..SendBurst - 1
      BY <1>4
    <3>2. at..at + 7 \subseteq Addresses
      BY <3>1, Places, ZenonT(30)
    <3> HIDE DEF at
    <3>3. \A j \in 1..8 : at + j - 1 \in Addresses /\ at + j - 1 >= ListStart + 2
      BY <1>4, <3>1, <3>2
    <3>4. \A j \in 1..8 : full[at + j - 1] = m[at + j - 1]
      BY <2>5, <3>3
    <3> QED  BY <3>4, ZenonT(30) DEF Get, at
  <2>8. sentMbufs' = Append(Batch, b)
    <3>1. sentMbufs' = [i \in 1..SendBurst |-> Get(full, ListStart + 2 + 8 * (i - 1), 8)]
      BY <2>1, <2>6, ZenonT(30) DEF Load
    <3>2. [i \in 1..SendBurst |-> Get(m, ListStart + 2 + 8 * (i - 1), 8)] = Append(Batch, b)
      BY <1>3, <1>8, ZenonT(30)
    <3> QED  BY <2>7, <3>1, <3>2, ZenonT(30)
  <2>9. Queue' = Queue
    BY <1>1, <2>1, <2>4, <2>5, QueueKept DEF Queue
  <2>10. Batch' = <<>>
    BY <2>1 DEF Batch
  <2>11. BufferInv'
    <3>1. 0 \in 0..SendBurst - 1 /\ ListStart + 2 = ListStart + 2 + 8 * 0
      BY <1>4
    <3> QED  BY <1>1, <1>6, <2>1, <2>4, <3>1 DEF BufferInv
  <2> QED  BY <1>1, <1>5, <1>8, <2>8, <2>9, <2>10, <2>11 DEF b
<1> QED  BY <1>7, <1>8

LEMMA ChannelStep ==
  BufferInv /\ [BufferNext]_bufferVars => BufferInv' /\ [Channel!Next]_(Channel!vars)
<1> SUFFICES ASSUME BufferInv, [BufferNext]_bufferVars
             PROVE  BufferInv' /\ [Channel!Next]_(Channel!vars)
  OBVIOUS
<1>1. ASSUME NEW k \in 0..GetSize, NEW ps \in [1..k -> Packets], GetBurst(ps)
      PROVE  BufferInv' /\ Channel!Next
  <2>1. BufferInv' /\ Queue = <<>> /\ Queue' = ps /\ Batch' = Batch
    BY <1>1, ArriveStep
  <2>2. returned = <<>> /\ UNCHANGED <<returned, sentMbufs>>
    BY <1>1 DEF GetBurst
  <2>3. Channel!Arrive(ps)
    BY <2>1, <2>2 DEF Channel!Arrive, Queue, Batch
  <2> QED  BY <2>1, <2>3, ZenonT(30) DEF Channel!Next
<1>2. CASE NextPacket
  <2>1. /\ BufferInv' /\ Queue # <<>> /\ Batch' = Batch
        /\ returned' = <<Head(Queue)>> /\ Queue' = Tail(Queue)
    BY <1>2, TakeStep
  <2>2. returned = <<>> /\ UNCHANGED sentMbufs
    BY <1>2 DEF NextPacket
  <2>3. Channel!Take
    BY <2>1, <2>2, ZenonT(30) DEF Channel!Take, Queue, Batch
  <2> QED  BY <2>1, <2>3, ZenonT(30) DEF Channel!Next
<1>3. CASE SendPacket
  <2>1. /\ BufferInv' /\ Queue' = Queue /\ returned # <<>> /\ returned' = <<>>
        /\ IF Len(Append(Batch, returned[1][1])) = SendBurst
             THEN sentMbufs' = Append(Batch, returned[1][1]) /\ Batch' = <<>>
             ELSE Batch' = Append(Batch, returned[1][1]) /\ UNCHANGED sentMbufs
    BY <1>3, AcceptStep
  <2>2. Channel!Accept
    BY <2>1, ZenonT(30) DEF Channel!Accept, Queue, Batch
  <2> QED  BY <2>1, <2>2, ZenonT(30) DEF Channel!Next
<1>4. CASE FreePacket
  <2>1. BufferInv' /\ Queue' = Queue /\ Batch' = Batch
    BY <1>4 DEF FreePacket, BufferInv, Queue, Batch
  <2>2. Channel!Drop
    BY <1>4, <2>1 DEF FreePacket, Channel!Drop, Queue, Batch
  <2> QED  BY <2>1, <2>2, ZenonT(30) DEF Channel!Next
<1>5. CASE UNCHANGED bufferVars
  <2>1. BufferInv' /\ Queue' = Queue /\ Batch' = Batch
    BY <1>5 DEF bufferVars, BufferInv, Queue, Batch
  <2> QED  BY <1>5, <2>1 DEF bufferVars, Channel!vars, Queue, Batch
<1> QED  BY <1>1, <1>2, <1>3, <1>4, <1>5 DEF BufferNext

(***************************************************************************)
(* The memory shared by DpdkAccess.c and the Java classes implements two   *)
(* FIFO channels, for every burst size and every value of the pointers:    *)
(* what the iterator returns is what nat_receive_burst stored, and what    *)
(* nat_send_packets sends is what sendPacket added, in order and complete, *)
(* however often the same bytes are reused.                                *)
(***************************************************************************)
THEOREM BuffersImplementChannel == BufferSpec => ImplementsChannel
<1>1. BufferInit => BufferInv /\ Channel!Init
  BY InitBuffer DEF BufferInit, Channel!Init
<1> QED  BY <1>1, ChannelStep, PTL DEF BufferSpec, ImplementsChannel, Channel!Spec

=============================================================================
