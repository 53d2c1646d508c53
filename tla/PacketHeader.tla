---------------------------- MODULE PacketHeader ----------------------------
(***************************************************************************)
(* The header accessors of Ipv4Packet, Ipv6Packet and Packet.  All packets *)
(* of a list share one UnsafeAccess object and its cursor; an accessor     *)
(* places the cursor on its field and puts or gets the field's bytes,      *)
(* which moves the cursor on.  A value out of the range of its field is    *)
(* reported (checkBounds prints a stack trace) and then cut to the field's *)
(* width.                                                                  *)
(***************************************************************************)
EXTENDS NativeMemory

CONSTANTS
  Pointer,  \* Pointer[p]: packet_pointer of packet p, an IPv4 or IPv6 packet
  Kind,     \* Kind[p]: "v4" or "v6", the class of its object
  Inputs,   \* Inputs[p][f]: values given to the setter of field f
  Memory    \* the bytes of the frames received

\* The offset and the width of every field.
Ipv4Fields == [
  version_ihl     |-> <<0, 1>>,  type_of_service |-> <<1, 1>>,
  total_length    |-> <<2, 2>>,  packet_id       |-> <<4, 2>>,
  fragment_offset |-> <<6, 2>>,  time_to_live    |-> <<8, 1>>,
  next_proto_id   |-> <<9, 1>>,  hdr_checksum    |-> <<10, 2>>,
  src_addr        |-> <<12, 4>>, dst_addr        |-> <<16, 4>>]

Ipv6Fields == [
  vtc_flow   |-> <<0, 4>>, payload_length |-> <<4, 2>>,
  proto      |-> <<6, 1>>, hop_limits     |-> <<7, 1>>,
  src_addr   |-> <<8, 16>>, dst_addr      |-> <<24, 16>>]

FieldsOf(p)  == IF Kind[p] = "v4" THEN Ipv4Fields ELSE Ipv6Fields
Offset(p, f) == FieldsOf(p)[f][1]
Width        == [p \in DOMAIN Kind |-> [f \in DOMAIN FieldsOf(p) |-> FieldsOf(p)[f][2]]]

\* The bytes of the header of packet p.
Header(p) == Pointer[p]..Pointer[p] + (IF Kind[p] = "v4" THEN 19 ELSE 39)

\* Every frame lies in an mbuf of its own.
ASSUME HeaderAssumption ==
  /\ Memory \in [DOMAIN Memory -> Byte]
  /\ DOMAIN Inputs = DOMAIN Kind
  /\ \A p \in DOMAIN Kind :
       /\ Kind[p] \in {"v4", "v6"}
       /\ Pointer[p] \in Nat /\ Header(p) \subseteq DOMAIN Memory
       /\ \A q \in DOMAIN Kind \ {p} : Header(p) \cap Header(q) = {}
       /\ DOMAIN Inputs[p] \subseteq DOMAIN FieldsOf(p)
       /\ \A f \in DOMAIN Inputs[p] : \A v \in Inputs[p][f] :
            v \in Seq(Byte) /\ Len(v) >= Width[p][f]

VARIABLES
  mem,
  ua,      \* the shared cursor
  result   \* what the last getter returned, an int or a long as the eight bytes
           \* of a long

headerVars == <<mem, ua, result>>

HeaderTypeOK ==
  /\ mem \in [DOMAIN Memory -> Byte]
  /\ ua \in Nat
  /\ result \in Seq(Byte)

HeaderInit == mem = Memory /\ ua = 0 /\ result = <<>>

\* A setter: setCurrentPointer, checkBounds, the put.  setSrcAddr and
\* setDstAddr of IPv6 put sixteen bytes one after the other.
Set(p, f, v) ==
  /\ mem' = PutUnsafe(mem, Pointer[p] + Offset(p, f), Truncate(v, Width[p][f]))
  /\ ua' = Pointer[p] + Offset(p, f) + Width[p][f]
  /\ UNCHANGED result

\* A getter: setCurrentPointer, the get and its signToUnsign.  getSrcAddr and
\* getDstAddr of IPv6 return an array, whose bytes are cast back.
Read(p, f) ==
  /\ result' = SignToUnsign(GetUnsafe(mem, Pointer[p] + Offset(p, f), Width[p][f]),
                            IF Width[p][f] = 16 THEN 16 ELSE 8)
  /\ ua' = Pointer[p] + Offset(p, f) + Width[p][f]
  /\ UNCHANGED mem

\* Packet.whichIP, from the first byte of the header.
WhichIP(p) ==
  LET version == GetUnsafe(mem, Pointer[p], 1)[1] \div 16
  IN  IF version \in {4, 6} THEN version ELSE 0

Access == \E p \in DOMAIN Kind : \E f \in DOMAIN Inputs[p] :
  \/ Read(p, f)
  \/ \E v \in Inputs[p][f] : Set(p, f, v)

=============================================================================
