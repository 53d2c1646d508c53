---------------------------- MODULE HeaderRecord ----------------------------
(***************************************************************************)
(* What the accessors of Ipv4Packet and Ipv6Packet promise: a header is a  *)
(* record of independent fields, each of its own width.                    *)
(***************************************************************************)
EXTENDS Integers, Sequences

CONSTANTS
  Width,   \* Width[p][f]: bytes of field f of packet p
  Inputs   \* Inputs[p][f]: the values given to its setter

VARIABLES
  fields,  \* fields[p][f]: the value of the field
  result   \* what the last getter returned

vars == <<fields, result>>

Set(p, f, v) ==
  /\ fields' = [fields EXCEPT ![p][f] = SubSeq(v, 1, Width[p][f])]
  /\ UNCHANGED result

\* A number is returned as an unsigned one, in the eight bytes of a long; a
\* field of sixteen bytes is returned as it is.
Read(p, f) ==
  /\ result' = [i \in 1..(IF Width[p][f] = 16 THEN 16 ELSE 8) |->
                  IF i <= Width[p][f] THEN fields[p][f][i] ELSE 0]
  /\ UNCHANGED fields

Next == \E p \in DOMAIN Inputs : \E f \in DOMAIN Inputs[p] :
  \/ Read(p, f)
  \/ \E v \in Inputs[p][f] : Set(p, f, v)

Spec == result = <<>> /\ [][Next]_vars

=============================================================================
