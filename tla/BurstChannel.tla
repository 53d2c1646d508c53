---------------------------- MODULE BurstChannel ----------------------------
(***************************************************************************)
(* What the memory shared by DpdkAccess.c and the Java classes promises:   *)
(* packets go to Java in the order DPDK delivered them, and the mbufs that *)
(* Java accepted go back in the order they were accepted, SendBurst at a   *)
(* time.                                                                   *)
(***************************************************************************)
EXTENDS Integers, Sequences

CONSTANTS
  Packets,    \* pairs <<mbuf pointer, packet pointer>>
  GetSize,    \* packets of one burst
  SendBurst

VARIABLES
  queue,  \* received, not yet given out by the iterator
  held,   \* packets given out and not yet decided: a sequence of at most one
  batch,  \* mbufs accepted, not yet sent
  wire    \* the burst last given to rte_eth_tx_burst

vars == <<queue, held, batch, wire>>

Init == queue = <<>> /\ held = <<>> /\ batch = <<>> /\ wire = <<>>

Arrive(ps) ==
  /\ queue = <<>> /\ held = <<>>
  /\ queue' = ps
  /\ UNCHANGED <<held, batch, wire>>

Take ==
  /\ queue # <<>> /\ held = <<>>
  /\ held' = <<Head(queue)>> /\ queue' = Tail(queue)
  /\ UNCHANGED <<batch, wire>>

Accept ==
  /\ held # <<>>
  /\ held' = <<>>
  /\ LET list == Append(batch, held[1][1])
     IN  IF Len(list) = SendBurst THEN wire' = list /\ batch' = <<>>
                                  ELSE batch' = list /\ UNCHANGED wire
  /\ UNCHANGED queue

Drop == held # <<>> /\ held' = <<>> /\ UNCHANGED <<queue, batch, wire>>

Next ==
  \/ \E n \in 0..GetSize : \E ps \in [1..n -> Packets] : Arrive(ps)
  \/ Take \/ Accept \/ Drop

Spec == Init /\ [][Next]_vars

=============================================================================
