----------------------------- MODULE MCDpdkJava -----------------------------
(***************************************************************************)
(* DpdkJava for TLC: one processor with a receive ring of two descriptors, *)
(* on a pool of seven mbufs: the receive ring's two, the transmit ring's   *)
(* three, one in the list and one more, the fewest with which packets are  *)
(* forwarded for ever.  The mbufs of the pool are interchangeable, so one  *)
(* of them is allocated in each state: the first one after the receive     *)
(* ring's last.                                                            *)
(*                                                                         *)
(* What makes the state space grow is dropped traffic and stale polls on   *)
(* top of seven mbufs, and neither needs that many.  Another port's queue, *)
(* on the same pool, may therefore take three of them at the start; dropped*)
(* traffic and stale polls are explored once it has, which leaves four.    *)
(***************************************************************************)
EXTENDS DpdkJava, TLC

CONSTANT q1

VARIABLE shared   \* The other port's queue has taken its mbufs.

mcVars == <<vars, shared>>

OneRing == q1 :> <<1, 2>>

Reserve == 5..7

MCInit == Init /\ shared = FALSE

OtherPort ==
  /\ ~shared /\ Reserve \subseteq pool
  /\ shared' = TRUE
  /\ pool' = pool \ Reserve
  /\ refcnt' = [m \in Mbufs |-> IF m \in Reserve THEN 1 ELSE refcnt[m]]
  /\ UNCHANGED <<frame, rxVars, txVars, appVars>>

Distance(m) == (m - rxRing[q1][2]) % Cardinality(Mbufs)

\* The steps that are explored.
Explored ==
  /\ \A m \in pool \ pool', l \in pool : Distance(m) <= Distance(l)
  /\ shared \/ /\ UNCHANGED stale
               /\ \A m \in Mbufs : frame'[m] \in Forward \cup {NoFrame}
  /\ UNCHANGED shared

\* A stale poll of the seven mbufs, which Explored leaves out.
Unexplored(q) ==
  /\ ~shared
  /\ pc[q] = "poll" /\ RxExhausted(q) /\ got[q] = <<>> /\ packets[q] # <<>>
  /\ UNCHANGED mcVars

MCProcessor(q) == Processor(q) /\ Explored

MCNext ==
  \/ \E q \in Queues : \/ MCProcessor(q)
                       \/ Nic(q) /\ Explored
                       \/ BeyondBound(q) /\ UNCHANGED shared
                       \/ Unexplored(q)
  \/ OtherPort

\* LiveSpec, of the steps that are explored.
MCLiveSpec ==
  /\ MCInit /\ [][MCNext]_mcVars
  /\ \A q \in Queues :
       /\ WF_mcVars(MCProcessor(q))
       /\ WF_mcVars(NicTransmit(q) /\ UNCHANGED <<appVars, shared>>)

=============================================================================
