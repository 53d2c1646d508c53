------------------------------ MODULE MbufLife ------------------------------
(***************************************************************************)
(* What the firewall of DpdkJava-R promises for every packet buffer,       *)
(* whatever queues, rings and lists it has: a buffer gets one frame, is    *)
(* handed to the application once, judged once by that frame, and is then  *)
(* freed or sent as the verdict says.  It returns to the pool by being     *)
(* freed, or when a later packet takes the place it was sent from.         *)
(***************************************************************************)
CONSTANTS Mbufs, FrameKinds, NoFrame

VARIABLES
  stage,   \* stage[m]: what is being done with m
  content  \* content[m]: the frame in m

vars == <<stage, content>>

\* armed: the NIC may write to m.  got: received, not yet inspected.
\* accepted, rejected: by inspect().  sent: given to the NIC.  lost: nobody
\* has a pointer to m any more.
Stages == {"pool", "armed", "got", "accepted", "rejected", "sent", "lost"}

TypeOK ==
  /\ stage \in [Mbufs -> Stages]
  /\ content \in [Mbufs -> FrameKinds \cup {NoFrame}]

Init ==
  /\ stage \in [Mbufs -> {"pool", "armed"}]
  /\ content = [m \in Mbufs |-> NoFrame]

\* A frame is never overwritten by another.
Deliver(m, k) ==
  /\ stage[m] = "armed" /\ content[m] = NoFrame
  /\ content' = [content EXCEPT ![m] = k]
  /\ UNCHANGED stage

\* A frame is received, and a free buffer takes the place of its buffer.
Receive(m, n) ==
  /\ stage[m] = "armed" /\ content[m] # NoFrame /\ stage[n] = "pool"
  /\ stage' = [stage EXCEPT ![m] = "got", ![n] = "armed"]
  /\ UNCHANGED content

Judge(m) ==
  /\ stage[m] = "got"
  /\ stage' = [stage EXCEPT ![m] = IF content[m] = "v4" THEN "accepted" ELSE "rejected"]
  /\ UNCHANGED content

Free(m) ==
  /\ stage[m] = "rejected"
  /\ stage' = [stage EXCEPT ![m] = "pool"]
  /\ content' = [content EXCEPT ![m] = NoFrame]

Send(m) ==
  /\ stage[m] = "accepted"
  /\ stage' = [stage EXCEPT ![m] = "sent"]
  /\ UNCHANGED content

SendReclaim(m, n) ==
  /\ stage[m] = "accepted" /\ stage[n] = "sent"
  /\ stage' = [stage EXCEPT ![m] = "sent", ![n] = "pool"]
  /\ content' = [content EXCEPT ![n] = NoFrame]

\* Accepted packets are given up.
Lose(S) ==
  /\ \A m \in S : stage[m] = "accepted"
  /\ stage' = [m \in Mbufs |-> IF m \in S THEN "lost" ELSE stage[m]]
  /\ UNCHANGED content

Next ==
  \/ \E m \in Mbufs : \/ Judge(m) \/ Free(m) \/ Send(m)
                      \/ \E k \in FrameKinds : Deliver(m, k)
                      \/ \E n \in Mbufs : Receive(m, n) \/ SendReclaim(m, n)
  \/ \E S \in SUBSET Mbufs : Lose(S)

Spec == Init /\ [][Next]_vars

=============================================================================
