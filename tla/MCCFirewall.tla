---------------------------- MODULE MCCFirewall -----------------------------
(* CFirewall for TLC.                                                      *)
EXTENDS CFirewall, TLC

CONSTANTS q1, q2, m1, m2, m3, m4

TwoRings == q1 :> <<m1, m2>> @@ q2 :> <<m3, m4>>

\* Mbufs are interchangeable: the exchanges of m1 with another generate all
\* permutations.
Symmetry == {m1 :> n @@ n :> m1 @@ [k \in Mbufs |-> k] : n \in Mbufs \ {m1}}

=============================================================================
