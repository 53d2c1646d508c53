----------------------------- MODULE MCDpdkJavaR -----------------------------
(* DpdkJavaR for TLC.                                                      *)
EXTENDS DpdkJavaR, TLC

CONSTANTS q1, q2, m1, m2, m3, m4

\* Two processors that share the pool, and one with a ring long enough for
\* bursts of two.
TwoRings == q1 :> <<m1, m2>> @@ q2 :> <<m3, m4>>
OneRing  == q1 :> <<m1, m2, m3>>

\* Mbufs are interchangeable: the exchanges of m1 with another generate all
\* permutations.
Symmetry == {m1 :> n @@ n :> m1 @@ [k \in Mbufs |-> k] : n \in Mbufs \ {m1}}

=============================================================================
