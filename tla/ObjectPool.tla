----------------------------- MODULE ObjectPool -----------------------------
(***************************************************************************)
(* What a memory pool promises to the threads that use it: objects wait in *)
(* a queue; a get takes the first n of them in one step, a put adds its    *)
(* objects at the end in one step, and no object is in two places.         *)
(***************************************************************************)
EXTENDS Integers, Sequences, FiniteSets, Functions

CONSTANTS Threads, Objects

VARIABLES
  queue,  \* the objects in the pool
  held    \* held[t]: the objects thread t has

vars == <<queue, held>>

Init ==
  /\ queue \in Bijection(1..Cardinality(Objects), Objects)
  /\ held = [t \in Threads |-> {}]

Get(t) == \E n \in 1..Len(queue) :
  /\ queue' = SubSeq(queue, n + 1, Len(queue))
  /\ held' = [held EXCEPT ![t] = @ \cup Range(SubSeq(queue, 1, n))]

Put(t) == \E S \in SUBSET held[t] : \E s \in Bijection(1..Cardinality(S), S) :
  /\ queue' = queue \o s
  /\ held' = [held EXCEPT ![t] = @ \ S]

Next == \E t \in Threads : Get(t) \/ Put(t)

Spec == Init /\ [][Next]_vars

=============================================================================
