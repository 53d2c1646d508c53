------------------------------ MODULE MemPool ------------------------------
(***************************************************************************)
(* The mbuf pool as the Java threads use it.  They are not EAL threads, so *)
(* rte_mempool bypasses the per-core cache and every get and put is a bulk *)
(* operation on the pool's rte_ring, with many producers and consumers and *)
(* no lock: a compare-and-set moves the head, the objects are copied one   *)
(* by one, and the tail follows once all earlier operations are done.      *)
(* Indices are uint32_t and wrap; a slot is the index and the mask.        *)
(***************************************************************************)
EXTENDS Integers, Sequences, FiniteSets, FiniteSetsExt

CONSTANTS
  Threads,
  Objects,   \* the elements of the pool
  MaxBulk,   \* objects of one get or put
  IndexWrap  \* indices count modulo this: 2^32

AlignPow2(n) == Min({2^i : i \in 0..n} \cap {m \in 1..2 * n : m >= n})

\* rte_align32pow2(n + 1)
RingSize == AlignPow2(Cardinality(Objects) + 1)

\* rte_align32pow2 rounds up, and 2^32 is a multiple of its result.
ASSUME PoolAssumption ==
  /\ IsFiniteSet(Objects) /\ Objects # {} /\ MaxBulk \in Nat \ {0}
  /\ RingSize \in Nat /\ RingSize > Cardinality(Objects) /\ IndexWrap \in Nat
  /\ IndexWrap % RingSize = 0 /\ IndexWrap >= 2 * RingSize

VARIABLES
  ring,                \* the slots
  prodHead, prodTail,  \* r->prod.head, r->prod.tail
  consHead, consTail,  \* r->cons.head, r->cons.tail
  own,                 \* own[t]: objects thread t uses
  pc,                  \* where thread t is
  head,                \* its prod_head or cons_head
  tail,                \* its cons_tail (put)
  table,               \* its obj_table
  n,                   \* objects of its operation
  i,                   \* objects copied
  fails                \* puts that found no room

ringVars == <<ring, prodHead, prodTail, consHead, consTail>>
vars     == <<ringVars, own, pc, head, tail, table, n, i, fails>>

Slots   == 0..RingSize - 1
Indices == 0..IndexWrap - 1
Labels  == {"idle", "enqHead", "enqTail", "enqMove", "enqCopy", "enqDone",
            "deqHead", "deqTail", "deqMove", "deqCopy", "deqDone"}

TypeOK ==
  /\ ring \in [Slots -> Objects]
  /\ prodHead \in Indices /\ prodTail \in Indices
  /\ consHead \in Indices /\ consTail \in Indices
  /\ own \in [Threads -> SUBSET Objects]
  /\ pc \in [Threads -> Labels]
  /\ head \in [Threads -> Indices] /\ tail \in [Threads -> Indices]
  /\ table \in [Threads -> Seq(Objects)]
  /\ n \in [Threads -> 0..MaxBulk] /\ i \in [Threads -> 0..MaxBulk]
  /\ fails \in [Threads -> BOOLEAN]

\* The elements of S one after the other, in any order.
Orders(S) == Bijection(1..Cardinality(S), S)

\* rte_mempool_create has put every object into the ring.
Init ==
  /\ LET objects == CHOOSE f \in Orders(Objects) : TRUE
     IN  ring = [s \in Slots |-> objects[IF s < Len(objects) THEN s + 1 ELSE 1]]
  /\ prodHead = Cardinality(Objects) /\ prodTail = Cardinality(Objects)
  /\ consHead = 0 /\ consTail = 0
  /\ own = [t \in Threads |-> {}]
  /\ pc = [t \in Threads |-> "idle"]
  /\ head = [t \in Threads |-> 0] /\ tail = [t \in Threads |-> 0]
  /\ table = [t \in Threads |-> <<>>]
  /\ n = [t \in Threads |-> 0] /\ i = [t \in Threads |-> 0]
  /\ fails = [t \in Threads |-> FALSE]

Goto(t, label) == pc' = [pc EXCEPT ![t] = label]

\* The call returns; its locals are gone.
Return(t) ==
  /\ Goto(t, "idle")
  /\ head' = [head EXCEPT ![t] = 0] /\ tail' = [tail EXCEPT ![t] = 0]
  /\ table' = [table EXCEPT ![t] = <<>>]
  /\ n' = [n EXCEPT ![t] = 0] /\ i' = [i EXCEPT ![t] = 0]

Slot(index) == index % RingSize

-----------------------------------------------------------------------------
(* Put: __rte_ring_mp_do_enqueue, fixed number of objects.                 *)

Put(t, s) ==
  /\ pc[t] = "idle" /\ s # <<>> /\ Len(s) <= MaxBulk
  /\ table' = [table EXCEPT ![t] = s]
  /\ own' = [own EXCEPT ![t] = @ \ Range(s)]
  /\ n' = [n EXCEPT ![t] = Len(s)] /\ i' = [i EXCEPT ![t] = 0]
  /\ Goto(t, "enqHead")
  /\ UNCHANGED <<ringVars, head, tail, fails>>

EnqHead(t) ==
  /\ pc[t] = "enqHead"
  /\ head' = [head EXCEPT ![t] = prodHead]
  /\ Goto(t, "enqTail")
  /\ UNCHANGED <<ringVars, own, tail, table, n, i, fails>>

\* Mutant: the difference is signed.
FreeEntriesSigned(h, ct) == RingSize - 1 + ct - h

FreeEntries(h, ct) == (RingSize - 1 + ct - h) % IndexWrap

\* Reads cons.tail; without room the put returns, and its objects are lost.
EnqTail(t) ==
  /\ pc[t] = "enqTail"
  /\ IF n[t] > FreeEntries(head[t], consTail)
       THEN Return(t) /\ fails' = [fails EXCEPT ![t] = TRUE]
       ELSE /\ Goto(t, "enqMove")
            /\ tail' = [tail EXCEPT ![t] = consTail]
            /\ UNCHANGED <<head, table, n, i, fails>>
  /\ UNCHANGED <<ringVars, own>>

\* rte_atomic32_cmpset on prod.head.
EnqMove(t) ==
  /\ pc[t] = "enqMove"
  /\ IF prodHead = head[t]
       THEN prodHead' = (head[t] + n[t]) % IndexWrap /\ Goto(t, "enqCopy")
       ELSE Goto(t, "enqHead") /\ UNCHANGED prodHead
  /\ tail' = [tail EXCEPT ![t] = 0]
  /\ UNCHANGED <<ring, prodTail, consHead, consTail, own, head, table, n, i, fails>>

EnqCopy(t) ==
  /\ pc[t] = "enqCopy"
  /\ ring' = [ring EXCEPT ![Slot(head[t] + i[t])] = table[t][i[t] + 1]]
  /\ i' = [i EXCEPT ![t] = @ + 1]
  /\ Goto(t, IF i[t] + 1 = n[t] THEN "enqDone" ELSE "enqCopy")
  /\ UNCHANGED <<prodHead, prodTail, consHead, consTail, own, head, tail, table, n,
                 fails>>

\* Mutant: does not wait for the producers before it.
EnqDoneEarly(t) ==
  /\ pc[t] = "enqDone"
  /\ prodTail' = (head[t] + n[t]) % IndexWrap
  /\ Return(t)
  /\ UNCHANGED <<ring, prodHead, consHead, consTail, own, fails>>

\* Mutant: the index does not wrap.
EnqDoneUnwrapped(t) ==
  /\ pc[t] = "enqDone" /\ prodTail = head[t]
  /\ prodTail' = head[t] + n[t]
  /\ Return(t)
  /\ UNCHANGED <<ring, prodHead, consHead, consTail, own, fails>>

\* Mutant: never moves the tail.
EnqDoneStuck(t) ==
  /\ pc[t] = "enqDone" /\ prodTail = head[t]
  /\ Return(t)
  /\ UNCHANGED <<ringVars, own, fails>>

\* Earlier producers are done: the objects become visible.
EnqDone(t) ==
  /\ pc[t] = "enqDone" /\ prodTail = head[t]
  /\ prodTail' = (head[t] + n[t]) % IndexWrap
  /\ Return(t)
  /\ UNCHANGED <<ring, prodHead, consHead, consTail, own, fails>>

-----------------------------------------------------------------------------
(* Get: __rte_ring_mc_do_dequeue, fixed number of objects.                 *)

Get(t, k) ==
  /\ pc[t] = "idle"
  /\ n' = [n EXCEPT ![t] = k] /\ i' = [i EXCEPT ![t] = 0]
  /\ Goto(t, "deqHead")
  /\ UNCHANGED <<ringVars, own, head, tail, table, fails>>

DeqHead(t) ==
  /\ pc[t] = "deqHead"
  /\ head' = [head EXCEPT ![t] = consHead]
  /\ Goto(t, "deqTail")
  /\ UNCHANGED <<ringVars, own, tail, table, n, i, fails>>

Entries(pt, h) == (pt - h) % IndexWrap

\* Mutant: fails when the pool has just enough.
DeqTailStrict(t) ==
  /\ pc[t] = "deqTail"
  /\ IF n[t] >= Entries(prodTail, head[t])
       THEN Return(t)
       ELSE Goto(t, "deqMove") /\ UNCHANGED <<head, tail, table, n, i>>
  /\ UNCHANGED <<ringVars, own, fails>>

\* Reads prod.tail; with too few objects the get returns -ENOENT.
DeqTail(t) ==
  /\ pc[t] = "deqTail"
  /\ IF n[t] > Entries(prodTail, head[t])
       THEN Return(t)
       ELSE Goto(t, "deqMove") /\ UNCHANGED <<head, tail, table, n, i>>
  /\ UNCHANGED <<ringVars, own, fails>>

\* rte_atomic32_cmpset on cons.head.
DeqMove(t) ==
  /\ pc[t] = "deqMove"
  /\ IF consHead = head[t]
       THEN consHead' = (head[t] + n[t]) % IndexWrap /\ Goto(t, "deqCopy")
       ELSE Goto(t, "deqHead") /\ UNCHANGED consHead
  /\ UNCHANGED <<ring, prodHead, prodTail, consTail, own, head, tail, table, n, i,
                 fails>>

DeqCopy(t) ==
  /\ pc[t] = "deqCopy"
  /\ table' = [table EXCEPT ![t] = Append(@, ring[Slot(head[t] + i[t])])]
  /\ i' = [i EXCEPT ![t] = @ + 1]
  /\ Goto(t, IF i[t] + 1 = n[t] THEN "deqDone" ELSE "deqCopy")
  /\ UNCHANGED <<ringVars, own, head, tail, n, fails>>

DeqDone(t) ==
  /\ pc[t] = "deqDone" /\ consTail = head[t]
  /\ consTail' = (head[t] + n[t]) % IndexWrap
  /\ own' = [own EXCEPT ![t] = @ \cup Range(table[t])]
  /\ Return(t)
  /\ UNCHANGED <<ring, prodHead, prodTail, consHead, fails>>

-----------------------------------------------------------------------------
Operation(t) ==
  \/ EnqHead(t) \/ EnqTail(t) \/ EnqMove(t) \/ EnqCopy(t) \/ EnqDone(t)
  \/ DeqHead(t) \/ DeqTail(t) \/ DeqMove(t) \/ DeqCopy(t) \/ DeqDone(t)

\* Bound: no thread sleeps between reading a head and moving it while the others
\* go half way round the indices (2^31 objects).
NotLapped == \A t \in Threads :
  /\ pc[t] \in {"enqTail", "enqMove"} => Entries(prodHead, head[t]) <= IndexWrap \div 2
  /\ pc[t] \in {"deqTail", "deqMove"} => Entries(consHead, head[t]) <= IndexWrap \div 2

Next == \E t \in Threads :
  \/ Operation(t)
  \/ \E S \in SUBSET own[t] : \E s \in Orders(S) : NotLapped /\ Put(t, s)
  \/ \E k \in 1..MaxBulk : NotLapped /\ Get(t, k)

Spec == Init /\ [][Next]_vars

\* Every thread has a core to itself, or sched_yield lets the others run.
LiveSpec == Spec /\ \A t \in Threads : WF_vars(Operation(t))

-----------------------------------------------------------------------------
(* Properties.                                                             *)

\* The objects of indices from .. from + len - 1.
Content(from, len) == [j \in 1..len |-> ring[Slot(from + j - 1)]]

\* Objects between the ring and the thread: being put, or taken and not yet
\* all copied.
Moving(t) ==
  IF pc[t] \in {"deqCopy", "deqDone"}
  THEN Range(table[t]) \cup Range(Content(head[t] + i[t], n[t] - i[t]))
  ELSE Range(table[t])

Pool == INSTANCE ObjectPool WITH
  queue <- Content(consHead, Entries(prodTail, consHead)),
  held  <- [t \in Threads |-> own[t] \cup Moving(t)]

(***************************************************************************)
(* The lock-free ring implements the atomic pool: a put takes effect when  *)
(* prod.tail moves, a get when cons.head moves, and slots reserved by a    *)
(* slow thread are neither read before they are written nor overwritten    *)
(* before they are copied, even when the indices wrap.                     *)
(***************************************************************************)
ImplementsPool == Pool!Spec

(***************************************************************************)
(* "adding in mempool always success" (rte_mempool.h): put ignores the     *)
(* result of the enqueue, so a full ring would lose the objects.  The ring *)
(* always has room, also while consumers that have moved cons.head still   *)
(* hold cons.tail back.                                                    *)
(***************************************************************************)
PutNeverFails == \A t \in Threads : ~fails[t]

(***************************************************************************)
(* A get fails only if the pool really has fewer objects than it asks for  *)
(* at the moment prod.tail is read, however old its cons_head is.          *)
(***************************************************************************)
FailsOnlyIfShort == [][\A t \in Threads :
  pc[t] = "deqTail" /\ pc'[t] = "idle" =>
    n[t] > Entries(prodTail, consHead)]_vars

(***************************************************************************)
(* A thread that has copied its objects does not wait for ever for the     *)
(* operations before it.                                                   *)
(***************************************************************************)
WaitEnds == \A t \in Threads :
  pc[t] \in {"enqDone", "deqDone"} ~> pc[t] = "idle"

=============================================================================
