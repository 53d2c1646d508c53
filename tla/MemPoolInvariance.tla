-------------------------- MODULE MemPoolInvariance --------------------------
(***************************************************************************)
(* The inductive invariant of the lock-free ring, for any number of        *)
(* threads, objects and objects per operation.  The indices of the ring    *)
(* wrap; RingInv says that they are the remainders of natural numbers ct,  *)
(* ch, pt, ph, and the heads the threads have read those of h[t], between  *)
(* which the order and the distances are plain arithmetic.                 *)
(***************************************************************************)
EXTENDS MemPool, FiniteSetTheorems, TLAPS

\* A leaf names Zenon where it needs no arithmetic.
USE SMTT(30), ZenonT(30)

-----------------------------------------------------------------------------
(* Arithmetic of indices that wrap.                                        *)

LEMMA DivMod ==
  ASSUME NEW w \in Nat \ {0}, NEW x \in Int
  PROVE  x % w \in 0..w - 1 /\ x \div w \in Int /\ x = w * (x \div w) + (x % w)
OBVIOUS

LEMMA NoMultiple ==
  ASSUME NEW w \in Nat \ {0}, NEW m \in Int, 0 - w < w * m, w * m < w
  PROVE  m = 0
<1>1. CASE m >= 1
  <2>1. w * (m - 1) >= 0
    BY <1>1
  <2> QED  BY <2>1
<1>2. CASE m <= -1
  <2>1. w * (-1 - m) >= 0
    BY <1>2
  <2> QED  BY <2>1
<1> QED  BY <1>1, <1>2

\* Two numbers less than a turn apart with the same remainder are equal.
LEMMA SameRemainder ==
  ASSUME NEW w \in Nat \ {0}, NEW x \in Int, NEW y \in Int,
         x % w = y % w, x - y < w, y - x < w
  PROVE  x = y
<1>1. /\ x = w * (x \div w) + (x % w) /\ y = w * (y \div w) + (y % w)
      /\ x \div w \in Int /\ y \div w \in Int
  BY DivMod, ZenonT(30)
<1> DEFINE m == (x \div w) - (y \div w)
<1>2. m \in Int /\ x - y = w * m
  BY <1>1
<1>3. m = 0
  <2> HIDE DEF m
  <2>1. 0 - w < w * m /\ w * m < w
    BY <1>2
  <2> QED  BY ONLY <1>2, <2>1, NoMultiple, w \in Nat \ {0}, ZenonT(30)
<1> QED  BY <1>1, <1>2, <1>3

LEMMA Remainder ==
  ASSUME NEW w \in Nat \ {0}, NEW q \in Int, NEW r \in Int, 0 <= r, r < w
  PROVE  (w * q + r) % w = r
<1> DEFINE x == w * q + r
           m == (x \div w) - q
<1>1. x \in Int /\ x % w \in 0..w - 1 /\ x \div w \in Int /\ x = w * (x \div w) + (x % w)
  BY DivMod
<1>2. m \in Int /\ w * m = r - (x % w)
  BY <1>1
<1>3. m = 0
  <2>1. 0 - w < w * m /\ w * m < w
    BY <1>1, <1>2
  <2> HIDE DEF m
  <2> QED  BY ONLY <1>2, <2>1, NoMultiple, w \in Nat \ {0}, ZenonT(30)
<1> QED  BY <1>1, <1>3

\* Adding a multiple of w changes no remainder.
LEMMA WholeTurns ==
  ASSUME NEW w \in Nat \ {0}, NEW x \in Int, NEW q \in Int
  PROVE  (x + w * q) % w = x % w
<1>1. /\ x % w \in Int /\ 0 <= x % w /\ x % w < w
      /\ x \div w \in Int /\ x = w * (x \div w) + (x % w)
  BY DivMod
<1>2. x + w * q = w * ((x \div w) + q) + (x % w)
  BY <1>1
<1> DEFINE p == (x \div w) + q
<1>3. p \in Int
  BY <1>1
<1> HIDE DEF p
<1>4. (w * p + (x % w)) % w = x % w
  BY ONLY <1>1, <1>3, Remainder, w \in Nat \ {0}, ZenonT(30)
<1> QED  BY <1>2, <1>4, ZenonT(30) DEF p

-----------------------------------------------------------------------------
(* The same for the indices of the ring.                                   *)

LEMMA Sizes ==
  /\ RingSize \in Nat \ {0} /\ IndexWrap \in Nat \ {0} /\ IndexWrap >= 2 * RingSize
  /\ Cardinality(Objects) \in Nat /\ RingSize > Cardinality(Objects)
  /\ IndexWrap \div RingSize \in Int
  /\ IndexWrap = RingSize * (IndexWrap \div RingSize)
<1>1. Cardinality(Objects) \in Nat
  BY PoolAssumption, FS_CardinalityType, ZenonT(30) DEF PoolAssumption
<1>2. /\ RingSize \in Nat \ {0} /\ IndexWrap \in Nat \ {0} /\ IndexWrap >= 2 * RingSize
      /\ RingSize > Cardinality(Objects) /\ IndexWrap % RingSize = 0
  BY <1>1, PoolAssumption DEF PoolAssumption
<1>3. IndexWrap \div RingSize \in Int
      /\ IndexWrap = RingSize * (IndexWrap \div RingSize) + (IndexWrap % RingSize)
  BY <1>2, DivMod
<1> QED  BY <1>1, <1>2, <1>3

LEMMA Advance ==
  ASSUME NEW x \in Nat, NEW k \in Nat
  PROVE  /\ ((x % IndexWrap) + k) % IndexWrap = (x + k) % IndexWrap
         /\ (x + k) % IndexWrap \in Indices
<1> DEFINE w == IndexWrap
           q == x \div w
<1>1. w \in Nat \ {0}
  BY Sizes, ZenonT(30)
<1>2. x % w \in 0..w - 1 /\ q \in Int /\ x = w * q + (x % w)
  BY <1>1, DivMod
<1>3. (x % w) + k \in Int /\ x + k = (x % w) + k + w * q
  BY <1>1, <1>2
<1>4. ((x % w) + k + w * q) % w = ((x % w) + k) % w
  <2> HIDE DEF w, q
  <2> QED  BY ONLY <1>1, <1>2, <1>3, WholeTurns, ZenonT(30)
<1>5. (x + k) % w \in 0..w - 1
  BY <1>1
<1> QED  BY <1>3, <1>4, <1>5, ZenonT(30) DEF Indices

\* A slot does not depend on whether the index has wrapped.
LEMMA SlotOf ==
  ASSUME NEW x \in Nat, NEW k \in Nat
  PROVE  /\ Slot((x % IndexWrap) + k) = (x + k) % RingSize
         /\ (x + k) % RingSize \in Slots
<1> DEFINE w == IndexWrap
           r == RingSize
           q == x \div w
           p == (w \div r) * q
<1>1. /\ w \in Nat \ {0} /\ r \in Nat \ {0} /\ w \div r \in Int
      /\ w = r * (w \div r)
  BY Sizes, ZenonT(30)
<1>2. x % w \in 0..w - 1 /\ q \in Int /\ x = w * q + (x % w)
  BY <1>1, DivMod
<1>3. p \in Int /\ w * q = r * p
  <2> HIDE DEF w, r, q
  <2> QED  BY <1>1, <1>2
<1>4. (x % w) + k \in Int /\ x + k = (x % w) + k + r * p
  BY <1>1, <1>2, <1>3
<1>5. ((x % w) + k + r * p) % r = ((x % w) + k) % r
  <2> HIDE DEF w, q, r, p
  <2> QED  BY ONLY <1>1, <1>3, <1>4, WholeTurns, ZenonT(30)
<1>6. (x + k) % r \in 0..r - 1
  BY <1>1
<1> QED  BY <1>4, <1>5, <1>6, ZenonT(30) DEF Slot, Slots

\* Differences of two indices less than a turn apart.
LEMMA Distance ==
  ASSUME NEW x \in Nat, NEW y \in Nat, NEW c \in Int,
         0 <= c + x - y, c + x - y < IndexWrap
  PROVE  (c + (x % IndexWrap) - (y % IndexWrap)) % IndexWrap = c + x - y
<1> DEFINE w == IndexWrap
           d == c + x - y
           q == (y \div w) - (x \div w)
<1>1. w \in Nat \ {0}
  BY Sizes, ZenonT(30)
<1>2. /\ x % w \in 0..w - 1 /\ x \div w \in Int /\ x = w * (x \div w) + (x % w)
      /\ y % w \in 0..w - 1 /\ y \div w \in Int /\ y = w * (y \div w) + (y % w)
  BY <1>1, DivMod
<1>3. q \in Int /\ d \in Int /\ 0 <= d /\ d < w
  BY <1>2
<1>4. c + (x % w) - (y % w) = w * q + d
  <2> HIDE DEF w
  <2> QED  BY <1>1, <1>2
<1>5. (w * q + d) % w = d
  <2> HIDE DEF w, q, d
  <2> QED  BY ONLY <1>1, <1>3, Remainder, ZenonT(30)
<1> QED  BY <1>4, <1>5, ZenonT(30)

LEMMA EntriesOf ==
  ASSUME NEW x \in Nat, NEW y \in Nat, y <= x, x - y < IndexWrap
  PROVE  Entries(x % IndexWrap, y % IndexWrap) = x - y
<1>1. (0 + (x % IndexWrap) - (y % IndexWrap)) % IndexWrap = 0 + x - y
  BY Distance
<1>2. x % IndexWrap \in Int /\ y % IndexWrap \in Int
  BY Sizes
<1>3. /\ 0 + (x % IndexWrap) - (y % IndexWrap) = (x % IndexWrap) - (y % IndexWrap)
      /\ 0 + x - y = x - y
  BY <1>2
<1> QED  BY <1>1, <1>3, ZenonT(30) DEF Entries

LEMMA FreeEntriesOf ==
  ASSUME NEW x \in Nat, NEW y \in Nat,
         0 <= RingSize - 1 + x - y, RingSize - 1 + x - y < IndexWrap
  PROVE  FreeEntries(y % IndexWrap, x % IndexWrap) = RingSize - 1 + x - y
<1> DEFINE c == RingSize - 1
<1>1. c \in Int
  BY Sizes
<1>2. (c + (x % IndexWrap) - (y % IndexWrap)) % IndexWrap = c + x - y
  <2>1. 0 <= c + x - y /\ c + x - y < IndexWrap
    BY ZenonT(30)
  <2> HIDE DEF c
  <2> QED  BY <1>1, <2>1, Distance, ZenonT(30)
<1> QED  BY <1>2, ZenonT(30) DEF FreeEntries

-----------------------------------------------------------------------------
(* The inductive invariant.  Indices are compared as if they never         *)
(* wrapped: ct, ch, pt and ph stand for cons.tail, cons.head, prod.tail    *)
(* and prod.head, h[t] for the head that thread t has read.                *)

BeforeMove == {"enqHead", "enqTail", "enqMove"}
AfterMove  == {"enqCopy", "enqDone"}
Putting    == BeforeMove \cup AfterMove
Taking     == {"deqCopy", "deqDone"}
Waiting    == {"enqTail", "enqMove", "deqTail", "deqMove"}

\* The object at an index.
At(k) == ring[k % RingSize]

Indexed(ct, ch, pt, ph, h) ==
  /\ ct <= ch /\ ch <= pt /\ pt <= ph
  /\ consTail = ct % IndexWrap /\ consHead = ch % IndexWrap
  /\ prodTail = pt % IndexWrap /\ prodHead = ph % IndexWrap
  /\ \A t \in Threads :
       pc[t] \in Waiting \cup AfterMove \cup Taking => head[t] = h[t] % IndexWrap

\* The locals of a thread, at each label.
Locals(t, h) ==
  /\ pc[t] \in Putting =>
       /\ n[t] >= 1 /\ Len(table[t]) = n[t]
       /\ \A a, b \in 1..n[t] : table[t][a] = table[t][b] => a = b
  /\ pc[t] \in BeforeMove => i[t] = 0
  /\ pc[t] \in AfterMove => \A j \in 1..i[t] : At(h[t] + j - 1) = table[t][j]
  /\ pc[t] = "idle" => table[t] = <<>>
  /\ pc[t] \in {"deqHead", "deqTail", "deqMove"} =>
       n[t] >= 1 /\ i[t] = 0 /\ table[t] = <<>>
  /\ pc[t] \in Taking =>
       /\ n[t] >= 1 /\ Len(table[t]) = i[t]
       /\ \A j \in 1..i[t] : table[t][j] = At(h[t] + j - 1)
  /\ pc[t] \in {"enqCopy", "deqCopy"} => i[t] < n[t]
  /\ pc[t] \in {"enqDone", "deqDone"} => i[t] = n[t]

\* What thread t has outside the ring.
Mine(t) == own[t] \cup (IF pc[t] \in Putting THEN Range(table[t]) ELSE {})

\* No object is in two places.
Distinct(ct, pt) ==
  /\ \A k, l \in ct..pt - 1 : At(k) = At(l) => k = l
  /\ \A k \in ct..pt - 1 : \A t \in Threads : At(k) \notin Mine(t)
  /\ \A t, u \in Threads : t # u => Mine(t) \cap Mine(u) = {}
  /\ \A t \in Threads : pc[t] \in Putting => own[t] \cap Range(table[t]) = {}

\* Reserved indices lie between tail and head, each for one thread.
Clear(t, u, h) == h[t] + n[t] <= h[u] \/ h[u] + n[u] <= h[t]
Reserved(ct, ch, pt, ph, h) ==
  /\ \A t \in Threads : pc[t] \in AfterMove => pt <= h[t] /\ h[t] + n[t] <= ph
  /\ \A t \in Threads : pc[t] \in Taking => ct <= h[t] /\ h[t] + n[t] <= ch
  /\ \A t, u \in Threads : t # u /\ pc[t] \in AfterMove /\ pc[u] \in AfterMove => Clear(t, u, h)
  /\ \A t, u \in Threads : t # u /\ pc[t] \in Taking /\ pc[u] \in Taking => Clear(t, u, h)

Tables(L) == UNION {Range(table[t]) : t \in {u \in Threads : pc[u] \in L}}

\* As many indices are reserved as objects are waiting to be copied.  A head
\* that was read is not too old, whatever the puts that have begun still add.
Counted(ch, pt, ph, h) ==
  /\ Cardinality(Tables(AfterMove)) = ph - pt
  /\ \A t \in Threads : pc[t] \in Waiting =>
       /\ h[t] <= IF pc[t] \in {"enqTail", "enqMove"} THEN ph ELSE ch
       /\ ph - h[t] + Cardinality(Tables(BeforeMove))
            <= (IndexWrap \div 2) + Cardinality(Objects)
  /\ \A t \in Threads : pc[t] = "deqMove" => n[t] <= pt - h[t]

RingInv(ct, ch, pt, ph, h) ==
  /\ TypeOK /\ PutNeverFails
  /\ Indexed(ct, ch, pt, ph, h)
  /\ \A t \in Threads : Locals(t, h)
  /\ Distinct(ct, pt)
  /\ Reserved(ct, ch, pt, ph, h)
  /\ Counted(ch, pt, ph, h)

-----------------------------------------------------------------------------
(* Counting objects.                                                       *)

LEMMA OnObjects ==
  ASSUME NEW S \in SUBSET Objects
  PROVE  IsFiniteSet(S) /\ Cardinality(S) \in Nat /\ Cardinality(S) <= Cardinality(Objects)
<1>1. IsFiniteSet(Objects)
  BY PoolAssumption, ZenonT(30) DEF PoolAssumption
<1>2. IsFiniteSet(S) /\ Cardinality(S) <= Cardinality(Objects)
  BY <1>1, FS_Subset, ZenonT(30)
<1>3. Cardinality(S) \in Nat
  BY <1>2, FS_CardinalityType, ZenonT(30)
<1> QED  BY <1>2, <1>3, ZenonT(30)

LEMMA Disjoint2 ==
  ASSUME NEW S \in SUBSET Objects, NEW T \in SUBSET Objects, S \cap T = {}
  PROVE  Cardinality(S \cup T) = Cardinality(S) + Cardinality(T)
<1>1. IsFiniteSet(S) /\ IsFiniteSet(T) /\ Cardinality(S) \in Nat /\ Cardinality(T) \in Nat
  BY OnObjects, ZenonT(30)
<1>2. Cardinality(S \cup T) = Cardinality(S) + Cardinality(T) - Cardinality(S \cap T)
  BY <1>1, FS_Union, ZenonT(30)
<1>3. Cardinality(S \cap T) = 0
  BY FS_EmptySet, ZenonT(30)
<1> QED  BY <1>1, <1>2, <1>3

\* The image of an interval under a function that tells its members apart.
LEMMA ImageSize ==
  ASSUME NEW a \in Int, NEW b \in Int, a <= b + 1, NEW S,
         NEW f \in [a..b -> S], \A k, l \in a..b : f[k] = f[l] => k = l
  PROVE  Cardinality(Range(f)) = b - a + 1
<1>1. Range(f) = {f[k] : k \in a..b}
  BY ZenonT(30) DEF Range
<1>2. f \in Bijection(a..b, Range(f))
  BY <1>1, ZenonT(30) DEF Bijection, Injection, Surjection, IsInjective
<1>3. IsFiniteSet(a..b) /\ Cardinality(a..b) = IF a > b THEN 0 ELSE b - a + 1
  BY FS_Interval, ZenonT(30)
<1>4. Cardinality(Range(f)) = Cardinality(a..b)
  BY <1>2, <1>3, FS_Bijection, ZenonT(30) DEF ExistsBijection
<1> QED  BY <1>3, <1>4

LEMMA TableSize ==
  ASSUME TypeOK, NEW t \in Threads, NEW h, Locals(t, h), pc[t] \in Putting
  PROVE  /\ Range(table[t]) \subseteq Objects /\ n[t] \in Nat
         /\ table[t] \in [1..n[t] -> Objects]
         /\ Cardinality(Range(table[t])) = n[t]
<1>1. /\ table[t] \in Seq(Objects) /\ Len(table[t]) = n[t] /\ n[t] \in Nat
      /\ \A a, b \in 1..n[t] : table[t][a] = table[t][b] => a = b
  BY DEF TypeOK, Locals
<1>2. table[t] \in [1..n[t] -> Objects]
  BY <1>1
<1>3. Range(table[t]) \subseteq Objects
  BY <1>2, ZenonT(30) DEF Range
<1>4. Cardinality(Range(table[t])) = n[t] - 1 + 1
  <2> DEFINE f == table[t]
             m == n[t]
  <2>1. /\ 1 \in Int /\ m \in Int /\ 1 <= m + 1 /\ f \in [1..m -> Objects]
        /\ \A k, l \in 1..m : f[k] = f[l] => k = l
    BY <1>1, <1>2
  <2> HIDE DEF f, m
  <2>2. Cardinality(Range(f)) = m - 1 + 1
    BY ONLY <2>1, ImageSize, ZenonT(30)
  <2> QED  BY <2>2, ZenonT(30) DEF f, m
<1> QED  BY <1>1, <1>2, <1>3, <1>4

LEMMA InTables ==
  ASSUME NEW L
  PROVE  \A x : x \in Tables(L) <=> \E t \in Threads : pc[t] \in L /\ x \in Range(table[t])
BY ZenonT(30) DEF Tables

LEMMA TablesInObjects ==
  ASSUME TypeOK, NEW L
  PROVE  Tables(L) \subseteq Objects
<1>1. \A t \in Threads : Range(table[t]) \subseteq Objects
  <2> TAKE t \in Threads
  <2>1. table[t] \in [1..Len(table[t]) -> Objects]
    BY DEF TypeOK
  <2> QED  BY <2>1, ZenonT(30) DEF Range
<1> QED  BY <1>1, ZenonT(30) DEF Tables

\* All indices from cons.tail to prod.head, the puts that have begun, and one
\* that is to begin, have an object each.
LEMMA RoomFor ==
  ASSUME NEW ct \in Nat, NEW pt \in Nat, NEW ph \in Nat, NEW ch, NEW h,
         ct <= pt, TypeOK, Distinct(ct, pt), Counted(ch, pt, ph, h),
         NEW X \in SUBSET Objects, X \cap Tables(AfterMove) = {},
         \A k \in ct..pt - 1 : At(k) \notin X
  PROVE  /\ Cardinality(Tables(BeforeMove) \cup X) \in Nat
         /\ ph - ct + Cardinality(Tables(BeforeMove) \cup X) <= Cardinality(Objects)
<1> DEFINE f == [k \in ct..pt - 1 |-> At(k)]
           B == Tables(BeforeMove) \cup X
           A == Tables(AfterMove)
<1>1. f \in [ct..pt - 1 -> Objects]
  <2>1. \A k \in ct..pt - 1 : k % RingSize \in Slots
    BY Sizes DEF Slots
  <2>2. \A k \in ct..pt - 1 : At(k) \in Objects
    BY <2>1, ZenonT(30) DEF TypeOK, At
  <2> QED  BY <2>2, ZenonT(30)
<1>2. Cardinality(Range(f)) = pt - ct
  <2>1. \A k, l \in ct..pt - 1 : f[k] = f[l] => k = l
    BY ZenonT(30) DEF Distinct
  <2>2. Cardinality(Range(f)) = pt - 1 - ct + 1
    <3> HIDE DEF f
    <3>1. ct \in Int /\ pt - 1 \in Int /\ ct <= pt - 1 + 1
      OBVIOUS
    <3> QED  BY <1>1, <2>1, <3>1, ImageSize, ZenonT(30)
  <2> QED  BY <2>2
<1>3. Range(f) \subseteq Objects /\ B \subseteq Objects /\ A \subseteq Objects
  BY <1>1, TablesInObjects, ZenonT(30) DEF Range
<1>4. Range(f) = {At(k) : k \in ct..pt - 1}
  BY ZenonT(30) DEF Range
<1>5. \A t \in Threads : pc[t] \in Putting => Range(table[t]) \subseteq Mine(t)
  BY ZenonT(30) DEF Mine
<1>6. Range(f) \cap B = {} /\ Range(f) \cap A = {}
  <2>0. Range(f) \cap X = {}
    <3> HIDE DEF f
    <3> QED  BY <1>4, ZenonT(30)
  <2>1. \A t \in Threads : pc[t] \in Putting => Range(f) \cap Range(table[t]) = {}
    <3> HIDE DEF f
    <3>1. \A k \in ct..pt - 1 : \A t \in Threads : At(k) \notin Mine(t)
      BY ZenonT(30) DEF Distinct
    <3>2. \A x \in Range(f) : \E k \in ct..pt - 1 : x = At(k)
      BY <1>4, ZenonT(30)
    <3>3. \A x \in Range(f) : \A t \in Threads : x \notin Mine(t)
      BY <3>1, <3>2
    <3> QED  BY <1>5, <3>3, ZenonT(30)
  <2> QED  BY <2>0, <2>1, InTables, ZenonT(30) DEF Putting
<1>7. B \cap A = {}
  <2>1. \A t, u \in Threads : t # u /\ pc[t] \in Putting /\ pc[u] \in Putting
          => Range(table[t]) \cap Range(table[u]) = {}
    BY <1>5, ZenonT(30) DEF Distinct
  <2>2. \A t, u \in Threads : pc[t] \in BeforeMove /\ pc[u] \in AfterMove => t # u
    BY ZenonT(30) DEF BeforeMove, AfterMove
  <2>3. \A t, u \in Threads : pc[t] \in BeforeMove /\ pc[u] \in AfterMove
          => Range(table[t]) \cap Range(table[u]) = {}
    BY <2>1, <2>2, ZenonT(30) DEF Putting
  <2> QED  BY <2>3, InTables, ZenonT(30)
<1> HIDE DEF f, A, B
<1>8. Cardinality(Range(f) \cup B) = pt - ct + Cardinality(B)
  BY <1>2, <1>3, <1>6, Disjoint2
<1>9. Cardinality((Range(f) \cup B) \cup A) = pt - ct + Cardinality(B) + Cardinality(A)
  <2>1. (Range(f) \cup B) \cap A = {} /\ Range(f) \cup B \subseteq Objects
    BY <1>3, <1>6, <1>7, ZenonT(30)
  <2> QED  BY <1>3, <1>8, <2>1, Disjoint2
<1>10. /\ Cardinality((Range(f) \cup B) \cup A) <= Cardinality(Objects)
       /\ Cardinality(B) \in Nat
  <2>1. (Range(f) \cup B) \cup A \subseteq Objects
    BY <1>3, ZenonT(30)
  <2> QED  BY <1>3, <2>1, OnObjects, ZenonT(30)
<1>11. Cardinality(A) = ph - pt
  BY ZenonT(30) DEF Counted, A
<1>12. Cardinality(Objects) \in Nat
  BY Sizes, ZenonT(30)
<1> QED  BY <1>9, <1>10, <1>11, <1>12 DEF B

LEMMA Room ==
  ASSUME NEW ct \in Nat, NEW pt \in Nat, NEW ph \in Nat, NEW ch, NEW h,
         ct <= pt, TypeOK, Distinct(ct, pt), Counted(ch, pt, ph, h)
  PROVE  /\ Cardinality(Tables(BeforeMove)) \in Nat
         /\ ph - ct + Cardinality(Tables(BeforeMove)) <= Cardinality(Objects)
<1> DEFINE X == {}
<1>1. /\ X \in SUBSET Objects /\ X \cap Tables(AfterMove) = {}
      /\ \A k \in ct..pt - 1 : At(k) \notin X
      /\ Tables(BeforeMove) \cup X = Tables(BeforeMove)
  BY ZenonT(30)
<1> HIDE DEF X
<1> QED  BY <1>1, RoomFor, ZenonT(30)

LEMMA OrderFacts ==
  ASSUME NEW S \in SUBSET Objects, NEW s \in Orders(S)
  PROVE  /\ s \in Seq(Objects) /\ Len(s) = Cardinality(S) /\ Range(s) = S
         /\ \A a, b \in 1..Len(s) : s[a] = s[b] => a = b
<1>1. Cardinality(S) \in Nat
  BY OnObjects, ZenonT(30)
<1>2. /\ s \in [1..Cardinality(S) -> S]
      /\ \A a, b \in 1..Cardinality(S) : s[a] = s[b] => a = b
      /\ \A x \in S : \E a \in 1..Cardinality(S) : s[a] = x
  BY ZenonT(30) DEF Orders, Bijection, Injection, Surjection, IsInjective
<1>3. Range(s) = S
  BY <1>2 DEF Range
<1>4. s \in [1..Cardinality(S) -> Objects]
  BY <1>2, ZenonT(30)
<1>5. s \in Seq(Objects) /\ Len(s) = Cardinality(S)
  BY <1>1, <1>4
<1> QED  BY <1>2, <1>3, <1>5, ZenonT(30)

-----------------------------------------------------------------------------
(* Types.                                                                  *)

\* No other thread's locals change.
Others(t) == \A u \in Threads : u # t =>
  /\ pc'[u] = pc[u] /\ head'[u] = head[u] /\ table'[u] = table[u] /\ own'[u] = own[u]
  /\ n'[u] = n[u] /\ i'[u] = i[u] /\ fails'[u] = fails[u]

LEMMA ReturnFacts ==
  ASSUME TypeOK, NEW t \in Threads, Return(t)
  PROVE  /\ pc' = [pc EXCEPT ![t] = "idle"] /\ table' = [table EXCEPT ![t] = <<>>]
         /\ pc' \in [Threads -> Labels] /\ head' \in [Threads -> Indices]
         /\ tail' \in [Threads -> Indices] /\ table' \in [Threads -> Seq(Objects)]
         /\ n' \in [Threads -> 0..MaxBulk] /\ i' \in [Threads -> 0..MaxBulk]
         /\ \A u \in Threads : u # t =>
              /\ pc'[u] = pc[u] /\ head'[u] = head[u] /\ table'[u] = table[u]
              /\ n'[u] = n[u] /\ i'[u] = i[u]
<1>1. 0 \in Indices /\ 0 \in 0..MaxBulk /\ <<>> \in Seq(Objects) /\ "idle" \in Labels
  BY Sizes, PoolAssumption DEF PoolAssumption, Indices, Labels
<1>2. /\ pc' = [pc EXCEPT ![t] = "idle"] /\ table' = [table EXCEPT ![t] = <<>>]
      /\ head' = [head EXCEPT ![t] = 0] /\ tail' = [tail EXCEPT ![t] = 0]
      /\ n' = [n EXCEPT ![t] = 0] /\ i' = [i EXCEPT ![t] = 0]
  BY ZenonT(30) DEF Return, Goto
<1> QED  BY <1>1, <1>2, ZenonT(30) DEF TypeOK

LEMMA Wrapped ==
  ASSUME NEW a \in Nat
  PROVE  a % IndexWrap \in Indices
BY Sizes DEF Indices

LEMMA PutTypeOK ==
  ASSUME TypeOK, NEW t \in Threads, NEW S \in SUBSET own[t], NEW s \in Orders(S), Put(t, s)
  PROVE  TypeOK' /\ Others(t)
<1>1. S \subseteq Objects
  BY ZenonT(30) DEF TypeOK
<1>2. s \in Seq(Objects) /\ Len(s) \in 0..MaxBulk
  BY <1>1, OrderFacts DEF Put
<1>3. /\ table' = [table EXCEPT ![t] = s] /\ own' = [own EXCEPT ![t] = own[t] \ Range(s)]
      /\ n' = [n EXCEPT ![t] = Len(s)] /\ i' = [i EXCEPT ![t] = 0]
      /\ pc' = [pc EXCEPT ![t] = "enqHead"]
      /\ UNCHANGED <<ring, prodHead, prodTail, consHead, consTail, head, tail, fails>>
  BY ZenonT(30) DEF Put, Goto, ringVars
<1>4. 0 \in 0..MaxBulk /\ "enqHead" \in Labels
  BY PoolAssumption DEF PoolAssumption, Labels
<1>5. own[t] \ Range(s) \in SUBSET Objects
  BY ZenonT(30) DEF TypeOK
<1> QED  BY <1>2, <1>3, <1>4, <1>5, ZenonT(30) DEF TypeOK, Others

LEMMA GetTypeOK ==
  ASSUME TypeOK, NEW t \in Threads, NEW k \in 1..MaxBulk, Get(t, k)
  PROVE  TypeOK' /\ Others(t)
<1>1. 0 \in 0..MaxBulk /\ k \in 0..MaxBulk /\ "deqHead" \in Labels
  BY PoolAssumption DEF PoolAssumption, Labels
<1> QED  BY <1>1, ZenonT(30) DEF Get, Goto, ringVars, TypeOK, Others

LEMMA HeadTypeOK ==
  ASSUME TypeOK, NEW t \in Threads, EnqHead(t) \/ DeqHead(t)
  PROVE  TypeOK' /\ Others(t)
<1>1. "enqTail" \in Labels /\ "deqTail" \in Labels
  BY ZenonT(30) DEF Labels
<1>2. CASE EnqHead(t)
  BY <1>1, <1>2, ZenonT(30) DEF EnqHead, Goto, ringVars, TypeOK, Others
<1>3. CASE DeqHead(t)
  BY <1>1, <1>3, ZenonT(30) DEF DeqHead, Goto, ringVars, TypeOK, Others
<1> QED  BY <1>2, <1>3, ZenonT(30)

LEMMA TailTypeOK ==
  ASSUME TypeOK, NEW t \in Threads, EnqTail(t) \/ DeqTail(t)
  PROVE  TypeOK' /\ Others(t)
<1>1. "enqMove" \in Labels /\ "deqMove" \in Labels
  BY ZenonT(30) DEF Labels
<1>2. CASE EnqTail(t)
  <2>1. UNCHANGED <<ring, prodHead, prodTail, consHead, consTail, own>>
    BY <1>2, ZenonT(30) DEF EnqTail, ringVars
  <2>2. CASE Return(t) /\ fails' = [fails EXCEPT ![t] = TRUE]
    <3>1. /\ fails' \in [Threads -> BOOLEAN]
          /\ \A u \in Threads : u # t => fails'[u] = fails[u]
      BY <2>2, ZenonT(30) DEF TypeOK
    <3> QED  BY <2>1, <2>2, <3>1, ReturnFacts DEF TypeOK, Others
  <2>3. CASE /\ Goto(t, "enqMove") /\ tail' = [tail EXCEPT ![t] = consTail]
             /\ UNCHANGED <<head, table, n, i, fails>>
    BY <1>1, <2>1, <2>3, ZenonT(30) DEF Goto, TypeOK, Others
  <2> QED  BY <1>2, <2>2, <2>3, ZenonT(30) DEF EnqTail
<1>3. CASE DeqTail(t)
  <2>1. UNCHANGED <<ring, prodHead, prodTail, consHead, consTail, own, fails>>
    BY <1>3, ZenonT(30) DEF DeqTail, ringVars
  <2>2. CASE Return(t)
    BY <2>1, <2>2, ReturnFacts DEF TypeOK, Others
  <2>3. CASE Goto(t, "deqMove") /\ UNCHANGED <<head, tail, table, n, i>>
    BY <1>1, <2>1, <2>3, ZenonT(30) DEF Goto, TypeOK, Others
  <2> QED  BY <1>3, <2>2, <2>3, ZenonT(30) DEF DeqTail
<1> QED  BY <1>2, <1>3, ZenonT(30)

LEMMA MoveTypeOK ==
  ASSUME TypeOK, NEW t \in Threads, EnqMove(t) \/ DeqMove(t)
  PROVE  TypeOK' /\ Others(t)
<1>1. /\ "enqCopy" \in Labels /\ "enqHead" \in Labels
      /\ "deqCopy" \in Labels /\ "deqHead" \in Labels
  BY ZenonT(30) DEF Labels
<1>2. (head[t] + n[t]) % IndexWrap \in Indices /\ 0 \in Indices
  <2>1. head[t] \in Nat /\ n[t] \in Nat
    BY Sizes DEF TypeOK, Indices
  <2>2. head[t] + n[t] \in Nat
    BY <2>1
  <2>3. 0 \in Indices
    BY Sizes DEF Indices
  <2> QED  BY <2>2, <2>3, Wrapped, ZenonT(30)
<1>3. CASE EnqMove(t)
  BY <1>1, <1>2, <1>3, ZenonT(30) DEF EnqMove, Goto, TypeOK, Others
<1>4. CASE DeqMove(t)
  BY <1>1, <1>2, <1>4, ZenonT(30) DEF DeqMove, Goto, TypeOK, Others
<1> QED  BY <1>3, <1>4, ZenonT(30)

LEMMA CopyTypeOK ==
  ASSUME TypeOK, NEW t \in Threads, NEW h, Locals(t, h), EnqCopy(t) \/ DeqCopy(t)
  PROVE  TypeOK' /\ Others(t)
<1>1. /\ "enqCopy" \in Labels /\ "enqDone" \in Labels
      /\ "deqCopy" \in Labels /\ "deqDone" \in Labels
  BY ZenonT(30) DEF Labels
<1>2. Slot(head[t] + i[t]) \in Slots
  <2>1. head[t] + i[t] \in Nat
    BY Sizes DEF TypeOK, Indices
  <2> QED  BY <2>1, Sizes DEF Slot, Slots
<1>3. i[t] + 1 \in 0..MaxBulk
  <2>1. pc[t] \in {"enqCopy", "deqCopy"}
    BY ZenonT(30) DEF EnqCopy, DeqCopy
  <2>2. i[t] < n[t] /\ i[t] \in 0..MaxBulk /\ n[t] \in 0..MaxBulk
    BY <2>1, ZenonT(30) DEF TypeOK, Locals
  <2> QED  BY <2>2, PoolAssumption DEF PoolAssumption
<1>4. CASE EnqCopy(t)
  <2>1. table[t][i[t] + 1] \in Objects
    BY <1>4 DEF TypeOK, Locals, EnqCopy, AfterMove, Putting
  <2> QED  BY <1>1, <1>2, <1>3, <1>4, <2>1, ZenonT(30) DEF EnqCopy, Goto, TypeOK, Others
<1>5. CASE DeqCopy(t)
  <2>1. Append(table[t], ring[Slot(head[t] + i[t])]) \in Seq(Objects)
    BY <1>2 DEF TypeOK
  <2> QED  BY <1>1, <1>3, <1>5, <2>1, ZenonT(30) DEF DeqCopy, Goto, ringVars, TypeOK, Others
<1> QED  BY <1>4, <1>5, ZenonT(30)

LEMMA DoneTypeOK ==
  ASSUME TypeOK, NEW t \in Threads, EnqDone(t) \/ DeqDone(t)
  PROVE  TypeOK' /\ Others(t)
<1>1. (head[t] + n[t]) % IndexWrap \in Indices
  <2>1. head[t] \in Nat /\ n[t] \in Nat
    BY Sizes DEF TypeOK, Indices
  <2>2. head[t] + n[t] \in Nat
    BY <2>1
  <2> QED  BY <2>2, Wrapped, ZenonT(30)
<1>2. Return(t)
  BY ZenonT(30) DEF EnqDone, DeqDone
<1>3. CASE EnqDone(t)
  <2>1. /\ UNCHANGED <<ring, prodHead, consHead, consTail, own, fails>>
        /\ prodTail' \in Indices
    BY <1>1, <1>3, ZenonT(30) DEF EnqDone
  <2> QED  BY <1>2, <2>1, ReturnFacts DEF TypeOK, Others
<1>4. CASE DeqDone(t)
  <2>1. /\ UNCHANGED <<ring, prodHead, prodTail, consHead, fails>>
        /\ consTail' \in Indices /\ own' = [own EXCEPT ![t] = own[t] \cup Range(table[t])]
    BY <1>1, <1>4, ZenonT(30) DEF DeqDone
  <2>2. own[t] \cup Range(table[t]) \in SUBSET Objects
    BY DEF TypeOK, Range
  <2> QED  BY <1>2, <2>1, <2>2, ReturnFacts DEF TypeOK, Others
<1> QED  BY <1>3, <1>4, ZenonT(30)

-----------------------------------------------------------------------------
(* What a step of thread t leaves as it is.                                *)

HeadKnown == Waiting \cup AfterMove \cup Taking

LEMMA IndexedKept ==
  ASSUME NEW ct, NEW ch, NEW pt, NEW ph, NEW h, NEW g, NEW t \in Threads,
         Indexed(ct, ch, pt, ph, h), Others(t),
         \A u \in Threads : u # t => g[u] = h[u],
         UNCHANGED <<prodHead, prodTail, consHead, consTail>>,
         pc'[t] \in HeadKnown => head'[t] = g[t] % IndexWrap
  PROVE  Indexed(ct, ch, pt, ph, g)'
BY ZenonT(30) DEF Indexed, Others, HeadKnown

LEMMA LocalsKept ==
  ASSUME NEW h, NEW g, NEW t \in Threads, NEW u \in Threads, u # t,
         Locals(u, h), Others(t), g[u] = h[u],
         pc[u] \in AfterMove \cup Taking =>
           \A j \in 1..i[u] : At(h[u] + j - 1)' = At(h[u] + j - 1)
  PROVE  Locals(u, g)'
<1>1. pc'[u] = pc[u] /\ table'[u] = table[u] /\ n'[u] = n[u] /\ i'[u] = i[u]
  BY ZenonT(30) DEF Others
<1> QED  BY <1>1 DEF Locals

LEMMA MineKept ==
  ASSUME NEW t \in Threads, NEW u \in Threads, u # t, Others(t)
  PROVE  Mine(u)' = Mine(u)
BY ZenonT(30) DEF Others, Mine

LEMMA DistinctKept ==
  ASSUME NEW ct, NEW pt, NEW t \in Threads, Distinct(ct, pt), Others(t),
         Mine(t)' = Mine(t), \A k \in ct..pt - 1 : At(k)' = At(k),
         pc'[t] \in Putting => own'[t] \cap Range(table'[t]) = {}
  PROVE  Distinct(ct, pt)'
<1>1. \A u \in Threads : Mine(u)' = Mine(u)
  BY MineKept, ZenonT(30)
<1>2. \A k, l \in ct..pt - 1 : At(k)' = At(l)' => k = l
  BY ZenonT(30) DEF Distinct
<1>3. \A k \in ct..pt - 1 : \A u \in Threads : At(k)' \notin Mine(u)'
  BY <1>1, ZenonT(30) DEF Distinct
<1>4. \A v, u \in Threads : v # u => Mine(v)' \cap Mine(u)' = {}
  BY <1>1, ZenonT(30) DEF Distinct
<1>5. \A u \in Threads : pc'[u] \in Putting => own'[u] \cap Range(table'[u]) = {}
  BY ZenonT(30) DEF Distinct, Others
<1> QED  BY <1>2, <1>3, <1>4, <1>5, ZenonT(30) DEF Distinct

LEMMA ReservedKept ==
  ASSUME NEW ct, NEW ch, NEW pt, NEW ph, NEW h, NEW g, NEW t \in Threads,
         Reserved(ct, ch, pt, ph, h), Others(t),
         \A u \in Threads : u # t => g[u] = h[u],
         pc[t] \in AfterMove <=> pc'[t] \in AfterMove,
         pc[t] \in Taking <=> pc'[t] \in Taking,
         pc[t] \in AfterMove \cup Taking => n'[t] = n[t] /\ g[t] = h[t]
  PROVE  Reserved(ct, ch, pt, ph, g)'
<1>1. \A u \in Threads : /\ pc[u] \in AfterMove <=> pc'[u] \in AfterMove
                         /\ pc[u] \in Taking <=> pc'[u] \in Taking
                         /\ pc[u] \in AfterMove \cup Taking => n'[u] = n[u] /\ g[u] = h[u]
  BY ZenonT(30) DEF Others
<1> QED  BY <1>1, ZenonT(30) DEF Reserved, Clear

LEMMA TablesKept ==
  ASSUME NEW L, NEW t \in Threads, Others(t), pc[t] \in L <=> pc'[t] \in L,
         pc[t] \in L => Range(table'[t]) = Range(table[t])
  PROVE  Tables(L)' = Tables(L)
<1>1. \A u \in Threads : /\ pc[u] \in L <=> pc'[u] \in L
                         /\ pc[u] \in L => Range(table'[u]) = Range(table[u])
  BY ZenonT(30) DEF Others
<1>2. \A x : x \in Tables(L)' <=> \E u \in Threads : pc'[u] \in L /\ x \in Range(table'[u])
  BY ZenonT(30) DEF Tables
<1> QED  BY <1>1, <1>2, InTables, ZenonT(30)

LEMMA CountedKept ==
  ASSUME NEW ch, NEW pt, NEW ph, NEW h, NEW g, NEW t \in Threads,
         Counted(ch, pt, ph, h), Others(t),
         \A u \in Threads : u # t => g[u] = h[u],
         Tables(AfterMove)' = Tables(AfterMove), Tables(BeforeMove)' = Tables(BeforeMove),
         pc'[t] \in Waiting =>
           /\ g[t] <= IF pc'[t] \in {"enqTail", "enqMove"} THEN ph ELSE ch
           /\ ph - g[t] + Cardinality(Tables(BeforeMove))
                <= (IndexWrap \div 2) + Cardinality(Objects),
         pc'[t] = "deqMove" => n'[t] <= pt - g[t]
  PROVE  Counted(ch, pt, ph, g)'
<1>1. Cardinality(Tables(AfterMove))' = ph - pt
  BY ZenonT(30) DEF Counted
<1>2. ASSUME NEW u \in Threads, pc'[u] \in Waiting
      PROVE  /\ g[u] <= IF pc'[u] \in {"enqTail", "enqMove"} THEN ph ELSE ch
             /\ ph - g[u] + Cardinality(Tables(BeforeMove)')
                  <= (IndexWrap \div 2) + Cardinality(Objects)
  <2>1. CASE u = t
    BY <1>2, <2>1, ZenonT(30)
  <2>2. CASE u # t
    BY <1>2, <2>2, ZenonT(30) DEF Counted, Others
  <2> QED  BY <2>1, <2>2, ZenonT(30)
<1>3. ASSUME NEW u \in Threads, pc'[u] = "deqMove"
      PROVE  n'[u] <= pt - g[u]
  BY <1>3, ZenonT(30) DEF Counted, Others
<1> QED  BY <1>1, <1>2, <1>3, ZenonT(30) DEF Counted

-----------------------------------------------------------------------------
(* Steps that move neither objects nor indices.                            *)

\* rte_ring_create refuses more than RTE_RING_SZ_MASK (2^28) slots.
LongIndices == IndexWrap >= 4 * RingSize

LEMMA Lag ==
  ASSUME LongIndices, NEW ct \in Nat, NEW ch \in Nat, NEW pt \in Nat, NEW ph \in Nat,
         NEW h \in [Threads -> Nat], RingInv(ct, ch, pt, ph, h),
         NEW t \in Threads, pc[t] \in Waiting
  PROVE  /\ h[t] \in Nat /\ ph - h[t] + RingSize < IndexWrap
         /\ h[t] <= IF pc[t] \in {"enqTail", "enqMove"} THEN ph ELSE ch
<1>1. /\ h[t] <= IF pc[t] \in {"enqTail", "enqMove"} THEN ph ELSE ch
      /\ ph - h[t] + Cardinality(Tables(BeforeMove))
           <= (IndexWrap \div 2) + Cardinality(Objects)
  BY ZenonT(30) DEF RingInv, Counted
<1>2. Cardinality(Tables(BeforeMove)) \in Nat
  <2>1. TypeOK
    BY ZenonT(30) DEF RingInv
  <2> QED  BY <2>1, TablesInObjects, OnObjects, ZenonT(30)
<1>3. /\ IndexWrap = 2 * (IndexWrap \div 2) + (IndexWrap % 2) /\ IndexWrap \div 2 \in Int
      /\ IndexWrap % 2 \in {0, 1}
  BY Sizes
<1>4. (IndexWrap \div 2) >= 2 * RingSize
  BY <1>3, Sizes DEF LongIndices
<1> QED  BY <1>1, <1>2, <1>3, <1>4, Sizes

LEMMA Quiet ==
  ASSUME NEW ct \in Nat, NEW ch \in Nat, NEW pt \in Nat, NEW ph \in Nat,
         NEW h \in [Threads -> Nat], NEW x \in Nat, NEW t \in Threads,
         RingInv(ct, ch, pt, ph, h),
         UNCHANGED <<ringVars, own>>, table'[t] = table[t],
         pc[t] \notin AfterMove \cup Taking, pc'[t] \notin AfterMove \cup Taking,
         pc[t] \in BeforeMove <=> pc'[t] \in BeforeMove,
         TypeOK', PutNeverFails', Others(t), Locals(t, [h EXCEPT ![t] = x])',
         pc'[t] \in Waiting =>
           /\ head'[t] = x % IndexWrap
           /\ x <= IF pc'[t] \in {"enqTail", "enqMove"} THEN ph ELSE ch
           /\ ph - x + Cardinality(Tables(BeforeMove))
                <= (IndexWrap \div 2) + Cardinality(Objects),
         pc'[t] = "deqMove" => n'[t] <= pt - x
  PROVE  RingInv(ct, ch, pt, ph, [h EXCEPT ![t] = x])'
<1> DEFINE g == [h EXCEPT ![t] = x]
<1>1. g[t] = x /\ \A u \in Threads : u # t => g[u] = h[u]
  BY ZenonT(30)
<1>2. /\ UNCHANGED <<prodHead, prodTail, consHead, consTail, ring, own>>
      /\ pc'[t] \in HeadKnown => pc'[t] \in Waiting
  BY ZenonT(30) DEF ringVars, HeadKnown
<1>3. \A k : At(k)' = At(k)
  BY <1>2, ZenonT(30) DEF At
<1> HIDE DEF g
<1>4. Indexed(ct, ch, pt, ph, g)'
  BY <1>1, <1>2, IndexedKept, ZenonT(30) DEF RingInv
<1>5. ASSUME NEW u \in Threads
      PROVE  Locals(u, g)'
  <2>1. CASE u = t
    BY <2>1, ZenonT(30) DEF g
  <2>2. CASE u # t
    BY <1>1, <1>3, <2>2, LocalsKept, ZenonT(30) DEF RingInv
  <2> QED  BY <2>1, <2>2, ZenonT(30)
<1>6. Distinct(ct, pt)'
  <2>1. pc[t] \in Putting <=> pc'[t] \in Putting
    BY ZenonT(30) DEF Putting
  <2>2. Mine(t)' = Mine(t)
    BY <1>2, <2>1, ZenonT(30) DEF Mine
  <2>3. pc'[t] \in Putting => own'[t] \cap Range(table'[t]) = {}
    BY <1>2, <2>1, ZenonT(30) DEF RingInv, Distinct
  <2> QED  BY <1>3, <2>2, <2>3, DistinctKept, ZenonT(30) DEF RingInv
<1>7. Reserved(ct, ch, pt, ph, g)'
  BY <1>1, ReservedKept, ZenonT(30) DEF RingInv
<1>8. Tables(AfterMove)' = Tables(AfterMove) /\ Tables(BeforeMove)' = Tables(BeforeMove)
  BY TablesKept, ZenonT(30)
<1>9. Counted(ch, pt, ph, g)'
  BY <1>1, <1>8, CountedKept, ZenonT(30) DEF RingInv
<1> QED  BY <1>4, <1>5, <1>6, <1>7, <1>9, ZenonT(30) DEF RingInv, g

\* The room a producer sees, whatever head it has read.
LEMMA PutFinds ==
  ASSUME LongIndices, NEW ct \in Nat, NEW ch \in Nat, NEW pt \in Nat, NEW ph \in Nat,
         NEW h \in [Threads -> Nat], RingInv(ct, ch, pt, ph, h),
         NEW t \in Threads, pc[t] \in BeforeMove
  PROVE  /\ n[t] \in Nat /\ ph - ct + n[t] <= Cardinality(Objects)
         /\ pc[t] = "enqTail" => n[t] <= FreeEntries(head[t], consTail)
<1>1. TypeOK /\ Locals(t, h) /\ ct <= pt
  BY DEF RingInv, Indexed
<1>2. /\ Cardinality(Range(table[t])) = n[t] /\ n[t] \in Nat
  BY <1>1, TableSize, ZenonT(30) DEF Putting
<1>3. n[t] <= Cardinality(Tables(BeforeMove))
  <2>1. Range(table[t]) \subseteq Tables(BeforeMove)
    BY InTables, ZenonT(30)
  <2>2. IsFiniteSet(Tables(BeforeMove))
    BY <1>1, TablesInObjects, OnObjects, ZenonT(30)
  <2> QED  BY <1>2, <2>1, <2>2, FS_Subset, ZenonT(30)
<1>4. /\ Cardinality(Tables(BeforeMove)) \in Nat
      /\ ph - ct + Cardinality(Tables(BeforeMove)) <= Cardinality(Objects)
  BY <1>1, Room, ZenonT(30) DEF RingInv
<1>5. ph - ct + n[t] <= Cardinality(Objects)
  BY <1>2, <1>3, <1>4, Sizes
<1>6. ASSUME pc[t] = "enqTail"
      PROVE  n[t] <= FreeEntries(head[t], consTail)
  <2>1. h[t] \in Nat /\ h[t] <= ph /\ ph - h[t] + RingSize < IndexWrap
    BY <1>6, Lag, ZenonT(30) DEF Waiting
  <2>2. head[t] = h[t] % IndexWrap /\ consTail = ct % IndexWrap /\ ct <= ph
    BY <1>6 DEF RingInv, Indexed, Waiting
  <2>3. 0 <= RingSize - 1 + ct - h[t] /\ RingSize - 1 + ct - h[t] < IndexWrap
    BY <1>2, <1>5, <2>1, <2>2, Sizes
  <2>4. FreeEntries(head[t], consTail) = RingSize - 1 + ct - h[t]
    BY <2>1, <2>2, <2>3, FreeEntriesOf, ZenonT(30)
  <2> QED  BY <1>2, <1>5, <2>1, <2>4, Sizes
<1> QED  BY <1>2, <1>5, <1>6, ZenonT(30)

LEMMA HeadStep ==
  ASSUME LongIndices, NEW ct \in Nat, NEW ch \in Nat, NEW pt \in Nat, NEW ph \in Nat,
         NEW h \in [Threads -> Nat], RingInv(ct, ch, pt, ph, h),
         NEW t \in Threads, NEW x \in Nat,
         \/ EnqHead(t) /\ x = ph
         \/ DeqHead(t) /\ x = ch
  PROVE  RingInv(ct, ch, pt, ph, [h EXCEPT ![t] = x])'
<1> DEFINE g == [h EXCEPT ![t] = x]
<1>1. TypeOK' /\ Others(t)
  BY HeadTypeOK, ZenonT(30) DEF RingInv
<1>2. /\ UNCHANGED <<ringVars, own, table, n, i, fails>>
      /\ head'[t] = x % IndexWrap
      /\ \/ pc[t] = "enqHead" /\ pc'[t] = "enqTail"
         \/ pc[t] = "deqHead" /\ pc'[t] = "deqTail"
  <2>1. CASE EnqHead(t) /\ x = ph
    BY <2>1, ZenonT(30) DEF EnqHead, Goto, RingInv, Indexed, TypeOK
  <2>2. CASE DeqHead(t) /\ x = ch
    BY <2>2, ZenonT(30) DEF DeqHead, Goto, RingInv, Indexed, TypeOK
  <2> QED  BY <2>1, <2>2, ZenonT(30)
<1>3. /\ Cardinality(Tables(BeforeMove)) \in Nat
      /\ ph - ct + Cardinality(Tables(BeforeMove)) <= Cardinality(Objects)
  <2>1. ct <= pt
    BY DEF RingInv, Indexed
  <2> QED  BY <2>1, Room, ZenonT(30) DEF RingInv
<1>4. x \in Nat /\ x <= ph /\ ct <= x /\ (pc[t] = "deqHead" => x = ch)
  BY DEF RingInv, Indexed, EnqHead
<1>5. ph - x + Cardinality(Tables(BeforeMove)) <= (IndexWrap \div 2) + Cardinality(Objects)
  <2>1. IndexWrap \div 2 \in Int /\ IndexWrap \div 2 >= 0
    BY Sizes
  <2> QED  BY <1>3, <1>4, <2>1, Sizes
<1>6. Locals(t, g)'
  <2>1. Locals(t, h) /\ table'[t] = table[t] /\ n'[t] = n[t] /\ i'[t] = i[t]
    BY <1>2, ZenonT(30) DEF RingInv
  <2> QED  BY <1>2, <2>1, ZenonT(30) DEF Locals, BeforeMove, AfterMove, Putting, Taking
<1>7. /\ PutNeverFails' /\ table'[t] = table[t]
      /\ pc[t] \notin AfterMove \cup Taking /\ pc'[t] \notin AfterMove \cup Taking
      /\ pc[t] \in BeforeMove <=> pc'[t] \in BeforeMove
      /\ pc'[t] # "deqMove"
  BY <1>2, ZenonT(30) DEF RingInv, PutNeverFails, BeforeMove, AfterMove, Taking
<1>8. x <= IF pc'[t] \in {"enqTail", "enqMove"} THEN ph ELSE ch
  BY <1>2, <1>4
<1> QED  BY <1>1, <1>2, <1>4, <1>5, <1>6, <1>7, <1>8, Quiet, ZenonT(30)

\* A put always finds room.
LEMMA EnqTailStep ==
  ASSUME LongIndices, NEW ct \in Nat, NEW ch \in Nat, NEW pt \in Nat, NEW ph \in Nat,
         NEW h \in [Threads -> Nat], RingInv(ct, ch, pt, ph, h),
         NEW t \in Threads, EnqTail(t)
  PROVE  RingInv(ct, ch, pt, ph, h)'
<1>1. pc[t] = "enqTail" /\ TypeOK' /\ Others(t)
  BY TailTypeOK, ZenonT(30) DEF RingInv, EnqTail
<1>2. n[t] \in Nat /\ n[t] <= FreeEntries(head[t], consTail)
  BY <1>1, PutFinds, ZenonT(30) DEF BeforeMove
<1>3. FreeEntries(head[t], consTail) \in Nat
  <2>1. head[t] \in Int /\ consTail \in Int
    BY Sizes DEF RingInv, TypeOK, Indices
  <2> QED  BY <2>1, Sizes DEF FreeEntries
<1>4. UNCHANGED <<ringVars, own, head, table, n, i, fails>> /\ pc'[t] = "enqMove"
  BY <1>2, <1>3 DEF EnqTail, Goto, RingInv, TypeOK
<1>5. [h EXCEPT ![t] = h[t]] = h /\ h[t] \in Nat
  BY ZenonT(30)
<1>6. Locals(t, h)'
  <2>1. Locals(t, h) /\ table'[t] = table[t] /\ n'[t] = n[t] /\ i'[t] = i[t]
    BY <1>4, ZenonT(30) DEF RingInv
  <2> QED  BY <1>1, <1>4, <2>1, ZenonT(30) DEF Locals, BeforeMove, AfterMove, Putting, Taking
<1>7. /\ PutNeverFails' /\ table'[t] = table[t]
      /\ pc[t] \notin AfterMove \cup Taking /\ pc'[t] \notin AfterMove \cup Taking
      /\ pc[t] \in BeforeMove <=> pc'[t] \in BeforeMove
      /\ pc'[t] # "deqMove"
  BY <1>1, <1>4, ZenonT(30) DEF RingInv, PutNeverFails, BeforeMove, AfterMove, Taking
<1>8. /\ head'[t] = h[t] % IndexWrap
      /\ h[t] <= ph
      /\ ph - h[t] + Cardinality(Tables(BeforeMove)) <= (IndexWrap \div 2) + Cardinality(Objects)
  BY <1>1, <1>4, ZenonT(30) DEF RingInv, Indexed, Counted, Waiting
<1>9. h[t] <= IF pc'[t] \in {"enqTail", "enqMove"} THEN ph ELSE ch
  BY <1>4, <1>8, ZenonT(30)
<1>10. RingInv(ct, ch, pt, ph, [h EXCEPT ![t] = h[t]])'
  BY <1>1, <1>4, <1>5, <1>6, <1>7, <1>8, <1>9, Quiet, ZenonT(30)
<1> QED  BY <1>5, <1>10, ZenonT(30)

\* What a consumer sees, whatever head it has read.
LEMMA GetSees ==
  ASSUME LongIndices, NEW ct \in Nat, NEW ch \in Nat, NEW pt \in Nat, NEW ph \in Nat,
         NEW h \in [Threads -> Nat], RingInv(ct, ch, pt, ph, h),
         NEW t \in Threads, pc[t] = "deqTail"
  PROVE  /\ Entries(prodTail, head[t]) = pt - h[t] /\ h[t] \in Nat /\ h[t] <= ch
         /\ Entries(prodTail, consHead) = pt - ch
<1>1. h[t] \in Nat /\ h[t] <= ch /\ ph - h[t] + RingSize < IndexWrap
  BY Lag, ZenonT(30) DEF Waiting
<1>2. /\ head[t] = h[t] % IndexWrap /\ prodTail = pt % IndexWrap /\ consHead = ch % IndexWrap
      /\ ch <= pt /\ pt <= ph
  BY ZenonT(30) DEF RingInv, Indexed, Waiting
<1>3. h[t] <= pt /\ pt - h[t] < IndexWrap /\ pt - ch < IndexWrap
  BY <1>1, <1>2, Sizes
<1> QED  BY <1>1, <1>2, <1>3, EntriesOf, ZenonT(30)

LEMMA DeqTailStep ==
  ASSUME LongIndices, NEW ct \in Nat, NEW ch \in Nat, NEW pt \in Nat, NEW ph \in Nat,
         NEW h \in [Threads -> Nat], RingInv(ct, ch, pt, ph, h),
         NEW t \in Threads, DeqTail(t)
  PROVE  RingInv(ct, ch, pt, ph, h)'
<1>1. pc[t] = "deqTail" /\ TypeOK' /\ Others(t)
  BY TailTypeOK, ZenonT(30) DEF RingInv, DeqTail
<1>2. /\ Entries(prodTail, head[t]) = pt - h[t] /\ h[t] \in Nat /\ h[t] <= ch
  BY <1>1, GetSees
<1>3. /\ UNCHANGED <<ringVars, own, fails>> /\ table'[t] = table[t]
      /\ \/ pc'[t] = "idle"
         \/ /\ pc'[t] = "deqMove" /\ ~(n[t] > Entries(prodTail, head[t]))
            /\ head'[t] = head[t] /\ n'[t] = n[t] /\ i'[t] = i[t]
  <2>1. table[t] = <<>> /\ TypeOK
    BY <1>1, ZenonT(30) DEF RingInv, Locals
  <2>2. CASE n[t] > Entries(prodTail, head[t])
    BY <2>1, <2>2, ReturnFacts DEF DeqTail, TypeOK
  <2>3. CASE ~(n[t] > Entries(prodTail, head[t]))
    BY <2>1, <2>3, ZenonT(30) DEF DeqTail, Goto, TypeOK
  <2> QED  BY <2>2, <2>3, ZenonT(30)
<1>4. n[t] \in Nat
  BY DEF RingInv, TypeOK
<1>5. [h EXCEPT ![t] = h[t]] = h /\ h[t] \in Nat
  BY ZenonT(30)
<1>6. Locals(t, h)'
  <2>1. Locals(t, h)
    BY ZenonT(30) DEF RingInv
  <2> QED  BY <1>1, <1>3, <2>1, ZenonT(30) DEF Locals, BeforeMove, AfterMove, Putting, Taking
<1>7. /\ PutNeverFails' /\ table'[t] = table[t]
      /\ pc[t] \notin AfterMove \cup Taking /\ pc'[t] \notin AfterMove \cup Taking
      /\ pc[t] \in BeforeMove <=> pc'[t] \in BeforeMove
      /\ pc'[t] = "deqMove" => n'[t] <= pt - h[t]
  BY <1>1, <1>2, <1>3, <1>4 DEF RingInv, PutNeverFails, BeforeMove, AfterMove, Taking
<1>8. pc'[t] \in Waiting =>
        /\ head'[t] = h[t] % IndexWrap
        /\ h[t] <= IF pc'[t] \in {"enqTail", "enqMove"} THEN ph ELSE ch
        /\ ph - h[t] + Cardinality(Tables(BeforeMove))
             <= (IndexWrap \div 2) + Cardinality(Objects)
  BY <1>1, <1>2, <1>3, ZenonT(30) DEF RingInv, Indexed, Counted, Waiting
<1>9. RingInv(ct, ch, pt, ph, [h EXCEPT ![t] = h[t]])'
  BY <1>1, <1>3, <1>5, <1>6, <1>7, <1>8, Quiet, ZenonT(30)
<1> QED  BY <1>5, <1>9, ZenonT(30)

\* A compare-and-set that fails, and a get that begins.
LEMMA RetryStep ==
  ASSUME LongIndices, NEW ct \in Nat, NEW ch \in Nat, NEW pt \in Nat, NEW ph \in Nat,
         NEW h \in [Threads -> Nat], RingInv(ct, ch, pt, ph, h),
         NEW t \in Threads,
         \/ EnqMove(t) /\ prodHead # head[t]
         \/ DeqMove(t) /\ consHead # head[t]
         \/ \E k \in 1..MaxBulk : Get(t, k)
  PROVE  RingInv(ct, ch, pt, ph, h)'
<1>1. TypeOK' /\ Others(t)
  BY MoveTypeOK, GetTypeOK, ZenonT(30) DEF RingInv
<1>2. /\ UNCHANGED <<ringVars, own, table, fails>>
      /\ \/ pc[t] = "enqMove" /\ pc'[t] = "enqHead" /\ n'[t] = n[t] /\ i'[t] = i[t]
         \/ pc[t] = "deqMove" /\ pc'[t] = "deqHead" /\ n'[t] = n[t] /\ i'[t] = i[t]
         \/ pc[t] = "idle" /\ pc'[t] = "deqHead" /\ n'[t] >= 1 /\ i'[t] = 0
  <2>1. CASE EnqMove(t) /\ prodHead # head[t]
    BY <2>1, ZenonT(30) DEF EnqMove, Goto, ringVars, RingInv, TypeOK
  <2>2. CASE DeqMove(t) /\ consHead # head[t]
    BY <2>2, ZenonT(30) DEF DeqMove, Goto, ringVars, RingInv, TypeOK
  <2>3. CASE \E k \in 1..MaxBulk : Get(t, k)
    BY <2>3 DEF Get, Goto, RingInv, TypeOK
  <2> QED  BY <2>1, <2>2, <2>3, ZenonT(30)
<1>3. [h EXCEPT ![t] = h[t]] = h /\ h[t] \in Nat
  BY ZenonT(30)
<1>4. Locals(t, h)'
  <2>1. Locals(t, h) /\ table'[t] = table[t]
    BY <1>2, ZenonT(30) DEF RingInv
  <2> QED  BY <1>2, <2>1, ZenonT(30) DEF Locals, BeforeMove, AfterMove, Putting, Taking
<1>5. /\ PutNeverFails' /\ table'[t] = table[t]
      /\ pc[t] \notin AfterMove \cup Taking /\ pc'[t] \notin AfterMove \cup Taking
      /\ pc[t] \in BeforeMove <=> pc'[t] \in BeforeMove
      /\ pc'[t] # "deqMove" /\ pc'[t] \notin Waiting
  BY <1>2, ZenonT(30) DEF RingInv, PutNeverFails, BeforeMove, AfterMove, Taking, Waiting
<1>6. RingInv(ct, ch, pt, ph, [h EXCEPT ![t] = h[t]])'
  BY <1>1, <1>2, <1>3, <1>4, <1>5, Quiet
<1> QED  BY <1>3, <1>6, ZenonT(30)

-----------------------------------------------------------------------------
(* Steps that move objects or indices.                                     *)

\* What is added to or taken from the tables of a group of threads.
LEMMA TablesAdd ==
  ASSUME NEW L, NEW t \in Threads, Others(t),
         pc[t] \notin L, pc'[t] \in L
  PROVE  Tables(L)' = Tables(L) \cup Range(table'[t])
<1>1. \A u \in Threads : u # t => /\ pc[u] \in L <=> pc'[u] \in L
                                  /\ table'[u] = table[u]
  BY ZenonT(30) DEF Others
<1>2. \A x : x \in Tables(L)' <=> \E u \in Threads : pc'[u] \in L /\ x \in Range(table'[u])
  BY ZenonT(30) DEF Tables
<1> QED  BY <1>1, <1>2, InTables, ZenonT(30)

LEMMA TablesDrop ==
  ASSUME NEW L, NEW t \in Threads, Others(t), pc[t] \in L, pc'[t] \notin L
  PROVE  Tables(L) = Tables(L)' \cup Range(table[t])
<1>1. \A u \in Threads : u # t => /\ pc[u] \in L <=> pc'[u] \in L
                                  /\ table'[u] = table[u]
  BY ZenonT(30) DEF Others
<1>2. \A x : x \in Tables(L)' <=> \E u \in Threads : pc'[u] \in L /\ x \in Range(table'[u])
  BY ZenonT(30) DEF Tables
<1> QED  BY <1>1, <1>2, InTables, ZenonT(30)

LEMMA Apart ==
  ASSUME NEW ct, NEW pt, Distinct(ct, pt), NEW t \in Threads, NEW L \in SUBSET Putting,
         pc[t] \notin L
  PROVE  Mine(t) \cap Tables(L) = {}
<1>1. \A u \in Threads : pc[u] \in L => u # t /\ Range(table[u]) \subseteq Mine(u)
  BY ZenonT(30) DEF Mine
<1>2. \A u \in Threads : u # t => Mine(t) \cap Mine(u) = {}
  BY ZenonT(30) DEF Distinct
<1> QED  BY <1>1, <1>2, InTables, ZenonT(30)

LEMMA PutStep ==
  ASSUME LongIndices, NEW ct \in Nat, NEW ch \in Nat, NEW pt \in Nat, NEW ph \in Nat,
         NEW h \in [Threads -> Nat], RingInv(ct, ch, pt, ph, h),
         NEW t \in Threads, NEW S \in SUBSET own[t], NEW s \in Orders(S),
         NotLapped, Put(t, s)
  PROVE  RingInv(ct, ch, pt, ph, h)'
<1>1. TypeOK /\ TypeOK' /\ Others(t) /\ S \in SUBSET Objects
  BY PutTypeOK, ZenonT(30) DEF RingInv, TypeOK
<1>2. /\ s \in Seq(Objects) /\ Len(s) \in Nat /\ Range(s) = S /\ s # <<>>
      /\ \A a, b \in 1..Len(s) : s[a] = s[b] => a = b
  BY <1>1, OrderFacts DEF Put
<1>3. /\ pc[t] = "idle" /\ pc'[t] = "enqHead" /\ table'[t] = s /\ n'[t] = Len(s) /\ i'[t] = 0
      /\ own'[t] = own[t] \ Range(s)
      /\ UNCHANGED <<ring, prodHead, prodTail, consHead, consTail, fails>>
  BY <1>1, ZenonT(30) DEF Put, Goto, ringVars, TypeOK
<1>4. \A k : At(k)' = At(k)
  BY <1>3, ZenonT(30) DEF At
<1>5. Indexed(ct, ch, pt, ph, h)'
  BY <1>1, <1>3, IndexedKept, ZenonT(30) DEF RingInv, HeadKnown, Waiting, AfterMove, Taking
<1>6. ASSUME NEW u \in Threads
      PROVE  Locals(u, h)'
  <2>1. CASE u = t
    <3>1. Len(s) >= 1
      BY <1>2
    <3>2. pc'[u] = "enqHead" /\ table'[u] = s /\ n'[u] = Len(s) /\ i'[u] = 0
      BY <1>3, <2>1, ZenonT(30)
    <3> QED  BY <1>2, <3>1, <3>2 DEF Locals, BeforeMove, AfterMove, Putting, Taking
  <2>2. CASE u # t
    BY <1>1, <1>4, <2>2, LocalsKept, ZenonT(30) DEF RingInv
  <2> QED  BY <2>1, <2>2, ZenonT(30)
<1>7. Mine(t) = own[t]
  BY <1>3, ZenonT(30) DEF Mine, Putting, BeforeMove, AfterMove
<1>8. Distinct(ct, pt)'
  <2>1. Mine(t)' = Mine(t)
    BY <1>2, <1>3, <1>7, ZenonT(30) DEF Mine, Putting, BeforeMove
  <2>2. own'[t] \cap Range(table'[t]) = {}
    BY <1>3, ZenonT(30)
  <2> QED  BY <1>1, <1>4, <2>1, <2>2, DistinctKept, ZenonT(30) DEF RingInv
<1>9. Reserved(ct, ch, pt, ph, h)'
  BY <1>1, <1>3, ReservedKept, ZenonT(30) DEF RingInv, AfterMove, Taking
<1>10. /\ Tables(AfterMove)' = Tables(AfterMove)
       /\ Tables(BeforeMove)' = Tables(BeforeMove) \cup S
  <2>1. Tables(AfterMove)' = Tables(AfterMove)
    BY <1>1, <1>3, TablesKept, ZenonT(30) DEF AfterMove
  <2>2. Tables(BeforeMove)' = Tables(BeforeMove) \cup Range(table'[t])
    BY <1>1, <1>3, TablesAdd, ZenonT(30) DEF BeforeMove
  <2> QED  BY <1>2, <1>3, <2>1, <2>2, ZenonT(30)
<1> DEFINE c == Cardinality(Tables(BeforeMove) \cup S)
<1>11. c \in Nat /\ ph - ct + c <= Cardinality(Objects) /\ ct <= ch /\ ch <= ph
  <2>1. S \cap Tables(AfterMove) = {}
    BY <1>3, <1>7, Apart, ZenonT(30) DEF RingInv, Putting, AfterMove
  <2>2. \A k \in ct..pt - 1 : At(k) \notin S
    BY <1>7 DEF RingInv, Distinct
  <2>3. ct <= pt /\ ct <= ch /\ ch <= ph
    BY DEF RingInv, Indexed
  <2> QED  BY <1>1, <2>1, <2>2, <2>3, RoomFor, ZenonT(30) DEF RingInv
<1>12. Counted(ch, pt, ph, h)'
  <2>1. Cardinality(Tables(AfterMove)') = ph - pt
    BY <1>10, ZenonT(30) DEF RingInv, Counted
  <2>2. ASSUME NEW u \in Threads, pc'[u] \in Waiting
        PROVE  /\ h[u] <= IF pc'[u] \in {"enqTail", "enqMove"} THEN ph ELSE ch
               /\ ph - h[u] + c <= (IndexWrap \div 2) + Cardinality(Objects)
    <3>1. u # t /\ pc'[u] = pc[u] /\ pc[u] \in Waiting
      BY <1>1, <1>3, <2>2, ZenonT(30) DEF Others, Waiting
    <3>2. /\ h[u] \in Nat /\ ph - h[u] + RingSize < IndexWrap
          /\ h[u] <= IF pc[u] \in {"enqTail", "enqMove"} THEN ph ELSE ch
      BY <3>1, Lag, ZenonT(30)
    <3>3. /\ head[u] = h[u] % IndexWrap /\ prodHead = ph % IndexWrap
          /\ consHead = ch % IndexWrap
      BY <3>1, ZenonT(30) DEF RingInv, Indexed
    <3>4. IndexWrap \div 2 \in Int
      BY Sizes
    <3>5. CASE pc[u] \in {"enqTail", "enqMove"}
      <4>1. ph - h[u] < IndexWrap /\ h[u] <= ph
        BY <3>2, <3>5, Sizes
      <4>2. Entries(prodHead, head[u]) = ph - h[u]
        BY <3>2, <3>3, <4>1, EntriesOf, ZenonT(30)
      <4>3. Entries(prodHead, head[u]) <= IndexWrap \div 2
        BY <3>5, ZenonT(30) DEF NotLapped
      <4>4. c <= Cardinality(Objects)
        BY <1>11, Sizes
      <4> HIDE DEF c
      <4>5. ph - h[u] <= IndexWrap \div 2
        BY <4>2, <4>3, ZenonT(30)
      <4> QED  BY <1>11, <3>1, <3>2, <3>4, <4>1, <4>4, <4>5, Sizes
    <3>6. CASE pc[u] \notin {"enqTail", "enqMove"}
      <4>1. ch - h[u] < IndexWrap /\ h[u] <= ch
        BY <1>11, <3>2, <3>6, Sizes
      <4>2. Entries(consHead, head[u]) = ch - h[u]
        BY <3>2, <3>3, <4>1, EntriesOf, ZenonT(30)
      <4>3. Entries(consHead, head[u]) <= IndexWrap \div 2
        BY <3>1, <3>6, ZenonT(30) DEF NotLapped, Waiting
      <4> HIDE DEF c
      <4>4. ch - h[u] <= IndexWrap \div 2
        BY <4>2, <4>3, ZenonT(30)
      <4> QED  BY <1>11, <3>1, <3>2, <3>4, <4>1, <4>4, Sizes
    <3> QED  BY <3>5, <3>6, ZenonT(30)
  <2>3. ASSUME NEW u \in Threads, pc'[u] = "deqMove"
        PROVE  n'[u] <= pt - h[u]
    BY <1>1, <1>3, <2>3, ZenonT(30) DEF Others, RingInv, Counted
  <2> QED  BY <1>10, <2>1, <2>2, <2>3, ZenonT(30) DEF Counted
<1>13. PutNeverFails'
  BY <1>3, ZenonT(30) DEF RingInv, PutNeverFails
<1> QED  BY <1>1, <1>5, <1>6, <1>8, <1>9, <1>12, <1>13, ZenonT(30) DEF RingInv

LEMMA DropApart ==
  ASSUME NEW ct, NEW pt, Distinct(ct, pt), NEW t \in Threads, NEW L \in SUBSET Putting,
         Others(t), pc[t] \in L, pc'[t] \notin L
  PROVE  Tables(L)' \cap Range(table[t]) = {}
<1>1. \A u \in Threads : u # t => /\ pc[u] \in L <=> pc'[u] \in L
                                  /\ table'[u] = table[u]
  BY ZenonT(30) DEF Others
<1>2. \A x : x \in Tables(L)' <=> \E u \in Threads : pc'[u] \in L /\ x \in Range(table'[u])
  BY ZenonT(30) DEF Tables
<1>3. \A u \in Threads : pc[u] \in L => Range(table[u]) \subseteq Mine(u)
  BY ZenonT(30) DEF Mine
<1>4. \A u \in Threads : u # t => Mine(t) \cap Mine(u) = {}
  BY ZenonT(30) DEF Distinct
<1>5. \A u \in Threads : pc'[u] \in L =>
        u # t /\ Range(table'[u]) \subseteq Mine(u) /\ Range(table[t]) \subseteq Mine(t)
  BY <1>1, <1>3, ZenonT(30)
<1> QED  BY <1>2, <1>4, <1>5, ZenonT(30)

LEMMA EnqMoveStep ==
  ASSUME LongIndices, NEW ct \in Nat, NEW ch \in Nat, NEW pt \in Nat, NEW ph \in Nat,
         NEW h \in [Threads -> Nat], RingInv(ct, ch, pt, ph, h),
         NEW t \in Threads, EnqMove(t), prodHead = head[t],
         NEW m \in Nat, m = n[t]
  PROVE  RingInv(ct, ch, pt, ph + m, h)'
<1> DEFINE q == ph + m
<1>1. TypeOK /\ TypeOK' /\ Others(t) /\ Locals(t, h)
  BY MoveTypeOK, ZenonT(30) DEF RingInv
<1>2. /\ pc[t] = "enqMove" /\ pc'[t] = "enqCopy" /\ prodHead' = (head[t] + m) % IndexWrap
      /\ UNCHANGED <<ring, prodTail, consHead, consTail, own, head, table, n, i, fails>>
  BY <1>1, ZenonT(30) DEF EnqMove, Goto, TypeOK
<1>3. head[t] = h[t] % IndexWrap /\ prodHead = ph % IndexWrap /\ pt <= ph /\ ct <= pt
  BY <1>2 DEF RingInv, Indexed, Waiting
<1>4. h[t] = ph
  <2>1. h[t] \in Nat /\ h[t] <= ph /\ ph - h[t] + RingSize < IndexWrap
    BY <1>2, Lag, ZenonT(30) DEF Waiting
  <2>2. ph - h[t] < IndexWrap /\ h[t] - ph < IndexWrap
    BY <2>1, Sizes
  <2>3. h[t] \in Int /\ ph \in Int /\ IndexWrap \in Nat \ {0}
    BY <2>1, Sizes
  <2>4. h[t] % IndexWrap = ph % IndexWrap
    BY <1>3, ZenonT(30) DEF EnqMove
  <2> QED  BY <2>2, <2>3, <2>4, SameRemainder, ZenonT(30)
<1>5. q \in Nat /\ ph <= q /\ prodHead' = q % IndexWrap
  <2>1. ((ph % IndexWrap) + m) % IndexWrap = (ph + m) % IndexWrap
    BY Advance, ZenonT(30)
  <2> QED  BY <1>2, <1>3, <2>1
<1>6. \A k : At(k)' = At(k)
  BY <1>2, ZenonT(30) DEF At
<1>7. Indexed(ct, ch, pt, q, h)'
  <2>1. \A u \in Threads : pc'[u] \in HeadKnown => head'[u] = h[u] % IndexWrap
    <3> TAKE u \in Threads
    <3>1. CASE u = t
      BY <1>2, <1>3, <3>1, ZenonT(30)
    <3>2. CASE u # t
      BY <1>1, <3>2, ZenonT(30) DEF Others, RingInv, Indexed, HeadKnown
    <3> QED  BY <3>1, <3>2, ZenonT(30)
  <2>2. /\ ct <= ch /\ ch <= pt /\ pt <= q /\ consTail' = ct % IndexWrap
        /\ consHead' = ch % IndexWrap /\ prodTail' = pt % IndexWrap
    BY <1>2, <1>5 DEF RingInv, Indexed
  <2> HIDE DEF q
  <2> QED  BY <1>5, <2>1, <2>2, ZenonT(30) DEF Indexed, HeadKnown
<1>8. ASSUME NEW u \in Threads
      PROVE  Locals(u, h)'
  <2>1. CASE u = t
    <3>1. n'[t] = n[t] /\ i'[t] = i[t] /\ table'[t] = table[t]
      BY <1>2, ZenonT(30)
    <3>2. /\ n[t] >= 1 /\ Len(table[t]) = n[t] /\ i[t] = 0
          /\ \A a, b \in 1..n[t] : table[t][a] = table[t][b] => a = b
      BY <1>1, <1>2, ZenonT(30) DEF Locals, Putting, BeforeMove
    <3>3. i[t] < n[t] /\ 1..i[t] = {}
      BY <3>2
    <3>4. Locals(t, h)'
      BY <1>2, <3>1, <3>2, <3>3, ZenonT(30) DEF Locals, BeforeMove, AfterMove, Taking
    <3> QED  BY <2>1, <3>4, ZenonT(30)
  <2>2. CASE u # t
    BY <1>1, <1>6, <2>2, LocalsKept, ZenonT(30) DEF RingInv
  <2> QED  BY <2>1, <2>2, ZenonT(30)
<1>9. Distinct(ct, pt)'
  <2>1. Mine(t)' = Mine(t) /\ own'[t] \cap Range(table'[t]) = {}
    BY <1>2, ZenonT(30) DEF Mine, Putting, BeforeMove, AfterMove, RingInv, Distinct
  <2> QED  BY <1>1, <1>6, <2>1, DistinctKept, ZenonT(30) DEF RingInv
<1>10. Reserved(ct, ch, pt, q, h)'
  <2>1. \A u \in Threads : u # t => pc'[u] = pc[u] /\ n'[u] = n[u] /\ n[u] \in Nat
    BY <1>1 DEF Others, TypeOK
  <2>2. pc'[t] \in AfterMove /\ pc'[t] \notin Taking /\ n'[t] = m
    BY <1>2, ZenonT(30) DEF AfterMove, Taking
  <2>3. \A u \in Threads : u # t /\ pc[u] \in AfterMove => pt <= h[u] /\ h[u] + n[u] <= ph
    BY ZenonT(30) DEF RingInv, Reserved
  <2>4. \A u \in Threads : pc'[u] \in AfterMove => pt <= h[u] /\ h[u] + n'[u] <= q
    BY <1>3, <1>4, <2>1, <2>2, <2>3
  <2>5. \A v, u \in Threads : v # u /\ pc'[v] \in AfterMove /\ pc'[u] \in AfterMove
          => h[v] + n'[v] <= h[u] \/ h[u] + n'[u] <= h[v]
    <3>1. \A u \in Threads : u # t /\ pc'[u] \in AfterMove => h[u] + n'[u] <= h[t]
      BY <1>4, <2>1, <2>3, ZenonT(30)
    <3>2. \A v, u \in Threads : v # u /\ v # t /\ u # t /\ pc'[v] \in AfterMove /\ pc'[u] \in AfterMove
          => h[v] + n'[v] <= h[u] \/ h[u] + n'[u] <= h[v]
      BY <2>1, ZenonT(30) DEF RingInv, Reserved, Clear
    <3> QED  BY <3>1, <3>2, ZenonT(30)
  <2>6. /\ \A u \in Threads : pc'[u] \in Taking => ct <= h[u] /\ h[u] + n'[u] <= ch
        /\ \A v, u \in Threads : v # u /\ pc'[v] \in Taking /\ pc'[u] \in Taking
             => h[v] + n'[v] <= h[u] \/ h[u] + n'[u] <= h[v]
    BY <2>1, <2>2, ZenonT(30) DEF RingInv, Reserved, Clear
  <2> HIDE DEF q
  <2> QED  BY <2>4, <2>5, <2>6, ZenonT(30) DEF Reserved, Clear
<1> DEFINE T == Range(table[t])
           B == Tables(BeforeMove)
           A == Tables(AfterMove)
<1>11. T \subseteq Objects /\ Cardinality(T) = m
  BY <1>1, <1>2, TableSize, ZenonT(30) DEF Putting, BeforeMove
<1>12. Cardinality(A') = ph + m - pt
  <2>1. A' = A \cup T
    BY <1>1, <1>2, TablesAdd, ZenonT(30) DEF AfterMove
  <2>2. A \cap T = {}
    <3>1. T \subseteq Mine(t)
      BY <1>2, ZenonT(30) DEF Mine, Putting, BeforeMove
    <3>2. Mine(t) \cap A = {}
      BY <1>2, Apart, ZenonT(30) DEF RingInv, Putting, AfterMove
    <3> QED  BY <3>1, <3>2, ZenonT(30)
  <2>3. A \subseteq Objects
    BY <1>1, TablesInObjects, ZenonT(30)
  <2>4. Cardinality(A) = ph - pt
    BY ZenonT(30) DEF RingInv, Counted
  <2> HIDE DEF A, T
  <2>5. Cardinality(A \cup T) = Cardinality(A) + Cardinality(T)
    BY <1>11, <2>2, <2>3, Disjoint2, ZenonT(30)
  <2> QED  BY <1>11, <2>1, <2>4, <2>5
<1>13. Cardinality(B') \in Nat /\ Cardinality(B) = Cardinality(B') + m
  <2>1. B = B' \cup T
    BY <1>1, <1>2, TablesDrop, ZenonT(30) DEF BeforeMove
  <2>2. B' \cap T = {}
    BY <1>1, <1>2, DropApart, ZenonT(30) DEF RingInv, Putting, BeforeMove
  <2>3. B \subseteq Objects
    BY <1>1, TablesInObjects, ZenonT(30)
  <2> HIDE DEF B, T
  <2>4. Cardinality(B' \cup T) = Cardinality(B') + Cardinality(T) /\ Cardinality(B') \in Nat
    BY <1>11, <2>1, <2>2, <2>3, Disjoint2, OnObjects, ZenonT(30)
  <2> QED  BY <1>11, <2>1, <2>4, ZenonT(30)
<1>14. Counted(ch, pt, q, h)'
  <2>1. ASSUME NEW u \in Threads, pc'[u] \in Waiting
        PROVE  /\ h[u] <= IF pc'[u] \in {"enqTail", "enqMove"} THEN q ELSE ch
               /\ q - h[u] + Cardinality(B') <= (IndexWrap \div 2) + Cardinality(Objects)
    <3>1. u # t /\ pc'[u] = pc[u] /\ pc[u] \in Waiting
      BY <1>1, <1>2, <2>1, ZenonT(30) DEF Others, Waiting
    <3>2. /\ h[u] <= IF pc[u] \in {"enqTail", "enqMove"} THEN ph ELSE ch
          /\ ph - h[u] + Cardinality(B) <= (IndexWrap \div 2) + Cardinality(Objects)
          /\ h[u] \in Nat
      BY <3>1, ZenonT(30) DEF RingInv, Counted
    <3> HIDE DEF B
    <3> QED  BY <1>13, <3>1, <3>2
  <2>2. ASSUME NEW u \in Threads, pc'[u] = "deqMove"
        PROVE  n'[u] <= pt - h[u]
    BY <1>1, <1>2, <2>2, ZenonT(30) DEF Others, RingInv, Counted
  <2>3. Cardinality(A') = q - pt
    BY <1>12
  <2> HIDE DEF q
  <2> QED  BY <2>1, <2>2, <2>3, ZenonT(30) DEF Counted
<1>15. PutNeverFails'
  BY <1>2, ZenonT(30) DEF RingInv, PutNeverFails
<1> HIDE DEF q
<1>16. RingInv(ct, ch, pt, q, h)'
  BY <1>1, <1>7, <1>8, <1>9, <1>10, <1>14, <1>15, ZenonT(30) DEF RingInv
<1> QED  BY <1>16, ZenonT(30) DEF q

\* The indices in use have a slot each.
LEMMA OneSlot ==
  ASSUME NEW ct \in Nat, NEW ch \in Nat, NEW pt \in Nat, NEW ph \in Nat,
         NEW h \in [Threads -> Nat], RingInv(ct, ch, pt, ph, h)
  PROVE  \A k, l \in ct..ph - 1 : k % RingSize = l % RingSize => k = l
<1> SUFFICES ASSUME NEW k \in ct..ph - 1, NEW l \in ct..ph - 1, k % RingSize = l % RingSize
             PROVE  k = l
  BY ZenonT(30)
<1>1. ct <= pt
  BY DEF RingInv, Indexed
<1>2. /\ Cardinality(Tables(BeforeMove)) \in Nat
      /\ ph - ct + Cardinality(Tables(BeforeMove)) <= Cardinality(Objects)
  BY <1>1, Room, ZenonT(30) DEF RingInv
<1>3. k \in Int /\ l \in Int /\ k - l < RingSize /\ l - k < RingSize
  BY <1>2, Sizes
<1>4. RingSize \in Nat \ {0}
  BY Sizes, ZenonT(30)
<1> QED  BY <1>3, <1>4, SameRemainder, ZenonT(30)

LEMMA EnqCopyStep ==
  ASSUME NEW ct \in Nat, NEW ch \in Nat, NEW pt \in Nat, NEW ph \in Nat,
         NEW h \in [Threads -> Nat], RingInv(ct, ch, pt, ph, h),
         NEW t \in Threads, EnqCopy(t)
  PROVE  RingInv(ct, ch, pt, ph, h)'
<1>1. TypeOK /\ TypeOK' /\ Others(t) /\ Locals(t, h)
  <2>1. TypeOK /\ Locals(t, h)
    BY ZenonT(30) DEF RingInv
  <2> QED  BY <2>1, CopyTypeOK, ZenonT(30)
<1>2. /\ pc[t] = "enqCopy" /\ pc'[t] = IF i[t] + 1 = n[t] THEN "enqDone" ELSE "enqCopy"
      /\ ring' = [ring EXCEPT ![Slot(head[t] + i[t])] = table[t][i[t] + 1]]
      /\ i'[t] = i[t] + 1
      /\ UNCHANGED <<prodHead, prodTail, consHead, consTail, own, head, table, n, fails>>
  BY <1>1, ZenonT(30) DEF EnqCopy, Goto, TypeOK
<1>3. /\ head[t] = h[t] % IndexWrap /\ ct <= ch /\ ch <= pt /\ pt <= ph
      /\ h[t] \in Nat /\ i[t] \in Nat /\ n[t] \in Nat /\ i[t] < n[t]
      /\ pt <= h[t] /\ h[t] + n[t] <= ph
  BY <1>2 DEF RingInv, Indexed, Reserved, TypeOK, Locals, AfterMove
<1> PICK c \in Nat : c = h[t] + i[t]
  BY <1>3
<1>4. c >= pt /\ c \in ct..ph - 1
  BY <1>3
<1>5. /\ Slot(head[t] + i[t]) = c % RingSize /\ c % RingSize \in Slots
  BY <1>3, SlotOf, ZenonT(30)
<1>6. At(c)' = table[t][i[t] + 1]
  <2> QED  BY <1>1, <1>2, <1>5, ZenonT(30) DEF At, TypeOK
<1>7. \A k \in ct..ph - 1 : k # c => At(k)' = At(k)
  <2> SUFFICES ASSUME NEW k \in ct..ph - 1, k # c PROVE At(k)' = At(k)
    BY ZenonT(30)
  <2>1. k % RingSize # c % RingSize
    <3>1. \A j, l \in ct..ph - 1 : j % RingSize = l % RingSize => j = l
      BY OneSlot, ZenonT(30)
    <3> QED  BY <1>4, <3>1, ZenonT(30)
  <2>2. k \in Nat /\ k % RingSize \in Slots
    BY Sizes DEF Slots
  <2> QED  BY <1>1, <1>2, <1>5, <2>1, <2>2, ZenonT(30) DEF At, TypeOK
<1>8. pc'[t] \in AfterMove /\ pc[t] \in AfterMove /\ pc'[t] \notin Waiting \cup BeforeMove \cup Taking
      /\ pc[t] \notin BeforeMove \cup Taking /\ pc'[t] \in {"enqCopy", "enqDone"}
  BY <1>2, ZenonT(30) DEF AfterMove, Waiting, BeforeMove, Taking
<1>9. Indexed(ct, ch, pt, ph, h)'
  BY <1>1, <1>2, <1>3, IndexedKept, ZenonT(30) DEF RingInv
<1>10. Locals(t, h)'
  <2>1. /\ n[t] >= 1 /\ Len(table[t]) = n[t]
        /\ \A a, b \in 1..n[t] : table[t][a] = table[t][b] => a = b
        /\ \A j \in 1..i[t] : At(h[t] + j - 1) = table[t][j]
    BY <1>1, <1>8, ZenonT(30) DEF Locals, Putting
  <2>2. ASSUME NEW j \in 1..i[t] + 1
        PROVE  At(h[t] + j - 1)' = table[t][j]
    <3>1. CASE j = i[t] + 1
      <4>1. h[t] + j - 1 = c
        BY <1>3, <3>1
      <4> QED  BY <1>6, <3>1, <4>1, ZenonT(30)
    <3>2. CASE j # i[t] + 1
      <4> DEFINE k == h[t] + j - 1
      <4>1. j \in Int /\ 1 <= j /\ j <= i[t]
        BY <1>3, <3>2
      <4>2. j \in 1..i[t] /\ k \in ct..ph - 1 /\ k # c
        BY <1>3, <4>1
      <4>3. At(k) = table[t][j]
        BY <2>1, <4>2, ZenonT(30)
      <4> HIDE DEF k
      <4>4. At(k)' = At(k)
        BY <1>7, <4>2, ZenonT(30)
      <4> QED  BY <4>3, <4>4, ZenonT(30) DEF k
    <3> QED  BY <3>1, <3>2, ZenonT(30)
  <2>3. n'[t] = n[t] /\ table'[t] = table[t]
    BY <1>2, ZenonT(30)
  <2>4. /\ pc'[t] = "enqCopy" => i'[t] < n[t]
        /\ pc'[t] = "enqDone" => i'[t] = n[t]
    BY <1>2, <1>3
  <2>5. \A j \in 1..i'[t] : At(h[t] + j - 1)' = table[t][j]
    BY <1>2, <2>2, ZenonT(30)
  <2> QED  BY <1>8, <2>1, <2>3, <2>4, <2>5, ZenonT(30) DEF Locals
<1>11. ASSUME NEW u \in Threads
       PROVE  Locals(u, h)'
  <2>1. CASE u = t
    BY <1>10, <2>1, ZenonT(30)
  <2>2. CASE u # t
    <3>1. Locals(u, h) /\ h[u] \in Nat /\ i[u] \in Nat /\ n[u] \in Nat
      BY DEF RingInv, TypeOK
    <3>2. ASSUME pc[u] \in AfterMove \cup Taking, NEW j \in 1..i[u]
          PROVE  At(h[u] + j - 1)' = At(h[u] + j - 1)
      <4> DEFINE k == h[u] + j - 1
      <4>1. i[u] <= n[u]
        BY <3>1, <3>2 DEF Locals, AfterMove, Taking
      <4>2. CASE pc[u] \in AfterMove
        <5>1. /\ pt <= h[u] /\ h[u] + n[u] <= ph
              /\ h[t] + n[t] <= h[u] \/ h[u] + n[u] <= h[t]
          BY <1>8, <2>2, <4>2, ZenonT(30) DEF RingInv, Reserved, Clear
        <5>2. k \in ct..ph - 1 /\ k # c
          BY <1>3, <3>1, <4>1, <5>1
        <5> HIDE DEF k
        <5>3. At(k)' = At(k)
          BY <1>7, <5>2, ZenonT(30)
        <5> QED  BY <5>3, ZenonT(30) DEF k
      <4>3. CASE pc[u] \in Taking
        <5>1. ct <= h[u] /\ h[u] + n[u] <= ch
          BY <4>3, ZenonT(30) DEF RingInv, Reserved
        <5>2. k \in ct..ph - 1 /\ k # c
          BY <1>3, <1>4, <3>1, <4>1, <5>1
        <5> HIDE DEF k
        <5>3. At(k)' = At(k)
          BY <1>7, <5>2, ZenonT(30)
        <5> QED  BY <5>3, ZenonT(30) DEF k
      <4> QED  BY <3>2, <4>2, <4>3, ZenonT(30)
    <3> QED  BY <1>1, <2>2, <3>1, <3>2, LocalsKept, ZenonT(30)
  <2> QED  BY <2>1, <2>2, ZenonT(30)
<1>12. Distinct(ct, pt)'
  <2>1. Mine(t)' = Mine(t) /\ own'[t] \cap Range(table'[t]) = {}
    BY <1>2, <1>8, ZenonT(30) DEF Mine, Putting, RingInv, Distinct
  <2>2. \A k \in ct..pt - 1 : At(k)' = At(k)
    <3> SUFFICES ASSUME NEW k \in ct..pt - 1 PROVE At(k)' = At(k)
      BY ZenonT(30)
    <3>1. k \in ct..ph - 1 /\ k # c
      BY <1>3, <1>4
    <3> QED  BY <1>7, <3>1, ZenonT(30)
  <2> QED  BY <1>1, <2>1, <2>2, DistinctKept, ZenonT(30) DEF RingInv
<1>13. Reserved(ct, ch, pt, ph, h)'
  BY <1>1, <1>2, <1>8, ReservedKept, ZenonT(30) DEF RingInv
<1>14. Tables(AfterMove)' = Tables(AfterMove) /\ Tables(BeforeMove)' = Tables(BeforeMove)
  BY <1>1, <1>2, <1>8, TablesKept, ZenonT(30)
<1>15. Counted(ch, pt, ph, h)'
  BY <1>1, <1>8, <1>14, CountedKept, ZenonT(30) DEF RingInv
<1>16. PutNeverFails'
  BY <1>2, ZenonT(30) DEF RingInv, PutNeverFails
<1> QED  BY <1>1, <1>9, <1>11, <1>12, <1>13, <1>15, <1>16, ZenonT(30) DEF RingInv

LEMMA EnqDoneHead ==
  ASSUME NEW ct \in Nat, NEW ch \in Nat, NEW pt \in Nat, NEW ph \in Nat,
         NEW h \in [Threads -> Nat], RingInv(ct, ch, pt, ph, h),
         NEW t \in Threads, EnqDone(t)
  PROVE  h[t] = pt
<1>0. pc[t] = "enqDone" /\ prodTail = head[t] /\ n[t] \in 0..MaxBulk
  BY ZenonT(30) DEF EnqDone, RingInv, TypeOK
<1>1. /\ head[t] = h[t] % IndexWrap /\ prodTail = pt % IndexWrap
      /\ ct <= ch /\ ch <= pt /\ h[t] \in Nat /\ pt <= h[t] /\ h[t] + n[t] <= ph
  BY <1>0, ZenonT(30) DEF RingInv, Indexed, Reserved, AfterMove
<1>2. /\ Cardinality(Tables(BeforeMove)) \in Nat
      /\ ph - ct + Cardinality(Tables(BeforeMove)) <= Cardinality(Objects)
  <2>1. ct <= pt
    BY <1>1
  <2> QED  BY <2>1, Room, ZenonT(30) DEF RingInv
<1>3. pt - h[t] < IndexWrap /\ h[t] - pt < IndexWrap
  BY <1>0, <1>1, <1>2, Sizes
<1>4. h[t] \in Int /\ pt \in Int /\ IndexWrap \in Nat \ {0}
  BY <1>1, Sizes
<1>5. h[t] % IndexWrap = pt % IndexWrap
  BY <1>0, <1>1, ZenonT(30)
<1> QED  BY <1>3, <1>4, <1>5, SameRemainder, ZenonT(30)

\* The objects a producer has copied become part of the queue.
LEMMA EnqDoneStep ==
  ASSUME NEW ct \in Nat, NEW ch \in Nat, NEW pt \in Nat, NEW ph \in Nat,
         NEW h \in [Threads -> Nat], RingInv(ct, ch, pt, ph, h),
         NEW t \in Threads, EnqDone(t), NEW m \in Nat, m = n[t]
  PROVE  RingInv(ct, ch, pt + m, ph, h)'
<1> DEFINE q == pt + m
           T == Range(table[t])
           A == Tables(AfterMove)
<1>1. TypeOK /\ TypeOK' /\ Others(t) /\ Locals(t, h)
  BY DoneTypeOK, ZenonT(30) DEF RingInv
<1>2. /\ pc[t] = "enqDone" /\ prodTail = head[t] /\ prodTail' = (head[t] + m) % IndexWrap
      /\ UNCHANGED <<ring, prodHead, consHead, consTail, own, fails>>
      /\ pc'[t] = "idle" /\ table'[t] = <<>>
  <2>1. Return(t)
    BY ZenonT(30) DEF EnqDone
  <2> QED  BY <1>1, <2>1, ReturnFacts DEF EnqDone, TypeOK
<1>3. /\ head[t] = h[t] % IndexWrap /\ prodTail = pt % IndexWrap
      /\ ct <= ch /\ ch <= pt /\ pt <= ph /\ h[t] \in Nat
      /\ pt <= h[t] /\ h[t] + m <= ph
  BY <1>2, ZenonT(30) DEF RingInv, Indexed, Reserved, AfterMove
<1>4. h[t] = pt
  BY EnqDoneHead
<1>5. q \in Nat /\ pt <= q /\ q <= ph /\ prodTail' = q % IndexWrap
  <2>1. ((pt % IndexWrap) + m) % IndexWrap = (pt + m) % IndexWrap
    BY Advance, ZenonT(30)
  <2> QED  BY <1>2, <1>3, <1>4, <2>1
<1>6. \A k : At(k)' = At(k)
  BY <1>2, ZenonT(30) DEF At
<1>7. Indexed(ct, ch, q, ph, h)'
  <2>1. \A u \in Threads : pc'[u] \in HeadKnown => head'[u] = h[u] % IndexWrap
    <3> TAKE u \in Threads
    <3>1. CASE u = t
      BY <1>2, <3>1, ZenonT(30) DEF HeadKnown, Waiting, AfterMove, Taking
    <3>2. CASE u # t
      BY <1>1, <3>2, ZenonT(30) DEF Others, RingInv, Indexed, HeadKnown
    <3> QED  BY <3>1, <3>2, ZenonT(30)
  <2>2. /\ consTail' = ct % IndexWrap /\ consHead' = ch % IndexWrap
        /\ prodHead' = ph % IndexWrap
    BY <1>2, ZenonT(30) DEF RingInv, Indexed
  <2>3. ch <= q
    BY <1>3, <1>5
  <2> HIDE DEF q
  <2> QED  BY <1>3, <1>5, <2>1, <2>2, <2>3, ZenonT(30) DEF Indexed, HeadKnown
<1>8. ASSUME NEW u \in Threads
      PROVE  Locals(u, h)'
  <2>1. CASE u = t
    BY <1>2, <2>1, ZenonT(30) DEF Locals, BeforeMove, AfterMove, Putting, Taking
  <2>2. CASE u # t
    BY <1>1, <1>6, <2>2, LocalsKept, ZenonT(30) DEF RingInv
  <2> QED  BY <2>1, <2>2, ZenonT(30)
<1>9. /\ T \subseteq Objects /\ Cardinality(T) = m /\ table[t] \in [1..m -> Objects]
      /\ \A a, b \in 1..m : table[t][a] = table[t][b] => a = b
      /\ \A j \in 1..m : At(pt + j - 1) = table[t][j]
  <2>1. pc[t] \in Putting /\ pc[t] \in AfterMove /\ i[t] = m
    BY <1>1, <1>2, ZenonT(30) DEF Putting, AfterMove, Locals
  <2> QED  BY <1>1, <1>4, <2>1, TableSize, ZenonT(30) DEF Locals
<1>10. T \subseteq Mine(t) /\ Mine(t)' = own[t] /\ own[t] \cap T = {} /\ own[t] \subseteq Mine(t)
  BY <1>2, ZenonT(30) DEF Mine, Putting, BeforeMove, AfterMove, RingInv, Distinct
<1>11. ASSUME NEW k \in pt..q - 1
       PROVE  k - pt + 1 \in 1..m /\ At(k) = table[t][k - pt + 1] /\ At(k) \in T
  <2>1. k - pt + 1 \in 1..m /\ pt + (k - pt + 1) - 1 = k
    OBVIOUS
  <2>2. At(k) = table[t][k - pt + 1]
    BY <1>9, <2>1, ZenonT(30)
  <2> QED  BY <1>9, <2>1, <2>2, ZenonT(30) DEF Range
<1>12. Distinct(ct, q)'
  <2>1. \A k \in ct..q - 1 : k \in ct..pt - 1 \/ k \in pt..q - 1
    BY <1>5
  <2>2. \A k \in ct..pt - 1 : \A u \in Threads : At(k) \notin Mine(u)
    BY ZenonT(30) DEF RingInv, Distinct
  <2>3. ASSUME NEW k \in ct..q - 1, NEW l \in ct..q - 1, At(k) = At(l)
        PROVE  k = l
    <3>1. CASE k \in ct..pt - 1 /\ l \in ct..pt - 1
      BY <2>3, <3>1, ZenonT(30) DEF RingInv, Distinct
    <3>2. CASE k \in pt..q - 1 /\ l \in pt..q - 1
      <4> DEFINE a == k - pt + 1
                 b == l - pt + 1
      <4>1. a \in 1..m /\ b \in 1..m /\ table[t][a] = table[t][b]
        BY <1>11, <2>3, <3>2
      <4>2. \A x, y \in 1..m : table[t][x] = table[t][y] => x = y
        BY <1>9, ZenonT(30)
      <4>3. a = b
        <5> HIDE DEF a, b
        <5> QED  BY ONLY <4>1, <4>2, ZenonT(30)
      <4> QED  BY <4>3
    <3>3. CASE k \in ct..pt - 1 /\ l \in pt..q - 1
      BY <1>10, <1>11, <2>2, <2>3, <3>3, ZenonT(30)
    <3>4. CASE k \in pt..q - 1 /\ l \in ct..pt - 1
      BY <1>10, <1>11, <2>2, <2>3, <3>4, ZenonT(30)
    <3> QED  BY <2>1, <3>1, <3>2, <3>3, <3>4, ZenonT(30)
  <2>4. \A u \in Threads : Mine(u)' \subseteq Mine(u) /\ (u # t => Mine(u)' = Mine(u))
    BY <1>1, <1>10, MineKept, ZenonT(30)
  <2>5. \A v, u \in Threads : v # u => Mine(v) \cap Mine(u) = {}
    BY ZenonT(30) DEF RingInv, Distinct
  <2>6. ASSUME NEW k \in ct..q - 1, NEW u \in Threads
        PROVE  At(k) \notin Mine(u)'
    <3>1. CASE k \in ct..pt - 1
      BY <2>2, <2>4, <3>1, ZenonT(30)
    <3>2. CASE k \in pt..q - 1
      <4>1. At(k) \in T
        BY <1>11, <3>2, ZenonT(30)
      <4>2. CASE u = t
        BY <1>10, <4>1, <4>2, ZenonT(30)
      <4>3. CASE u # t
        BY <1>10, <2>4, <2>5, <4>1, <4>3, ZenonT(30)
      <4> QED  BY <4>2, <4>3, ZenonT(30)
    <3> QED  BY <2>1, <3>1, <3>2, ZenonT(30)
  <2>7. \A v, u \in Threads : v # u => Mine(v)' \cap Mine(u)' = {}
    BY <2>4, <2>5, ZenonT(30)
  <2>8. \A u \in Threads : pc'[u] \in Putting => own'[u] \cap Range(table'[u]) = {}
    <3>1. pc'[t] \notin Putting
      BY <1>2, ZenonT(30) DEF Putting, BeforeMove, AfterMove
    <3> QED  BY <1>1, <3>1, ZenonT(30) DEF Others, RingInv, Distinct
  <2>9. \A k, l \in ct..q - 1 : At(k)' = At(l)' => k = l
    BY <1>6, <2>3, ZenonT(30)
  <2>10. \A k \in ct..q - 1 : \A u \in Threads : At(k)' \notin Mine(u)'
    BY <1>6, <2>6, ZenonT(30)
  <2> HIDE DEF q
  <2> QED  BY <2>7, <2>8, <2>9, <2>10, ZenonT(30) DEF Distinct
<1>13. Reserved(ct, ch, q, ph, h)'
  <2>1. \A u \in Threads : u # t => /\ pc'[u] = pc[u] /\ n'[u] = n[u] /\ n[u] \in Nat
                                    /\ h[u] \in Nat
    BY <1>1 DEF Others, TypeOK
  <2>2. pc'[t] \notin AfterMove /\ pc'[t] \notin Taking /\ pc[t] \in AfterMove
    BY <1>2, ZenonT(30) DEF AfterMove, Taking
  <2>3. ASSUME NEW u \in Threads, pc'[u] \in AfterMove
        PROVE  q <= h[u] /\ h[u] + n'[u] <= ph
    <3>1. u # t /\ pc[u] \in AfterMove
      BY <2>1, <2>2, <2>3, ZenonT(30)
    <3>2. /\ pt <= h[u] /\ h[u] + n[u] <= ph
          /\ h[t] + n[t] <= h[u] \/ h[u] + n[u] <= h[t]
      BY <2>2, <3>1, ZenonT(30) DEF RingInv, Reserved, Clear
    <3>3. n[u] >= 1
      BY <3>1, ZenonT(30) DEF RingInv, Locals, Putting
    <3> QED  BY <1>4, <2>1, <3>1, <3>2, <3>3
  <2>4. /\ \A u \in Threads : pc'[u] \in Taking => ct <= h[u] /\ h[u] + n'[u] <= ch
        /\ \A v, u \in Threads : v # u /\ pc'[v] \in Taking /\ pc'[u] \in Taking
             => h[v] + n'[v] <= h[u] \/ h[u] + n'[u] <= h[v]
        /\ \A v, u \in Threads : v # u /\ pc'[v] \in AfterMove /\ pc'[u] \in AfterMove
             => h[v] + n'[v] <= h[u] \/ h[u] + n'[u] <= h[v]
    BY <2>1, <2>2, ZenonT(30) DEF RingInv, Reserved, Clear
  <2> HIDE DEF q
  <2> QED  BY <2>3, <2>4, ZenonT(30) DEF Reserved, Clear
<1>14. Cardinality(A') = ph - q
  <2>1. A = A' \cup T
    BY <1>1, <1>2, TablesDrop, ZenonT(30) DEF AfterMove
  <2>2. A' \cap T = {}
    BY <1>1, <1>2, DropApart, ZenonT(30) DEF RingInv, Putting, AfterMove
  <2>3. A \subseteq Objects
    BY <1>1, TablesInObjects, ZenonT(30)
  <2>4. Cardinality(A) = ph - pt
    BY ZenonT(30) DEF RingInv, Counted
  <2>6. T \subseteq Objects /\ Cardinality(T) = m
    BY <1>9, ZenonT(30)
  <2> HIDE DEF A, T
  <2>5. Cardinality(A' \cup T) = Cardinality(A') + Cardinality(T) /\ Cardinality(A') \in Nat
    BY <2>6, <2>1, <2>2, <2>3, Disjoint2, OnObjects, ZenonT(30)
  <2>7. q = pt + m /\ Cardinality(A) = Cardinality(A') + m
    BY <2>1, <2>5, <2>6, ZenonT(30)
  <2> QED  BY <2>4, <2>5, <2>7
<1>15. Counted(ch, q, ph, h)'
  <2>1. Tables(BeforeMove)' = Tables(BeforeMove)
    BY <1>1, <1>2, TablesKept, ZenonT(30) DEF BeforeMove
  <2>2. ASSUME NEW u \in Threads, pc'[u] \in Waiting
        PROVE  /\ h[u] <= IF pc'[u] \in {"enqTail", "enqMove"} THEN ph ELSE ch
               /\ ph - h[u] + Cardinality(Tables(BeforeMove))
                    <= (IndexWrap \div 2) + Cardinality(Objects)
    <3>1. u # t /\ pc'[u] = pc[u] /\ pc[u] \in Waiting
      BY <1>1, <1>2, <2>2, ZenonT(30) DEF Others, Waiting
    <3> QED  BY <3>1, ZenonT(30) DEF RingInv, Counted
  <2>3. ASSUME NEW u \in Threads, pc'[u] = "deqMove"
        PROVE  n'[u] <= q - h[u]
    <3>1. u # t /\ pc[u] = "deqMove" /\ n'[u] = n[u]
      BY <1>1, <1>2, <2>3, ZenonT(30) DEF Others
    <3>2. n[u] <= pt - h[u]
      BY <3>1, ZenonT(30) DEF RingInv, Counted
    <3>3. n[u] \in Nat /\ h[u] \in Nat
      BY <1>1 DEF TypeOK
    <3> QED  BY <3>1, <3>2, <3>3
  <2> HIDE DEF q
  <2> QED  BY <1>14, <2>1, <2>2, <2>3, ZenonT(30) DEF Counted
<1>16. PutNeverFails'
  BY <1>2, ZenonT(30) DEF RingInv, PutNeverFails
<1>17. RingInv(ct, ch, q, ph, h)'
  <2> HIDE DEF q
  <2> QED  BY <1>1, <1>7, <1>8, <1>12, <1>13, <1>15, <1>16, ZenonT(30) DEF RingInv
<1> QED  BY <1>17, ZenonT(30)

LEMMA DeqMoveHead ==
  ASSUME LongIndices, NEW ct \in Nat, NEW ch \in Nat, NEW pt \in Nat, NEW ph \in Nat,
         NEW h \in [Threads -> Nat], RingInv(ct, ch, pt, ph, h),
         NEW t \in Threads, DeqMove(t), consHead = head[t]
  PROVE  h[t] = ch
<1>0. pc[t] = "deqMove"
  BY ZenonT(30) DEF DeqMove
<1>1. /\ head[t] = h[t] % IndexWrap /\ consHead = ch % IndexWrap
      /\ ch <= pt /\ pt <= ph
  BY <1>0, ZenonT(30) DEF RingInv, Indexed, Waiting
<1>2. h[t] \in Nat /\ h[t] <= ch /\ ph - h[t] + RingSize < IndexWrap
  BY <1>0, Lag, ZenonT(30) DEF Waiting
<1>3. ch - h[t] < IndexWrap /\ h[t] - ch < IndexWrap
  BY <1>1, <1>2, Sizes
<1>4. h[t] \in Int /\ ch \in Int /\ IndexWrap \in Nat \ {0}
  BY <1>2, Sizes
<1>5. h[t] % IndexWrap = ch % IndexWrap
  BY <1>1, ZenonT(30)
<1> QED  BY <1>3, <1>4, <1>5, SameRemainder, ZenonT(30)

LEMMA DeqMoveStep ==
  ASSUME LongIndices, NEW ct \in Nat, NEW ch \in Nat, NEW pt \in Nat, NEW ph \in Nat,
         NEW h \in [Threads -> Nat], RingInv(ct, ch, pt, ph, h),
         NEW t \in Threads, DeqMove(t), consHead = head[t], NEW m \in Nat, m = n[t]
  PROVE  RingInv(ct, ch + m, pt, ph, h)'
<1> DEFINE q == ch + m
<1>1. TypeOK /\ TypeOK' /\ Others(t) /\ Locals(t, h)
  BY MoveTypeOK, ZenonT(30) DEF RingInv
<1>2. /\ pc[t] = "deqMove" /\ pc'[t] = "deqCopy" /\ consHead' = (head[t] + m) % IndexWrap
      /\ UNCHANGED <<ring, prodHead, prodTail, consTail, own, head, table, n, i, fails>>
  BY <1>1, ZenonT(30) DEF DeqMove, Goto, TypeOK
<1>3. /\ head[t] = h[t] % IndexWrap /\ consHead = ch % IndexWrap
      /\ ct <= ch /\ ch <= pt /\ pt <= ph /\ m <= pt - h[t]
  BY <1>2, ZenonT(30) DEF RingInv, Indexed, Counted, Waiting
<1>4. h[t] = ch
  BY DeqMoveHead
<1>5. q \in Nat /\ ch <= q /\ q <= pt /\ consHead' = q % IndexWrap
  <2>1. ((ch % IndexWrap) + m) % IndexWrap = (ch + m) % IndexWrap
    BY Advance, ZenonT(30)
  <2> QED  BY <1>2, <1>3, <1>4, <2>1
<1>6. \A k : At(k)' = At(k)
  BY <1>2, ZenonT(30) DEF At
<1>7. Indexed(ct, q, pt, ph, h)'
  <2>1. \A u \in Threads : pc'[u] \in HeadKnown => head'[u] = h[u] % IndexWrap
    <3> TAKE u \in Threads
    <3>1. CASE u = t
      BY <1>2, <1>3, <3>1, ZenonT(30)
    <3>2. CASE u # t
      BY <1>1, <3>2, ZenonT(30) DEF Others, RingInv, Indexed, HeadKnown
    <3> QED  BY <3>1, <3>2, ZenonT(30)
  <2>2. /\ consTail' = ct % IndexWrap /\ prodHead' = ph % IndexWrap
        /\ prodTail' = pt % IndexWrap
    BY <1>2, ZenonT(30) DEF RingInv, Indexed
  <2>3. ct <= q
    BY <1>3, <1>5
  <2> HIDE DEF q
  <2> QED  BY <1>3, <1>5, <2>1, <2>2, <2>3, ZenonT(30) DEF Indexed, HeadKnown
<1>8. ASSUME NEW u \in Threads
      PROVE  Locals(u, h)'
  <2>1. CASE u = t
    <3>1. n'[t] = n[t] /\ i'[t] = i[t] /\ table'[t] = table[t]
      BY <1>2, ZenonT(30)
    <3>2. n[t] >= 1 /\ i[t] = 0 /\ table[t] = <<>> /\ n[t] \in Nat
      BY <1>1, <1>2, ZenonT(30) DEF Locals
    <3>3. i[t] < n[t] /\ 1..i[t] = {} /\ Len(table[t]) = 0
      BY <3>2
    <3>4. Locals(t, h)'
      BY <1>2, <3>1, <3>2, <3>3, ZenonT(30) DEF Locals, BeforeMove, AfterMove, Putting
    <3> QED  BY <2>1, <3>4, ZenonT(30)
  <2>2. CASE u # t
    BY <1>1, <1>6, <2>2, LocalsKept, ZenonT(30) DEF RingInv
  <2> QED  BY <2>1, <2>2, ZenonT(30)
<1>9. Distinct(ct, pt)'
  <2>1. Mine(t)' = Mine(t) /\ pc'[t] \notin Putting
    BY <1>2, ZenonT(30) DEF Mine, Putting, BeforeMove, AfterMove
  <2> QED  BY <1>1, <1>6, <2>1, DistinctKept, ZenonT(30) DEF RingInv
<1>10. Reserved(ct, q, pt, ph, h)'
  <2>1. \A u \in Threads : u # t => pc'[u] = pc[u] /\ n'[u] = n[u] /\ n[u] \in Nat
    BY <1>1 DEF Others, TypeOK
  <2>2. pc'[t] \in Taking /\ pc'[t] \notin AfterMove /\ n'[t] = m
    BY <1>2, ZenonT(30) DEF AfterMove, Taking
  <2>3. \A u \in Threads : u # t /\ pc[u] \in Taking => ct <= h[u] /\ h[u] + n[u] <= ch
    BY ZenonT(30) DEF RingInv, Reserved
  <2>4. \A u \in Threads : pc'[u] \in Taking => ct <= h[u] /\ h[u] + n'[u] <= q
    BY <1>3, <1>4, <2>1, <2>2, <2>3
  <2>5. \A v, u \in Threads : v # u /\ pc'[v] \in Taking /\ pc'[u] \in Taking
          => h[v] + n'[v] <= h[u] \/ h[u] + n'[u] <= h[v]
    <3>1. \A u \in Threads : u # t /\ pc'[u] \in Taking => h[u] + n'[u] <= h[t]
      BY <1>4, <2>1, <2>3, ZenonT(30)
    <3>2. \A v, u \in Threads : v # u /\ v # t /\ u # t /\ pc'[v] \in Taking /\ pc'[u] \in Taking
          => h[v] + n'[v] <= h[u] \/ h[u] + n'[u] <= h[v]
      BY <2>1, ZenonT(30) DEF RingInv, Reserved, Clear
    <3> QED  BY <3>1, <3>2, ZenonT(30)
  <2>6. /\ \A u \in Threads : pc'[u] \in AfterMove => pt <= h[u] /\ h[u] + n'[u] <= ph
        /\ \A v, u \in Threads : v # u /\ pc'[v] \in AfterMove /\ pc'[u] \in AfterMove
             => h[v] + n'[v] <= h[u] \/ h[u] + n'[u] <= h[v]
    BY <2>1, <2>2, ZenonT(30) DEF RingInv, Reserved, Clear
  <2> HIDE DEF q
  <2> QED  BY <2>4, <2>5, <2>6, ZenonT(30) DEF Reserved, Clear
<1>11. Tables(AfterMove)' = Tables(AfterMove) /\ Tables(BeforeMove)' = Tables(BeforeMove)
  BY <1>1, <1>2, TablesKept, ZenonT(30) DEF AfterMove, BeforeMove
<1>12. Counted(q, pt, ph, h)'
  <2>1. ASSUME NEW u \in Threads, pc'[u] \in Waiting
        PROVE  /\ h[u] <= IF pc'[u] \in {"enqTail", "enqMove"} THEN ph ELSE q
               /\ ph - h[u] + Cardinality(Tables(BeforeMove))
                    <= (IndexWrap \div 2) + Cardinality(Objects)
    <3>1. u # t /\ pc'[u] = pc[u] /\ pc[u] \in Waiting
      BY <1>1, <1>2, <2>1, ZenonT(30) DEF Others, Waiting
    <3>2. /\ h[u] <= IF pc[u] \in {"enqTail", "enqMove"} THEN ph ELSE ch
          /\ ph - h[u] + Cardinality(Tables(BeforeMove))
               <= (IndexWrap \div 2) + Cardinality(Objects)
          /\ h[u] \in Nat
      BY <3>1, ZenonT(30) DEF RingInv, Counted
    <3> QED  BY <3>1, <3>2
  <2>2. ASSUME NEW u \in Threads, pc'[u] = "deqMove"
        PROVE  n'[u] <= pt - h[u]
    BY <1>1, <1>2, <2>2, ZenonT(30) DEF Others, RingInv, Counted
  <2>3. Cardinality(Tables(AfterMove)) = ph - pt
    BY ZenonT(30) DEF RingInv, Counted
  <2> HIDE DEF q
  <2> QED  BY <1>11, <2>1, <2>2, <2>3, ZenonT(30) DEF Counted
<1>13. PutNeverFails'
  BY <1>2, ZenonT(30) DEF RingInv, PutNeverFails
<1>14. RingInv(ct, q, pt, ph, h)'
  <2> HIDE DEF q
  <2> QED  BY <1>1, <1>7, <1>8, <1>9, <1>10, <1>12, <1>13, ZenonT(30) DEF RingInv
<1> QED  BY <1>14, ZenonT(30)

LEMMA DeqCopyStep ==
  ASSUME NEW ct \in Nat, NEW ch \in Nat, NEW pt \in Nat, NEW ph \in Nat,
         NEW h \in [Threads -> Nat], RingInv(ct, ch, pt, ph, h),
         NEW t \in Threads, DeqCopy(t)
  PROVE  RingInv(ct, ch, pt, ph, h)'
<1>1. TypeOK /\ TypeOK' /\ Others(t) /\ Locals(t, h)
  <2>1. TypeOK /\ Locals(t, h)
    BY ZenonT(30) DEF RingInv
  <2> QED  BY <2>1, CopyTypeOK, ZenonT(30)
<1>2. /\ pc[t] = "deqCopy" /\ pc'[t] = IF i[t] + 1 = n[t] THEN "deqDone" ELSE "deqCopy"
      /\ table'[t] = Append(table[t], ring[Slot(head[t] + i[t])])
      /\ i'[t] = i[t] + 1
      /\ UNCHANGED <<ring, prodHead, prodTail, consHead, consTail, own, head, n, fails>>
  BY <1>1, ZenonT(30) DEF DeqCopy, Goto, TypeOK, ringVars
<1>3. /\ head[t] = h[t] % IndexWrap /\ h[t] \in Nat /\ i[t] \in Nat /\ n[t] \in Nat
      /\ i[t] < n[t] /\ table[t] \in Seq(Objects) /\ Len(table[t]) = i[t]
      /\ \A j \in 1..i[t] : table[t][j] = At(h[t] + j - 1)
  <2>1. head[t] = h[t] % IndexWrap
    BY <1>2, ZenonT(30) DEF RingInv, Indexed, Taking
  <2>2. h[t] \in Nat /\ i[t] \in Nat /\ n[t] \in Nat /\ table[t] \in Seq(Objects)
    BY <1>1 DEF TypeOK
  <2>3. /\ i[t] < n[t] /\ Len(table[t]) = i[t]
        /\ \A j \in 1..i[t] : table[t][j] = At(h[t] + j - 1)
    BY <1>1, <1>2, ZenonT(30) DEF Locals, Taking
  <2> QED  BY <2>1, <2>2, <2>3, ZenonT(30)
<1>4. table'[t] = Append(table[t], At(h[t] + i[t]))
  <2>1. Slot(head[t] + i[t]) = (h[t] + i[t]) % RingSize
    BY <1>3, SlotOf, ZenonT(30)
  <2> QED  BY <1>2, <2>1, ZenonT(30) DEF At
<1>5. \A k : At(k)' = At(k)
  BY <1>2, ZenonT(30) DEF At
<1>6. /\ pc[t] \in Taking /\ pc'[t] \in Taking /\ pc[t] \notin Putting /\ pc'[t] \notin Putting
      /\ pc'[t] \notin Waiting /\ pc'[t] \in {"deqCopy", "deqDone"}
  BY <1>2, ZenonT(30) DEF Taking, Waiting, Putting, BeforeMove, AfterMove
<1>7. Indexed(ct, ch, pt, ph, h)'
  BY <1>1, <1>2, <1>3, IndexedKept, ZenonT(30) DEF RingInv
<1>8. Locals(t, h)'
  <2> PICK o : o = At(h[t] + i[t])
    BY ZenonT(30)
  <2>1. o \in Objects
    <3>1. (h[t] + i[t]) % RingSize \in Slots
      BY <1>3, SlotOf, ZenonT(30)
    <3> QED  BY <1>1, <3>1, ZenonT(30) DEF At, TypeOK
  <2>2. /\ Len(table'[t]) = i[t] + 1 /\ table'[t][i[t] + 1] = o
        /\ \A j \in 1..i[t] : table'[t][j] = table[t][j]
    <3> DEFINE s == table[t]
    <3>1. s \in Seq(Objects) /\ Len(s) = i[t] /\ table'[t] = Append(s, o)
      BY <1>3, <1>4, ZenonT(30)
    <3> HIDE DEF s
    <3>2. /\ Len(Append(s, o)) = i[t] + 1 /\ Append(s, o)[i[t] + 1] = o
          /\ \A j \in 1..i[t] : Append(s, o)[j] = s[j]
      BY ONLY <2>1, <3>1, SMTT(30)
    <3> QED  BY <3>1, <3>2, ZenonT(30) DEF s
  <2>3. ASSUME NEW j \in 1..i[t] + 1
        PROVE  table'[t][j] = At(h[t] + j - 1)
    <3>1. CASE j = i[t] + 1
      <4>1. h[t] \in Nat /\ i[t] \in Nat
        BY <1>3, ZenonT(30)
      <4>2. h[t] + j - 1 = h[t] + i[t]
        BY <3>1, <4>1
      <4> QED  BY <2>2, <3>1, <4>2, ZenonT(30)
    <3>2. CASE j # i[t] + 1
      <4>1. j \in 1..i[t]
        <5>1. i[t] \in Nat
          BY <1>3, ZenonT(30)
        <5> QED  BY <3>2, <5>1
      <4> QED  BY <1>3, <2>2, <4>1, ZenonT(30)
    <3> QED  BY <3>1, <3>2, ZenonT(30)
  <2>4. /\ pc'[t] = "deqCopy" => i'[t] < n'[t]
        /\ pc'[t] = "deqDone" => i'[t] = n'[t]
        /\ n'[t] >= 1 /\ Len(table'[t]) = i'[t]
    BY <1>2, <1>3, <2>2
  <2>5. \A j \in 1..i'[t] : table'[t][j] = At(h[t] + j - 1)'
    BY <1>2, <1>5, <2>3, ZenonT(30)
  <2> QED  BY <1>6, <2>4, <2>5, ZenonT(30) DEF Locals, Putting
<1>9. ASSUME NEW u \in Threads
      PROVE  Locals(u, h)'
  <2>1. CASE u = t
    BY <1>8, <2>1, ZenonT(30)
  <2>2. CASE u # t
    BY <1>1, <1>5, <2>2, LocalsKept, ZenonT(30) DEF RingInv
  <2> QED  BY <2>1, <2>2, ZenonT(30)
<1>10. Distinct(ct, pt)'
  <2>1. Mine(t)' = Mine(t)
    BY <1>2, <1>6, ZenonT(30) DEF Mine
  <2> QED  BY <1>1, <1>5, <1>6, <2>1, DistinctKept, ZenonT(30) DEF RingInv
<1>11. Reserved(ct, ch, pt, ph, h)'
  BY <1>1, <1>2, <1>6, ReservedKept, ZenonT(30) DEF RingInv, Putting
<1>12. Tables(AfterMove)' = Tables(AfterMove) /\ Tables(BeforeMove)' = Tables(BeforeMove)
  BY <1>1, <1>6, TablesKept, ZenonT(30) DEF Putting
<1>13. Counted(ch, pt, ph, h)'
  BY <1>1, <1>6, <1>12, CountedKept, ZenonT(30) DEF RingInv
<1>14. PutNeverFails'
  BY <1>2, ZenonT(30) DEF RingInv, PutNeverFails
<1> QED  BY <1>1, <1>7, <1>9, <1>10, <1>11, <1>13, <1>14, ZenonT(30) DEF RingInv

\* The objects a consumer has copied leave the ring.
LEMMA DeqDoneStep ==
  ASSUME NEW ct \in Nat, NEW ch \in Nat, NEW pt \in Nat, NEW ph \in Nat,
         NEW h \in [Threads -> Nat], RingInv(ct, ch, pt, ph, h),
         NEW t \in Threads, DeqDone(t), NEW m \in Nat, m = n[t]
  PROVE  RingInv(ct + m, ch, pt, ph, h)'
<1> DEFINE q == ct + m
           T == Range(table[t])
<1>1. TypeOK /\ TypeOK' /\ Others(t) /\ Locals(t, h)
  BY DoneTypeOK, ZenonT(30) DEF RingInv
<1>2. /\ pc[t] = "deqDone" /\ consTail = head[t] /\ consTail' = (head[t] + m) % IndexWrap
      /\ UNCHANGED <<ring, prodHead, prodTail, consHead, fails>>
      /\ own'[t] = own[t] \cup T
      /\ pc'[t] = "idle" /\ table'[t] = <<>>
  <2>1. Return(t)
    BY ZenonT(30) DEF DeqDone
  <2> QED  BY <1>1, <2>1, ReturnFacts DEF DeqDone, TypeOK
<1>3. /\ head[t] = h[t] % IndexWrap /\ consTail = ct % IndexWrap
      /\ ct <= ch /\ ch <= pt /\ pt <= ph /\ h[t] \in Nat
      /\ ct <= h[t] /\ h[t] + m <= ch
  BY <1>2, ZenonT(30) DEF RingInv, Indexed, Reserved, Taking
<1>4. h[t] = ct
  <2>1. /\ Cardinality(Tables(BeforeMove)) \in Nat
        /\ ph - ct + Cardinality(Tables(BeforeMove)) <= Cardinality(Objects)
    <3>1. ct <= pt
      BY <1>3
    <3> QED  BY <3>1, Room, ZenonT(30) DEF RingInv
  <2>2. ct - h[t] < IndexWrap /\ h[t] - ct < IndexWrap
    BY <1>3, <2>1, Sizes
  <2>3. h[t] \in Int /\ ct \in Int /\ IndexWrap \in Nat \ {0}
    BY <1>3, Sizes
  <2>4. h[t] % IndexWrap = ct % IndexWrap
    BY <1>2, <1>3, ZenonT(30)
  <2> QED  BY <2>2, <2>3, <2>4, SameRemainder, ZenonT(30)
<1>5. q \in Nat /\ ct <= q /\ q <= ch /\ consTail' = q % IndexWrap
  <2>1. ((ct % IndexWrap) + m) % IndexWrap = (ct + m) % IndexWrap
    BY Advance, ZenonT(30)
  <2> QED  BY <1>2, <1>3, <1>4, <2>1
<1>6. \A k : At(k)' = At(k)
  BY <1>2, ZenonT(30) DEF At
<1>7. Indexed(q, ch, pt, ph, h)'
  <2>1. \A u \in Threads : pc'[u] \in HeadKnown => head'[u] = h[u] % IndexWrap
    <3> TAKE u \in Threads
    <3>1. CASE u = t
      BY <1>2, <3>1, ZenonT(30) DEF HeadKnown, Waiting, AfterMove, Taking
    <3>2. CASE u # t
      BY <1>1, <3>2, ZenonT(30) DEF Others, RingInv, Indexed, HeadKnown
    <3> QED  BY <3>1, <3>2, ZenonT(30)
  <2>2. /\ q <= ch /\ ch <= pt /\ pt <= ph /\ prodTail' = pt % IndexWrap
        /\ consHead' = ch % IndexWrap /\ prodHead' = ph % IndexWrap
    BY <1>2, <1>3, <1>5, ZenonT(30) DEF RingInv, Indexed
  <2> HIDE DEF q
  <2> QED  BY <1>5, <2>1, <2>2, ZenonT(30) DEF Indexed, HeadKnown
<1>8. ASSUME NEW u \in Threads
      PROVE  Locals(u, h)'
  <2>1. CASE u = t
    BY <1>2, <2>1, ZenonT(30) DEF Locals, BeforeMove, AfterMove, Putting, Taking
  <2>2. CASE u # t
    BY <1>1, <1>6, <2>2, LocalsKept, ZenonT(30) DEF RingInv
  <2> QED  BY <2>1, <2>2, ZenonT(30)
<1>9. \A x \in T : \E k \in ct..q - 1 : x = At(k)
  <2>1. /\ i[t] = m /\ table[t] \in Seq(Objects) /\ Len(table[t]) = m
        /\ \A j \in 1..m : table[t][j] = At(h[t] + j - 1)
    BY <1>1, <1>2, ZenonT(30) DEF Locals, Taking, TypeOK
  <2>2. \A x \in T : \E j \in 1..m : x = table[t][j]
    <3>1. table[t] \in [1..m -> Objects]
      BY <2>1
    <3> QED  BY <3>1, ZenonT(30) DEF Range
  <2>3. \A j \in 1..m : ct + j - 1 \in ct..q - 1
    OBVIOUS
  <2>4. \A j \in 1..m : table[t][j] = At(ct + j - 1)
    BY <1>4, <2>1, ZenonT(30)
  <2> SUFFICES ASSUME NEW x \in T PROVE \E k \in ct..q - 1 : x = At(k)
    BY ZenonT(30)
  <2> PICK j \in 1..m : x = table[t][j]
    BY <2>2, ZenonT(30)
  <2>5. ct + j - 1 \in ct..q - 1 /\ x = At(ct + j - 1)
    BY <2>3, <2>4, ZenonT(30)
  <2> HIDE DEF q, T
  <2> QED  BY <2>5, ZenonT(30)
<1>10. Mine(t) = own[t] /\ Mine(t)' = own[t] \cup T
  BY <1>2, ZenonT(30) DEF Mine, Putting, BeforeMove, AfterMove
<1>11. Distinct(q, pt)'
  <2>1. \A k \in q..pt - 1 : k \in ct..pt - 1 /\ k \notin ct..q - 1
    BY <1>5
  <2>2. \A k \in ct..q - 1 : k \in ct..pt - 1
    BY <1>3, <1>5
  <2>3. /\ \A k, l \in ct..pt - 1 : At(k) = At(l) => k = l
        /\ \A k \in ct..pt - 1 : \A u \in Threads : At(k) \notin Mine(u)
        /\ \A v, u \in Threads : v # u => Mine(v) \cap Mine(u) = {}
    BY ZenonT(30) DEF RingInv, Distinct
  <2> HIDE DEF q, T
  <2>4. \A u \in Threads : u # t => Mine(u)' = Mine(u)
    BY <1>1, MineKept, ZenonT(30)
  <2>5. \A u \in Threads : T \cap Mine(u) = {}
    <3> SUFFICES ASSUME NEW u \in Threads, NEW x \in T
                 PROVE  x \notin Mine(u)
      BY ZenonT(30)
    <3> PICK k \in ct..q - 1 : x = At(k)
      BY <1>9, ZenonT(30)
    <3> QED  BY <2>2, <2>3, ZenonT(30)
  <2>6. \A k \in q..pt - 1 : At(k) \notin T
    <3> SUFFICES ASSUME NEW k \in q..pt - 1, At(k) \in T
                 PROVE  FALSE
      BY ZenonT(30)
    <3> PICK l \in ct..q - 1 : At(k) = At(l)
      BY <1>9, ZenonT(30)
    <3> QED  BY <2>1, <2>2, <2>3
  <2>7. \A k, l \in q..pt - 1 : At(k)' = At(l)' => k = l
    BY <1>6, <2>1, <2>3, ZenonT(30)
  <2>8. \A k \in q..pt - 1 : \A u \in Threads : At(k)' \notin Mine(u)'
    <3> SUFFICES ASSUME NEW k \in q..pt - 1, NEW u \in Threads
                 PROVE  At(k)' \notin Mine(u)'
      BY ZenonT(30)
    <3>1. At(k) \notin T /\ At(k) \notin Mine(u)
      BY <2>1, <2>3, <2>6, ZenonT(30)
    <3> QED  BY <1>6, <1>10, <2>4, <3>1, ZenonT(30)
  <2>9. \A v, u \in Threads : v # u => Mine(v)' \cap Mine(u)' = {}
    <3>1. \A u \in Threads : u # t => Mine(t)' \cap Mine(u)' = {}
      BY <1>10, <2>3, <2>4, <2>5
    <3> QED  BY <2>3, <2>4, <3>1, ZenonT(30)
  <2>10. \A u \in Threads : pc'[u] \in Putting => own'[u] \cap Range(table'[u]) = {}
    <3>1. pc'[t] \notin Putting
      BY <1>2, ZenonT(30) DEF Putting, BeforeMove, AfterMove
    <3> QED  BY <1>1, <3>1, ZenonT(30) DEF Others, RingInv, Distinct
  <2> QED  BY <2>7, <2>8, <2>9, <2>10, ZenonT(30) DEF Distinct
<1>12. Reserved(q, ch, pt, ph, h)'
  <2>1. \A u \in Threads : u # t => /\ pc'[u] = pc[u] /\ n'[u] = n[u] /\ n[u] \in Nat
                                    /\ h[u] \in Nat
    BY <1>1 DEF Others, TypeOK
  <2>2. pc'[t] \notin AfterMove /\ pc'[t] \notin Taking /\ pc[t] \in Taking
    BY <1>2, ZenonT(30) DEF AfterMove, Taking
  <2>3. ASSUME NEW u \in Threads, pc'[u] \in Taking
        PROVE  q <= h[u] /\ h[u] + n'[u] <= ch
    <3>1. u # t /\ pc[u] \in Taking
      BY <2>1, <2>2, <2>3, ZenonT(30)
    <3>2. /\ ct <= h[u] /\ h[u] + n[u] <= ch
          /\ h[t] + n[t] <= h[u] \/ h[u] + n[u] <= h[t]
      BY <2>2, <3>1, ZenonT(30) DEF RingInv, Reserved, Clear
    <3>3. n[u] >= 1
      BY <3>1, ZenonT(30) DEF RingInv, Locals
    <3> QED  BY <1>4, <2>1, <3>1, <3>2, <3>3
  <2>4. /\ \A u \in Threads : pc'[u] \in AfterMove => pt <= h[u] /\ h[u] + n'[u] <= ph
        /\ \A v, u \in Threads : v # u /\ pc'[v] \in Taking /\ pc'[u] \in Taking
             => h[v] + n'[v] <= h[u] \/ h[u] + n'[u] <= h[v]
        /\ \A v, u \in Threads : v # u /\ pc'[v] \in AfterMove /\ pc'[u] \in AfterMove
             => h[v] + n'[v] <= h[u] \/ h[u] + n'[u] <= h[v]
    BY <2>1, <2>2, ZenonT(30) DEF RingInv, Reserved, Clear
  <2> HIDE DEF q
  <2> QED  BY <2>3, <2>4, ZenonT(30) DEF Reserved, Clear
<1>13. Tables(AfterMove)' = Tables(AfterMove) /\ Tables(BeforeMove)' = Tables(BeforeMove)
  BY <1>1, <1>2, TablesKept, ZenonT(30) DEF AfterMove, BeforeMove
<1>14. Counted(ch, pt, ph, h)'
  BY <1>1, <1>2, <1>13, CountedKept, ZenonT(30) DEF RingInv, Waiting
<1>15. PutNeverFails'
  BY <1>2, ZenonT(30) DEF RingInv, PutNeverFails
<1>16. RingInv(q, ch, pt, ph, h)'
  <2> HIDE DEF q
  <2> QED  BY <1>1, <1>7, <1>8, <1>11, <1>12, <1>14, <1>15, ZenonT(30) DEF RingInv
<1> QED  BY <1>16, ZenonT(30)

-----------------------------------------------------------------------------
(* The initial ring.                                                       *)

LEMMA SomeOrder ==
  /\ (CHOOSE f \in Orders(Objects) : TRUE) \in Orders(Objects)
  /\ Cardinality(Objects) >= 1
<1>1. IsFiniteSet(Objects) /\ Objects # {}
  BY PoolAssumption, ZenonT(30) DEF PoolAssumption
<1>2. Cardinality(Objects) \in Nat /\ ExistsBijection(1..Cardinality(Objects), Objects)
  BY <1>1, FS_CardinalityType, ZenonT(30)
<1>3. Cardinality(Objects) # 0
  BY <1>1, FS_EmptySet, ZenonT(30)
<1>4. \E f \in Orders(Objects) : TRUE
  BY <1>2, ZenonT(30) DEF Orders, ExistsBijection
<1>5. (CHOOSE f \in Orders(Objects) : TRUE) \in Orders(Objects)
  BY <1>4, ZenonT(30)
<1> QED  BY <1>2, <1>3, <1>5

LEMMA InitFacts ==
  ASSUME Init
  PROVE  /\ TypeOK
         /\ \A k \in 0..Cardinality(Objects) - 1 :
              At(k) = (CHOOSE f \in Orders(Objects) : TRUE)[k + 1]
<1> DEFINE N == Cardinality(Objects)
           f == CHOOSE f \in Orders(Objects) : TRUE
<1>1. f \in Orders(Objects) /\ N \in Nat /\ N >= 1 /\ N < RingSize /\ N < IndexWrap
  BY SomeOrder, Sizes
<1>2. ring = [s \in Slots |-> f[IF s < Len(f) THEN s + 1 ELSE 1]]
  BY ZenonT(30) DEF Init
<1>3. f \in Seq(Objects) /\ Len(f) = N
  <2> HIDE DEF f
  <2> QED  BY <1>1, OrderFacts, ZenonT(30)
<1> HIDE DEF f
<1>4. \A s \in Slots : f[IF s < Len(f) THEN s + 1 ELSE 1] \in Objects
  BY <1>1, <1>3, Sizes DEF Slots
<1>5. ring \in [Slots -> Objects]
  BY <1>2, <1>4, ZenonT(30)
<1>6. N \in Indices /\ 0 \in Indices /\ 0 \in 0..MaxBulk /\ "idle" \in Labels
      /\ <<>> \in Seq(Objects)
  BY <1>1, Sizes, PoolAssumption DEF PoolAssumption, Indices, Labels
<1>7. TypeOK
  BY <1>5, <1>6, ZenonT(30) DEF Init, TypeOK
<1>8. ASSUME NEW k \in 0..N - 1
      PROVE  At(k) = f[k + 1]
  <2>1. k \in Slots /\ k < Len(f)
    BY <1>1, <1>3, Sizes DEF Slots
  <2>2. k % RingSize = k
    BY <1>1, Sizes
  <2> QED  BY <1>2, <2>1, <2>2, ZenonT(30) DEF At
<1> QED  BY <1>7, <1>8, ZenonT(30) DEF f

LEMMA InitInv ==
  ASSUME Init
  PROVE  RingInv(0, 0, Cardinality(Objects), Cardinality(Objects), [t \in Threads |-> 0])
<1> DEFINE N == Cardinality(Objects)
           f == CHOOSE f \in Orders(Objects) : TRUE
           h == [t \in Threads |-> 0]
<1>1. TypeOK /\ N \in Nat /\ N < IndexWrap /\ f \in Orders(Objects)
  BY InitFacts, SomeOrder, Sizes
<1>2. \A t \in Threads : pc[t] = "idle" /\ table[t] = <<>> /\ own[t] = {} /\ ~fails[t]
  BY ZenonT(30) DEF Init
<1>3. \A t \in Threads : pc[t] \notin Waiting \cup Putting \cup Taking
  BY <1>2, ZenonT(30) DEF Waiting, Putting, BeforeMove, AfterMove, Taking
<1>4. Indexed(0, 0, N, N, h)
  <2>1. N % IndexWrap = N /\ 0 % IndexWrap = 0
    BY <1>1, Sizes
  <2>2. consTail = 0 /\ consHead = 0 /\ prodTail = N /\ prodHead = N
    BY ZenonT(30) DEF Init
  <2>3. \A t \in Threads : pc[t] \notin Waiting \cup AfterMove \cup Taking
    BY <1>3, ZenonT(30) DEF Putting
  <2> HIDE DEF h
  <2> QED  BY <1>1, <2>1, <2>2, <2>3 DEF Indexed
<1>5. \A t \in Threads : Locals(t, h)
  <2> HIDE DEF h
  <2> QED  BY <1>2, <1>3, ZenonT(30) DEF Locals, Putting, BeforeMove
<1>6. Distinct(0, N)
  <2>1. \A a, b \in 1..N : f[a] = f[b] => a = b
    <3> HIDE DEF f
    <3> QED  BY <1>1, OrderFacts, ZenonT(30)
  <2>2. \A k \in 0..N - 1 : At(k) = f[k + 1]
    BY InitFacts, ZenonT(30)
  <2> HIDE DEF f
  <2>3. ASSUME NEW k \in 0..N - 1, NEW l \in 0..N - 1, At(k) = At(l)
        PROVE  k = l
    <3>1. k + 1 \in 1..N /\ l + 1 \in 1..N
      BY <1>1
    <3>2. f[k + 1] = f[l + 1]
      BY <2>2, <2>3
    <3>3. k + 1 = l + 1
      BY <2>1, <3>1, <3>2, ZenonT(30)
    <3> QED  BY <3>3
  <2>4. \A t \in Threads : Mine(t) = {}
    BY <1>2, <1>3, ZenonT(30) DEF Mine
  <2> HIDE DEF N
  <2> QED  BY <1>3, <2>3, <2>4, ZenonT(30) DEF Distinct
<1>7. Reserved(0, 0, N, N, h)
  <2> HIDE DEF h
  <2> QED  BY <1>3, ZenonT(30) DEF Reserved, Putting
<1>8. Counted(0, N, N, h)
  <2>1. Tables(AfterMove) = {}
    BY <1>3, InTables, ZenonT(30) DEF Putting
  <2>2. Cardinality(Tables(AfterMove)) = N - N
    BY <1>1, <2>1, FS_EmptySet
  <2>3. \A t \in Threads : pc[t] \notin Waiting /\ pc[t] # "deqMove"
    BY <1>2, <1>3, ZenonT(30)
  <2> HIDE DEF h
  <2> QED  BY <2>2, <2>3, ZenonT(30) DEF Counted
<1>9. PutNeverFails
  BY <1>2, ZenonT(30) DEF PutNeverFails
<1> HIDE DEF h
<1>10. RingInv(0, 0, N, N, h)
  BY <1>1, <1>4, <1>5, <1>6, <1>7, <1>8, <1>9, ZenonT(30) DEF RingInv
<1> QED  BY <1>10, ZenonT(30) DEF h

=============================================================================
