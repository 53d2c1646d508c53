---------------------------- MODULE MemPoolProofs ----------------------------
(***************************************************************************)
(* What the lock-free ring promises, for any number of threads, objects    *)
(* and objects per operation: a put finds room, a get fails only if the    *)
(* pool is short, and the ring implements the atomic pool.  Each step of a *)
(* thread is a step of the pool or leaves it alone (Outcome).              *)
(***************************************************************************)
EXTENDS MemPoolInvariance

\* A leaf names Zenon where it needs no arithmetic.
USE SMTT(30), ZenonT(30)

-----------------------------------------------------------------------------
(* The pool that the ring implements, with indices that do not wrap.       *)

Queue(ch, pt) == [j \in 1..pt - ch |-> At(ch + j - 1)]

Holds(t, h) ==
  own[t] \cup (IF pc[t] \in Taking THEN {At(k) : k \in h[t]..h[t] + n[t] - 1}
               ELSE Range(table[t]))

LEMMA ContentIs ==
  ASSUME NEW x \in Nat, NEW y \in Nat, NEW len \in Int
  PROVE  Content((x % IndexWrap) + y, len) = [j \in 1..len |-> At(x + y + j - 1)]
<1> DEFINE w == x % IndexWrap
<1>1. w \in Nat
  BY Sizes
<1>2. ASSUME NEW j \in 1..len
      PROVE  Slot(w + y + j - 1) = (x + y + j - 1) % RingSize
  <2>1. y + j - 1 \in Nat /\ w + y + j - 1 = w + (y + j - 1) /\ x + y + j - 1 = x + (y + j - 1)
    BY <1>1
  <2> DEFINE k == y + j - 1
  <2>2. Slot(w + k) = (x + k) % RingSize
    <3>1. k \in Nat
      BY <2>1, ZenonT(30)
    <3> HIDE DEF k
    <3> QED  BY <3>1, SlotOf, ZenonT(30)
  <2> QED  BY <2>1, <2>2, ZenonT(30)
<1> HIDE DEF w
<1>3. \A j \in 1..len : ring[Slot(w + y + j - 1)] = At(x + y + j - 1)
  BY <1>2, ZenonT(30) DEF At
<1>4. Content(w + y, len) = [j \in 1..len |-> ring[Slot(w + y + j - 1)]]
  BY ZenonT(30) DEF Content
<1> QED  BY <1>3, <1>4, ZenonT(30) DEF w

LEMMA QueueIs ==
  ASSUME NEW ct \in Nat, NEW ch \in Nat, NEW pt \in Nat, NEW ph \in Nat,
         NEW h \in [Threads -> Nat], RingInv(ct, ch, pt, ph, h)
  PROVE  Content(consHead, Entries(prodTail, consHead)) = Queue(ch, pt)
<1>1. /\ consHead = ch % IndexWrap /\ prodTail = pt % IndexWrap
      /\ ct <= ch /\ ch <= pt /\ pt <= ph
  BY ZenonT(30) DEF RingInv, Indexed
<1>2. /\ Cardinality(Tables(BeforeMove)) \in Nat
      /\ ph - ct + Cardinality(Tables(BeforeMove)) <= Cardinality(Objects)
  <2>1. ct <= pt
    BY <1>1
  <2> QED  BY <2>1, Room, ZenonT(30) DEF RingInv
<1>3. pt - ch < IndexWrap
  BY <1>1, <1>2, Sizes
<1>4. Entries(prodTail, consHead) = pt - ch
  BY <1>1, <1>3, EntriesOf, ZenonT(30)
<1>5. /\ (ch % IndexWrap) + 0 = ch % IndexWrap
      /\ \A j \in 1..pt - ch : ch + 0 + j - 1 = ch + j - 1
  BY Sizes
<1>6. Content((ch % IndexWrap) + 0, pt - ch) = [j \in 1..pt - ch |-> At(ch + 0 + j - 1)]
  BY ContentIs
<1>7. [j \in 1..pt - ch |-> At(ch + 0 + j - 1)] = Queue(ch, pt)
  BY <1>5, ZenonT(30) DEF Queue
<1> QED  BY <1>1, <1>4, <1>5, <1>6, <1>7, ZenonT(30)

LEMMA HoldsIs ==
  ASSUME NEW ct \in Nat, NEW ch \in Nat, NEW pt \in Nat, NEW ph \in Nat,
         NEW h \in [Threads -> Nat], RingInv(ct, ch, pt, ph, h), NEW t \in Threads
  PROVE  own[t] \cup Moving(t) = Holds(t, h)
<1>1. CASE pc[t] \notin Taking
  BY <1>1, ZenonT(30) DEF Moving, Holds, Taking
<1>2. CASE pc[t] \in Taking
  <2> DEFINE C == Content(head[t] + i[t], n[t] - i[t])
             K == {At(k) : k \in h[t]..h[t] + n[t] - 1}
  <2>1. head[t] = h[t] % IndexWrap
    BY <1>2, ZenonT(30) DEF RingInv, Indexed
  <2>2. h[t] \in Nat /\ i[t] \in Nat /\ n[t] \in Nat /\ table[t] \in Seq(Objects)
    BY DEF RingInv, TypeOK
  <2> PICK a \in Nat, b \in Nat, c \in Nat : a = h[t] /\ b = i[t] /\ c = n[t]
    BY <2>2, ZenonT(30)
  <2>3. /\ Len(table[t]) = b /\ b <= c
        /\ \A j \in 1..b : table[t][j] = At(a + j - 1)
    <3>1. Locals(t, h)
      BY ZenonT(30) DEF RingInv
    <3> QED  BY <1>2, <3>1 DEF Locals, Taking
  <2>4. C = [j \in 1..c - b |-> At(a + b + j - 1)]
    <3> DEFINE len == c - b
    <3>1. a \in Nat /\ b \in Nat /\ len \in Int
      OBVIOUS
    <3> HIDE DEF len
    <3>2. Content((a % IndexWrap) + b, len) = [j \in 1..len |-> At(a + b + j - 1)]
      BY ONLY <3>1, ContentIs, SMTT(30)
    <3> QED  BY <2>1, <3>2, ZenonT(30) DEF len
  <2>5. \A x : x \in Range(C) <=> \E j \in 1..c - b : x = At(a + b + j - 1)
    <3> HIDE DEF C
    <3> QED  BY <2>4, ZenonT(30) DEF Range
  <2>6. \A x : x \in Range(table[t]) <=> \E j \in 1..b : x = At(a + j - 1)
    <3>1. table[t] \in [1..b -> Objects]
      BY <2>2, <2>3
    <3>2. \A x : x \in Range(table[t]) <=> \E j \in 1..b : x = table[t][j]
      BY <3>1, ZenonT(30) DEF Range
    <3>3. \A j \in 1..b : \A x : x = table[t][j] <=> x = At(a + j - 1)
      BY <2>3, ZenonT(30)
    <3> QED  BY ONLY <3>2, <3>3, ZenonT(30)
  <2>7. \A j \in 1..c - b : a + b + j - 1 \in a..a + c - 1
    OBVIOUS
  <2>8. \A j \in 1..b : a + j - 1 \in a..a + c - 1
    <3>1. b <= c
      BY <2>3, ZenonT(30)
    <3> QED  BY <3>1
  <2>9. ASSUME NEW k \in a..a + c - 1
        PROVE  \/ \E j \in 1..c - b : k = a + b + j - 1
               \/ \E j \in 1..b : k = a + j - 1
    <3>1. CASE k < a + b
      <4>1. k - a + 1 \in 1..b /\ k = a + (k - a + 1) - 1
        BY <3>1
      <4> QED  BY <4>1, ZenonT(30)
    <3>2. CASE k >= a + b
      <4>1. /\ k - a - b + 1 \in 1..c - b
            /\ k = a + b + (k - a - b + 1) - 1
        BY <3>2
      <4> QED  BY <4>1, ZenonT(30)
    <3> QED  BY <3>1, <3>2
  <2>10. Range(table[t]) \cup Range(C) = K
    <3>1. \A x : x \in K <=> \E k \in a..a + c - 1 : x = At(k)
      BY ZenonT(30)
    <3> HIDE DEF C, K
    <3>2. Range(table[t]) \subseteq K
      BY <2>6, <2>8, <3>1
    <3>3. Range(C) \subseteq K
      BY <2>5, <2>7, <3>1
    <3>4. K \subseteq Range(table[t]) \cup Range(C)
      <4> SUFFICES ASSUME NEW x \in K
                   PROVE  x \in Range(table[t]) \cup Range(C)
        BY ZenonT(30)
      <4> PICK k \in a..a + c - 1 : x = At(k)
        BY <3>1, ZenonT(30)
      <4>1. CASE \E j \in 1..c - b : k = a + b + j - 1
        BY <2>5, <4>1, ZenonT(30)
      <4>2. CASE \E j \in 1..b : k = a + j - 1
        BY <2>6, <4>2, ZenonT(30)
      <4> QED  BY <2>9, <4>1, <4>2, ZenonT(30)
    <3> QED  BY <3>2, <3>3, <3>4, ZenonT(30)
  <2>11. Moving(t) = Range(table[t]) \cup Range(C)
    BY <1>2, ZenonT(30) DEF Moving, Taking
  <2> HIDE DEF C
  <2> QED  BY <1>2, <2>10, <2>11, ZenonT(30) DEF Holds
<1> QED  BY <1>1, <1>2, ZenonT(30)

\* Both, in a form that can be used after a step too.
PoolMap == \A ct, ch, pt, ph \in Nat : \A h \in [Threads -> Nat] :
  RingInv(ct, ch, pt, ph, h) =>
    /\ Content(consHead, Entries(prodTail, consHead)) = Queue(ch, pt)
    /\ \A t \in Threads : own[t] \cup Moving(t) = Holds(t, h)

LEMMA PoolMapped ==
  PoolMap
BY QueueIs, HoldsIs, ZenonT(30) DEF PoolMap

-----------------------------------------------------------------------------
(* What each step does to that pool.                                       *)

\* A step of thread t that leaves the pool with queue Queue(b, c).
PoolStep(t, ch, pt, h, b, c, g) ==
  /\ \A u \in Threads : u # t => Holds(u, g)' = Holds(u, h)
  /\ \/ Queue(b, c)' = Queue(ch, pt) /\ Holds(t, g)' = Holds(t, h)
     \/ \E m \in 1..pt - ch :
          /\ Queue(b, c)' = SubSeq(Queue(ch, pt), m + 1, pt - ch)
          /\ Holds(t, g)' = Holds(t, h) \cup Range(SubSeq(Queue(ch, pt), 1, m))
     \/ \E S \in SUBSET Holds(t, h) : \E s \in Orders(S) :
          Queue(b, c)' = Queue(ch, pt) \o s /\ Holds(t, g)' = Holds(t, h) \ S

LEMMA HoldsKept ==
  ASSUME NEW h, NEW g, NEW t \in Threads, NEW u \in Threads, u # t, Others(t), g[u] = h[u],
         pc[u] \in Taking => \A k \in h[u]..h[u] + n[u] - 1 : At(k)' = At(k)
  PROVE  Holds(u, g)' = Holds(u, h)
<1>1. pc'[u] = pc[u] /\ table'[u] = table[u] /\ n'[u] = n[u] /\ own'[u] = own[u]
  BY ZenonT(30) DEF Others
<1>2. CASE pc[u] \in Taking
  <2>1. {At(k)' : k \in h[u]..h[u] + n[u] - 1} = {At(k) : k \in h[u]..h[u] + n[u] - 1}
    BY <1>2, ZenonT(30)
  <2> QED  BY <1>1, <1>2, <2>1, ZenonT(30) DEF Holds
<1>3. CASE pc[u] \notin Taking
  BY <1>1, <1>3, ZenonT(30) DEF Holds
<1> QED  BY <1>2, <1>3, ZenonT(30)

\* Steps of a thread that takes nothing and leaves the ring as it is.
LEMMA QuietMap ==
  ASSUME NEW ch, NEW pt, NEW h, NEW g, NEW t \in Threads, Others(t), UNCHANGED ring,
         \A u \in Threads : u # t => g[u] = h[u],
         pc[t] \notin Taking, pc'[t] \notin Taking,
         own'[t] \cup Range(table'[t]) = own[t] \cup Range(table[t])
  PROVE  PoolStep(t, ch, pt, h, ch, pt, g)
<1>1. \A k : At(k)' = At(k)
  BY ZenonT(30) DEF At
<1>2. \A u \in Threads : u # t => Holds(u, g)' = Holds(u, h)
  BY <1>1, HoldsKept, ZenonT(30)
<1>3. Holds(t, g)' = Holds(t, h)
  BY ZenonT(30) DEF Holds
<1>4. Queue(ch, pt)' = Queue(ch, pt)
  BY <1>1, ZenonT(30) DEF Queue
<1> QED  BY <1>2, <1>3, <1>4, ZenonT(30) DEF PoolStep

LEMMA EnqCopyMap ==
  ASSUME NEW ct \in Nat, NEW ch \in Nat, NEW pt \in Nat, NEW ph \in Nat,
         NEW h \in [Threads -> Nat], RingInv(ct, ch, pt, ph, h),
         NEW t \in Threads, EnqCopy(t)
  PROVE  PoolStep(t, ch, pt, h, ch, pt, h)
<1>1. TypeOK /\ Others(t)
  <2>1. TypeOK /\ Locals(t, h)
    BY ZenonT(30) DEF RingInv
  <2> QED  BY <2>1, CopyTypeOK, ZenonT(30)
<1>2. /\ pc[t] = "enqCopy" /\ pc'[t] \in {"enqCopy", "enqDone"}
      /\ ring' = [ring EXCEPT ![Slot(head[t] + i[t])] = table[t][i[t] + 1]]
      /\ own'[t] = own[t] /\ table'[t] = table[t]
  BY <1>1, ZenonT(30) DEF EnqCopy, Goto, TypeOK
<1>3. /\ head[t] = h[t] % IndexWrap /\ ct <= ch /\ ch <= pt /\ pt <= ph
      /\ h[t] \in Nat /\ i[t] \in Nat /\ n[t] \in Nat /\ i[t] < n[t]
      /\ pt <= h[t] /\ h[t] + n[t] <= ph
  BY <1>2 DEF RingInv, Indexed, Reserved, TypeOK, Locals, AfterMove
<1> PICK c \in Nat : c = h[t] + i[t]
  BY <1>3
<1>4. c >= pt /\ c \in ct..ph - 1
  BY <1>3
<1>5. Slot(head[t] + i[t]) = c % RingSize /\ c % RingSize \in Slots
  BY <1>3, SlotOf, ZenonT(30)
<1>6. \A k \in ct..pt - 1 : At(k)' = At(k)
  <2> SUFFICES ASSUME NEW k \in ct..pt - 1 PROVE At(k)' = At(k)
    BY ZenonT(30)
  <2>1. k \in ct..ph - 1 /\ k # c
    BY <1>3, <1>4
  <2>2. k % RingSize # c % RingSize
    <3>1. \A j, l \in ct..ph - 1 : j % RingSize = l % RingSize => j = l
      BY OneSlot, ZenonT(30)
    <3> QED  BY <1>4, <2>1, <3>1, ZenonT(30)
  <2>3. k % RingSize \in Slots
    BY Sizes DEF Slots
  <2> QED  BY <1>1, <1>2, <1>5, <2>2, <2>3, ZenonT(30) DEF At, TypeOK
<1>7. \A u \in Threads : u # t => Holds(u, h)' = Holds(u, h)
  <2> TAKE u \in Threads
  <2> HAVE u # t
  <2>1. ASSUME pc[u] \in Taking, NEW k \in h[u]..h[u] + n[u] - 1
        PROVE  At(k)' = At(k)
    <3>1. ct <= h[u] /\ h[u] + n[u] <= ch /\ h[u] \in Nat /\ n[u] \in Nat
      BY <2>1 DEF RingInv, Reserved, TypeOK
    <3>2. k \in ct..pt - 1
      BY <1>3, <3>1
    <3> QED  BY <1>6, <3>2, ZenonT(30)
  <2> QED  BY <1>1, <2>1, HoldsKept, ZenonT(30)
<1>8. Holds(t, h)' = Holds(t, h)
  <2>1. pc[t] \notin Taking /\ pc'[t] \notin Taking
    BY <1>2, ZenonT(30) DEF Taking
  <2> QED  BY <1>2, <2>1, ZenonT(30) DEF Holds
<1>9. Queue(ch, pt)' = Queue(ch, pt)
  <2>1. \A j \in 1..pt - ch : ch + j - 1 \in ct..pt - 1
    BY <1>3
  <2> QED  BY <1>6, <2>1, ZenonT(30) DEF Queue
<1> QED  BY <1>7, <1>8, <1>9, ZenonT(30) DEF PoolStep

LEMMA DeqCopyMap ==
  ASSUME NEW ct \in Nat, NEW ch \in Nat, NEW pt \in Nat, NEW ph \in Nat,
         NEW h \in [Threads -> Nat], RingInv(ct, ch, pt, ph, h),
         NEW t \in Threads, DeqCopy(t)
  PROVE  PoolStep(t, ch, pt, h, ch, pt, h)
<1>1. TypeOK /\ Others(t)
  <2>1. TypeOK /\ Locals(t, h)
    BY ZenonT(30) DEF RingInv
  <2> QED  BY <2>1, CopyTypeOK, ZenonT(30)
<1>2. /\ pc[t] \in Taking /\ pc'[t] \in Taking /\ ring' = ring
      /\ own'[t] = own[t] /\ n'[t] = n[t]
  BY <1>1, ZenonT(30) DEF DeqCopy, Goto, TypeOK, Taking, ringVars
<1>3. \A k : At(k)' = At(k)
  BY <1>2, ZenonT(30) DEF At
<1>4. \A u \in Threads : u # t => Holds(u, h)' = Holds(u, h)
  BY <1>1, <1>3, HoldsKept, ZenonT(30)
<1>5. Holds(t, h)' = Holds(t, h)
  BY <1>2, <1>3, ZenonT(30) DEF Holds
<1>6. Queue(ch, pt)' = Queue(ch, pt)
  BY <1>3, ZenonT(30) DEF Queue
<1> QED  BY <1>4, <1>5, <1>6, ZenonT(30) DEF PoolStep

LEMMA DeqDoneMap ==
  ASSUME NEW ct \in Nat, NEW ch \in Nat, NEW pt \in Nat, NEW ph \in Nat,
         NEW h \in [Threads -> Nat], RingInv(ct, ch, pt, ph, h),
         NEW t \in Threads, DeqDone(t)
  PROVE  PoolStep(t, ch, pt, h, ch, pt, h)
<1>1. TypeOK /\ Others(t) /\ Locals(t, h)
  BY DoneTypeOK, ZenonT(30) DEF RingInv
<1>2. /\ pc[t] = "deqDone" /\ pc'[t] = "idle" /\ table'[t] = <<>> /\ ring' = ring
      /\ own'[t] = own[t] \cup Range(table[t])
  <2>1. Return(t)
    BY ZenonT(30) DEF DeqDone
  <2> QED  BY <1>1, <2>1, ReturnFacts DEF DeqDone, TypeOK
<1>3. \A k : At(k)' = At(k)
  BY <1>2, ZenonT(30) DEF At
<1>4. \A u \in Threads : u # t => Holds(u, h)' = Holds(u, h)
  BY <1>1, <1>3, HoldsKept, ZenonT(30)
<1>5. Queue(ch, pt)' = Queue(ch, pt)
  BY <1>3, ZenonT(30) DEF Queue
<1>6. Moving(t) = Range(table[t])
  <2>1. i[t] = n[t] /\ n[t] \in Nat
    BY <1>1, <1>2 DEF Locals, TypeOK
  <2>2. 1..n[t] - i[t] = {}
    BY <2>1
  <2>3. Range(Content(head[t] + i[t], n[t] - i[t])) = {}
    BY <2>2, ZenonT(30) DEF Content, Range
  <2> QED  BY <1>2, <2>3, ZenonT(30) DEF Moving
<1>7. Holds(t, h) = own[t] \cup Range(table[t])
  BY <1>6, HoldsIs, ZenonT(30)
<1>8. Holds(t, h)' = own'[t]
  <2>1. Range(<<>>) = {}
    BY DEF Range
  <2> QED  BY <1>2, <2>1, ZenonT(30) DEF Holds, Taking
<1> QED  BY <1>2, <1>4, <1>5, <1>7, <1>8, ZenonT(30) DEF PoolStep

LEMMA QueueFacts ==
  ASSUME TypeOK, NEW ch \in Nat, NEW pt \in Nat, ch <= pt
  PROVE  /\ Queue(ch, pt) \in Seq(Objects) /\ Len(Queue(ch, pt)) = pt - ch
         /\ \A j \in 1..pt - ch : Queue(ch, pt)[j] = At(ch + j - 1)
<1>1. \A j \in 1..pt - ch : At(ch + j - 1) \in Objects
  <2> SUFFICES ASSUME NEW j \in 1..pt - ch PROVE At(ch + j - 1) \in Objects
    BY ZenonT(30)
  <2>1. (ch + j - 1) % RingSize \in Slots
    BY Sizes DEF Slots
  <2> QED  BY <2>1, ZenonT(30) DEF At, TypeOK
<1>2. pt - ch \in Nat
  OBVIOUS
<1>3. Queue(ch, pt) \in [1..pt - ch -> Objects]
  BY <1>1, ZenonT(30) DEF Queue
<1> QED  BY <1>2, <1>3 DEF Queue

LEMMA SameSeq ==
  ASSUME NEW S, NEW r \in Seq(S), NEW s \in Seq(S), Len(r) = Len(s),
         \A j \in 1..Len(r) : r[j] = s[j]
  PROVE  r = s
OBVIOUS

\* The primed form of QueueFacts.
LEMMA QueueNext ==
  ASSUME TypeOK', NEW ch \in Nat, NEW pt \in Nat, ch <= pt
  PROVE  /\ Queue(ch, pt)' \in Seq(Objects) /\ Len(Queue(ch, pt)') = pt - ch
         /\ \A j \in 1..pt - ch : Queue(ch, pt)'[j] = At(ch + j - 1)'
<1>1. \A j \in 1..pt - ch : At(ch + j - 1)' \in Objects
  <2> SUFFICES ASSUME NEW j \in 1..pt - ch PROVE At(ch + j - 1)' \in Objects
    BY ZenonT(30)
  <2>1. (ch + j - 1) % RingSize \in Slots
    BY Sizes DEF Slots
  <2> QED  BY <2>1, ZenonT(30) DEF At, TypeOK
<1>2. pt - ch \in Nat
  OBVIOUS
<1>3. Queue(ch, pt)' \in [1..pt - ch -> Objects]
  BY <1>1, ZenonT(30) DEF Queue
<1> QED  BY <1>2, <1>3 DEF Queue

\* A put takes effect when prod.tail moves.
LEMMA EnqDoneMap ==
  ASSUME NEW ct \in Nat, NEW ch \in Nat, NEW pt \in Nat, NEW ph \in Nat,
         NEW h \in [Threads -> Nat], RingInv(ct, ch, pt, ph, h),
         NEW t \in Threads, EnqDone(t), NEW m \in Nat, m = n[t]
  PROVE  PoolStep(t, ch, pt, h, ch, pt + m, h)
<1> DEFINE q == pt + m
           s == table[t]
           T == Range(s)
<1>1. TypeOK /\ TypeOK' /\ Others(t) /\ Locals(t, h) /\ ch <= pt
  BY DoneTypeOK, ZenonT(30) DEF RingInv, Indexed
<1>2. /\ pc[t] = "enqDone" /\ pc'[t] = "idle" /\ table'[t] = <<>> /\ ring' = ring
      /\ own'[t] = own[t]
  <2>1. Return(t)
    BY ZenonT(30) DEF EnqDone
  <2> QED  BY <1>1, <2>1, ReturnFacts DEF EnqDone, TypeOK
<1>3. \A k : At(k)' = At(k)
  BY <1>2, ZenonT(30) DEF At
<1>4. \A u \in Threads : u # t => Holds(u, h)' = Holds(u, h)
  BY <1>1, <1>3, HoldsKept, ZenonT(30)
<1>5. /\ s \in Seq(Objects) /\ Len(s) = m /\ s \in [1..m -> Objects]
      /\ Cardinality(T) = m /\ own[t] \cap T = {}
      /\ \A a, b \in 1..m : s[a] = s[b] => a = b
  <2>1. pc[t] \in Putting
    BY <1>2, ZenonT(30) DEF Putting, AfterMove
  <2>2. own[t] \cap T = {}
    BY <2>1, ZenonT(30) DEF RingInv, Distinct
  <2>3. s \in Seq(Objects)
    BY <1>1, ZenonT(30) DEF TypeOK
  <2> QED  BY <1>1, <2>1, <2>2, <2>3, TableSize, ZenonT(30) DEF Locals
<1>6. \A j \in 1..m : At(pt + j - 1)' = s[j]
  <2>1. h[t] = pt
    <3>1. pc[t] = "enqDone" /\ prodTail = head[t]
      BY ZenonT(30) DEF EnqDone
    <3> QED  BY <3>1, EnqDoneHead
  <2>2. i[t] = m /\ \A j \in 1..i[t] : At(h[t] + j - 1) = s[j]
    BY <1>1, <1>2, ZenonT(30) DEF Locals, AfterMove
  <2> QED  BY <1>3, <2>1, <2>2, ZenonT(30)
<1>7. s \in Orders(T)
  <2>1. \A x \in T : \E j \in 1..m : s[j] = x
    BY <1>5, ZenonT(30) DEF Range
  <2>2. s \in [1..m -> T]
    <3>1. \A j \in 1..m : s[j] \in T
      BY <1>5, ZenonT(30) DEF Range
    <3> HIDE DEF T
    <3> QED  BY <1>5, <3>1, ZenonT(30)
  <2> HIDE DEF s, T
  <2> QED  BY <1>5, <2>1, <2>2, ZenonT(30) DEF Orders, Bijection, Injection, Surjection, IsInjective
<1>8. Holds(t, h)' = Holds(t, h) \ T /\ T \subseteq Holds(t, h)
  <2>1. Range(<<>>) = {}
    BY DEF Range
  <2>2. Holds(t, h)' = own[t]
    BY <1>2, <2>1, ZenonT(30) DEF Holds, Taking
  <2>3. Holds(t, h) = own[t] \cup T
    BY <1>2, ZenonT(30) DEF Holds, Taking
  <2> HIDE DEF T
  <2> QED  BY <1>5, <2>2, <2>3, ZenonT(30)
<1>9. Queue(ch, q)' = Queue(ch, pt) \o s
  <2> DEFINE Q == Queue(ch, pt)
             P == Queue(ch, q)'
  <2>1. q \in Nat /\ ch <= q
    BY <1>1
  <2>2. /\ Q \in Seq(Objects) /\ Len(Q) = pt - ch
        /\ \A j \in 1..pt - ch : Q[j] = At(ch + j - 1)
    BY <1>1, QueueFacts, ZenonT(30)
  <2>3. /\ P \in Seq(Objects) /\ Len(P) = q - ch
        /\ \A j \in 1..q - ch : P[j] = At(ch + j - 1)'
    <3> HIDE DEF q
    <3> QED  BY <1>1, <2>1, QueueNext, ZenonT(30)
  <2>4. s \in Seq(Objects) /\ Len(s) = m
    BY <1>5, ZenonT(30)
  <2> HIDE DEF Q, P, s
  <2>5. /\ Q \o s \in Seq(Objects) /\ Len(Q \o s) = pt - ch + m
        /\ \A j \in 1..pt - ch + m : (Q \o s)[j] = IF j <= pt - ch THEN Q[j] ELSE s[j - (pt - ch)]
    <3>1. Q \in Seq(Objects) /\ Len(Q) = pt - ch /\ s \in Seq(Objects) /\ Len(s) = m
      BY <2>2, <2>4, ZenonT(30)
    <3> QED  BY ONLY <3>1, SMTT(30)
  <2>6. ASSUME NEW j \in 1..pt - ch + m
        PROVE  P[j] = (Q \o s)[j]
    <3>1. P[j] = At(ch + j - 1)'
      BY <2>3
    <3>2. CASE j <= pt - ch
      <4>1. j \in 1..pt - ch
        BY <1>1, <3>2
      <4> QED  BY <1>3, <2>2, <2>5, <3>1, <4>1
    <3>3. CASE ~(j <= pt - ch)
      <4> DEFINE k == j - (pt - ch)
      <4>1. k \in 1..m /\ pt + k - 1 = ch + j - 1
        BY <1>1, <3>3
      <4>2. At(pt + k - 1)' = s[k]
        <5> HIDE DEF k
        <5> QED  BY <1>6, <4>1, ZenonT(30)
      <4>3. (Q \o s)[j] = s[k]
        BY <2>5, <3>3, ZenonT(30)
      <4> HIDE DEF k
      <4> QED  BY <3>1, <4>1, <4>2, <4>3, ZenonT(30)
    <3> QED  BY <3>2, <3>3, ZenonT(30)
  <2>7. Len(P) = pt - ch + m
    BY <1>1, <2>3
  <2>8. \A j \in 1..Len(P) : P[j] = (Q \o s)[j]
    BY <2>6, <2>7, ZenonT(30)
  <2>9. P = Q \o s
    <3> DEFINE R == Q \o s
    <3>1. R \in Seq(Objects) /\ Len(P) = Len(R) /\ \A j \in 1..Len(P) : P[j] = R[j]
      BY <2>5, <2>7, <2>8, ZenonT(30)
    <3> HIDE DEF R
    <3>2. P = R
      BY <2>3, <3>1, SameSeq, ZenonT(30)
    <3> QED  BY <3>2, ZenonT(30) DEF R
  <2> QED  BY <2>9, ZenonT(30) DEF P, Q
<1> HIDE DEF s, T
<1> QED  BY <1>4, <1>7, <1>8, <1>9, ZenonT(30) DEF PoolStep

\* A get takes effect when cons.head moves.
LEMMA DeqMoveMap ==
  ASSUME LongIndices, NEW ct \in Nat, NEW ch \in Nat, NEW pt \in Nat, NEW ph \in Nat,
         NEW h \in [Threads -> Nat], RingInv(ct, ch, pt, ph, h),
         NEW t \in Threads, DeqMove(t), consHead = head[t], NEW m \in Nat, m = n[t]
  PROVE  PoolStep(t, ch, pt, h, ch + m, pt, h)
<1> DEFINE q == ch + m
           Q == Queue(ch, pt)
           P == Queue(q, pt)'
<1>1. TypeOK /\ TypeOK' /\ Others(t) /\ Locals(t, h) /\ ch <= pt
  BY MoveTypeOK, ZenonT(30) DEF RingInv, Indexed
<1>2. /\ pc[t] = "deqMove" /\ pc'[t] = "deqCopy" /\ ring' = ring
      /\ own'[t] = own[t] /\ n'[t] = m
  BY <1>1, ZenonT(30) DEF DeqMove, Goto, TypeOK
<1>3. \A k : At(k)' = At(k)
  BY <1>2, ZenonT(30) DEF At
<1>4. \A u \in Threads : u # t => Holds(u, h)' = Holds(u, h)
  BY <1>1, <1>3, HoldsKept, ZenonT(30)
<1>5. h[t] = ch
  <2>1. pc[t] = "deqMove"
    BY <1>2, ZenonT(30)
  <2> QED  BY <2>1, DeqMoveHead
<1>6. m >= 1 /\ table[t] = <<>>
  BY <1>1, <1>2, ZenonT(30) DEF Locals
<1>7. m <= pt - ch
  BY <1>2, <1>5, ZenonT(30) DEF RingInv, Counted
<1>8. q \in Nat /\ q <= pt /\ m \in 1..pt - ch
  BY <1>1, <1>6, <1>7
<1>9. /\ Q \in Seq(Objects) /\ Len(Q) = pt - ch
      /\ \A j \in 1..pt - ch : Q[j] = At(ch + j - 1)
  BY <1>1, QueueFacts, ZenonT(30)
<1>10. /\ P \in Seq(Objects) /\ Len(P) = pt - q
       /\ \A j \in 1..pt - q : P[j] = At(q + j - 1)'
  <2> HIDE DEF q
  <2> QED  BY <1>1, <1>8, QueueNext, ZenonT(30)
<1> HIDE DEF P, Q
<1>11. P = SubSeq(Q, m + 1, pt - ch)
  <2> DEFINE R == SubSeq(Q, m + 1, pt - ch)
  <2>1. /\ R \in Seq(Objects) /\ Len(R) = pt - ch - m
        /\ \A j \in 1..pt - ch - m : R[j] = Q[m + j]
    <3>1. Q \in Seq(Objects) /\ Len(Q) = pt - ch /\ m \in 1..pt - ch /\ pt - ch \in Nat
      BY <1>8, <1>9
    <3> QED  BY ONLY <3>1, SMTT(30)
  <2>2. ASSUME NEW j \in 1..pt - ch - m
        PROVE  P[j] = Q[m + j]
    <3>1. m + j \in 1..pt - ch /\ ch + (m + j) - 1 = q + j - 1 /\ j \in 1..pt - q
      BY <1>8
    <3>2. Q[m + j] = At(ch + (m + j) - 1)
      BY <1>9, <3>1, ZenonT(30)
    <3>3. P[j] = At(q + j - 1)
      BY <1>3, <1>10, <3>1, ZenonT(30)
    <3> QED  BY <3>1, <3>2, <3>3, ZenonT(30)
  <2>3. Len(P) = pt - ch - m /\ Len(P) = Len(R)
    BY <1>8, <1>10, <2>1
  <2>4. \A j \in 1..Len(P) : P[j] = R[j]
    <3> HIDE DEF R
    <3> QED  BY <2>1, <2>2, <2>3, ZenonT(30)
  <2> HIDE DEF R
  <2>5. P = R
    BY <1>10, <2>1, <2>3, <2>4, SameSeq, ZenonT(30)
  <2> QED  BY <2>5, ZenonT(30) DEF R
<1>12. Holds(t, h)' = Holds(t, h) \cup Range(SubSeq(Q, 1, m))
  <2> DEFINE R == SubSeq(Q, 1, m)
             K == {At(k) : k \in ch..ch + m - 1}
  <2>1. R \in [1..m -> Objects] /\ \A j \in 1..m : R[j] = Q[j]
    <3>1. Q \in Seq(Objects) /\ Len(Q) = pt - ch /\ m \in 1..pt - ch /\ pt - ch \in Nat
      BY <1>8, <1>9
    <3>2. R \in Seq(Objects) /\ Len(R) = m /\ \A j \in 1..m : R[j] = Q[j]
      BY ONLY <3>1, SMTT(30)
    <3> HIDE DEF R
    <3> QED  BY <3>2
  <2> HIDE DEF R
  <2>2. \A j \in 1..m : R[j] = At(ch + j - 1) /\ ch + j - 1 \in ch..ch + m - 1
    <3> SUFFICES ASSUME NEW j \in 1..m
                 PROVE  R[j] = At(ch + j - 1) /\ ch + j - 1 \in ch..ch + m - 1
      BY ZenonT(30)
    <3>1. j \in 1..pt - ch /\ ch + j - 1 \in ch..ch + m - 1
      BY <1>8
    <3> QED  BY <1>9, <2>1, <3>1, ZenonT(30)
  <2>3. \A x : x \in Range(R) <=> \E j \in 1..m : x = R[j]
    BY <2>1, ZenonT(30) DEF Range
  <2>4. ASSUME NEW k \in ch..ch + m - 1
        PROVE  At(k) \in Range(R)
    <3>1. k - ch + 1 \in 1..m /\ ch + (k - ch + 1) - 1 = k
      OBVIOUS
    <3>2. R[k - ch + 1] = At(k)
      BY <2>2, <3>1, ZenonT(30)
    <3> QED  BY <2>3, <3>1, <3>2, ZenonT(30)
  <2>5. K = Range(R)
    BY <2>2, <2>3, <2>4
  <2>6. Range(<<>>) = {}
    BY DEF Range
  <2>7. Holds(t, h) = own[t]
    BY <1>2, <1>6, <2>6, ZenonT(30) DEF Holds, Taking
  <2>8. Holds(t, h)' = own[t] \cup K
    BY <1>2, <1>3, <1>5, ZenonT(30) DEF Holds, Taking
  <2> HIDE DEF K
  <2> QED  BY <2>5, <2>7, <2>8, ZenonT(30) DEF R
<1>13. /\ Queue(ch + m, pt)' = SubSeq(Queue(ch, pt), m + 1, pt - ch)
       /\ Holds(t, h)' = Holds(t, h) \cup Range(SubSeq(Queue(ch, pt), 1, m))
  BY <1>11, <1>12, ZenonT(30) DEF P, Q
<1> QED  BY <1>4, <1>8, <1>13, ZenonT(30) DEF PoolStep

Outcome(t, ch, pt, h) == \E a, b, c, d \in Nat : \E g \in [Threads -> Nat] :
  RingInv(a, b, c, d, g)' /\ PoolStep(t, ch, pt, h, b, c, g)

LEMMA HeadOutcome ==
  ASSUME LongIndices, NEW ct \in Nat, NEW ch \in Nat, NEW pt \in Nat, NEW ph \in Nat,
         NEW h \in [Threads -> Nat], RingInv(ct, ch, pt, ph, h),
         NEW t \in Threads, NEW x \in Nat,
         \/ EnqHead(t) /\ x = ph
         \/ DeqHead(t) /\ x = ch
  PROVE  Others(t) /\ Outcome(t, ch, pt, h)
<1> DEFINE g == [h EXCEPT ![t] = x]
<1>1. RingInv(ct, ch, pt, ph, g)'
  BY HeadStep, ZenonT(30)
<1>2. TypeOK /\ Others(t)
  BY HeadTypeOK, ZenonT(30) DEF RingInv
<1>3. /\ UNCHANGED <<ring, own, table>> /\ pc[t] \notin Taking /\ pc'[t] \notin Taking
  <2>1. CASE EnqHead(t)
    BY <1>2, <2>1, ZenonT(30) DEF EnqHead, Goto, ringVars, Taking, TypeOK
  <2>2. CASE DeqHead(t)
    BY <1>2, <2>2, ZenonT(30) DEF DeqHead, Goto, ringVars, Taking, TypeOK
  <2> QED  BY <2>1, <2>2, ZenonT(30)
<1>4. g \in [Threads -> Nat] /\ \A u \in Threads : u # t => g[u] = h[u]
  BY ZenonT(30)
<1> HIDE DEF g
<1>5. PoolStep(t, ch, pt, h, ch, pt, g)
  BY <1>2, <1>3, <1>4, QuietMap, ZenonT(30)
<1> QED  BY <1>1, <1>2, <1>4, <1>5, ZenonT(30) DEF Outcome

LEMMA QuietOutcome ==
  ASSUME LongIndices, NEW ct \in Nat, NEW ch \in Nat, NEW pt \in Nat, NEW ph \in Nat,
         NEW h \in [Threads -> Nat], RingInv(ct, ch, pt, ph, h),
         NEW t \in Threads,
         \/ EnqTail(t) \/ DeqTail(t)
         \/ EnqMove(t) /\ prodHead # head[t]
         \/ DeqMove(t) /\ consHead # head[t]
         \/ \E k \in 1..MaxBulk : Get(t, k)
  PROVE  Others(t) /\ Outcome(t, ch, pt, h)
<1>1. RingInv(ct, ch, pt, ph, h)'
  BY EnqTailStep, DeqTailStep, RetryStep, ZenonT(30)
<1>2. TypeOK /\ Others(t)
  BY TailTypeOK, MoveTypeOK, GetTypeOK, ZenonT(30) DEF RingInv
<1>3. UNCHANGED <<ring, own>> /\ pc[t] \notin Taking /\ pc'[t] \notin Taking
  <2>1. CASE EnqTail(t)
    BY <1>2, <2>1 DEF EnqTail, Return, Goto, ringVars, Taking, TypeOK
  <2>2. CASE DeqTail(t)
    BY <1>2, <2>2 DEF DeqTail, Return, Goto, ringVars, Taking, TypeOK
  <2>3. CASE EnqMove(t) /\ prodHead # head[t]
    BY <1>2, <2>3, ZenonT(30) DEF EnqMove, Goto, Taking, TypeOK
  <2>4. CASE DeqMove(t) /\ consHead # head[t]
    BY <1>2, <2>4, ZenonT(30) DEF DeqMove, Goto, Taking, TypeOK
  <2>5. CASE \E k \in 1..MaxBulk : Get(t, k)
    BY <1>2, <2>5, ZenonT(30) DEF Get, Goto, ringVars, Taking, TypeOK
  <2> QED  BY <2>1, <2>2, <2>3, <2>4, <2>5, ZenonT(30)
<1>4. table'[t] = table[t]
  <2>1. CASE EnqTail(t)
    <3>1. pc[t] \in BeforeMove /\ pc[t] = "enqTail"
      BY <2>1, ZenonT(30) DEF EnqTail, BeforeMove
    <3>2. n[t] \in Nat /\ n[t] <= FreeEntries(head[t], consTail)
      BY <3>1, PutFinds, ZenonT(30)
    <3>3. FreeEntries(head[t], consTail) \in Nat
      <4>1. head[t] \in Int /\ consTail \in Int
        BY <1>2, Sizes DEF TypeOK, Indices
      <4> QED  BY <4>1, Sizes DEF FreeEntries
    <3> QED  BY <2>1, <3>2, <3>3 DEF EnqTail
  <2>2. CASE DeqTail(t)
    <3>1. table[t] = <<>>
      BY <2>2, ZenonT(30) DEF DeqTail, RingInv, Locals
    <3> QED  BY <1>2, <2>2, <3>1, ReturnFacts, ZenonT(30) DEF DeqTail, TypeOK
  <2>3. CASE EnqMove(t)
    BY <2>3, ZenonT(30) DEF EnqMove
  <2>4. CASE DeqMove(t)
    BY <2>4, ZenonT(30) DEF DeqMove
  <2>5. CASE \E k \in 1..MaxBulk : Get(t, k)
    BY <2>5, ZenonT(30) DEF Get
  <2> QED  BY <2>1, <2>2, <2>3, <2>4, <2>5, ZenonT(30)
<1>5. PoolStep(t, ch, pt, h, ch, pt, h)
  BY <1>2, <1>3, <1>4, QuietMap, ZenonT(30)
<1> QED  BY <1>1, <1>2, <1>5, ZenonT(30) DEF Outcome

LEMMA PutOutcome ==
  ASSUME LongIndices, NEW ct \in Nat, NEW ch \in Nat, NEW pt \in Nat, NEW ph \in Nat,
         NEW h \in [Threads -> Nat], RingInv(ct, ch, pt, ph, h),
         NEW t \in Threads, NEW S \in SUBSET own[t], NEW s \in Orders(S),
         NotLapped, Put(t, s)
  PROVE  Others(t) /\ Outcome(t, ch, pt, h)
<1>1. RingInv(ct, ch, pt, ph, h)'
  BY PutStep, ZenonT(30)
<1>2. TypeOK /\ Others(t) /\ S \in SUBSET Objects
  BY PutTypeOK, ZenonT(30) DEF RingInv, TypeOK
<1>3. /\ pc[t] = "idle" /\ pc'[t] = "enqHead" /\ table'[t] = s
      /\ own'[t] = own[t] \ Range(s) /\ UNCHANGED ring
  BY <1>2, ZenonT(30) DEF Put, Goto, ringVars, TypeOK
<1>4. Range(s) = S /\ table[t] = <<>> /\ Range(<<>>) = {}
  <2>1. Range(s) = S
    BY <1>2, OrderFacts, ZenonT(30)
  <2>2. table[t] = <<>>
    BY <1>3, ZenonT(30) DEF RingInv, Locals
  <2> QED  BY <2>1, <2>2 DEF Range
<1>5. own'[t] \cup Range(table'[t]) = own[t] \cup Range(table[t])
  BY <1>3, <1>4, ZenonT(30)
<1>6. pc[t] \notin Taking /\ pc'[t] \notin Taking
  BY <1>3, ZenonT(30) DEF Taking
<1>7. PoolStep(t, ch, pt, h, ch, pt, h)
  BY <1>2, <1>3, <1>5, <1>6, QuietMap, ZenonT(30)
<1> QED  BY <1>1, <1>2, <1>7, ZenonT(30) DEF Outcome

LEMMA MoveOutcome ==
  ASSUME LongIndices, NEW ct \in Nat, NEW ch \in Nat, NEW pt \in Nat, NEW ph \in Nat,
         NEW h \in [Threads -> Nat], RingInv(ct, ch, pt, ph, h), NEW t \in Threads,
         \/ EnqMove(t) /\ prodHead = head[t]
         \/ DeqMove(t) /\ consHead = head[t]
  PROVE  Others(t) /\ Outcome(t, ch, pt, h)
<1>1. TypeOK /\ Others(t) /\ n[t] \in Nat
  <2>1. TypeOK /\ n[t] \in 0..MaxBulk
    BY ZenonT(30) DEF RingInv, TypeOK
  <2>2. Others(t)
    BY <2>1, MoveTypeOK, ZenonT(30)
  <2>3. n[t] \in Nat
    BY <2>1
  <2> QED  BY <2>1, <2>2, <2>3, ZenonT(30)
<1> PICK m \in Nat : m = n[t]
  BY <1>1, ZenonT(30)
<1>2. CASE EnqMove(t) /\ prodHead = head[t]
  <2> DEFINE q == ph + m
  <2>1. q \in Nat /\ RingInv(ct, ch, pt, q, h)'
    <3>1. RingInv(ct, ch, pt, ph + m, h)'
      BY <1>2, EnqMoveStep, ZenonT(30)
    <3> QED  BY <3>1
  <2>2. /\ UNCHANGED <<ring, own, table>> /\ pc[t] \notin Taking /\ pc'[t] \notin Taking
    BY <1>1, <1>2, ZenonT(30) DEF EnqMove, Goto, Taking, TypeOK
  <2>3. PoolStep(t, ch, pt, h, ch, pt, h)
    BY <1>1, <2>2, QuietMap, ZenonT(30)
  <2> HIDE DEF q
  <2> QED  BY <1>1, <2>1, <2>3, ZenonT(30) DEF Outcome
<1>3. CASE DeqMove(t) /\ consHead = head[t]
  <2> DEFINE q == ch + m
  <2>1. q \in Nat /\ RingInv(ct, q, pt, ph, h)'
    <3>1. RingInv(ct, ch + m, pt, ph, h)'
      BY <1>3, DeqMoveStep, ZenonT(30)
    <3> QED  BY <3>1
  <2>2. PoolStep(t, ch, pt, h, q, pt, h)
    BY <1>3, DeqMoveMap, ZenonT(30)
  <2> HIDE DEF q
  <2> QED  BY <1>1, <2>1, <2>2, ZenonT(30) DEF Outcome
<1> QED  BY <1>2, <1>3, ZenonT(30)

LEMMA CopyOutcome ==
  ASSUME NEW ct \in Nat, NEW ch \in Nat, NEW pt \in Nat, NEW ph \in Nat,
         NEW h \in [Threads -> Nat], RingInv(ct, ch, pt, ph, h), NEW t \in Threads,
         EnqCopy(t) \/ DeqCopy(t)
  PROVE  Others(t) /\ Outcome(t, ch, pt, h)
<1>1. Others(t)
  <2>1. TypeOK /\ Locals(t, h)
    BY ZenonT(30) DEF RingInv
  <2> QED  BY <2>1, CopyTypeOK, ZenonT(30)
<1>2. RingInv(ct, ch, pt, ph, h)'
  BY EnqCopyStep, DeqCopyStep, ZenonT(30)
<1>3. PoolStep(t, ch, pt, h, ch, pt, h)
  BY EnqCopyMap, DeqCopyMap, ZenonT(30)
<1> QED  BY <1>1, <1>2, <1>3, ZenonT(30) DEF Outcome

LEMMA DoneOutcome ==
  ASSUME NEW ct \in Nat, NEW ch \in Nat, NEW pt \in Nat, NEW ph \in Nat,
         NEW h \in [Threads -> Nat], RingInv(ct, ch, pt, ph, h), NEW t \in Threads,
         EnqDone(t) \/ DeqDone(t)
  PROVE  Others(t) /\ Outcome(t, ch, pt, h)
<1>1. TypeOK /\ Others(t) /\ n[t] \in Nat
  <2>1. TypeOK /\ n[t] \in 0..MaxBulk
    BY ZenonT(30) DEF RingInv, TypeOK
  <2>2. Others(t)
    BY <2>1, DoneTypeOK, ZenonT(30)
  <2>3. n[t] \in Nat
    BY <2>1
  <2> QED  BY <2>1, <2>2, <2>3, ZenonT(30)
<1> PICK m \in Nat : m = n[t]
  BY <1>1, ZenonT(30)
<1>2. CASE EnqDone(t)
  <2> DEFINE q == pt + m
  <2>1. q \in Nat /\ RingInv(ct, ch, q, ph, h)'
    <3>1. RingInv(ct, ch, pt + m, ph, h)'
      BY <1>2, EnqDoneStep, ZenonT(30)
    <3> QED  BY <3>1
  <2>2. PoolStep(t, ch, pt, h, ch, q, h)
    BY <1>2, EnqDoneMap, ZenonT(30)
  <2> HIDE DEF q
  <2> QED  BY <1>1, <2>1, <2>2, ZenonT(30) DEF Outcome
<1>3. CASE DeqDone(t)
  <2> DEFINE q == ct + m
  <2>1. q \in Nat /\ RingInv(q, ch, pt, ph, h)'
    <3>1. RingInv(ct + m, ch, pt, ph, h)'
      BY <1>3, DeqDoneStep, ZenonT(30)
    <3> QED  BY <3>1
  <2>2. PoolStep(t, ch, pt, h, ch, pt, h)
    BY <1>3, DeqDoneMap, ZenonT(30)
  <2> HIDE DEF q
  <2> QED  BY <1>1, <2>1, <2>2, ZenonT(30) DEF Outcome
<1> QED  BY <1>2, <1>3, ZenonT(30)

\* A step of thread t, with the bound that no sleeping thread is lapped.
ThreadStep(t) ==
  \/ Operation(t)
  \/ \E S \in SUBSET own[t] : \E s \in Orders(S) : NotLapped /\ Put(t, s)
  \/ \E k \in 1..MaxBulk : NotLapped /\ Get(t, k)

LEMMA StepOutcome ==
  ASSUME LongIndices, NEW ct \in Nat, NEW ch \in Nat, NEW pt \in Nat, NEW ph \in Nat,
         NEW h \in [Threads -> Nat], RingInv(ct, ch, pt, ph, h), NEW t \in Threads,
         ThreadStep(t)
  PROVE  Others(t) /\ Outcome(t, ch, pt, h)
<1>1. CASE EnqHead(t) \/ DeqHead(t)
  BY <1>1, HeadOutcome, ZenonT(30)
<1>2. CASE \/ EnqTail(t) \/ DeqTail(t)
           \/ EnqMove(t) /\ prodHead # head[t]
           \/ DeqMove(t) /\ consHead # head[t]
           \/ \E k \in 1..MaxBulk : Get(t, k)
  BY <1>2, QuietOutcome, ZenonT(30)
<1>3. CASE \/ EnqMove(t) /\ prodHead = head[t]
           \/ DeqMove(t) /\ consHead = head[t]
  BY <1>3, MoveOutcome, ZenonT(30)
<1>4. CASE EnqCopy(t) \/ DeqCopy(t)
  BY <1>4, CopyOutcome, ZenonT(30)
<1>5. CASE EnqDone(t) \/ DeqDone(t)
  BY <1>5, DoneOutcome, ZenonT(30)
<1>6. CASE \E S \in SUBSET own[t] : \E s \in Orders(S) : NotLapped /\ Put(t, s)
  BY <1>6, PutOutcome, ZenonT(30)
<1> QED  BY <1>1, <1>2, <1>3, <1>4, <1>5, <1>6, ZenonT(30) DEF ThreadStep, Operation

-----------------------------------------------------------------------------
(* The theorems.                                                           *)

PoolInv == \E ct, ch, pt, ph \in Nat : \E h \in [Threads -> Nat] :
  RingInv(ct, ch, pt, ph, h)

LEMMA PoolInvStep ==
  ASSUME LongIndices, PoolInv, [Next]_vars
  PROVE  PoolInv'
<1>1. PICK ct \in Nat, ch \in Nat, pt \in Nat, ph \in Nat, h \in [Threads -> Nat] :
        RingInv(ct, ch, pt, ph, h)
  BY ZenonT(30) DEF PoolInv
<1>2. CASE Next
  <2>1. PICK t \in Threads : ThreadStep(t)
    BY <1>2, ZenonT(30) DEF Next, ThreadStep
  <2>2. Outcome(t, ch, pt, h)
    BY <1>1, <2>1, StepOutcome, ZenonT(30)
  <2> QED  BY <2>2, ZenonT(30) DEF Outcome, PoolInv
<1>3. CASE UNCHANGED vars
  <2>1. /\ UNCHANGED <<ring, prodHead, prodTail, consHead, consTail>>
        /\ UNCHANGED <<own, pc, head, tail, table, n, i, fails>>
    BY <1>3, ZenonT(30) DEF vars, ringVars
  <2>2. /\ TypeOK' = TypeOK /\ PutNeverFails' = PutNeverFails
        /\ Indexed(ct, ch, pt, ph, h)' = Indexed(ct, ch, pt, ph, h)
        /\ \A t \in Threads : Locals(t, h)' = Locals(t, h)
    BY <2>1 DEF TypeOK, PutNeverFails, Indexed, Locals, At
  <2>3. /\ Distinct(ct, pt)' = Distinct(ct, pt)
        /\ Reserved(ct, ch, pt, ph, h)' = Reserved(ct, ch, pt, ph, h)
        /\ Counted(ch, pt, ph, h)' = Counted(ch, pt, ph, h)
    BY <2>1, ZenonT(30) DEF Distinct, Mine, At, Reserved, Clear, Counted, Tables
  <2>4. RingInv(ct, ch, pt, ph, h)'
    BY <1>1, <2>2, <2>3, ZenonT(30) DEF RingInv
  <2> QED  BY <2>4, ZenonT(30) DEF PoolInv
<1> QED  BY <1>2, <1>3, ZenonT(30)

LEMMA AlwaysInv == LongIndices => (Spec => []PoolInv)
<1> SUFFICES ASSUME LongIndices
             PROVE  Spec => []PoolInv
  BY ZenonT(30)
<1>1. Init => PoolInv
  <2> SUFFICES ASSUME Init
               PROVE  PoolInv
    BY ZenonT(30)
  <2> DEFINE N == Cardinality(Objects)
             h == [t \in Threads |-> 0]
  <2>1. RingInv(0, 0, N, N, h)
    BY InitInv, ZenonT(30)
  <2>2. N \in Nat /\ 0 \in Nat /\ h \in [Threads -> Nat]
    BY Sizes, ZenonT(30)
  <2> HIDE DEF N, h
  <2> QED  BY <2>1, <2>2, ZenonT(30) DEF PoolInv
<1>2. PoolInv /\ [Next]_vars => PoolInv'
  BY PoolInvStep, ZenonT(30)
<1> QED  BY <1>1, <1>2, PTL DEF Spec

(***************************************************************************)
(* The state of the pool keeps its type, and no put of an mbuf ever finds  *)
(* the ring full (rte_mempool_mp_put ignores the result of the enqueue),   *)
(* with any number of threads and objects, whatever head a thread has read *)
(* and however often the indices have wrapped.                             *)
(***************************************************************************)
THEOREM PutsFindRoom == LongIndices => (Spec => [](TypeOK /\ PutNeverFails))
<1> SUFFICES ASSUME LongIndices
             PROVE  Spec => [](TypeOK /\ PutNeverFails)
  BY ZenonT(30)
<1>1. Spec => []PoolInv
  BY AlwaysInv, ZenonT(30)
<1>2. PoolInv => TypeOK /\ PutNeverFails
  BY ZenonT(30) DEF PoolInv, RingInv
<1> QED  BY <1>1, <1>2, PTL

(***************************************************************************)
(* A get returns -ENOENT only if the ring holds fewer objects than it asks *)
(* for when it reads prod.tail, although the cons_head it compares with    *)
(* may be long out of date.                                                *)
(***************************************************************************)
THEOREM GetsFailOnlyIfShort == LongIndices => (Spec => FailsOnlyIfShort)
<1> SUFFICES ASSUME LongIndices
             PROVE  Spec => FailsOnlyIfShort
  BY ZenonT(30)
<1> DEFINE Short == \A t \in Threads :
             pc[t] = "deqTail" /\ pc'[t] = "idle" => n[t] > Entries(prodTail, consHead)
<1>1. Spec => []PoolInv
  BY AlwaysInv, ZenonT(30)
<1>2. ASSUME PoolInv, Next
      PROVE  Short
  <2> SUFFICES ASSUME NEW t \in Threads, pc[t] = "deqTail", pc'[t] = "idle"
               PROVE  n[t] > Entries(prodTail, consHead)
    BY ZenonT(30)
  <2>1. PICK ct \in Nat, ch \in Nat, pt \in Nat, ph \in Nat, h \in [Threads -> Nat] :
          RingInv(ct, ch, pt, ph, h)
    BY <1>2, ZenonT(30) DEF PoolInv
  <2>2. PICK u \in Threads : ThreadStep(u)
    BY <1>2, ZenonT(30) DEF Next, ThreadStep
  <2>3. Others(u)
    BY <2>1, <2>2, StepOutcome, ZenonT(30)
  <2>4. u = t
    BY <2>3, ZenonT(30) DEF Others
  <2>5. DeqTail(t)
    BY <2>2, <2>4, ZenonT(30) DEF ThreadStep, Operation, EnqHead, EnqTail, EnqMove, EnqCopy, EnqDone,
       DeqHead, DeqMove, DeqCopy, DeqDone, Put, Get
  <2>6. pc \in [Threads -> Labels] /\ n[t] \in Nat
    BY <2>1 DEF RingInv, TypeOK
  <2>7. n[t] > Entries(prodTail, head[t])
    BY <2>5, <2>6, ZenonT(30) DEF DeqTail, Goto
  <2>8. /\ Entries(prodTail, head[t]) = pt - h[t] /\ h[t] \in Nat /\ h[t] <= ch
        /\ Entries(prodTail, consHead) = pt - ch
    BY <2>1, GetSees
  <2> QED  BY <2>6, <2>7, <2>8
<1>3. PoolInv /\ [Next]_vars => [Short]_vars
  BY <1>2, ZenonT(30)
<1> QED  BY <1>1, <1>3, PTL DEF Spec, FailsOnlyIfShort

-----------------------------------------------------------------------------
(* The refinement.                                                         *)

\* The operators as the module ObjectPool knows them.
LEMMA PoolOperators ==
  /\ \A S : Pool!Cardinality(S) = Cardinality(S)
  /\ \A S, T : Pool!Bijection(S, T) = Bijection(S, T)
  /\ \A f : Pool!Range(f) = Range(f)
<1>1. \A S : Pool!Cardinality(S) = Cardinality(S)
  BY ZenonT(30) DEF Pool!Cardinality, Cardinality
<1>2. \A S, T : Pool!Bijection(S, T) = Bijection(S, T)
  BY ZenonT(30) DEF Pool!Bijection, Pool!Injection, Pool!Surjection, Pool!IsInjective,
     Bijection, Injection, Surjection, IsInjective
<1>3. \A f : Pool!Range(f) = Range(f)
  BY ZenonT(30) DEF Pool!Range, Range
<1> QED  BY <1>1, <1>2, <1>3, ZenonT(30)

LEMMA PoolInitially ==
  ASSUME Init
  PROVE  Pool!Init
<1> DEFINE N == Cardinality(Objects)
           f == CHOOSE f \in Orders(Objects) : TRUE
           h == [t \in Threads |-> 0]
<1>1. RingInv(0, 0, N, N, h) /\ N \in Nat /\ h \in [Threads -> Nat] /\ 0 \in Nat
  BY InitInv, Sizes, ZenonT(30)
<1>2. f \in Orders(Objects)
  BY SomeOrder, ZenonT(30)
<1>3. \A k \in 0..N - 1 : At(k) = f[k + 1]
  BY InitFacts, ZenonT(30)
<1>4. Content(consHead, Entries(prodTail, consHead)) = Queue(0, N)
  <2> HIDE DEF h
  <2> QED  BY <1>1, QueueIs, ZenonT(30)
<1>5. Queue(0, N) = f
  <2> HIDE DEF f, N
  <2>1. f \in [1..N -> Objects]
    BY <1>2, ZenonT(30) DEF Orders, Bijection, Injection, N
  <2>2. ASSUME NEW j \in 1..N
        PROVE  At(0 + j - 1) = f[j]
    <3>1. j - 1 \in 0..N - 1 /\ 0 + j - 1 = j - 1 /\ j - 1 + 1 = j
      BY <1>1
    <3> QED  BY <1>3, <3>1, ZenonT(30)
  <2>3. Queue(0, N) = [j \in 1..N |-> At(0 + j - 1)]
    <3>1. 1..N - 0 = 1..N
      BY <1>1
    <3> QED  BY <3>1, ZenonT(30) DEF Queue
  <2> QED  BY <2>1, <2>2, <2>3, ZenonT(30)
<1>6. \A t \in Threads : own[t] \cup Moving(t) = {}
  <2>1. \A t \in Threads : own[t] = {} /\ table[t] = <<>> /\ pc[t] = "idle"
    BY ZenonT(30) DEF Init
  <2>2. Range(<<>>) = {}
    BY DEF Range
  <2> QED  BY <2>1, <2>2, ZenonT(30) DEF Moving
<1>7. [t \in Threads |-> own[t] \cup Moving(t)] = [t \in Threads |-> {}]
  BY <1>6, ZenonT(30)
<1>8. Content(consHead, Entries(prodTail, consHead)) \in Bijection(1..N, Objects)
  BY <1>2, <1>4, <1>5, ZenonT(30) DEF Orders
<1> QED  BY <1>7, <1>8, PoolOperators, ZenonT(30) DEF Pool!Init

LEMMA PoolNext ==
  ASSUME LongIndices, PoolInv, PoolMap, PoolMap', Next
  PROVE  [Pool!Next]_(Pool!vars)
<1> DEFINE Q == Content(consHead, Entries(prodTail, consHead))
           H == [t \in Threads |-> own[t] \cup Moving(t)]
<1>1. PICK ct \in Nat, ch \in Nat, pt \in Nat, ph \in Nat, h \in [Threads -> Nat] :
        RingInv(ct, ch, pt, ph, h)
  BY ZenonT(30) DEF PoolInv
<1>2. PICK t \in Threads : ThreadStep(t)
  BY ZenonT(30) DEF Next, ThreadStep
<1>3. Outcome(t, ch, pt, h)
  BY <1>1, <1>2, StepOutcome, ZenonT(30)
<1>4. PICK a \in Nat, b \in Nat, c \in Nat, d \in Nat, g \in [Threads -> Nat] :
        RingInv(a, b, c, d, g)' /\ PoolStep(t, ch, pt, h, b, c, g)
  BY <1>3, ZenonT(30) DEF Outcome
<1>5. Q = Queue(ch, pt) /\ \A u \in Threads : own[u] \cup Moving(u) = Holds(u, h)
  BY <1>1, ZenonT(30) DEF PoolMap
<1>6. Q' = Queue(b, c)' /\ \A u \in Threads : (own[u] \cup Moving(u))' = Holds(u, g)'
  BY <1>4, ZenonT(30) DEF PoolMap
<1>7. /\ H = [u \in Threads |-> Holds(u, h)] /\ H' = [u \in Threads |-> Holds(u, g)']
  BY <1>5, <1>6, ZenonT(30)
<1>8. Len(Q) = pt - ch
  <2>1. TypeOK /\ ch <= pt
    BY <1>1, ZenonT(30) DEF RingInv, Indexed
  <2>2. Len(Queue(ch, pt)) = pt - ch
    BY <2>1, QueueFacts, ZenonT(30)
  <2> QED  BY <1>5, <2>2, ZenonT(30)
<1>9. \A u \in Threads : u # t => Holds(u, g)' = Holds(u, h)
  BY <1>4, ZenonT(30) DEF PoolStep
<1> HIDE DEF Q, H
<1>10. CASE Queue(b, c)' = Queue(ch, pt) /\ Holds(t, g)' = Holds(t, h)
  <2>1. H' = H
    BY <1>7, <1>9, <1>10, ZenonT(30)
  <2>2. Q' = Q
    BY <1>5, <1>6, <1>10, ZenonT(30)
  <2> QED  BY <2>1, <2>2, ZenonT(30) DEF Pool!vars, Q, H
<1>11. ASSUME NEW m \in 1..pt - ch,
              Queue(b, c)' = SubSeq(Queue(ch, pt), m + 1, pt - ch),
              Holds(t, g)' = Holds(t, h) \cup Range(SubSeq(Queue(ch, pt), 1, m))
       PROVE  Pool!Get(t)
  <2>1. m \in 1..Len(Q) /\ Q' = SubSeq(Q, m + 1, Len(Q))
    BY <1>5, <1>6, <1>8, <1>11, ZenonT(30)
  <2>2. H' = [H EXCEPT ![t] = H[t] \cup Range(SubSeq(Q, 1, m))]
    BY <1>5, <1>7, <1>9, <1>11, ZenonT(30)
  <2>3. \E k \in 1..Len(Q) : /\ Q' = SubSeq(Q, k + 1, Len(Q))
                             /\ H' = [H EXCEPT ![t] = H[t] \cup Pool!Range(SubSeq(Q, 1, k))]
    BY <2>1, <2>2, PoolOperators, ZenonT(30)
  <2> QED  BY <2>3, ZenonT(30) DEF Pool!Get, Q, H
<1>12. ASSUME NEW S \in SUBSET Holds(t, h), NEW s \in Orders(S),
              Queue(b, c)' = Queue(ch, pt) \o s, Holds(t, g)' = Holds(t, h) \ S
       PROVE  Pool!Put(t)
  <2>1. Q' = Q \o s
    BY <1>5, <1>6, <1>12, ZenonT(30)
  <2>2. H' = [H EXCEPT ![t] = H[t] \ S] /\ S \in SUBSET H[t]
    BY <1>7, <1>9, <1>12, ZenonT(30)
  <2>3. s \in Pool!Bijection(1..Pool!Cardinality(S), S)
    BY PoolOperators, ZenonT(30) DEF Orders
  <2> QED  BY <2>1, <2>2, <2>3, ZenonT(30) DEF Pool!Put, Q, H
<1>13. \/ Queue(b, c)' = Queue(ch, pt) /\ Holds(t, g)' = Holds(t, h)
       \/ \E m \in 1..pt - ch :
            /\ Queue(b, c)' = SubSeq(Queue(ch, pt), m + 1, pt - ch)
            /\ Holds(t, g)' = Holds(t, h) \cup Range(SubSeq(Queue(ch, pt), 1, m))
       \/ \E S \in SUBSET Holds(t, h) : \E s \in Orders(S) :
            Queue(b, c)' = Queue(ch, pt) \o s /\ Holds(t, g)' = Holds(t, h) \ S
  BY <1>4, ZenonT(30) DEF PoolStep
<1> QED  BY <1>10, <1>11, <1>12, <1>13, ZenonT(30) DEF Pool!Next

LEMMA PoolStutters ==
  ASSUME UNCHANGED vars
  PROVE  UNCHANGED Pool!vars
<1>1. /\ UNCHANGED <<ring, prodHead, prodTail, consHead, consTail>>
      /\ UNCHANGED <<own, pc, head, tail, table, n, i, fails>>
  BY ZenonT(30) DEF vars, ringVars
<1> QED  BY <1>1, ZenonT(30) DEF Pool!vars, Content, Moving

(***************************************************************************)
(* The lock-free ring implements the atomic pool of ObjectPool: each get   *)
(* takes the first objects of the queue at once, each put adds its objects *)
(* at the end at once, and no object is lost, doubled or in two hands, for *)
(* any number of threads, objects and wraps of the indices.                *)
(***************************************************************************)
THEOREM RingImplementsPool == LongIndices => (Spec => ImplementsPool)
<1> SUFFICES ASSUME LongIndices
             PROVE  Spec => ImplementsPool
  BY ZenonT(30)
<1>1. Spec => []PoolInv
  BY AlwaysInv, ZenonT(30)
<1>2. Init => Pool!Init
  BY PoolInitially, ZenonT(30)
<1>3. PoolInv /\ PoolMap /\ PoolMap' /\ [Next]_vars => [Pool!Next]_(Pool!vars)
  BY PoolNext, PoolStutters, ZenonT(30)
<1> QED  BY <1>1, <1>2, <1>3, PoolMapped, PTL DEF Spec, ImplementsPool, Pool!Spec

=============================================================================
