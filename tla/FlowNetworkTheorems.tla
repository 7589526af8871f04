------------------------ MODULE FlowNetworkTheorems ------------------------
(***************************************************************************)
(* What flow_network () promises for every raster: the heap holds cells    *)
(* the flood has come to; every cell it came to was fed from a cell that   *)
(* is not above it, and in the end is as high as it spills; the drains     *)
(* lead down by elevation and, on a flat, by the sum of two distances, so  *)
(* that no water comes back; and the count over the ring of fifo.c ends    *)
(* with every cell counted, exactly.                                       *)
(***************************************************************************)
EXTENDS FlowNetwork, FiniteSetTheorems, WellFoundedInduction, SequenceTheorems, TLAPS

-----------------------------------------------------------------------------
(* The ring of fifo.c is a queue, whatever its capacity and wherever in     *)
(* the buffer its contents begin: a push appends, also when the ring is     *)
(* full, wraps around its end and has to grow first; a pop takes away what  *)
(* is in front.                                                             *)

\* What every ring is.
Ring(q, S) ==
    /\ q.cap \in Nat \ {0}
    /\ q.head \in 0 .. q.cap - 1
    /\ q.count \in 0 .. q.cap
    /\ q = [buf |-> q.buf, head |-> q.head, count |-> q.count, cap |-> q.cap]
    /\ q.buf \in [0 .. q.cap - 1 -> S]

\* A position past the end of the buffer wraps once.
LEMMA WrapOnce ==
    ASSUME NEW n \in Nat \ {0}, NEW i \in 0 .. 2 * n - 1
    PROVE  i % n = IF i < n THEN i ELSE i - n
OBVIOUS

\* Positions less than a round apart wrap to different places.
LEMMA WrapApart ==
    ASSUME NEW n \in Nat \ {0}, NEW h \in 0 .. n - 1, NEW i \in 0 .. n - 1, NEW j \in 0 .. n - 1,
           (h + i) % n = (h + j) % n
    PROVE  i = j
<1>1. /\ (h + i) % n = IF h + i < n THEN h + i ELSE h + i - n
      /\ (h + j) % n = IF h + j < n THEN h + j ELSE h + j - n
  <2>1. h + i \in 0 .. 2 * n - 1 /\ h + j \in 0 .. 2 * n - 1
    OBVIOUS
  <2>2. \A k \in 0 .. 2 * n - 1 : k % n = IF k < n THEN k ELSE k - n
    BY WrapOnce
  <2>3. QED
    BY <2>1, <2>2
<1>2. QED
  BY <1>1

\* Where slot () finds the i-th element.
LEMMA SlotOfRing ==
    ASSUME NEW S, NEW q, Ring(q, S), NEW i \in 0 .. q.cap
    PROVE  /\ Slot(q, i) = IF q.head + i < q.cap THEN q.head + i ELSE q.head + i - q.cap
           /\ Slot(q, i) \in 0 .. q.cap - 1
<1>1. q.head + i \in 0 .. 2 * q.cap - 1
  BY DEF Ring
<1>2. QED
  BY <1>1, WrapOnce DEF Slot, Ring

\* Two elements of a ring are never in one slot.
LEMMA SlotsApart ==
    ASSUME NEW S, NEW q, Ring(q, S), NEW i \in 0 .. q.cap - 1, NEW j \in 0 .. q.cap - 1,
           Slot(q, i) = Slot(q, j)
    PROVE  i = j
<1>1. q.cap \in Nat \ {0} /\ q.head \in 0 .. q.cap - 1
  BY DEF Ring
<1>2. QED
  BY <1>1, WrapApart DEF Slot

\* What a ring holds, element by element.
LEMMA ContentsType ==
    ASSUME NEW S, NEW q, Ring(q, S)
    PROVE  /\ Contents(q) \in Seq(S) /\ Len(Contents(q)) = q.count
           /\ \A i \in 1 .. q.count : Contents(q)[i] = q.buf[Slot(q, i - 1)]
<1>1. \A i \in 1 .. q.count : q.buf[Slot(q, i - 1)] \in S
  <2> SUFFICES ASSUME NEW i \in 1 .. q.count PROVE q.buf[Slot(q, i - 1)] \in S
    OBVIOUS
  <2>1. i - 1 \in 0 .. q.cap
    BY DEF Ring
  <2>2. Slot(q, i - 1) \in 0 .. q.cap - 1
    BY <2>1, SlotOfRing
  <2>3. QED
    BY <2>2 DEF Ring
<1>2. q.count \in Nat
  BY DEF Ring
<1>3. QED
  BY <1>1, <1>2 DEF Contents

\* A new ring is a ring, and holds nothing.
LEMMA InitRing ==
    ASSUME NEW S, Junk \in S
    PROVE  Ring(QueueInit, S) /\ Contents(QueueInit) = <<>>
<1>1. Ring(QueueInit, S)
  BY PageAssumption DEF Ring, QueueInit
<1>2. QueueInit.count = 0
  BY DEF QueueInit
<1>3. QED
  BY <1>1, <1>2, ContentsType

\* queue_grow (): what wrapped around the end of the old buffer is straight in
\* the new one.
LEMMA GrowRing ==
    ASSUME NEW S, Junk \in S, NEW q, Ring(q, S)
    PROVE  /\ Ring(QueueGrow(q), S)
           /\ Contents(QueueGrow(q)) = Contents(q)
           /\ QueueGrow(q).count = q.count /\ QueueGrow(q).cap = 2 * q.cap
<1> DEFINE r == QueueGrow(q)
<1>1. /\ r.count = q.count /\ r.cap = 2 * q.cap /\ r.head = 0
      /\ r = [buf |-> r.buf, head |-> r.head, count |-> r.count, cap |-> r.cap]
      /\ r.buf = [s \in 0 .. 2 * q.cap - 1 |-> IF s < q.count THEN q.buf[Slot(q, s)] ELSE Junk]
  BY DEF QueueGrow
<1>2. r.buf \in [0 .. r.cap - 1 -> S]
  <2>1. ASSUME NEW s \in 0 .. 2 * q.cap - 1, s < q.count PROVE q.buf[Slot(q, s)] \in S
    <3>1. s \in 0 .. q.cap
      BY <2>1 DEF Ring
    <3>2. QED
      BY <3>1, SlotOfRing DEF Ring
  <2>2. QED
    BY <1>1, <2>1
<1>3. Ring(r, S)
  <2>1. r.cap \in Nat \ {0} /\ r.head \in 0 .. r.cap - 1 /\ r.count \in 0 .. r.cap
    BY <1>1 DEF Ring
  <2> HIDE DEF r
  <2>2. QED
    BY <1>1, <1>2, <2>1 DEF Ring
<1>4. \A i \in 1 .. q.count : r.buf[Slot(r, i - 1)] = q.buf[Slot(q, i - 1)]
  <2> SUFFICES ASSUME NEW i \in 1 .. q.count PROVE r.buf[Slot(r, i - 1)] = q.buf[Slot(q, i - 1)]
    OBVIOUS
  <2>1. i - 1 \in 0 .. r.cap /\ i - 1 \in 0 .. 2 * q.cap - 1 /\ i - 1 < q.count
    BY <1>1 DEF Ring
  <2>2. Slot(r, i - 1) = i - 1
    <3> HIDE DEF r
    <3>1. Slot(r, i - 1) = IF r.head + (i - 1) < r.cap THEN r.head + (i - 1) ELSE r.head + (i - 1) - r.cap
      BY <1>3, <2>1, SlotOfRing
    <3>2. QED
      BY <1>1, <2>1, <3>1 DEF Ring
  <2>3. QED
    BY <1>1, <2>1, <2>2
<1> HIDE DEF r
<1>5. Contents(r) = Contents(q)
  BY <1>1, <1>4 DEF Contents
<1>6. QED
  BY <1>1, <1>3, <1>5 DEF r

\* A push into a ring with room.
PushedInto(q, e) == [q EXCEPT !.buf[Slot(q, q.count)] = e, !.count = @ + 1]

\* What it appends is read back last.
LEMMA PushWithRoom ==
    ASSUME NEW S, NEW q, Ring(q, S), q.count < q.cap, NEW e \in S
    PROVE  Ring(PushedInto(q, e), S) /\ Contents(PushedInto(q, e)) = Append(Contents(q), e)
<1> DEFINE r == PushedInto(q, e)
<1>1. /\ r.head = q.head /\ r.cap = q.cap /\ r.count = q.count + 1
      /\ r.buf = [q.buf EXCEPT ![Slot(q, q.count)] = e]
      /\ r = [buf |-> r.buf, head |-> r.head, count |-> r.count, cap |-> r.cap]
  <2>1. PICK b, n : b = [q.buf EXCEPT ![Slot(q, q.count)] = e] /\ n = q.count + 1
    OBVIOUS
  <2>2. r = [q EXCEPT !.buf = b, !.count = n]
    BY <2>1 DEF PushedInto
  <2> HIDE DEF r
  <2>3. /\ r.head = q.head /\ r.cap = q.cap /\ r.count = n /\ r.buf = b
        /\ r = [buf |-> r.buf, head |-> r.head, count |-> r.count, cap |-> r.cap]
    BY <2>2 DEF Ring
  <2>4. QED
    BY <2>1, <2>3
<1> HIDE DEF r
<1>2. q.count \in 0 .. q.cap - 1 /\ q.count \in 0 .. q.cap
  BY DEF Ring
<1>3. Slot(q, q.count) \in 0 .. q.cap - 1
  BY <1>2, SlotOfRing
<1>4. Ring(r, S)
  BY <1>1, <1>2, <1>3 DEF Ring
<1>5. \A i \in 0 .. q.cap : Slot(r, i) = Slot(q, i)
  BY <1>1 DEF Slot
<1>6. \A i \in 1 .. q.count : r.buf[Slot(r, i - 1)] = q.buf[Slot(q, i - 1)]
  <2> SUFFICES ASSUME NEW i \in 1 .. q.count PROVE r.buf[Slot(r, i - 1)] = q.buf[Slot(q, i - 1)]
    OBVIOUS
  <2>1. i - 1 \in 0 .. q.cap - 1 /\ i - 1 \in 0 .. q.cap /\ i - 1 # q.count
    BY DEF Ring
  <2>2. Slot(q, i - 1) # Slot(q, q.count)
    BY <1>2, <2>1, SlotsApart
  <2>3. Slot(q, i - 1) \in 0 .. q.cap - 1
    BY <2>1, SlotOfRing
  <2>4. QED
    BY <1>1, <1>5, <2>1, <2>2, <2>3 DEF Ring
<1>7. r.buf[Slot(r, q.count)] = e
  BY <1>1, <1>2, <1>3, <1>5 DEF Ring
<1>8. /\ Contents(q) \in Seq(S) /\ Len(Contents(q)) = q.count
      /\ \A i \in 1 .. q.count : Contents(q)[i] = q.buf[Slot(q, i - 1)]
  BY ContentsType
<1>9. /\ Contents(r) \in Seq(S) /\ Len(Contents(r)) = q.count + 1
      /\ \A i \in 1 .. q.count + 1 : Contents(r)[i] = r.buf[Slot(r, i - 1)]
  <2>1. /\ Contents(r) \in Seq(S) /\ Len(Contents(r)) = r.count
        /\ \A i \in 1 .. r.count : Contents(r)[i] = r.buf[Slot(r, i - 1)]
    BY <1>4, ContentsType
  <2>2. r.count = q.count + 1
    BY <1>1
  <2>3. QED
    BY <2>1, <2>2
<1>10. \A i \in 1 .. q.count + 1 : Contents(r)[i] = Append(Contents(q), e)[i]
  <2>1. q.count \in Nat
    BY DEF Ring
  <2>2. ASSUME NEW i \in 1 .. q.count + 1 PROVE i \in 1 .. q.count \/ (i = q.count + 1 /\ i - 1 = q.count)
    BY <2>1
  <2>3. QED
    BY <1>6, <1>7, <1>8, <1>9, <2>1, <2>2
<1>11. QED
  BY <1>4, <1>8, <1>9, <1>10 DEF r, Ring

\* queue_push () of fifo.c appends, and the ring is a ring again, with room or
\* without, at the end of the buffer or across it.
THEOREM PushAppends ==
    ASSUME NEW S, Junk \in S, NEW q, Ring(q, S), NEW e \in S
    PROVE  Ring(QueuePush(q, e), S) /\ Contents(QueuePush(q, e)) = Append(Contents(q), e)
<1>1. PICK r : r = IF q.count = q.cap THEN QueueGrow(q) ELSE q
  OBVIOUS
<1>2. Ring(r, S) /\ Contents(r) = Contents(q) /\ r.count < r.cap
  BY <1>1, GrowRing DEF Ring
<1>3. QueuePush(q, e) = PushedInto(r, e)
  BY <1>1 DEF QueuePush, PushedInto
<1>4. QED
  BY <1>2, <1>3, PushWithRoom

\* queue_pop () of fifo.c takes what is in front and leaves the rest in order.
THEOREM PopTakesFront ==
    ASSUME NEW S, NEW q, Ring(q, S), q.count > 0
    PROVE  /\ Ring(QueuePop(q), S)
           /\ QueueFront(q) = Head(Contents(q))
           /\ Contents(QueuePop(q)) = Tail(Contents(q))
<1> DEFINE r == QueuePop(q)
<1>1. /\ r.head = Slot(q, 1) /\ r.cap = q.cap /\ r.count = q.count - 1 /\ r.buf = q.buf
      /\ r = [buf |-> r.buf, head |-> r.head, count |-> r.count, cap |-> r.cap]
  <2>1. PICK h, n : h = Slot(q, 1) /\ n = q.count - 1
    OBVIOUS
  <2>2. r = [q EXCEPT !.head = h, !.count = n]
    BY <2>1 DEF QueuePop
  <2> HIDE DEF r
  <2>3. /\ r.head = h /\ r.cap = q.cap /\ r.count = n /\ r.buf = q.buf
        /\ r = [buf |-> r.buf, head |-> r.head, count |-> r.count, cap |-> r.cap]
    BY <2>2 DEF Ring
  <2>4. QED
    BY <2>1, <2>3
<1>2. 1 \in 0 .. q.cap /\ 0 \in 0 .. q.cap
  BY DEF Ring
<1>3. Ring(r, S)
  <2>1. Slot(q, 1) \in 0 .. q.cap - 1
    BY <1>2, SlotOfRing
  <2> HIDE DEF r
  <2>2. QED
    BY <1>1, <2>1 DEF Ring
<1> HIDE DEF r
<1>4. Slot(q, 0) = q.head
  <2>1. Slot(q, 0) = IF q.head + 0 < q.cap THEN q.head + 0 ELSE q.head + 0 - q.cap
    BY <1>2, SlotOfRing
  <2>2. q.head \in 0 .. q.cap - 1 /\ q.cap \in Nat
    BY DEF Ring
  <2>3. QED
    BY <2>1, <2>2
<1>5. ASSUME NEW i \in 1 .. q.count - 1 PROVE Slot(r, i - 1) = Slot(q, i)
  <2>1. i - 1 \in 0 .. r.cap /\ i \in 0 .. q.cap
    BY <1>1 DEF Ring
  <2>2. Slot(r, i - 1) = IF r.head + (i - 1) < r.cap THEN r.head + (i - 1) ELSE r.head + (i - 1) - r.cap
    BY <1>3, <2>1, SlotOfRing
  <2>3. Slot(q, i) = IF q.head + i < q.cap THEN q.head + i ELSE q.head + i - q.cap
    BY <2>1, SlotOfRing
  <2>4. r.head = IF q.head + 1 < q.cap THEN q.head + 1 ELSE q.head + 1 - q.cap
    BY <1>1, <1>2, SlotOfRing
  <2>5. QED
    BY <1>1, <2>1, <2>2, <2>3, <2>4 DEF Ring
<1>6. /\ Contents(q) \in Seq(S) /\ Len(Contents(q)) = q.count
      /\ \A i \in 1 .. q.count : Contents(q)[i] = q.buf[Slot(q, i - 1)]
  BY ContentsType
<1>7. /\ Contents(r) \in Seq(S) /\ Len(Contents(r)) = q.count - 1
      /\ \A i \in 1 .. q.count - 1 : Contents(r)[i] = r.buf[Slot(r, i - 1)]
  BY <1>1, <1>3, ContentsType
<1>8. Head(Contents(q)) = QueueFront(q)
  <2>1. 1 \in 1 .. q.count /\ 1 - 1 = 0
    BY DEF Ring
  <2>2. Contents(q)[1] = q.buf[q.head]
    BY <1>4, <1>6, <2>1
  <2>3. QED
    BY <1>6, <2>1, <2>2 DEF QueueFront
<1>9. \A i \in 1 .. q.count - 1 : Contents(r)[i] = Tail(Contents(q))[i]
  <2> SUFFICES ASSUME NEW i \in 1 .. q.count - 1 PROVE Contents(r)[i] = Tail(Contents(q))[i]
    OBVIOUS
  <2>1. i + 1 \in 1 .. q.count /\ (i + 1) - 1 = i /\ q.count \in Nat
    BY DEF Ring
  <2>2. Contents(r)[i] = q.buf[Slot(q, i)]
    BY <1>1, <1>5, <1>7
  <2>3. Contents(q)[i + 1] = q.buf[Slot(q, i)]
    BY <1>6, <2>1
  <2>4. QED
    BY <1>6, <2>1, <2>2, <2>3
<1>10. Contents(r) = Tail(Contents(q))
  <2>1. Tail(Contents(q)) \in Seq(S) /\ Len(Tail(Contents(q))) = q.count - 1
    BY <1>6 DEF Ring
  <2>2. QED
    BY <1>7, <1>9, <2>1
<1>11. QED
  BY <1>3, <1>8, <1>10 DEF r

-----------------------------------------------------------------------------
(* Numbers, runs of recursive functions, and the finite raster.             *)

\* A set of numbers has a least one.
LEMMA LeastNatural ==
  ASSUME NEW S \in SUBSET Nat, S # {}
  PROVE  \E x \in S : \A y \in S : x <= y
<1>1. \E x \in S : \A y \in S : ~(<<y, x>> \in OpToRel(<, Nat))
  BY NatLessThanWellFounded, WFMin
<1>2. PICK x \in S : \A y \in S : ~(<<y, x>> \in OpToRel(<, Nat))
  BY <1>1
<1>3. \A y \in S : ~(y < x)
  BY <1>2 DEF OpToRel
<1>4. QED
  BY <1>3

\* Induction up to n, about the members of a set.
LEMMA UpTo ==
  ASSUME NEW n \in Nat, NEW S, 0 \in S, \A k \in 0 .. n - 1 : k \in S => k + 1 \in S
  PROVE  \A k \in 0 .. n : k \in S
<1> DEFINE Left == {k \in 0 .. n : k \notin S}
<1>1. SUFFICES ASSUME Left # {} PROVE FALSE
  OBVIOUS
<1>2. PICK k \in Left : \A j \in Left : k <= j
  <2>1. Left \in SUBSET Nat
    OBVIOUS
  <2> HIDE DEF Left
  <2>2. QED
    BY <1>1, <2>1, LeastNatural
<1>3. k # 0
  BY <1>2
<1>4. k - 1 \in 0 .. n - 1 /\ k - 1 \notin Left /\ (k - 1) + 1 = k
  BY <1>2, <1>3
<1>5. QED
  BY <1>2, <1>4

\* R has a step from each member of A to one, at each of n places.
StepsAlways(R, n, A) == \A k \in 1 .. n, x \in A : \E y \in A : <<k, x, y>> \in R

\* f is what n steps of R make of a.
IsRun(f, R, n, a, A) ==
  /\ f = [k \in 0 .. n |-> f[k]]
  /\ f[0] = a
  /\ \A k \in 0 .. n : f[k] \in A
  /\ \A k \in 1 .. n : <<k, f[k - 1], f[k]>> \in R

\* Recursive definitions define something.
LEMMA Recursion ==
  ASSUME NEW n \in Nat, NEW A, NEW a \in A, NEW R, StepsAlways(R, n, A)
  PROVE  \E f : IsRun(f, R, n, a, A)
<1> DEFINE Is(f, m) == IsRun(f, R, m, a, A)
           S == {m \in 0 .. n : \E f : Is(f, m)}
<1>1. 0 \in S
  <2> DEFINE f == [k \in 0 .. 0 |-> a]
  <2>1. Is(f, 0)
    BY DEF IsRun
  <2> HIDE DEF f, Is
  <2>2. \E g : Is(g, 0)
    BY <2>1
  <2>3. QED
    BY <2>2
<1>2. ASSUME NEW m \in 0 .. n - 1, m \in S PROVE m + 1 \in S
  <2>1. PICK f : Is(f, m)
    BY <1>2
  <2>2. /\ f[0] = a
        /\ \A k \in 0 .. m : f[k] \in A
        /\ \A k \in 1 .. m : <<k, f[k - 1], f[k]>> \in R
        /\ f[m] \in A /\ m + 1 \in 1 .. n
    BY <2>1 DEF IsRun
  <2>3. PICK y \in A : <<m + 1, f[m], y>> \in R
    BY <2>2 DEF StepsAlways
  <2> DEFINE g == [k \in 0 .. m + 1 |-> IF k <= m THEN f[k] ELSE y]
  <2>4. /\ g[0] = f[0]
        /\ \A k \in 0 .. m + 1 : g[k] = IF k <= m THEN f[k] ELSE y
    OBVIOUS
  <2>5. g = [k \in 0 .. m + 1 |-> g[k]]
    OBVIOUS
  <2> HIDE DEF g
  <2>6. \A k \in 0 .. m + 1 : g[k] \in A
    <3>1. \A k \in 0 .. m + 1 : k <= m => k \in 0 .. m
      OBVIOUS
    <3>2. QED
      BY <2>2, <2>3, <2>4, <3>1
  <2>7. ASSUME NEW k \in 1 .. m + 1 PROVE <<k, g[k - 1], g[k]>> \in R
    <3>1. g[k - 1] = f[k - 1]
      BY <2>4
    <3>2. CASE k <= m
      <4>1. k \in 1 .. m /\ g[k] = f[k]
        BY <2>4, <3>2
      <4>2. QED
        BY <2>2, <3>1, <4>1
    <3>3. CASE k = m + 1
      <4>1. g[k] = y /\ k - 1 = m
        BY <2>4, <3>3
      <4>2. QED
        BY <2>3, <3>1, <3>3, <4>1
    <3>4. QED
      BY <3>2, <3>3
  <2>8. Is(g, m + 1)
    BY <2>2, <2>4, <2>5, <2>6, <2>7 DEF IsRun
  <2> HIDE DEF Is
  <2>9. \E x : Is(x, m + 1)
    BY <2>8
  <2>10. QED
    BY <2>9
<1>3. \A m \in 0 .. n : m \in S
  <2> HIDE DEF S
  <2>1. QED
    BY <1>1, <1>2, UpTo
<1>4. QED
  BY <1>3

\* The greatest value that f takes on a set of directions, and the least.
LEMMA GreatestAmongDirs ==
  ASSUME NEW f \in [Dirs -> Int], NEW S \in SUBSET Dirs, S # {}
  PROVE  \E m \in S : \A d \in S : f[d] <= f[m]
<1> DEFINE Up(k) == {d \in S : d <= k}
           Good == {k \in 0 .. 7 : Up(k) # {} => \E m \in Up(k) : \A d \in Up(k) : f[d] <= f[m]}
<1>0. \A d \in S : d \in 0 .. 7 /\ f[d] \in Int
  BY DEF Dirs
<1>1. 0 \in Good
  <2>1. \A d \in Up(0) : d = 0 /\ f[d] <= f[0]
    BY <1>0
  <2>2. Up(0) # {} => \E m \in Up(0) : \A d \in Up(0) : f[d] <= f[m]
    BY <2>1
  <2>3. QED
    BY <2>2
<1>2. ASSUME NEW k \in 0 .. 7 - 1, k \in Good PROVE k + 1 \in Good
  <2>1. Up(k + 1) = Up(k) \cup {d \in S : d = k + 1}
    BY <1>0
  <2>2. CASE k + 1 \notin S
    BY <1>2, <2>1, <2>2
  <2>3. CASE k + 1 \in S /\ Up(k) = {}
    <3>1. \A d \in Up(k + 1) : d = k + 1
      BY <2>1, <2>3
    <3>2. QED
      BY <3>1, <2>3, <2>1 DEF Dirs
  <2>4. CASE k + 1 \in S /\ Up(k) # {}
    <3>1. PICK m \in Up(k) : \A d \in Up(k) : f[d] <= f[m]
      BY <1>2, <2>4
    <3>2. CASE f[k + 1] <= f[m]
      <4>1. m \in Up(k + 1) /\ \A d \in Up(k + 1) : f[d] <= f[m]
        BY <2>1, <3>1, <3>2
      <4>2. QED
        BY <4>1
    <3>3. CASE ~(f[k + 1] <= f[m])
      <4>1. \A d \in Up(k) : f[d] \in Int /\ f[m] \in Int /\ f[k + 1] \in Int
        BY <2>4, <3>1
      <4>2. k + 1 \in Up(k + 1) /\ \A d \in Up(k + 1) : f[d] <= f[k + 1]
        BY <2>1, <2>4, <3>1, <3>3, <4>1
      <4>3. QED
        BY <4>2
    <3>4. QED
      BY <3>2, <3>3
  <2>5. QED
    BY <2>2, <2>3, <2>4
<1>3. 7 \in Good
  <2> HIDE DEF Good
  <2>1. QED
    BY <1>1, <1>2, UpTo
<1>4. Up(7) = S
  BY <1>0
<1>5. QED
  BY <1>3, <1>4

\* The raster is finite, and a step to a neighbour and back leads nowhere.
LEMMA CellsFinite ==
  /\ IsFiniteSet(Inside) /\ IsFiniteSet(Halo)
  /\ Cardinality(Inside) = Width * Height
  /\ Cardinality(Halo) \in Nat \ {0}
  /\ Inside \subseteq Halo /\ Inside # {}
  /\ Width * Height \in Nat \ {0}
<1>1. \A n \in Nat \ {0} : /\ IsFiniteSet(0 .. n - 1) /\ Cardinality(0 .. n - 1) = n
                          /\ IsFiniteSet(-1 .. n)
  <2>1. SUFFICES ASSUME NEW n \in Nat \ {0}
                 PROVE  /\ IsFiniteSet(0 .. n - 1) /\ Cardinality(0 .. n - 1) = n
                        /\ IsFiniteSet(-1 .. n)
    OBVIOUS
  <2>2. PICK m \in Int : m = n - 1
    OBVIOUS
  <2>3. IsFiniteSet(0 .. m) /\ Cardinality(0 .. m) = IF 0 > m THEN 0 ELSE m - 0 + 1
    BY FS_Interval
  <2>4. PICK l \in Int : l = -1
    OBVIOUS
  <2>5. IsFiniteSet(l .. n)
    BY FS_Interval
  <2>6. QED
    BY <2>2, <2>3, <2>4, <2>5
<1>2. /\ IsFiniteSet(Inside) /\ IsFiniteSet(Halo)
      /\ Cardinality(Inside) = Width * Height
  <2>1. PICK X : X = 0 .. Width - 1
    OBVIOUS
  <2>2. PICK Y : Y = 0 .. Height - 1
    OBVIOUS
  <2>3. PICK U : U = -1 .. Width
    OBVIOUS
  <2>4. PICK V : V = -1 .. Height
    OBVIOUS
  <2>5. /\ IsFiniteSet(X) /\ IsFiniteSet(Y) /\ IsFiniteSet(U) /\ IsFiniteSet(V)
        /\ Cardinality(X) = Width /\ Cardinality(Y) = Height
    BY <1>1, <2>1, <2>2, <2>3, <2>4, RasterAssumption
  <2>6. /\ IsFiniteSet(X \X Y) /\ Cardinality(X \X Y) = Cardinality(X) * Cardinality(Y)
        /\ IsFiniteSet(U \X V)
    BY <2>5, FS_Product
  <2>7. QED
    BY <2>1, <2>2, <2>3, <2>4, <2>5, <2>6 DEF Inside, Halo
<1>3. Inside \subseteq Halo
  BY RasterAssumption DEF Inside, Halo
<1>4. <<0, 0>> \in Inside /\ <<0, 0>> \in Halo
  BY RasterAssumption DEF Inside, Halo
<1>5. Cardinality(Halo) \in Nat \ {0}
  BY <1>2, <1>4, FS_CardinalityType, FS_EmptySet
<1>6. Width * Height \in Nat \ {0}
  <2>1. Cardinality(Inside) \in Nat
    BY <1>2, FS_CardinalityType
  <2>2. Cardinality(Inside) # 0
    BY <1>2, <1>4, FS_EmptySet
  <2>3. QED
    BY <1>2, <2>1, <2>2
<1>7. QED
  BY <1>2, <1>3, <1>4, <1>5, <1>6

\* The eight steps, each with its opposite.
LEMMA Steps ==
  /\ OffsetX \in [Dirs -> -1 .. 1] /\ OffsetY \in [Dirs -> -1 .. 1]
  /\ \A c \in Dirs : /\ Opposite(c) \in Dirs /\ Opposite(Opposite(c)) = c
                     /\ OffsetX[Opposite(c)] = -OffsetX[c] /\ OffsetY[Opposite(c)] = -OffsetY[c]
                     /\ OffsetX[c] # 0 \/ OffsetY[c] # 0
  /\ \A c, d \in Dirs : OffsetX[c] = OffsetX[d] /\ OffsetY[c] = OffsetY[d] => c = d
  /\ NoDir \notin Dirs
<1>1. \A c \in Dirs : c \in 0 .. 7
  BY DEF Dirs
<1>2. \A c \in Dirs : Opposite(c) = IF c < 4 THEN c + 4 ELSE c - 4
  BY <1>1 DEF Opposite
<1>3. \A c \in Dirs :
        /\ OffsetX[c] = IF c \in {0, 1, 7} THEN 1 ELSE IF c \in {2, 6} THEN 0 ELSE -1
        /\ OffsetY[c] = IF c \in {1, 2, 3} THEN 1 ELSE IF c \in {0, 4} THEN 0 ELSE -1
  BY DEF OffsetX, OffsetY
<1>4. OffsetX \in [Dirs -> -1 .. 1] /\ OffsetY \in [Dirs -> -1 .. 1]
  BY DEF OffsetX, OffsetY
<1>5. \A c \in Dirs : Opposite(c) \in Dirs
  BY <1>1, <1>2 DEF Dirs
<1>6. \A c \in Dirs : Opposite(Opposite(c)) = c
  BY <1>1, <1>2, <1>5
<1>7. \A c \in Dirs : /\ OffsetX[Opposite(c)] = -OffsetX[c] /\ OffsetY[Opposite(c)] = -OffsetY[c]
                      /\ OffsetX[c] # 0 \/ OffsetY[c] # 0
  BY <1>1, <1>2, <1>3, <1>5
<1>8. \A c, d \in Dirs : OffsetX[c] = OffsetX[d] /\ OffsetY[c] = OffsetY[d] => c = d
  BY <1>1, <1>3
<1>9. NoDir \notin Dirs
  BY DEF NoDir, Dirs
<1>10. QED
  BY <1>4, <1>5, <1>6, <1>7, <1>8, <1>9

\* A neighbour is next to its own neighbour, and each direction leads to
\* another one.
LEMMA Neighbors ==
  ASSUME NEW p \in Int \X Int
  PROVE  /\ \A c \in Dirs : /\ Neighbor(p, c) \in Int \X Int
                            /\ Neighbor(p, c) # p
                            /\ Neighbor(Neighbor(p, c), Opposite(c)) = p
         /\ \A c, d \in Dirs : Neighbor(p, c) = Neighbor(p, d) => c = d
         /\ \A q \in Around(p) : q \in Int \X Int /\ p \in Around(q) /\ q # p
<1>1. \A c \in Dirs : OffsetX[c] \in Int /\ OffsetY[c] \in Int
  BY Steps
<1>2. p = <<p[1], p[2]>> /\ p[1] \in Int /\ p[2] \in Int
  OBVIOUS
<1>3. ASSUME NEW c \in Dirs
      PROVE  /\ Neighbor(p, c) \in Int \X Int
             /\ Neighbor(p, c) # p
             /\ Neighbor(Neighbor(p, c), Opposite(c)) = p
  <2>1. /\ Opposite(c) \in Dirs
        /\ OffsetX[Opposite(c)] = -OffsetX[c] /\ OffsetY[Opposite(c)] = -OffsetY[c]
        /\ OffsetX[c] # 0 \/ OffsetY[c] # 0
    BY Steps
  <2>2. Neighbor(p, c) = <<p[1] + OffsetX[c], p[2] + OffsetY[c]>>
    BY DEF Neighbor
  <2>3. Neighbor(Neighbor(p, c), Opposite(c)) = <<p[1] + OffsetX[c] + OffsetX[Opposite(c)],
                                                  p[2] + OffsetY[c] + OffsetY[Opposite(c)]>>
    BY <2>2 DEF Neighbor
  <2>4. Neighbor(p, c) # p
    <3>1. SUFFICES ASSUME Neighbor(p, c) = p PROVE FALSE
      OBVIOUS
    <3>2. p[1] + OffsetX[c] = p[1] /\ p[2] + OffsetY[c] = p[2]
      BY <2>2, <3>1
    <3>3. \A a, b \in Int : a + b = a => b = 0
      OBVIOUS
    <3>4. OffsetX[c] = 0 /\ OffsetY[c] = 0
      BY <1>1, <1>2, <3>2, <3>3
    <3>5. QED
      BY <2>1, <3>4
  <2>5. QED
    BY <1>1, <1>2, <2>1, <2>2, <2>3, <2>4
<1>4. ASSUME NEW c \in Dirs, NEW d \in Dirs, Neighbor(p, c) = Neighbor(p, d) PROVE c = d
  <2>1. OffsetX[c] = OffsetX[d] /\ OffsetY[c] = OffsetY[d]
    <3>1. p[1] + OffsetX[c] = p[1] + OffsetX[d] /\ p[2] + OffsetY[c] = p[2] + OffsetY[d]
      BY <1>4 DEF Neighbor
    <3>2. \A a, x, y \in Int : a + x = a + y => x = y
      OBVIOUS
    <3>3. QED
      BY <1>1, <1>2, <3>1, <3>2
  <2>2. QED
    BY <2>1, Steps
<1>5. ASSUME NEW q \in Around(p) PROVE q \in Int \X Int /\ p \in Around(q) /\ q # p
  <2>1. PICK c \in Dirs : q = Neighbor(p, c)
    BY DEF Around
  <2>2. Opposite(c) \in Dirs
    BY Steps
  <2>3. QED
    BY <1>3, <2>1, <2>2 DEF Around
<1>6. QED
  BY <1>3, <1>4, <1>5

\* The cells around the domain are in the halo; a ghost cell is next to cells
\* of the boundary only.
LEMMA InHalo ==
  /\ \A p \in Halo : p \in Int \X Int
  /\ \A p \in Inside : p \in Int \X Int /\ Around(p) \subseteq Halo
  /\ \A p \in Inside, c \in Dirs : Neighbor(p, c) \in Halo
  /\ \A p \in Inside : ~OnBoundary(p) => Around(p) \subseteq Inside
<1>1. \A p \in Halo : p \in Int \X Int
  BY RasterAssumption DEF Halo
<1>2. \A p \in Inside : p \in Int \X Int
  BY RasterAssumption DEF Inside
<1>3. ASSUME NEW p \in Inside, NEW c \in Dirs PROVE Neighbor(p, c) \in Halo
  <2>1. OffsetX[c] \in -1 .. 1 /\ OffsetY[c] \in -1 .. 1
    BY Steps
  <2>2. p[1] \in 0 .. Width - 1 /\ p[2] \in 0 .. Height - 1
    BY DEF Inside
  <2>3. QED
    BY <2>1, <2>2, RasterAssumption DEF Neighbor, Halo
<1>4. ASSUME NEW p \in Inside, ~OnBoundary(p), NEW c \in Dirs PROVE Neighbor(p, c) \in Inside
  <2>1. OffsetX[c] \in -1 .. 1 /\ OffsetY[c] \in -1 .. 1
    BY Steps
  <2>2. p[1] \in 1 .. Width - 2 /\ p[2] \in 1 .. Height - 2
    BY <1>4, RasterAssumption DEF Inside, OnBoundary
  <2>3. QED
    BY <2>1, <2>2, RasterAssumption DEF Neighbor, Inside
<1>5. QED
  BY <1>1, <1>2, <1>3, <1>4 DEF Around

\* What Steepest () chooses goes down, and it finds a way down where there is one.
LEMMA SteepestGoesDown ==
  ASSUME NEW S \in SUBSET Dirs, NEW drop \in [S -> Int]
  PROVE  /\ Steepest(drop) # NoDir => Steepest(drop) \in S /\ drop[Steepest(drop)] > 0
         /\ (\E c \in S : drop[c] > 0) => Steepest(drop) # NoDir
         /\ Steepest(drop) \in Dirs \cup {NoDir}
<1> DEFINE down == {c \in S : drop[c] > 0}
           slope == [c \in Dirs |-> IF c \in S THEN Slope2(drop[c], c) ELSE 0]
           best == {c \in down : \A d \in down : Slope2(drop[c], c) >= Slope2(drop[d], d)}
           minus == [c \in Dirs |-> -c]
<1>1. DOMAIN drop = S
  OBVIOUS
<1>2. CASE down = {}
  BY <1>1, <1>2 DEF Steepest
<1>3. CASE down # {}
  <2>1. slope \in [Dirs -> Int]
    BY DEF Slope2
  <2>2. PICK m \in down : \A d \in down : slope[d] <= slope[m]
    <3>1. down \in SUBSET Dirs
      OBVIOUS
    <3> HIDE DEF down, slope
    <3>2. QED
      BY <1>3, <2>1, <3>1, GreatestAmongDirs
  <2>3. m \in best
    <3>1. \A d \in down : slope[d] = Slope2(drop[d], d) /\ slope[d] \in Int
      BY <2>1
    <3>2. QED
      BY <2>2, <3>1
  <2>4. PICK c \in best : \A d \in best : minus[d] <= minus[c]
    <3>1. minus \in [Dirs -> Int]
      BY DEF Dirs
    <3>3. best \in SUBSET Dirs /\ best # {}
      BY <2>3
    <3> HIDE DEF best, minus
    <3>2. QED
      BY <3>1, <3>3, GreatestAmongDirs
  <2>5. \A d \in best : c <= d
    <3>1. \A d \in best : d \in 0 .. 7 /\ d \in Dirs
      BY DEF Dirs
    <3> HIDE DEF best
    <3>2. \A d \in best : minus[d] = -d
      BY <3>1
    <3> HIDE DEF minus
    <3>3. \A d \in best : -d <= -c
      BY <2>4, <3>2
    <3>4. QED
      BY <2>4, <3>1, <3>3
  <2>6. Steepest(drop) = CHOOSE x \in best : \A d \in best : x <= d
    BY <1>1, <1>3 DEF Steepest
  <2>7. Steepest(drop) \in best
    <3> HIDE DEF best
    <3>1. QED
      BY <2>5, <2>6
  <2>8. Steepest(drop) \in S /\ drop[Steepest(drop)] > 0
    BY <2>7
  <2>9. QED
    BY <2>8, Steps
<1>4. QED
  BY <1>2, <1>3

-----------------------------------------------------------------------------
(* The patches of equal elevation, and the tags of flat_tag ().             *)

\* The order of the scan numbers the cells of the domain.
LEMMA Quotient ==
  ASSUME NEW w \in Nat \ {0}, NEW x \in 0 .. w - 1, NEW y \in Nat
  PROVE  (y * w + x) % w = x /\ (y * w + x) \div w = y
<1> DEFINE a == y * w + x
           q == a \div w
           r == a % w
<1>1. /\ a \in Nat /\ q \in Int /\ r \in 0 .. w - 1
      /\ a = w * q + r
  OBVIOUS
<1>2. w * (q - y) = x - r
  BY <1>1
<1>3. q = y
  <2>1. CASE q - y >= 1
    <3>1. w * (q - y) >= w
      BY <1>1, <2>1
    <3>2. QED
      BY <1>1, <1>2, <3>1
  <2>2. CASE q - y <= -1
    <3>1. w * (q - y) <= -w
      BY <1>1, <2>2
    <3>2. QED
      BY <1>1, <1>2, <3>1
  <2>3. QED
    BY <1>1, <2>1, <2>2
<1>4. r = x
  BY <1>1, <1>3
<1>5. QED
  BY <1>3, <1>4

\* The order of the scan numbers the cells, and CellAt () finds them back.
LEMMA ScanNumbers ==
  /\ \A p \in Inside : ScanIndex(p) \in 0 .. Width * Height - 1 /\ CellAt(ScanIndex(p)) = p
  /\ \A i \in 0 .. Width * Height - 1 : CellAt(i) \in Inside /\ ScanIndex(CellAt(i)) = i
<1>1. ASSUME NEW p \in Inside
      PROVE  ScanIndex(p) \in 0 .. Width * Height - 1 /\ CellAt(ScanIndex(p)) = p
  <2>1. /\ p = <<p[1], p[2]>> /\ p[1] \in 0 .. Width - 1 /\ p[2] \in 0 .. Height - 1
        /\ p[2] \in Nat
    BY RasterAssumption DEF Inside
  <2>2. (p[2] * Width + p[1]) % Width = p[1] /\ (p[2] * Width + p[1]) \div Width = p[2]
    BY <2>1, Quotient, RasterAssumption
  <2>3. p[2] * Width + p[1] \in 0 .. Width * Height - 1
    <3>1. PICK d \in Nat : d = Height - 1 - p[2]
      BY <2>1, RasterAssumption
    <3>2. Width * Height = Width * p[2] + Width * d + Width /\ Width * d \in Nat /\ Width * p[2] \in Nat
      BY <2>1, <3>1, RasterAssumption
    <3>3. QED
      BY <2>1, <3>2, RasterAssumption
  <2>4. QED
    BY <2>1, <2>2, <2>3 DEF ScanIndex, CellAt
<1>2. ASSUME NEW i \in 0 .. Width * Height - 1
      PROVE  CellAt(i) \in Inside /\ ScanIndex(CellAt(i)) = i
  <2> DEFINE x == i % Width
             y == i \div Width
  <2>1. /\ x \in 0 .. Width - 1 /\ y \in Int /\ i = Width * y + x /\ i >= 0
        /\ Width * Height \in Nat /\ i < Width * Height
    BY RasterAssumption, CellsFinite
  <2>2. y >= 0
    <3>1. SUFFICES ASSUME y <= -1 PROVE FALSE
      BY <2>1
    <3>2. Width * y <= -Width
      BY <2>1, <3>1, RasterAssumption
    <3>3. QED
      BY <2>1, <3>2, RasterAssumption
  <2>3. y <= Height - 1
    <3>1. SUFFICES ASSUME y >= Height PROVE FALSE
      BY <2>1, RasterAssumption
    <3>2. Width * y >= Width * Height
      BY <2>1, <3>1, RasterAssumption
    <3>3. QED
      BY <2>1, <3>2, RasterAssumption
  <2>4. QED
    BY <2>1, <2>2, <2>3, RasterAssumption DEF CellAt, ScanIndex, Inside
<1>3. QED
  BY <1>1, <1>2

Elevations == [Halo -> Int \cup {NaN}]

\* No part of P but all of it is closed under neighbours in P.
Connected(P) ==
  \A C \in SUBSET P : C # {} /\ (\A x \in C : Around(x) \cap P \subseteq C) => C = P

\* X has the patches of these cells, single cells included.
SoundPatches(e, X, cells) ==
  /\ UNION X = cells
  /\ \A P \in X : P # {} /\ Connected(P)
  /\ \A P \in X : \A p, q \in P : p # q => e[p] = e[q] /\ e[p] # NaN
  /\ \A P, Q \in X : P \cap Q # {} => P = Q
  /\ \A p \in cells : \A q \in Alike(e, p) \cap cells : \E P \in X : p \in P /\ q \in P

JoinCell(e, before, p) ==
  LET joined == {P \in before : P \cap Alike(e, p) # {}}
  IN  (before \ joined) \cup {{p} \cup UNION joined}

\* A cell more, next to some patches and equal to them, joins these.
LEMMA JoinSound ==
  ASSUME NEW e, NEW X, NEW cells \in SUBSET Inside, NEW p \in Inside, p \notin cells,
         SoundPatches(e, X, cells)
  PROVE  SoundPatches(e, JoinCell(e, X, p), cells \cup {p})
<1> DEFINE joined == {P \in X : P \cap Alike(e, p) # {}}
           whole == {p} \cup UNION joined
           Y == JoinCell(e, X, p)
<1>1. Y = (X \ joined) \cup {whole}
  BY DEF JoinCell
<1>2. UNION Y = cells \cup {p}
  <2>1. UNION X = cells
    BY DEF SoundPatches
  <2>2. UNION Y \subseteq cells \cup {p}
    BY <1>1, <2>1
  <2>3. \A x \in cells : x \in UNION Y
    <3>1. SUFFICES ASSUME NEW x \in cells, NEW P \in X, x \in P PROVE x \in UNION Y
      BY <2>1
    <3>2. CASE P \in joined
      <4>1. x \in whole /\ whole \in Y
        BY <1>1, <3>1, <3>2
      <4>2. QED
        BY <4>1
    <3>3. CASE P \notin joined
      <4>1. P \in Y
        BY <1>1, <3>3
      <4>2. QED
        BY <3>1, <4>1
    <3>4. QED
      BY <3>2, <3>3
  <2>4. p \in UNION Y
    <3>1. p \in whole /\ whole \in Y
      BY <1>1
    <3>2. QED
      BY <3>1
  <2>5. QED
    BY <2>2, <2>3, <2>4
<1>3. \A P \in X : p \notin P /\ P \subseteq Inside
  BY DEF SoundPatches
<1>4. \A P \in joined : P \in X /\ \E x \in P : x \in Around(p) /\ p \in Around(x) /\ e[x] = e[p] /\ e[p] # NaN
  <2>1. p \in Int \X Int
    BY InHalo
  <2>2. QED
    BY <2>1, Neighbors DEF Alike
<1>5. \A P \in joined : \A q \in P : e[q] = e[p] /\ e[p] # NaN
  BY <1>4 DEF SoundPatches
<1>6. Connected(whole)
  <2>1. SUFFICES ASSUME NEW C \in SUBSET whole, C # {}, \A x \in C : Around(x) \cap whole \subseteq C
                 PROVE  whole \subseteq C
    BY DEF Connected
  <2>2. ASSUME NEW P \in joined, NEW y \in C, y \in P PROVE P \subseteq C
    <3>1. Connected(P)
      BY <1>4 DEF SoundPatches
    <3>2. C \cap P \in SUBSET P /\ C \cap P # {} /\ P \subseteq whole
      BY <2>2
    <3>3. \A x \in C \cap P : Around(x) \cap P \subseteq C \cap P
      BY <2>1, <3>2
    <3>4. C \cap P = P
      BY <3>1, <3>2, <3>3 DEF Connected
    <3>5. QED
      BY <3>4
  <2>3. p \in C
    <3>1. PICK y \in C : TRUE
      BY <2>1
    <3>2. CASE y # p
      <4>1. PICK P \in joined : y \in P
        BY <3>2
      <4>2. PICK x \in P : p \in Around(x)
        BY <1>4
      <4>3. x \in C
        BY <2>2, <4>1
      <4>4. QED
        BY <2>1, <4>2, <4>3
    <3>3. QED
      BY <3>2
  <2>4. ASSUME NEW P \in joined PROVE P \subseteq C
    <3>1. PICK x \in P : x \in Around(p)
      BY <1>4
    <3>2. x \in C
      BY <2>1, <2>3, <3>1
    <3>3. QED
      BY <2>2, <3>2
  <2>5. QED
    BY <2>3, <2>4
<1>7. \A x, y \in whole : x # y => e[x] = e[y] /\ e[x] # NaN
  <2>1. \A x \in whole : x = p \/ (e[x] = e[p] /\ e[p] # NaN)
    BY <1>5
  <2>2. QED
    BY <2>1
<1>8. \A P \in X \ joined : P \cap whole = {}
  <2>1. \A P \in X \ joined, Q \in joined : P \cap Q = {}
    BY DEF SoundPatches
  <2>2. QED
    BY <1>3, <2>1
<1>9. ASSUME NEW x \in cells \cup {p}, NEW y \in Alike(e, x) \cap (cells \cup {p})
      PROVE  \E P \in Y : x \in P /\ y \in P
  <2>1. /\ x \in Int \X Int /\ x \in Inside /\ y \in Around(x) /\ x \in Around(y) /\ x # y
        /\ e[x] = e[y] /\ e[x] # NaN
    BY InHalo, Neighbors DEF Alike
  <2>2. CASE x = p
    <3>1. PICK P \in X : y \in P
      BY <2>1, <2>2 DEF SoundPatches
    <3>2. P \in joined
      BY <2>2, <3>1
    <3>3. x \in whole /\ y \in whole /\ whole \in Y
      BY <1>1, <2>2, <3>1, <3>2
    <3>4. QED
      BY <3>3
  <2>3. CASE y = p
    <3>1. PICK P \in X : x \in P
      BY <2>1, <2>3 DEF SoundPatches
    <3>2. x \in Alike(e, p)
      BY <2>1, <2>3 DEF Alike
    <3>3. P \in joined
      BY <3>1, <3>2
    <3>4. x \in whole /\ y \in whole /\ whole \in Y
      BY <1>1, <2>3, <3>1, <3>3
    <3>5. QED
      BY <3>4
  <2>4. CASE x # p /\ y # p
    <3>1. PICK P \in X : x \in P /\ y \in P
      BY <2>4 DEF SoundPatches
    <3>2. CASE P \in joined
      <4>1. x \in whole /\ y \in whole /\ whole \in Y
        BY <1>1, <3>1, <3>2
      <4>2. QED
        BY <4>1
    <3>3. CASE P \notin joined
      <4>1. P \in Y
        BY <1>1, <3>3
      <4>2. QED
        BY <3>1, <4>1
    <3>4. QED
      BY <3>2, <3>3
  <2>5. QED
    BY <2>2, <2>3, <2>4
<1>10. \A P \in Y : P # {} /\ Connected(P)
  <2> HIDE DEF joined, Y
  <2>1. whole # {}
    OBVIOUS
  <2> HIDE DEF whole
  <2>2. QED
    BY <1>1, <1>6, <2>1 DEF SoundPatches
<1>11. \A P \in Y : \A x, y \in P : x # y => e[x] = e[y] /\ e[x] # NaN
  <2> HIDE DEF joined, Y, whole
  <2>1. QED
    BY <1>1, <1>7 DEF SoundPatches
<1>12. \A P, Q \in Y : P \cap Q # {} => P = Q
  <2> HIDE DEF joined, Y, whole
  <2>1. QED
    BY <1>1, <1>8 DEF SoundPatches
<1>13. QED
  BY <1>2, <1>9, <1>10, <1>11, <1>12 DEF SoundPatches

\* Patches are joined one cell at a time, in the order of the scan.
LEMMA PatchesBySteps ==
  ASSUME NEW e
  PROVE  \E f : /\ f[0] = {} /\ Patches(e) = f[Width * Height]
                /\ \A n \in 1 .. Width * Height : f[n] = JoinCell(e, f[n - 1], CellAt(n - 1))
<1> DEFINE N == Width * Height
           Is(g) == g = [n \in 0 .. N |-> IF n = 0 THEN {} ELSE JoinCell(e, g[n - 1], CellAt(n - 1))]
           f == CHOOSE g : Is(g)
<1>1. N \in Nat
  BY CellsFinite
<1>2. \E g : Is(g)
  <2>1. PICK A : A = SUBSET SUBSET Inside
    OBVIOUS
  <2>2. PICK a \in A : a = {}
    BY <2>1
  <2>3. PICK R : R = {x \in (1 .. N) \X A \X A : x[3] = JoinCell(e, x[2], CellAt(x[1] - 1))}
    OBVIOUS
  <2>4. StepsAlways(R, N, A)
    <3>0. SUFFICES ASSUME NEW n \in 1 .. N, NEW X \in A PROVE \E Y \in A : <<n, X, Y>> \in R
      BY DEF StepsAlways
    <3>1. n - 1 \in 0 .. N - 1
      BY <1>1
    <3>2. CellAt(n - 1) \in Inside
      BY <3>1, ScanNumbers
    <3>3. JoinCell(e, X, CellAt(n - 1)) \in A
      BY <2>1, <3>2 DEF JoinCell
    <3>4. QED
      BY <2>3, <3>3
  <2>5. PICK g : IsRun(g, R, N, a, A)
    BY <1>1, <2>4, Recursion
  <2>6. \A n \in 1 .. N : g[n] = JoinCell(e, g[n - 1], CellAt(n - 1))
    BY <2>3, <2>5 DEF IsRun
  <2>7. \A n \in 0 .. N : g[n] = IF n = 0 THEN {} ELSE JoinCell(e, g[n - 1], CellAt(n - 1))
    <3>1. \A n \in 0 .. N : n # 0 => n \in 1 .. N
      BY <1>1
    <3> HIDE DEF N
    <3>2. QED
      BY <2>2, <2>5, <2>6, <3>1 DEF IsRun
  <2>8. Is(g)
    <3> HIDE DEF N
    <3>1. QED
      BY <2>5, <2>7 DEF IsRun
  <2>9. QED
    BY <2>8
<1>3. Is(f)
  <2> HIDE DEF Is
  <2>1. QED
    BY <1>2
<1>4. Patches(e) = f[N]
  BY DEF Patches, JoinCell
<1>5. f[0] = {} /\ \A n \in 1 .. N : f[n] = JoinCell(e, f[n - 1], CellAt(n - 1))
  <2> HIDE DEF f
  <2>1. \A n \in 0 .. N : f[n] = IF n = 0 THEN {} ELSE JoinCell(e, f[n - 1], CellAt(n - 1))
    BY <1>3
  <2>2. QED
    BY <1>1, <2>1
<1>6. QED
  BY <1>4, <1>5

\* The patches are apart, connected, and hold every pair of neighbours of
\* equal elevation.
LEMMA PatchesSound ==
  ASSUME NEW e
  PROVE  SoundPatches(e, Patches(e), Inside)
<1> DEFINE N == Width * Height
           Before(n) == {CellAt(i) : i \in 0 .. n - 1}
<1>1. N \in Nat
  BY CellsFinite
<1>2. PICK f : /\ f[0] = {} /\ Patches(e) = f[N]
               /\ \A n \in 1 .. N : f[n] = JoinCell(e, f[n - 1], CellAt(n - 1))
  BY PatchesBySteps
<1> DEFINE S == {n \in 0 .. N : SoundPatches(e, f[n], Before(n))}
<1>3. 0 \in S
  <2>1. Before(0) = {}
    OBVIOUS
  <2>2. SoundPatches(e, {}, {})
    BY DEF SoundPatches
  <2>3. QED
    BY <1>1, <1>2, <2>1, <2>2
<1>4. ASSUME NEW n \in 0 .. N - 1, n \in S PROVE n + 1 \in S
  <2>1. n + 1 \in 1 .. N /\ (n + 1) - 1 = n /\ n \in 0 .. N - 1
    BY <1>1
  <2>2. f[n + 1] = JoinCell(e, f[n], CellAt(n))
    BY <1>2, <2>1
  <2>3. CellAt(n) \in Inside
    BY <2>1, ScanNumbers
  <2>4. Before(n) \subseteq Inside
    BY <1>1, ScanNumbers
  <2>5. CellAt(n) \notin Before(n)
    <3>1. \A i \in 0 .. n - 1 : i \in 0 .. N - 1 /\ i # n
      BY <1>1
    <3>2. QED
      BY <2>1, <3>1, ScanNumbers
  <2>6. Before(n + 1) = Before(n) \cup {CellAt(n)}
    <3>1. 0 .. (n + 1) - 1 = (0 .. n - 1) \cup {n}
      BY <1>1
    <3>2. QED
      BY <3>1
  <2>7. SoundPatches(e, f[n], Before(n))
    BY <1>4
  <2>8. SoundPatches(e, f[n + 1], Before(n + 1))
    <3> HIDE DEF Before
    <3>1. QED
      BY <2>2, <2>3, <2>4, <2>5, <2>6, <2>7, JoinSound
  <2>9. QED
    BY <2>1, <2>8
<1>5. N \in S
  <2> HIDE DEF S
  <2>1. QED
    BY <1>1, <1>3, <1>4, UpTo
<1>6. Before(N) = Inside
  BY ScanNumbers
<1>7. QED
  BY <1>2, <1>5, <1>6

\* A patch with the ghost cells that go to it; those that are more than one cell.
Body(e, P) == P \cup Ghosts(e, Patches(e), P)
Flats(e) == {P \in Patches(e) : Cardinality(Body(e, P)) > 1}

\* Least () gives the least element of a set of numbers.
LEMMA LeastOf ==
  ASSUME NEW S \in SUBSET Nat, S # {}
  PROVE  Least(S) \in S /\ \A x \in S : Least(S) <= x
<1>1. \E x \in S : \A y \in S : x <= y
  BY LeastNatural
<1>2. QED
  BY <1>1 DEF Least

\* The first cell of a patch, which its tag is made of.
LEMMA FirstOf ==
  ASSUME NEW e, NEW P \in Patches(e)
  PROVE  /\ P \subseteq Inside
         /\ First(P) \in Nat
         /\ \E p \in P : First(P) = ScanIndex(p)
<1>1. P # {} /\ P \subseteq Inside
  BY PatchesSound DEF SoundPatches
<1> DEFINE S == {ScanIndex(p) : p \in P}
<1>2. S \in SUBSET Nat /\ S # {}
  BY <1>1, ScanNumbers
<1>3. Least(S) \in S
  <2> HIDE DEF S
  <2>1. QED
    BY <1>2, LeastOf
<1>4. First(P) = Least(S)
  BY DEF First
<1>5. QED
  BY <1>1, <1>2, <1>3, <1>4

\* A patch is named by its first cell; no two have one name.
LEMMA FirstNames ==
  ASSUME NEW e, NEW P \in Patches(e), NEW Q \in Patches(e), First(P) = First(Q)
  PROVE  P = Q
<1>1. PICK p \in P : First(P) = ScanIndex(p)
  BY FirstOf
<1>2. PICK q \in Q : First(Q) = ScanIndex(q)
  BY FirstOf
<1>3. p \in Inside /\ q \in Inside
  BY FirstOf
<1>4. p = q
  BY <1>1, <1>2, <1>3, ScanNumbers
<1>5. QED
  BY <1>1, <1>2, <1>4, PatchesSound DEF SoundPatches

\* No cell is in two patches, ghost cells that go to one included.
LEMMA OneBody ==
  ASSUME NEW e, NEW p, NEW P \in Patches(e), NEW Q \in Patches(e), p \in Body(e, P), p \in Body(e, Q)
  PROVE  P = Q
<1>1. P \subseteq Inside /\ Q \subseteq Inside
  BY FirstOf
<1>2. CASE p \in Inside
  <2>1. p \in P /\ p \in Q
    BY <1>2 DEF Body, Ghosts
  <2>2. QED
    BY <2>1, PatchesSound DEF SoundPatches
<1>3. CASE p \notin Inside
  <2>1. /\ p \in Ghosts(e, Patches(e), P) /\ p \in Ghosts(e, Patches(e), Q)
    BY <1>1, <1>3 DEF Body
  <2>2. First(P) <= First(Q) /\ First(Q) <= First(P)
    BY <2>1 DEF Ghosts
  <2>3. First(P) \in Nat /\ First(Q) \in Nat
    BY FirstOf
  <2>4. First(P) = First(Q)
    BY <2>2, <2>3
  <2>5. QED
    BY <2>4, FirstNames
<1>4. QED
  BY <1>2, <1>3

\* What flat_tag () writes: cells of one patch share a tag, all others have
\* none.
LEMMA TagMeaning ==
  ASSUME NEW e, NEW p \in Halo
  PROVE  /\ \A P \in Flats(e) : p \in Body(e, P) => FlatTag(e)[p] = First(P)
         /\ (\A P \in Flats(e) : p \notin Body(e, P)) => FlatTag(e)[p] = NoTag
<1> DEFINE mine == {P \in Flats(e) : p \in Body(e, P)}
<1>1. FlatTag(e)[p] = IF mine = {} THEN NoTag ELSE First(CHOOSE P \in mine : TRUE)
  BY DEF FlatTag, Tags, Flats, Body
<1>2. ASSUME NEW P \in Flats(e), p \in Body(e, P) PROVE FlatTag(e)[p] = First(P)
  <2>1. P \in mine
    BY <1>2
  <2>2. (CHOOSE Q \in mine : TRUE) \in mine
    BY <2>1
  <2>3. \A Q \in mine : Q = P
    BY <1>2, OneBody DEF Flats
  <2> HIDE DEF mine
  <2>4. (CHOOSE Q \in mine : TRUE) = P
    BY <2>2, <2>3
  <2>5. QED
    BY <1>1, <2>1, <2>4
<1>3. QED
  BY <1>1, <1>2

\* A patch with its ghost cells, seen from its cells.
LEMMA BodyLevel ==
  ASSUME NEW e, NEW P \in Flats(e)
  PROVE  /\ Body(e, P) \subseteq Halo /\ P # {} /\ P \subseteq Body(e, P)
         /\ \A p, q \in Body(e, P) : e[p] = e[q] /\ e[p] # NaN
         /\ \A p \in Body(e, P) : p \notin Inside => \E x \in P : p \in Around(x) /\ x \in Around(p)
<1>1. /\ P \in Patches(e) /\ P \subseteq Inside /\ P # {} /\ Inside \subseteq Halo
      /\ \A p, q \in P : p # q => e[p] = e[q] /\ e[p] # NaN
  BY FirstOf, CellsFinite, PatchesSound DEF Flats, SoundPatches
<1>2. Body(e, P) \subseteq Halo /\ P \subseteq Body(e, P)
  BY <1>1 DEF Body, Ghosts
<1>3. ASSUME NEW g \in Body(e, P), g \notin P
      PROVE  /\ g \notin Inside
             /\ \E x \in P : g \in Around(x) /\ x \in Around(g) /\ e[x] = e[g] /\ e[g] # NaN
  <2>1. /\ g \in Halo \ Inside /\ P \cap Alike(e, g) # {}
    BY <1>3 DEF Body, Ghosts
  <2>2. PICK x \in P : x \in Alike(e, g)
    BY <2>1
  <2>3. g \in Int \X Int
    BY <2>1, InHalo
  <2>4. QED
    BY <2>1, <2>2, <2>3, Neighbors DEF Alike
<1>4. \A p, q \in Body(e, P) : p # q => e[p] = e[q] /\ e[p] # NaN
  <2>1. \A x, y \in P : e[x] = e[y]
    BY <1>1
  <2>2. \A g \in Body(e, P) : g \notin P => \A x \in P : e[x] = e[g] /\ e[g] # NaN
    BY <1>3, <2>1
  <2>3. QED
    BY <1>1, <2>1, <2>2
<1>5. \A p \in Body(e, P) : \E q \in Body(e, P) : q # p
  <2>1. SUFFICES ASSUME NEW p \in Body(e, P), \A q \in Body(e, P) : q = p PROVE FALSE
    OBVIOUS
  <2>2. Body(e, P) = {p}
    BY <2>1
  <2>3. Cardinality({p}) = 1
    BY FS_Singleton
  <2>4. QED
    BY <2>2, <2>3 DEF Flats
<1>6. QED
  BY <1>1, <1>2, <1>3, <1>4, <1>5

\* What the tags tell: a patch has one elevation, which is one; cells of the
\* domain next to each other and equal are of one patch; a patch is connected.
LEMMA FlatTags ==
  ASSUME NEW e
  PROVE  /\ FlatTag(e) \in [Halo -> Nat \cup {NoTag}]
         /\ \A p, q \in Halo : FlatTag(e)[p] = FlatTag(e)[q] /\ FlatTag(e)[p] # NoTag
                                 => e[p] = e[q] /\ e[p] # NaN
         /\ \A p \in Inside : \A q \in Alike(e, p) :
                                 FlatTag(e)[p] = FlatTag(e)[q] /\ FlatTag(e)[p] # NoTag
         /\ \A t \in Nat : Connected({p \in Halo : FlatTag(e)[p] = t})
<1> DEFINE tags == FlatTag(e)
<1>0. NoTag = -1 /\ NoTag \notin Nat
  BY DEF NoTag
<1>1. \A P \in Flats(e) : P \in Patches(e) /\ First(P) \in Nat
  BY FirstOf DEF Flats
<1>2. ASSUME NEW p \in Halo, tags[p] # NoTag
      PROVE  \E P \in Flats(e) : p \in Body(e, P) /\ tags[p] = First(P) /\ tags[p] \in Nat
  BY <1>1, <1>2, TagMeaning
<1>3. tags \in [Halo -> Nat \cup {NoTag}]
  <2>1. tags = [p \in Halo |-> tags[p]]
    BY DEF FlatTag, Tags
  <2>2. \A p \in Halo : tags[p] \in Nat \cup {NoTag}
    BY <1>2
  <2> HIDE DEF tags
  <2>3. QED
    BY <2>1, <2>2
<1>4. ASSUME NEW p \in Halo, NEW q \in Halo, tags[p] = tags[q], tags[p] # NoTag
      PROVE  e[p] = e[q] /\ e[p] # NaN
  <2>1. PICK P \in Flats(e) : p \in Body(e, P) /\ tags[p] = First(P)
    BY <1>2, <1>4
  <2>2. PICK Q \in Flats(e) : q \in Body(e, Q) /\ tags[q] = First(Q)
    BY <1>2, <1>4
  <2>3. P = Q
    BY <1>1, <1>4, <2>1, <2>2, FirstNames
  <2>4. QED
    BY <2>1, <2>2, <2>3, BodyLevel
<1>5. ASSUME NEW p \in Inside, NEW q \in Alike(e, p)
      PROVE  tags[p] = tags[q] /\ tags[p] # NoTag
  <2>1. q \in Inside /\ p \in Int \X Int /\ q # p /\ p \in Halo /\ q \in Halo
    BY InHalo, Neighbors, CellsFinite DEF Alike
  <2>2. PICK P \in Patches(e) : p \in P /\ q \in P
    BY <2>1, PatchesSound DEF SoundPatches
  <2>3. P \in Flats(e)
    <3>1. Cardinality(Body(e, P)) > 1
      <4>1. Body(e, P) \subseteq Halo /\ p \in Body(e, P) /\ q \in Body(e, P)
        BY <2>2, FirstOf, CellsFinite DEF Body, Ghosts
      <4>2. IsFiniteSet(Body(e, P)) /\ Cardinality(Body(e, P)) \in Nat
        BY <4>1, CellsFinite, FS_Subset, FS_CardinalityType
      <4>3. /\ Cardinality(Body(e, P)) # 0
        BY <4>1, <4>2, FS_EmptySet
      <4>4. /\ IsFiniteSet(Body(e, P) \ {p})
            /\ Cardinality(Body(e, P) \ {p}) = Cardinality(Body(e, P)) - 1
        BY <4>1, <4>2, FS_RemoveElement
      <4>5. Cardinality(Body(e, P) \ {p}) # 0
        BY <2>1, <4>1, <4>4, FS_EmptySet
      <4>6. QED
        BY <4>2, <4>3, <4>4, <4>5
    <3>2. QED
      BY <3>1 DEF Flats
  <2>4. p \in Body(e, P) /\ q \in Body(e, P)
    BY <2>2 DEF Body
  <2>5. tags[p] = First(P) /\ tags[q] = First(P)
    BY <2>1, <2>3, <2>4, TagMeaning
  <2>6. QED
    BY <1>0, <1>1, <2>3, <2>5
<1>6. ASSUME NEW t \in Nat PROVE Connected({p \in Halo : tags[p] = t})
  <2> DEFINE B == {p \in Halo : tags[p] = t}
  <2>1. SUFFICES ASSUME NEW C \in SUBSET B, C # {}, \A x \in C : Around(x) \cap B \subseteq C
                 PROVE  B \subseteq C
    BY DEF Connected
  <2>2. PICK c \in C : c \in Halo /\ tags[c] = t
    BY <2>1
  <2>3. PICK P \in Flats(e) : c \in Body(e, P) /\ t = First(P)
    BY <1>0, <1>2, <2>2
  <2>4. B = Body(e, P)
    <3>1. \A x \in Body(e, P) : x \in Halo /\ tags[x] = t
      BY <2>3, BodyLevel, TagMeaning
    <3>2. ASSUME NEW x \in B PROVE x \in Body(e, P)
      <4>1. PICK Q \in Flats(e) : x \in Body(e, Q) /\ t = First(Q)
        BY <1>0, <1>2
      <4>2. Q = P
        BY <1>1, <2>3, <4>1, FirstNames
      <4>3. QED
        BY <4>1, <4>2
    <3>3. QED
      BY <3>1, <3>2
  <2> HIDE DEF B
  <2>5. Connected(P) /\ P \subseteq B /\ P \subseteq Inside
    BY <1>1, <2>4, BodyLevel, FirstOf, PatchesSound DEF SoundPatches
  <2>6. C \cap P # {}
    <3>1. CASE c \in P
      BY <3>1
    <3>2. CASE c \notin P
      <4>1. c \notin Inside
        BY <2>3, <3>2, <2>5 DEF Body, Ghosts
      <4>2. PICK x \in P : x \in Around(c)
        BY <2>3, <4>1, BodyLevel
      <4>3. QED
        BY <2>1, <2>2, <2>5, <4>2
    <3>3. QED
      BY <3>1, <3>2
  <2>7. C \cap P = P
    <3>1. C \cap P \in SUBSET P
      OBVIOUS
    <3>2. \A x \in C \cap P : Around(x) \cap P \subseteq C \cap P
      BY <2>1, <2>5
    <3>3. QED
      BY <2>5, <2>6, <3>1, <3>2 DEF Connected
  <2>8. ASSUME NEW g \in B PROVE g \in C
    <3>1. CASE g \in Inside
      BY <2>4, <2>7, <3>1 DEF Body, Ghosts
    <3>2. CASE g \notin Inside
      <4>1. PICK x \in P : g \in Around(x)
        BY <2>4, <3>2, BodyLevel
      <4>2. QED
        BY <2>1, <2>7, <4>1
    <3>3. QED
      BY <3>1, <3>2
  <2>9. QED
    BY <2>8
<1>7. QED
  BY <1>3, <1>4, <1>5, <1>6

-----------------------------------------------------------------------------
(* The distances of gradients_flat (): from seeds, by steps over one tag.   *)

Seen(X) == {s[1] : s \in X}

NextSteps(tags, X, k) ==
  LET seen == {s[1] : s \in X}
      last == {s[1] : s \in {s \in X : s[2] = k - 1}}
  IN  X \cup {<<p, k>> : p \in {q \in Halo \ seen : \E r \in Around(q) \cap last : tags[r] = tags[q]}}

\* X has the cells found in up to k steps, with their numbers.
SoundSteps(seeds, tags, X, k) ==
  /\ X \subseteq Halo \X (1 .. k)
  /\ \A s, t \in X : s[1] = t[1] => s = t
  /\ \A p \in Halo : <<p, 1>> \in X <=> p \in seeds
  /\ \A s \in X : s[2] > 1 =>
       \E r \in Around(s[1]) \cap Halo : tags[r] = tags[s[1]] /\ <<r, s[2] - 1>> \in X
  /\ \A s \in X : s[2] < k =>
       \A q \in Halo : s[1] \in Around(q) /\ tags[s[1]] = tags[q]
                         => \E j \in 1 .. s[2] + 1 : <<q, j>> \in X

\* One round of gradients_flat () keeps the found steps sound.
LEMMA StepSound ==
  ASSUME NEW seeds, NEW tags, NEW X, NEW k \in Nat \ {0}, SoundSteps(seeds, tags, X, k)
  PROVE  SoundSteps(seeds, tags, NextSteps(tags, X, k + 1), k + 1)
<1> DEFINE new == {q \in Halo \ Seen(X) : \E r \in Around(q) : <<r, k>> \in X /\ tags[r] = tags[q]}
           Y == NextSteps(tags, X, k + 1)
<1>1. /\ X \subseteq Halo \X (1 .. k)
      /\ \A s, t \in X : s[1] = t[1] => s = t
      /\ \A p \in Halo : <<p, 1>> \in X <=> p \in seeds
      /\ \A s \in X : s[2] > 1 =>
           \E r \in Around(s[1]) \cap Halo : tags[r] = tags[s[1]] /\ <<r, s[2] - 1>> \in X
      /\ \A s \in X : s[2] < k =>
           \A q \in Halo : s[1] \in Around(q) /\ tags[s[1]] = tags[q]
                             => \E j \in 1 .. s[2] + 1 : <<q, j>> \in X
  BY DEF SoundSteps
<1>2. \A s \in X : s = <<s[1], s[2]>> /\ s[1] \in Halo /\ s[2] \in 1 .. k
  BY <1>1
<1>3. Y = X \cup {<<p, k + 1>> : p \in new}
  <2>1. {s[1] : s \in {s \in X : s[2] = (k + 1) - 1}} = {r \in Halo : <<r, k>> \in X}
    <3>1. (k + 1) - 1 = k
      OBVIOUS
    <3>2. \A s \in X : s[2] = k => <<s[1], k>> \in X /\ s[1] \in Halo
      BY <1>2
    <3>3. \A r \in Halo : <<r, k>> \in X => <<r, k>>[1] = r /\ <<r, k>>[2] = k
      OBVIOUS
    <3>4. QED
      BY <3>1, <3>2, <3>3
  <2>2. \A r : <<r, k>> \in X => r \in Halo
    BY <1>1
  <2>3. {q \in Halo \ Seen(X) : \E r \in Around(q) \cap {r \in Halo : <<r, k>> \in X} : tags[r] = tags[q]} = new
    BY <2>2
  <2>4. QED
    BY <2>1, <2>3 DEF NextSteps, Seen
<1>4. \A s : s \in Y <=> s \in X \/ \E p \in new : s = <<p, k + 1>>
  BY <1>3
<1>5. \A p \in new : p \in Halo /\ \A s \in X : s[1] # p
  BY DEF Seen
<1>6. \A q \in Halo : q \notin new => \/ \E j \in 1 .. k : <<q, j>> \in X
                                    \/ \A r \in Around(q) : <<r, k>> \in X => tags[r] # tags[q]
  <2>1. \A q \in Seen(X) : \E j \in 1 .. k : <<q, j>> \in X
    <3>1. SUFFICES ASSUME NEW s \in X PROVE \E j \in 1 .. k : <<s[1], j>> \in X
      BY DEF Seen
    <3>2. QED
      BY <1>2
  <2>2. QED
    BY <2>1
<1> HIDE DEF Y, new
<1>7. Y \subseteq Halo \X (1 .. k + 1)
  <2>1. SUFFICES ASSUME NEW s \in Y PROVE s \in Halo \X (1 .. k + 1)
    OBVIOUS
  <2>2. CASE s \in X
    BY <1>2, <2>2
  <2>3. CASE \E p \in new : s = <<p, k + 1>>
    BY <1>5, <2>3
  <2>4. QED
    BY <1>4, <2>2, <2>3
<1>8. ASSUME NEW s \in Y, NEW t \in Y, s[1] = t[1] PROVE s = t
  <2>1. CASE s \in X /\ t \in X
    BY <1>1, <1>8, <2>1
  <2>2. CASE s \notin X /\ t \notin X
    BY <1>4, <1>8, <2>2
  <2>3. CASE s \in X /\ t \notin X
    BY <1>4, <1>5, <1>8, <2>3
  <2>4. CASE s \notin X /\ t \in X
    BY <1>4, <1>5, <1>8, <2>4
  <2>5. QED
    BY <2>1, <2>2, <2>3, <2>4
<1>9. \A p \in Halo : <<p, 1>> \in Y <=> p \in seeds
  <2>1. \A p \in Halo : <<p, 1>> \in Y <=> <<p, 1>> \in X
    <3>1. \A p, q : <<p, 1>> # <<q, k + 1>>
      OBVIOUS
    <3>2. QED
      BY <1>4, <3>1
  <2>2. QED
    BY <1>1, <2>1
<1>10. ASSUME NEW s \in Y, s[2] > 1
       PROVE  \E r \in Around(s[1]) \cap Halo : tags[r] = tags[s[1]] /\ <<r, s[2] - 1>> \in Y
  <2>1. CASE s \in X
    BY <1>1, <1>4, <1>10, <2>1
  <2>2. CASE s \notin X
    <3>1. PICK p \in new : s = <<p, k + 1>>
      BY <1>4, <2>2
    <3>2. PICK r \in Around(p) : <<r, k>> \in X /\ tags[r] = tags[p]
      BY DEF new
    <3>3. r \in Halo /\ s[1] = p /\ s[2] - 1 = k
      BY <1>1, <3>1, <3>2
    <3>4. QED
      BY <1>4, <3>2, <3>3
  <2>3. QED
    BY <2>1, <2>2
<1>11. ASSUME NEW s \in Y, s[2] < k + 1, NEW q \in Halo, s[1] \in Around(q), tags[s[1]] = tags[q]
       PROVE  \E j \in 1 .. s[2] + 1 : <<q, j>> \in Y
  <2>1. s \in X
    <3>1. \A p : <<p, k + 1>>[2] = k + 1
      OBVIOUS
    <3>2. QED
      BY <1>4, <1>11, <3>1
  <2>2. s = <<s[1], s[2]>> /\ s[2] \in 1 .. k
    BY <1>2, <2>1
  <2>3. CASE s[2] < k
    <3>1. PICK j \in 1 .. s[2] + 1 : <<q, j>> \in X
      BY <1>1, <1>11, <2>1, <2>3
    <3>2. QED
      BY <1>4, <3>1
  <2>4. CASE s[2] = k
    <3>1. CASE q \in new
      <4>1. <<q, k + 1>> \in Y /\ k + 1 \in 1 .. s[2] + 1
        BY <1>4, <2>4, <3>1
      <4>2. QED
        BY <4>1
    <3>2. CASE q \notin new
      <4>1. <<s[1], k>> \in X
        BY <2>1, <2>2, <2>4
      <4>2. PICK j \in 1 .. k : <<q, j>> \in X
        BY <1>6, <1>11, <3>2, <4>1
      <4>3. j \in 1 .. s[2] + 1
        BY <2>4
      <4>4. QED
        BY <1>4, <4>2, <4>3
    <3>3. QED
      BY <3>1, <3>2
  <2>5. QED
    BY <2>2, <2>3, <2>4
<1>12. QED
  <2>1. SoundSteps(seeds, tags, Y, k + 1)
    BY <1>7, <1>8, <1>9, <1>10, <1>11 DEF SoundSteps
  <2>2. QED
    BY <2>1 DEF Y

StepsByFound(seeds, tags, X) ==
  [p \in Halo |-> IF \E s \in X : s[1] = p THEN (CHOOSE s \in X : s[1] = p)[2] ELSE 0]

\* The search goes round by round.
LEMMA StepsBySteps ==
  ASSUME NEW seeds \in SUBSET Halo, NEW tags
  PROVE  \E f : /\ f[1] = {<<p, 1>> : p \in seeds}
                /\ \A k \in 2 .. Cardinality(Halo) : f[k] = NextSteps(tags, f[k - 1], k)
                /\ StepsFrom(seeds, tags) = StepsByFound(seeds, tags, f[Cardinality(Halo)])
<1> DEFINE n == Cardinality(Halo)
           First1 == {<<p, 1>> : p \in seeds}
           Is(g) == g = [k \in 1 .. n |-> IF k = 1 THEN First1 ELSE NextSteps(tags, g[k - 1], k)]
           f == CHOOSE g : Is(g)
<1>1. n \in Nat \ {0}
  BY CellsFinite
<1>2. \E g : Is(g)
  <2>1. PICK A : A = SUBSET (Halo \X Nat)
    OBVIOUS
  <2>2. PICK a \in A : a = First1
    <3>1. \A p \in seeds : <<p, 1>> \in Halo \X Nat
      OBVIOUS
    <3>2. QED
      BY <2>1, <3>1
  <2>3. PICK R : R = {x \in (1 .. n - 1) \X A \X A : x[3] = NextSteps(tags, x[2], x[1] + 1)}
    OBVIOUS
  <2>4. PICK m \in Nat : m = n - 1
    BY <1>1
  <2>5. StepsAlways(R, m, A)
    <3>1. SUFFICES ASSUME NEW k \in 1 .. m, NEW X \in A PROVE \E Y \in A : <<k, X, Y>> \in R
      BY DEF StepsAlways
    <3>2. NextSteps(tags, X, k + 1) \in A
      BY <2>1 DEF NextSteps
    <3>3. QED
      BY <2>3, <2>4, <3>2
  <2>6. PICK g : IsRun(g, R, m, a, A)
    BY <2>5, Recursion
  <2> DEFINE s == [k \in 1 .. n |-> g[k - 1]]
  <2>7. ASSUME NEW k \in 1 .. n PROVE s[k] = IF k = 1 THEN First1 ELSE NextSteps(tags, s[k - 1], k)
    <3>1. s[k] = g[k - 1]
      OBVIOUS
    <3>2. CASE k = 1
      BY <2>2, <2>6, <3>1, <3>2 DEF IsRun
    <3>3. CASE k # 1
      <4>1. k - 1 \in 1 .. m /\ (k - 1) + 1 = k /\ s[k - 1] = g[(k - 1) - 1]
        BY <1>1, <2>4, <3>3
      <4>2. <<k - 1, g[(k - 1) - 1], g[k - 1]>> \in R
        BY <2>6, <4>1 DEF IsRun
      <4>3. g[k - 1] = NextSteps(tags, g[(k - 1) - 1], (k - 1) + 1)
        BY <2>3, <4>2
      <4>4. QED
        BY <3>1, <3>3, <4>1, <4>3
    <3>4. QED
      BY <3>2, <3>3
  <2>8. s = [k \in 1 .. n |-> s[k]]
    OBVIOUS
  <2>9. Is(s)
    <3> HIDE DEF s, n, First1
    <3>1. QED
      BY <2>7, <2>8
  <2>10. QED
    BY <2>9
<1>3. Is(f)
  <2> HIDE DEF Is
  <2>1. QED
    BY <1>2
<1>4. StepsFrom(seeds, tags) = StepsByFound(seeds, tags, f[n])
  BY DEF StepsFrom, StepsByFound, NextSteps
<1>5. \A k \in 1 .. n : f[k] = IF k = 1 THEN First1 ELSE NextSteps(tags, f[k - 1], k)
  <2> HIDE DEF f
  <2>1. QED
    BY <1>3
<1>6. f[1] = First1 /\ \A k \in 2 .. n : f[k] = NextSteps(tags, f[k - 1], k)
  <2> HIDE DEF f, First1
  <2>1. QED
    BY <1>1, <1>5
<1>7. QED
  BY <1>4, <1>6

\* The search as a whole is sound.
LEMMA StepsSound ==
  ASSUME NEW seeds \in SUBSET Halo, NEW tags
  PROVE  \E X : /\ SoundSteps(seeds, tags, X, Cardinality(Halo))
                /\ StepsFrom(seeds, tags) = StepsByFound(seeds, tags, X)
<1>1. PICK n \in Nat \ {0} : n = Cardinality(Halo)
  BY CellsFinite
<1>2. PICK f : /\ f[1] = {<<p, 1>> : p \in seeds}
               /\ \A k \in 2 .. n : f[k] = NextSteps(tags, f[k - 1], k)
               /\ StepsFrom(seeds, tags) = StepsByFound(seeds, tags, f[n])
  BY <1>1, StepsBySteps
<1> DEFINE S == {k \in 0 .. n - 1 : SoundSteps(seeds, tags, f[k + 1], k + 1)}
<1>3. 0 \in S
  <2>1. SoundSteps(seeds, tags, {<<p, 1>> : p \in seeds}, 1)
    BY DEF SoundSteps
  <2>2. QED
    BY <1>2, <2>1
<1>4. ASSUME NEW k \in 0 .. (n - 1) - 1, k \in S PROVE k + 1 \in S
  <2>1. k + 1 \in Nat \ {0} /\ k + 2 \in 2 .. n /\ (k + 2) - 1 = k + 1 /\ (k + 1) + 1 = k + 2
    OBVIOUS
  <2>2. f[k + 2] = NextSteps(tags, f[k + 1], k + 2)
    BY <1>2, <2>1
  <2>3. SoundSteps(seeds, tags, f[k + 1], k + 1)
    BY <1>4
  <2>4. SoundSteps(seeds, tags, NextSteps(tags, f[k + 1], (k + 1) + 1), (k + 1) + 1)
    BY <2>1, <2>3, StepSound
  <2>5. QED
    BY <2>1, <2>2, <2>4
<1>5. n - 1 \in S
  <2>1. PICK m \in Nat : m = n - 1
    OBVIOUS
  <2> HIDE DEF S
  <2>2. \A k \in 0 .. m : k \in S
    BY <1>3, <1>4, <2>1, UpTo
  <2>3. QED
    BY <2>1, <2>2
<1>6. QED
  BY <1>1, <1>2, <1>5

\* A sound set of steps, seen as distances.
LEMMA FoundSteps ==
  ASSUME NEW seeds, NEW tags, NEW X, NEW n \in Nat \ {0}, SoundSteps(seeds, tags, X, n), NEW p \in Halo
  PROVE  /\ StepsByFound(seeds, tags, X)[p] \in 0 .. n
         /\ \A k \in 1 .. n : StepsByFound(seeds, tags, X)[p] = k <=> <<p, k>> \in X
<1> DEFINE v == StepsByFound(seeds, tags, X)[p]
           mine == {s \in X : s[1] = p}
<1>1. v = IF mine = {} THEN 0 ELSE (CHOOSE s \in X : s[1] = p)[2]
  BY DEF StepsByFound
<1>2. /\ X \subseteq Halo \X (1 .. n)
      /\ \A s, t \in X : s[1] = t[1] => s = t
  BY DEF SoundSteps
<1>3. CASE mine = {}
  <2>1. \A k : <<p, k>> \notin X
    <3>1. \A k : <<p, k>>[1] = p
      OBVIOUS
    <3>2. QED
      BY <1>3, <3>1
  <2>2. v = 0
    BY <1>1, <1>3
  <2>3. QED
    BY <2>1, <2>2
<1>4. CASE mine # {}
  <2>1. PICK s \in X : s[1] = p /\ s = (CHOOSE t \in X : t[1] = p)
    BY <1>4
  <2>2. v = s[2]
    BY <1>1, <1>4, <2>1
  <2>3. s = <<p, s[2]>> /\ s[2] \in 1 .. n
    BY <1>2, <2>1
  <2>4. \A k : <<p, k>> \in X => <<p, k>> = s
    <3>1. \A k : <<p, k>>[1] = p
      OBVIOUS
    <3>2. QED
      BY <1>2, <2>1, <3>1
  <2>5. \A k : <<p, k>> = s <=> k = s[2]
    BY <2>3
  <2>6. QED
    BY <2>1, <2>2, <2>3, <2>4, <2>5
<1>5. QED
  BY <1>3, <1>4

\* As many steps as there are cells reach them all.
LEMMA AllReached ==
  ASSUME NEW seeds, NEW tags, NEW X, NEW n \in Nat \ {0}, n = Cardinality(Halo),
         SoundSteps(seeds, tags, X, n), NEW r, <<r, n>> \in X
  PROVE  \A p \in Halo : \E k \in 1 .. n : <<p, k>> \in X
<1>1. /\ X \subseteq Halo \X (1 .. n)
      /\ \A s, t \in X : s[1] = t[1] => s = t
      /\ \A s \in X : s[2] > 1 => \E q \in Halo : <<q, s[2] - 1>> \in X
  BY DEF SoundSteps
<1> DEFINE Some(k) == \E q \in Halo : <<q, k>> \in X
           S == {k \in 0 .. n - 1 : Some(n - k)}
           seen == {p \in Halo : \E k \in 1 .. n : <<p, k>> \in X}
           f == [p \in seen |-> CHOOSE k \in 1 .. n : <<p, k>> \in X]
<1>2. 0 \in S
  BY <1>1
<1>3. ASSUME NEW k \in 0 .. (n - 1) - 1, k \in S PROVE k + 1 \in S
  <2>1. PICK q \in Halo : <<q, n - k>> \in X
    BY <1>3
  <2>2. <<q, n - k>>[2] = n - k /\ n - k > 1 /\ n - (k + 1) = (n - k) - 1
    OBVIOUS
  <2>3. \E x \in Halo : <<x, (n - k) - 1>> \in X
    BY <1>1, <2>1, <2>2
  <2>4. QED
    BY <2>2, <2>3
<1>4. \A k \in 0 .. n - 1 : k \in S
  <2>1. PICK m \in Nat : m = n - 1
    OBVIOUS
  <2> HIDE DEF S
  <2>2. \A k \in 0 .. m : k \in S
    BY <1>2, <1>3, <2>1, UpTo
  <2>3. QED
    BY <2>1, <2>2
<1>5. \A k \in 1 .. n : Some(k)
  <2>1. \A k \in 1 .. n : n - k \in 0 .. n - 1 /\ n - (n - k) = k
    OBVIOUS
  <2>2. \A k \in 1 .. n : n - k \in S
    BY <1>4, <2>1
  <2> HIDE DEF Some
  <2>3. \A k \in 1 .. n : Some(n - (n - k))
    BY <2>2
  <2>4. QED
    BY <2>1, <2>3
<1>6. \A p \in seen : f[p] \in 1 .. n /\ <<p, f[p]>> \in X
  OBVIOUS
<1>7. f \in Surjection(seen, 1 .. n)
  <2>1. f \in [seen -> 1 .. n]
    BY <1>6
  <2>2. ASSUME NEW k \in 1 .. n PROVE \E p \in seen : f[p] = k
    <3>1. PICK q \in Halo : <<q, k>> \in X
      BY <1>5
    <3>2. q \in seen
      BY <3>1
    <3>3. <<q, f[q]>> \in X
      BY <1>6, <3>2
    <3>4. <<q, f[q]>>[1] = <<q, k>>[1]
      OBVIOUS
    <3>5. <<q, f[q]>> = <<q, k>>
      BY <1>1, <3>1, <3>3, <3>4
    <3>6. QED
      BY <3>2, <3>5
  <2>3. QED
    BY <2>1, <2>2 DEF Surjection
<1>8. IsFiniteSet(Halo) /\ seen \in SUBSET Halo
  BY CellsFinite
<1>9. /\ IsFiniteSet(seen) /\ Cardinality(seen) <= n
      /\ n = Cardinality(seen) => Halo = seen
  <2> HIDE DEF seen
  <2>1. QED
    BY <1>8, FS_Subset
<1>10. Cardinality(1 .. n) = n
  <2>1. PICK o \in Int, k \in Int : o = 1 /\ k = n
    OBVIOUS
  <2>2. Cardinality(o .. k) = IF o > k THEN 0 ELSE k - o + 1
    BY FS_Interval
  <2>3. QED
    BY <2>1, <2>2
<1>11. Cardinality(1 .. n) <= Cardinality(seen)
  <2>1. PICK T : T = 1 .. n
    OBVIOUS
  <2> HIDE DEF seen, f
  <2>2. f \in Surjection(seen, T)
    BY <1>7, <2>1
  <2>3. Cardinality(T) <= Cardinality(seen)
    BY <1>9, <2>2, FS_Surjection
  <2>4. QED
    BY <2>1, <2>3
<1>12. Cardinality(seen) \in Nat
  <2> HIDE DEF seen
  <2>1. QED
    BY <1>9, FS_CardinalityType
<1>13. Halo = seen
  <2> HIDE DEF seen
  <2>1. QED
    BY <1>9, <1>10, <1>11, <1>12
<1>14. QED
  BY <1>13

\* The numbers of StepsFrom () are distances from the seeds, over cells of one tag.
LEMMA Distances ==
  ASSUME NEW seeds \in SUBSET Halo, NEW tags, NEW g, g = StepsFrom(seeds, tags)
  PROVE  /\ g \in [Halo -> 0 .. Cardinality(Halo)]
         /\ \A p \in Halo : g[p] = 1 <=> p \in seeds
         /\ \A p \in Halo : g[p] > 1 => \E r \in Around(p) \cap Halo : tags[r] = tags[p] /\ g[r] = g[p] - 1
         /\ \A p \in Halo : \A r \in Around(p) \cap Halo :
              g[r] >= 1 /\ tags[r] = tags[p] => g[p] >= 1 /\ g[p] <= g[r] + 1
<1>1. PICK n \in Nat \ {0} : n = Cardinality(Halo)
  BY CellsFinite
<1>2. PICK X : SoundSteps(seeds, tags, X, n) /\ g = StepsByFound(seeds, tags, X)
  BY <1>1, StepsSound
<1>3. \A p \in Halo : /\ g[p] \in 0 .. n
                      /\ \A k \in 1 .. n : g[p] = k <=> <<p, k>> \in X
  BY <1>2, FoundSteps
<1>4. g \in [Halo -> 0 .. n]
  <2>1. g = [p \in Halo |-> g[p]]
    BY <1>2 DEF StepsByFound
  <2>2. QED
    BY <1>3, <2>1
<1>5. \A p \in Halo : g[p] = 1 <=> p \in seeds
  <2>1. \A p \in Halo : <<p, 1>> \in X <=> p \in seeds
    BY <1>2 DEF SoundSteps
  <2>2. 1 \in 1 .. n
    OBVIOUS
  <2>3. ASSUME NEW p \in Halo PROVE g[p] = 1 <=> <<p, 1>> \in X
    BY <1>3, <2>2
  <2>4. QED
    BY <2>1, <2>3
<1>6. ASSUME NEW p \in Halo, g[p] > 1
      PROVE  \E r \in Around(p) \cap Halo : tags[r] = tags[p] /\ g[r] = g[p] - 1
  <2>1. PICK k \in 1 .. n : k = g[p]
    BY <1>3, <1>6
  <2>2. <<p, k>> \in X /\ k > 1 /\ <<p, k>>[1] = p /\ <<p, k>>[2] = k
    BY <1>3, <1>6, <2>1
  <2>3. PICK r \in Around(p) \cap Halo : tags[r] = tags[p] /\ <<r, k - 1>> \in X
    BY <1>2, <2>2 DEF SoundSteps
  <2>4. g[r] = k - 1
    BY <1>3, <2>2, <2>3
  <2>5. QED
    BY <2>1, <2>3, <2>4
<1>7. ASSUME NEW p \in Halo, NEW r \in Around(p) \cap Halo, g[r] >= 1, tags[r] = tags[p]
      PROVE  g[p] >= 1 /\ g[p] <= g[r] + 1
  <2>1. PICK k \in 1 .. n : k = g[r] /\ <<r, k>> \in X
    BY <1>3, <1>7
  <2>2. \E j \in 1 .. n : j <= k + 1 /\ <<p, j>> \in X
    <3>1. CASE k < n
      <4>1. <<r, k>>[1] = r /\ <<r, k>>[2] = k
        OBVIOUS
      <4>2. PICK j \in 1 .. k + 1 : <<p, j>> \in X
        BY <1>2, <1>7, <2>1, <3>1, <4>1 DEF SoundSteps
      <4>3. QED
        BY <3>1, <4>2
    <3>2. CASE k = n
      <4>1. PICK j \in 1 .. n : <<p, j>> \in X
        BY <1>1, <1>2, <2>1, <3>2, AllReached
      <4>2. QED
        BY <3>2, <4>1
    <3>3. QED
      BY <3>1, <3>2
  <2>3. QED
    BY <1>3, <2>1, <2>2
<1>8. QED
  BY <1>1, <1>4, <1>5, <1>6, <1>7

\* What has a number is of the tag of a seed, and all that is connected with
\* a seed has one.
LEMMA ReachedFromSeeds ==
  ASSUME NEW seeds \in SUBSET Halo, NEW tags, NEW g, g = StepsFrom(seeds, tags),
         NEW p \in Halo, g[p] # 0
  PROVE  \E s \in seeds : tags[s] = tags[p]
<1>1. PICK n \in Nat : n = Cardinality(Halo)
  BY CellsFinite
<1> DEFINE S == {k \in 0 .. n : \A q \in Halo : g[q] = k /\ k # 0 => \E s \in seeds : tags[s] = tags[q]}
<1>2. /\ g \in [Halo -> 0 .. n]
      /\ \A q \in Halo : g[q] = 1 <=> q \in seeds
      /\ \A q \in Halo : g[q] > 1 => \E r \in Around(q) \cap Halo : tags[r] = tags[q] /\ g[r] = g[q] - 1
  BY <1>1, Distances
<1>3. 0 \in S
  OBVIOUS
<1>4. ASSUME NEW k \in 0 .. n - 1, k \in S PROVE k + 1 \in S
  <2>1. SUFFICES ASSUME NEW q \in Halo, g[q] = k + 1 PROVE \E s \in seeds : tags[s] = tags[q]
    OBVIOUS
  <2>2. CASE k = 0
    BY <1>2, <2>1, <2>2
  <2>3. CASE k # 0
    <3>1. g[q] > 1
      BY <2>1, <2>3
    <3>2. PICK r \in Halo : tags[r] = tags[q] /\ g[r] = g[q] - 1
      BY <1>2, <3>1
    <3>3. g[r] = k
      BY <2>1, <3>2
    <3>4. QED
      BY <1>4, <2>3, <3>2, <3>3
  <2>4. QED
    BY <2>2, <2>3
<1>5. g[p] \in S
  <2>1. \A k \in 0 .. n : k \in S
    <3> HIDE DEF S
    <3>1. QED
      BY <1>3, <1>4, UpTo
  <2>2. g[p] \in 0 .. n
    BY <1>2
  <2>3. QED
    BY <2>1, <2>2
<1>6. QED
  BY <1>5

\* A patch is reached whole from one seed in it.
LEMMA ConnectedReached ==
  ASSUME NEW seeds \in SUBSET Halo, NEW tags, NEW g, g = StepsFrom(seeds, tags),
         NEW s \in seeds, Connected({p \in Halo : tags[p] = tags[s]}),
         NEW p \in Halo, tags[p] = tags[s]
  PROVE  g[p] >= 1
<1> DEFINE B == {q \in Halo : tags[q] = tags[s]}
           C == {q \in B : g[q] >= 1}
<1>1. /\ \A q \in Halo : g[q] = 1 <=> q \in seeds
      /\ \A q \in Halo : \A r \in Around(q) \cap Halo : g[r] >= 1 /\ tags[r] = tags[q] => g[q] >= 1
  BY Distances
<1>2. s \in C
  <2>1. g[s] = 1
    BY <1>1
  <2>2. QED
    BY <2>1
<1>3. \A x \in C : Around(x) \cap B \subseteq C
  <2>1. SUFFICES ASSUME NEW x \in C, NEW y \in Around(x) \cap B PROVE g[y] >= 1
    OBVIOUS
  <2>2. x \in Around(y) /\ x \in Halo /\ y \in Halo
    BY InHalo, Neighbors
  <2>3. QED
    BY <1>1, <2>1, <2>2
<1>4. C = B
  <2>1. C \in SUBSET B /\ C # {} /\ Connected(B)
    BY <1>2
  <2> HIDE DEF B, C
  <2>2. QED
    BY <1>3, <2>1 DEF Connected
<1>5. QED
  BY <1>4

-----------------------------------------------------------------------------
(* The drains lead down: by elevation, and on a flat by a sum of distances. *)

\* A bounded set of numbers has a greatest one.
LEMMA GreatestUpTo ==
  ASSUME NEW n \in Nat, NEW S \in SUBSET (0 .. n), S # {}
  PROVE  \E m \in S : \A k \in S : k <= m
<1> DEFINE T == {n - k : k \in S}
<1>1. T \in SUBSET Nat /\ T # {}
  <2>1. \A k \in S : n - k \in Nat
    OBVIOUS
  <2>2. \A x \in T : x \in Nat
    BY <2>1
  <2>3. QED
    BY <2>2
<1>2. PICK x \in T : \A y \in T : x <= y
  <2> HIDE DEF T
  <2>1. QED
    BY <1>1, LeastNatural
<1>3. PICK m \in S : x = n - m
  OBVIOUS
<1>4. ASSUME NEW k \in S PROVE k <= m
  <2>1. n - k \in T
    OBVIOUS
  <2>2. n - m <= n - k
    BY <1>2, <1>3, <2>1
  <2>3. QED
    BY <2>2
<1>5. QED
  BY <1>4

\* The gradient inward, upside down: integers, one where it was greatest in
\* the patch, that differ as it did.
LEMMA InvertedLevels ==
  ASSUME NEW n \in Nat, NEW tags, NEW g \in [Halo -> 0 .. n]
  PROVE  /\ Inverted(tags, g) \in [Halo -> Int]
         /\ \A p \in Halo : tags[p] = NoTag => Inverted(tags, g)[p] = 0
         /\ \A p, q \in Halo : tags[p] = tags[q] /\ tags[p] # NoTag =>
              Inverted(tags, g)[p] + g[p] = Inverted(tags, g)[q] + g[q]
<1> DEFINE steps(p) == {g[q] : q \in {q \in Halo : tags[q] = tags[p]}}
           top(p) == CHOOSE m \in steps(p) : \A k \in steps(p) : k <= m
           inv == Inverted(tags, g)
<1>1. /\ inv = [p \in Halo |-> inv[p]]
      /\ \A p \in Halo : inv[p] = IF tags[p] = NoTag THEN 0 ELSE top(p) - g[p] + 1
  BY DEF Inverted
<1>2. ASSUME NEW p \in Halo PROVE top(p) \in 0 .. n
  <2>1. steps(p) \in SUBSET (0 .. n) /\ steps(p) # {}
    OBVIOUS
  <2>2. PICK m \in steps(p) : \A k \in steps(p) : k <= m
    <3>1. PICK S : S = steps(p)
      OBVIOUS
    <3>2. \E m \in S : \A k \in S : k <= m
      BY <2>1, <3>1, GreatestUpTo
    <3>3. QED
      BY <3>1, <3>2
  <2>3. top(p) \in steps(p)
    BY <2>2
  <2>4. QED
    BY <2>1, <2>3
<1>3. \A p, q \in Halo : tags[p] = tags[q] => top(p) = top(q)
  OBVIOUS
<1> HIDE DEF top, inv
<1>4. \A p \in Halo : inv[p] \in Int
  <2>1. SUFFICES ASSUME NEW p \in Halo PROVE inv[p] \in Int
    OBVIOUS
  <2>2. top(p) \in Int /\ g[p] \in Int
    BY <1>2
  <2>3. QED
    BY <1>1, <2>2
<1>5. inv \in [Halo -> Int]
  BY <1>1, <1>4
<1>6. ASSUME NEW p \in Halo, NEW q \in Halo, tags[p] = tags[q], tags[p] # NoTag
      PROVE  inv[p] + g[p] = inv[q] + g[q]
  <2>1. /\ inv[p] = top(p) - g[p] + 1 /\ inv[q] = top(q) - g[q] + 1 /\ top(p) = top(q)
        /\ top(p) \in Int /\ g[p] \in Int /\ g[q] \in Int
    BY <1>1, <1>2, <1>3, <1>6
  <2>2. QED
    BY <2>1
<1>7. QED
  BY <1>1, <1>5, <1>6 DEF inv

\* The arrays of Garbrecht_Martz () as they are when drains are chosen.
Graded(e, tags, types, up, out) ==
  /\ tags = FlatTag(e)
  /\ types = FlatType(tags, D8(e), InvDirs(D8(e)))
  /\ up = Inverted(tags, FromInlets(tags, types))
  /\ out = FromOutlets(tags, types)

\* The sum of the two distances is a number, zero off the flats.
LEMMA Levels ==
  ASSUME NEW e, NEW tags, NEW types, NEW up, NEW out, Graded(e, tags, types, up, out)
  PROVE  /\ up \in [Halo -> Int] /\ out \in [Halo -> 0 .. Cardinality(Halo)]
         /\ \A p \in Halo : Level(up, out, p) \in Int
         /\ \A p \in Halo : tags[p] = NoTag => Level(up, out, p) = 0
<1>1. PICK n \in Nat : n = Cardinality(Halo)
  BY CellsFinite
<1> DEFINE inlets == {p \in Inside : types[p] = "inlet"}
           outlets == {p \in Halo : types[p] = "outlet"}
<1>2. inlets \in SUBSET Halo /\ outlets \in SUBSET Halo
  BY CellsFinite
<1>3. PICK g : g = FromInlets(tags, types)
  OBVIOUS
<1>4. g \in [Halo -> 0 .. n]
  <2>1. g = StepsFrom(inlets, tags)
    BY <1>3 DEF FromInlets, Inlets
  <2> HIDE DEF inlets
  <2>2. QED
    BY <1>1, <1>2, <2>1, Distances
<1>5. out = StepsFrom(outlets, tags)
  BY DEF Graded, FromOutlets, Outlets
<1>6. out \in [Halo -> 0 .. n]
  <2> HIDE DEF outlets
  <2>1. QED
    BY <1>1, <1>2, <1>5, Distances
<1>7. /\ up \in [Halo -> Int]
      /\ \A p \in Halo : tags[p] = NoTag => up[p] = 0
  BY <1>3, <1>4, InvertedLevels DEF Graded
<1>8. ASSUME NEW p \in Halo, tags[p] = NoTag PROVE out[p] = 0
  <2>1. SUFFICES ASSUME out[p] # 0 PROVE FALSE
    OBVIOUS
  <2>2. PICK s \in outlets : tags[s] = tags[p]
    <3> HIDE DEF outlets
    <3>1. QED
      BY <1>2, <1>5, <2>1, ReachedFromSeeds
  <2>3. types[s] = "none"
    BY <1>8, <2>2 DEF Graded, FlatType
  <2>4. QED
    BY <2>2, <2>3
<1>9. \A p \in Halo : up[p] \in Int /\ out[p] \in Int
  BY <1>6, <1>7
<1>10. \A p \in Halo : Level(up, out, p) \in Int
  BY <1>9 DEF Level
<1>11. \A p \in Halo : tags[p] = NoTag => Level(up, out, p) = 0
  BY <1>7, <1>8 DEF Level
<1>12. QED
  BY <1>1, <1>6, <1>7, <1>10, <1>11

\* q is under p: lower, or as high and nearer to where the patch is left.
Under(e, up, out, q, p) ==
  /\ e[q] # NaN /\ e[p] # NaN
  /\ e[q] < e[p] \/ (e[q] = e[p] /\ Level(up, out, q) < Level(up, out, p))

\* D8 () leads to a lower cell, and finds one if there is one.
LEMMA Downhill ==
  ASSUME NEW e \in Elevations, NEW p \in Inside
  PROVE  /\ DownhillDir(e, p) \in Dirs \cup {NoDir}
         /\ DownhillDir(e, p) # NoDir => /\ e[p] # NaN /\ e[Neighbor(p, DownhillDir(e, p))] # NaN
                                         /\ e[Neighbor(p, DownhillDir(e, p))] < e[p]
         /\ e[p] # NaN /\ (\E q \in Around(p) : e[q] # NaN /\ e[q] < e[p]) => DownhillDir(e, p) # NoDir
<1> DEFINE known == {c \in Dirs : e[Neighbor(p, c)] # NaN}
           drop == [c \in known |-> e[p] - e[Neighbor(p, c)]]
<1>1. p \in Halo /\ \A c \in Dirs : Neighbor(p, c) \in Halo
  BY CellsFinite, InHalo
<1>2. CASE e[p] = NaN
  BY <1>2 DEF DownhillDir
<1>3. CASE e[p] # NaN
  <2>1. e[p] \in Int /\ \A c \in known : e[Neighbor(p, c)] \in Int
    BY <1>1, <1>3 DEF Elevations
  <2>2. drop \in [known -> Int] /\ known \in SUBSET Dirs
    BY <2>1
  <2>3. \A c \in known : drop[c] = e[p] - e[Neighbor(p, c)]
    OBVIOUS
  <2>4. DownhillDir(e, p) = Steepest(drop)
    BY <1>3 DEF DownhillDir
  <2>5. /\ Steepest(drop) # NoDir => Steepest(drop) \in known /\ drop[Steepest(drop)] > 0
        /\ (\E c \in known : drop[c] > 0) => Steepest(drop) # NoDir
        /\ Steepest(drop) \in Dirs \cup {NoDir}
    <3> HIDE DEF drop, known
    <3>1. QED
      BY <2>2, SteepestGoesDown
  <2>6. ASSUME Steepest(drop) # NoDir
        PROVE  e[Neighbor(p, Steepest(drop))] # NaN /\ e[Neighbor(p, Steepest(drop))] < e[p]
    <3>1. PICK c \in known : c = Steepest(drop) /\ drop[c] > 0
      <4> HIDE DEF drop, known
      <4>1. QED
        BY <2>5, <2>6
    <3>2. e[p] - e[Neighbor(p, c)] > 0 /\ e[Neighbor(p, c)] \in Int /\ e[Neighbor(p, c)] # NaN
      BY <2>1, <2>3, <3>1
    <3>3. e[Neighbor(p, c)] < e[p]
      BY <2>1, <3>2
    <3>4. QED
      BY <3>1, <3>2, <3>3
  <2>7. ASSUME NEW q \in Around(p), e[q] # NaN, e[q] < e[p] PROVE Steepest(drop) # NoDir
    <3>1. PICK c \in Dirs : q = Neighbor(p, c)
      BY DEF Around
    <3>2. c \in known /\ drop[c] = e[p] - e[q] /\ e[q] \in Int
      BY <2>1, <2>3, <2>7, <3>1
    <3>3. drop[c] > 0
      BY <2>1, <2>7, <3>2
    <3>4. QED
      BY <2>5, <3>2, <3>3
  <2>8. QED
    BY <1>3, <2>4, <2>5, <2>6, <2>7
<1>4. QED
  BY <1>2, <1>3

\* The fallback leads within a flat to a cell of a smaller sum, or off it at
\* an outlet.
LEMMA Fallback ==
  ASSUME NEW e \in Elevations, NEW tags, NEW types, NEW up, NEW out, Graded(e, tags, types, up, out),
         NEW p \in Inside
  PROVE  /\ FallbackDir(tags, up, out, p) \in Dirs \cup {NoDir}
         /\ FallbackDir(tags, up, out, p) # NoDir =>
              /\ tags[p] # NoTag
              /\ tags[Neighbor(p, FallbackDir(tags, up, out, p))] = tags[p]
              /\ Level(up, out, Neighbor(p, FallbackDir(tags, up, out, p))) < Level(up, out, p)
         /\ tags[p] # NoTag /\ (\E q \in Around(p) : tags[q] = tags[p] /\ Level(up, out, q) < Level(up, out, p))
              => FallbackDir(tags, up, out, p) # NoDir
<1> DEFINE same == {c \in Dirs : tags[Neighbor(p, c)] = tags[p]}
           drop == [c \in same |-> Level(up, out, p) - Level(up, out, Neighbor(p, c))]
<1>1. p \in Halo /\ \A c \in Dirs : Neighbor(p, c) \in Halo
  BY CellsFinite, InHalo
<1>2. CASE tags[p] = NoTag /\ OnBoundary(p)
  BY <1>2 DEF FallbackDir
<1>3. CASE ~(tags[p] = NoTag /\ OnBoundary(p))
  <2>1. Level(up, out, p) \in Int /\ \A c \in same : Level(up, out, Neighbor(p, c)) \in Int
    BY <1>1, Levels
  <2>2. drop \in [same -> Int] /\ same \in SUBSET Dirs
    BY <2>1
  <2>3. \A c \in same : drop[c] = Level(up, out, p) - Level(up, out, Neighbor(p, c))
    OBVIOUS
  <2>4. FallbackDir(tags, up, out, p) = Steepest(drop)
    BY <1>3 DEF FallbackDir
  <2>5. /\ Steepest(drop) # NoDir => Steepest(drop) \in same /\ drop[Steepest(drop)] > 0
        /\ (\E c \in same : drop[c] > 0) => Steepest(drop) # NoDir
        /\ Steepest(drop) \in Dirs \cup {NoDir}
    <3> HIDE DEF drop, same
    <3>1. QED
      BY <2>2, SteepestGoesDown
  <2>6. ASSUME Steepest(drop) # NoDir
        PROVE  /\ tags[p] # NoTag
               /\ tags[Neighbor(p, Steepest(drop))] = tags[p]
               /\ Level(up, out, Neighbor(p, Steepest(drop))) < Level(up, out, p)
    <3>1. PICK c \in same : c = Steepest(drop) /\ drop[c] > 0
      <4> HIDE DEF drop, same
      <4>1. QED
        BY <2>5, <2>6
    <3>2. /\ Level(up, out, p) - Level(up, out, Neighbor(p, c)) > 0 /\ tags[Neighbor(p, c)] = tags[p]
          /\ Level(up, out, Neighbor(p, c)) \in Int
      BY <2>1, <2>3, <3>1
    <3>3. Level(up, out, Neighbor(p, c)) < Level(up, out, p)
      BY <2>1, <3>2
    <3>4. tags[p] # NoTag
      <4>1. SUFFICES ASSUME tags[p] = NoTag PROVE FALSE
        OBVIOUS
      <4>2. Level(up, out, p) = 0 /\ Level(up, out, Neighbor(p, c)) = 0
        BY <1>1, <3>2, <4>1, Levels
      <4>3. QED
        BY <3>3, <4>2
    <3>5. QED
      BY <3>1, <3>2, <3>3, <3>4
  <2>7. ASSUME NEW q \in Around(p), tags[q] = tags[p], Level(up, out, q) < Level(up, out, p)
        PROVE  Steepest(drop) # NoDir
    <3>1. PICK c \in Dirs : q = Neighbor(p, c)
      BY DEF Around
    <3>2. c \in same /\ drop[c] = Level(up, out, p) - Level(up, out, q) /\ Level(up, out, q) \in Int
      BY <2>1, <2>3, <2>7, <3>1
    <3>3. drop[c] > 0
      BY <2>1, <2>7, <3>2
    <3>4. QED
      BY <2>5, <3>2, <3>3
  <2>8. QED
    BY <2>4, <2>5, <2>6, <2>7
<1>4. QED
  BY <1>2, <1>3

\* Drains lead under where they begin, and so does what drains on and on.
LEMMA DrainsLeadUnder ==
  ASSUME NEW e \in Elevations, NEW tags, NEW types, NEW up, NEW out, Graded(e, tags, types, up, out),
         NEW p \in Inside, NEW d, d = Drains(e, tags, up, out)[p]
  PROVE  /\ d \in Dirs \cup {NoDir}
         /\ d # NoDir => Under(e, up, out, Neighbor(p, d), p)
<1>1. d = IF DownhillDir(e, p) # NoDir THEN DownhillDir(e, p) ELSE FallbackDir(tags, up, out, p)
  BY DEF Drains
<1>2. CASE DownhillDir(e, p) # NoDir
  BY <1>1, <1>2, Downhill DEF Under
<1>3. CASE DownhillDir(e, p) = NoDir
  <2>1. d = FallbackDir(tags, up, out, p)
    BY <1>1, <1>3
  <2>2. d \in Dirs \cup {NoDir}
    BY <2>1, Fallback
  <2>3. ASSUME d # NoDir PROVE Under(e, up, out, Neighbor(p, d), p)
    <3>1. /\ tags[p] # NoTag /\ tags[Neighbor(p, d)] = tags[p]
          /\ Level(up, out, Neighbor(p, d)) < Level(up, out, p)
      BY <2>1, <2>3, Fallback
    <3>2. p \in Halo /\ Neighbor(p, d) \in Halo
      BY <2>2, <2>3, CellsFinite, InHalo
    <3>3. e[p] = e[Neighbor(p, d)] /\ e[p] # NaN
      BY <3>1, <3>2, FlatTags DEF Graded
    <3>4. QED
      BY <3>1, <3>3 DEF Under
  <2>4. QED
    BY <2>2, <2>3
<1>4. QED
  BY <1>2, <1>3

\* To be under is transitive, and no cell is under itself.
LEMMA UnderOrders ==
  ASSUME NEW e \in Elevations, NEW tags, NEW types, NEW up, NEW out, Graded(e, tags, types, up, out)
  PROVE  /\ \A p, q, r \in Halo : Under(e, up, out, q, p) /\ Under(e, up, out, r, q) => Under(e, up, out, r, p)
         /\ \A p \in Halo : ~Under(e, up, out, p, p)
<1>1. \A p \in Halo : (e[p] # NaN => e[p] \in Int) /\ Level(up, out, p) \in Int
  BY Levels DEF Elevations
<1>2. QED
  BY <1>1 DEF Under

-----------------------------------------------------------------------------
(* The cells above a cell, those whose water comes by it, and the cells     *)
(* that can be come to from some.                                           *)

\* The cells that drain into q, by drains d.
Into(d, q) == {r : r \in {s \in Around(q) \cap Inside : d[s] # NoDir /\ Neighbor(s, d[s]) = q}}

\* Above () for any drains.
AboveBy(d, p) ==
  LET within[n \in 0 .. Width * Height] ==
          IF n = 0 THEN Into(d, p)
          ELSE LET before == within[n - 1] IN before \cup UNION {Into(d, q) : q \in before}
  IN  within[Width * Height]

\* What a set of cells grows to when F says which cells each of them brings.
More(F, X) == X \cup UNION {F[q] : q \in X}

\* A growth from the set a, step by step.
Grows(f, F, a) ==
  /\ f[0] = a
  /\ \A n \in 1 .. Width * Height : f[n] = More(F, f[n - 1])

\* Adding what each cell brings, over and over, is a run of sets of cells.
LEMMA Growth ==
  ASSUME NEW F \in [Inside -> SUBSET Inside], NEW a \in SUBSET Inside
  PROVE  \E f : /\ f = [n \in 0 .. Width * Height |-> IF n = 0 THEN a ELSE More(F, f[n - 1])]
                /\ \A n \in 0 .. Width * Height : f[n] \in SUBSET Inside
<1>1. PICK N \in Nat : N = Width * Height
  BY CellsFinite
<1>2. PICK A : A = SUBSET Inside
  OBVIOUS
<1>3. PICK R : R = {x \in (1 .. N) \X A \X A : x[3] = More(F, x[2])}
  OBVIOUS
<1>4. StepsAlways(R, N, A)
  <2>1. SUFFICES ASSUME NEW n \in 1 .. N, NEW X \in A PROVE \E Y \in A : <<n, X, Y>> \in R
    BY DEF StepsAlways
  <2>2. More(F, X) \in A
    BY <1>2 DEF More
  <2>3. QED
    BY <1>3, <2>2
<1>5. a \in A
  BY <1>2
<1>6. PICK f : IsRun(f, R, N, a, A)
  BY <1>4, <1>5, Recursion
<1>7. \A n \in 1 .. N : f[n] = More(F, f[n - 1])
  BY <1>3, <1>6 DEF IsRun
<1>8. \A n \in 0 .. N : f[n] = IF n = 0 THEN a ELSE More(F, f[n - 1])
  <2>1. \A n \in 0 .. N : n # 0 => n \in 1 .. N
    OBVIOUS
  <2>2. QED
    BY <1>6, <1>7, <2>1 DEF IsRun
<1>9. f = [n \in 0 .. N |-> IF n = 0 THEN a ELSE More(F, f[n - 1])]
  BY <1>6, <1>8 DEF IsRun
<1>10. QED
  BY <1>1, <1>2, <1>6, <1>9 DEF IsRun

\* It ends with the least set that has a and is closed: there are no more steps
\* in it than there are cells.
LEMMA GrowsClosed ==
  ASSUME NEW F \in [Inside -> SUBSET Inside], NEW a \in SUBSET Inside, NEW f, Grows(f, F, a)
  PROVE  /\ f[Width * Height] \subseteq Inside /\ a \subseteq f[Width * Height]
         /\ \A q \in f[Width * Height] : F[q] \subseteq f[Width * Height]
         /\ \A T : a \subseteq T /\ (\A q \in T \cap Inside : F[q] \subseteq T) => f[Width * Height] \subseteq T
<1>1. PICK N \in Nat : N = Width * Height
  BY CellsFinite
<1>2. \A n \in 0 .. N - 1 : /\ n + 1 \in 1 .. N /\ n + 1 \in 0 .. N /\ n \in 0 .. N
                            /\ f[n + 1] = f[n] \cup UNION {F[q] : q \in f[n]}
  <2>1. SUFFICES ASSUME NEW n \in 0 .. N - 1
                 PROVE  /\ n + 1 \in 1 .. N /\ n + 1 \in 0 .. N /\ n \in 0 .. N
                        /\ f[n + 1] = f[n] \cup UNION {F[q] : q \in f[n]}
    OBVIOUS
  <2>2. n + 1 \in 1 .. N /\ (n + 1) - 1 = n
    OBVIOUS
  <2>3. f[n + 1] = More(F, f[(n + 1) - 1])
    BY <1>1, <2>2 DEF Grows
  <2>4. QED
    BY <2>2, <2>3 DEF More
<1>3. \A n \in 0 .. N : f[n] \subseteq Inside
  <2> DEFINE S == {n \in 0 .. N : f[n] \subseteq Inside}
  <2>1. 0 \in S
    BY DEF Grows
  <2>2. ASSUME NEW n \in 0 .. N - 1, n \in S PROVE n + 1 \in S
    <3>1. UNION {F[q] : q \in f[n]} \subseteq Inside
      BY <2>2
    <3>2. QED
      BY <1>2, <2>2, <3>1
  <2>3. \A n \in 0 .. N : n \in S
    <3> HIDE DEF S
    <3>1. QED
      BY <2>1, <2>2, UpTo
  <2>4. QED
    BY <2>3
<1>4. a \subseteq f[N]
  <2> DEFINE S == {n \in 0 .. N : a \subseteq f[n]}
  <2>1. 0 \in S
    BY DEF Grows
  <2>2. \A n \in 0 .. N - 1 : n \in S => n + 1 \in S
    BY <1>2
  <2>3. \A n \in 0 .. N : n \in S
    <3> HIDE DEF S
    <3>1. QED
      BY <2>1, <2>2, UpTo
  <2>4. QED
    BY <2>3
<1>5. ASSUME NEW T, a \subseteq T, \A q \in T \cap Inside : F[q] \subseteq T PROVE f[N] \subseteq T
  <2> DEFINE S == {n \in 0 .. N : f[n] \subseteq T}
  <2>1. 0 \in S
    BY <1>5 DEF Grows
  <2>2. \A n \in 0 .. N - 1 : n \in S => n + 1 \in S
    <3>1. SUFFICES ASSUME NEW n \in 0 .. N - 1, f[n] \subseteq T PROVE f[n + 1] \subseteq T
      BY <1>2
    <3>2. \A q \in f[n] : F[q] \subseteq T
      BY <1>2, <1>3, <1>5, <3>1
    <3>3. QED
      BY <1>2, <3>1, <3>2
  <2>3. \A n \in 0 .. N : n \in S
    <3> HIDE DEF S
    <3>1. QED
      BY <2>1, <2>2, UpTo
  <2>4. QED
    BY <2>3
<1>6. \A n \in 0 .. N : IsFiniteSet(f[n]) /\ Cardinality(f[n]) \in Nat /\ Cardinality(f[n]) <= N
  <2>1. ASSUME NEW n \in 0 .. N
        PROVE  IsFiniteSet(f[n]) /\ Cardinality(f[n]) \in Nat /\ Cardinality(f[n]) <= N
    <3>1. PICK X \in SUBSET Inside : X = f[n]
      BY <1>3
    <3>2. IsFiniteSet(X) /\ Cardinality(X) <= N
      BY <1>1, CellsFinite, FS_Subset
    <3>3. Cardinality(X) \in Nat
      BY <3>2, FS_CardinalityType
    <3>4. QED
      BY <3>1, <3>2, <3>3
  <2>2. QED
    BY <2>1
<1>7. \A q \in f[N] : F[q] \subseteq f[N]
  <2> DEFINE Done(n) == \A q \in f[n] : F[q] \subseteq f[n]
             S == {n \in 0 .. N : Done(n) \/ Cardinality(f[n]) >= n}
  <2>1. 0 \in S
    BY <1>6
  <2>2. ASSUME NEW n \in 0 .. N - 1, n \in S PROVE n + 1 \in S
    <3>1. CASE Done(n)
      <4>1. f[n + 1] = f[n]
        <5>1. UNION {F[q] : q \in f[n]} \subseteq f[n]
          BY <3>1
        <5>2. QED
          BY <1>2, <5>1
      <4>2. QED
        BY <1>2, <3>1, <4>1
    <3>2. CASE ~Done(n)
      <4>1. PICK q \in f[n] : ~(F[q] \subseteq f[n])
        BY <3>2
      <4>2. PICK x \in F[q] : x \notin f[n]
        BY <4>1
      <4>3. x \in f[n + 1] /\ f[n] \subseteq f[n + 1] /\ f[n] # f[n + 1]
        BY <1>2, <4>2
      <4>4. PICK X, Y : X = f[n] /\ Y = f[n + 1]
        OBVIOUS
      <4>5. /\ IsFiniteSet(Y) /\ X \in SUBSET Y /\ X # Y
            /\ Cardinality(X) \in Nat /\ Cardinality(Y) \in Nat
        BY <1>2, <1>6, <4>3, <4>4
      <4>6. Cardinality(X) < Cardinality(Y)
        <5>1. Cardinality(X) <= Cardinality(Y) /\ (Cardinality(X) = Cardinality(Y) => X = Y)
          BY <4>5, FS_Subset
        <5>2. QED
          BY <4>5, <5>1
      <4>7. Cardinality(X) >= n
        BY <2>2, <3>2, <4>4
      <4>8. Cardinality(Y) >= n + 1
        BY <4>5, <4>6, <4>7
      <4>9. QED
        BY <1>2, <4>4, <4>8
    <3>3. QED
      BY <3>1, <3>2
  <2>3. \A n \in 0 .. N : n \in S
    <3> HIDE DEF S
    <3>1. QED
      BY <2>1, <2>2, UpTo
  <2>4. N \in S
    BY <2>3
  <2>5. CASE Cardinality(f[N]) >= N
    <3>1. PICK X \in SUBSET Inside : X = f[N]
      BY <1>3
    <3>2. Cardinality(X) <= N /\ Cardinality(X) \in Nat
      BY <1>6, <3>1
    <3>3. Cardinality(X) = Cardinality(Inside)
      BY <1>1, <2>5, <3>1, <3>2, CellsFinite
    <3>4. X = Inside
      BY <3>3, CellsFinite, FS_Subset
    <3>5. QED
      BY <3>1, <3>4
  <2>6. QED
    BY <2>4, <2>5
<1>8. QED
  BY <1>1, <1>3, <1>4, <1>5, <1>7

Closed(d, T) == \A q \in T : Into(d, q) \subseteq T

\* Above () is the least set that is closed under what drains into its cells
\* and has what drains into p.
LEMMA AboveSound ==
  ASSUME NEW d, NEW p
  PROVE  /\ AboveBy(d, p) \subseteq Inside /\ Into(d, p) \subseteq AboveBy(d, p)
         /\ Closed(d, AboveBy(d, p))
         /\ \A T : Into(d, p) \subseteq T /\ Closed(d, T) => AboveBy(d, p) \subseteq T
<1> DEFINE N == Width * Height
           Next1(X) == X \cup UNION {Into(d, q) : q \in X}
           Is(g) == g = [n \in 0 .. N |-> IF n = 0 THEN Into(d, p) ELSE Next1(g[n - 1])]
           f == CHOOSE g : Is(g)
<1>1. N \in Nat
  BY CellsFinite
<1>2. PICK F \in [Inside -> SUBSET Inside] : F = [q \in Inside |-> Into(d, q)]
  BY DEF Into
<1>3. PICK a \in SUBSET Inside : a = Into(d, p)
  BY DEF Into
<1>4. \A X \in SUBSET Inside : Next1(X) = More(F, X)
  BY <1>2 DEF More
<1>5. \A X : X \in SUBSET Inside => More(F, X) \in SUBSET Inside
  BY DEF More
<1> HIDE DEF Next1
<1>6. \E g : Is(g)
  <2>1. PICK g : /\ g = [n \in 0 .. N |-> IF n = 0 THEN a ELSE More(F, g[n - 1])]
                 /\ \A n \in 0 .. N : g[n] \in SUBSET Inside
    BY Growth
  <2>2. \A n \in 0 .. N : n # 0 => n - 1 \in 0 .. N
    BY <1>1
  <2> HIDE DEF N
  <2>3. \A n \in 0 .. N : g[n] = IF n = 0 THEN Into(d, p) ELSE Next1(g[n - 1])
    BY <1>3, <1>4, <2>1, <2>2
  <2>4. Is(g)
    BY <2>1, <2>3
  <2>5. QED
    BY <2>4
<1>7. Is(f)
  <2> HIDE DEF Is
  <2>1. QED
    BY <1>6
<1>8. AboveBy(d, p) = f[N]
  BY DEF AboveBy, Next1
<1>9. Grows(f, F, a)
  <2> HIDE DEF f
  <2>1. \A n \in 0 .. N : f[n] = IF n = 0 THEN a ELSE Next1(f[n - 1])
    BY <1>3, <1>7
  <2> HIDE DEF N
  <2>2. \A n \in 0 .. N : f[n] \in SUBSET Inside
    <3> DEFINE S == {n \in 0 .. N : f[n] \in SUBSET Inside}
    <3>1. 0 \in S
      BY <1>1, <2>1
    <3>2. ASSUME NEW n \in 0 .. N - 1, n \in S PROVE n + 1 \in S
      <4>1. n + 1 \in 0 .. N /\ n + 1 # 0 /\ (n + 1) - 1 = n
        BY <1>1
      <4>2. f[n + 1] = Next1(f[n])
        BY <2>1, <4>1
      <4>3. QED
        BY <1>4, <1>5, <3>2, <4>1, <4>2
    <3>3. \A n \in 0 .. N : n \in S
      <4> HIDE DEF S
      <4>1. QED
        BY <1>1, <3>1, <3>2, UpTo
    <3>4. QED
      BY <3>3
  <2>3. \A n \in 1 .. N : f[n] = More(F, f[n - 1])
    <3>1. \A n \in 1 .. N : n \in 0 .. N /\ n # 0 /\ n - 1 \in 0 .. N
      BY <1>1
    <3>2. QED
      BY <1>4, <2>1, <2>2, <3>1
  <2>4. f[0] = a
    BY <1>1, <2>1
  <2>5. QED
    BY <2>3, <2>4 DEF Grows, N
<1> HIDE DEF f
<1>10. /\ f[N] \subseteq Inside /\ a \subseteq f[N]
       /\ \A q \in f[N] : F[q] \subseteq f[N]
       /\ \A T : a \subseteq T /\ (\A q \in T \cap Inside : F[q] \subseteq T) => f[N] \subseteq T
  BY <1>9, GrowsClosed
<1>11. QED
  <2> HIDE DEF N
  <2>1. PICK Y : Y = f[N]
    OBVIOUS
  <2>2. AboveBy(d, p) = Y
    BY <1>8, <2>1
  <2>3. Closed(d, Y)
    BY <1>2, <1>10, <2>1 DEF Closed
  <2>4. ASSUME NEW T, Into(d, p) \subseteq T, Closed(d, T) PROVE Y \subseteq T
    <3>1. \A q \in T \cap Inside : F[q] \subseteq T
      BY <1>2, <2>4 DEF Closed
    <3>2. QED
      BY <1>3, <1>10, <2>1, <2>4, <3>1
  <2>5. QED
    BY <1>3, <1>10, <2>1, <2>2, <2>3, <2>4

\* No water comes back where drains lead under where they begin.
LEMMA NoneAboveItself ==
  ASSUME NEW e \in Elevations, NEW tags, NEW types, NEW up, NEW out, Graded(e, tags, types, up, out),
         NEW d, d = Drains(e, tags, up, out), NEW p \in Inside
  PROVE  \A r \in AboveBy(d, p) : Under(e, up, out, p, r)
<1> DEFINE T == {r \in Inside : Under(e, up, out, p, r)}
<1>1. \A q \in Halo : \A r \in Into(d, q) : r \in Inside /\ Under(e, up, out, q, r)
  <2>1. SUFFICES ASSUME NEW q \in Halo, NEW r \in Into(d, q) PROVE r \in Inside /\ Under(e, up, out, q, r)
    OBVIOUS
  <2>2. r \in Inside /\ d[r] # NoDir /\ Neighbor(r, d[r]) = q
    BY DEF Into
  <2>3. QED
    BY <2>2, DrainsLeadUnder
<1>2. p \in Halo /\ \A r \in Inside : r \in Halo
  BY CellsFinite
<1>3. Into(d, p) \subseteq T
  BY <1>1, <1>2
<1>4. Closed(d, T)
  <2>1. SUFFICES ASSUME NEW q \in T, NEW r \in Into(d, q) PROVE r \in T
    BY DEF Closed
  <2>2. /\ q \in Halo /\ r \in Inside /\ r \in Halo
        /\ Under(e, up, out, p, q) /\ Under(e, up, out, q, r)
    BY <1>1, <1>2
  <2>3. Under(e, up, out, p, r)
    BY <1>2, <2>2, UnderOrders
  <2>4. QED
    BY <2>2, <2>3
<1>5. AboveBy(d, p) \subseteq T
  <2> HIDE DEF T
  <2>1. QED
    BY <1>3, <1>4, AboveSound
<1>6. QED
  BY <1>5

\* Reach () is the least set that has the cells of 'from' and what is next to
\* its own, as far as 'through' goes.
LEMMA ReachSound ==
  ASSUME NEW from, NEW through \in SUBSET Inside
  PROVE  /\ Reach(from, through) \subseteq through /\ from \cap through \subseteq Reach(from, through)
         /\ \A q \in Reach(from, through) : Around(q) \cap through \subseteq Reach(from, through)
         /\ \A T : from \cap through \subseteq T /\ (\A q \in T \cap through : Around(q) \cap through \subseteq T)
                   => Reach(from, through) \subseteq T
<1> DEFINE N == Width * Height
           start == {p : p \in from \cap through}
           Next1(X) == X \cup UNION {Around(q) \cap through : q \in X}
           Is(g) == g = [n \in 0 .. N |-> IF n = 0 THEN start ELSE Next1(g[n - 1])]
           f == CHOOSE g : Is(g)
<1>1. N \in Nat
  BY CellsFinite
<1>2. PICK F \in [Inside -> SUBSET Inside] : F = [q \in Inside |-> Around(q) \cap through]
  OBVIOUS
<1>3. PICK a \in SUBSET Inside : a = start /\ a = from \cap through
  OBVIOUS
<1>4. \A X \in SUBSET Inside : Next1(X) = More(F, X)
  BY <1>2 DEF More
<1>5. \A X : X \in SUBSET Inside => More(F, X) \in SUBSET Inside
  BY DEF More
<1> HIDE DEF Next1, start
<1>6. \E g : Is(g)
  <2>1. PICK g : /\ g = [n \in 0 .. N |-> IF n = 0 THEN a ELSE More(F, g[n - 1])]
                 /\ \A n \in 0 .. N : g[n] \in SUBSET Inside
    BY Growth
  <2>2. \A n \in 0 .. N : n # 0 => n - 1 \in 0 .. N
    BY <1>1
  <2> HIDE DEF N
  <2>3. \A n \in 0 .. N : g[n] = IF n = 0 THEN start ELSE Next1(g[n - 1])
    BY <1>3, <1>4, <2>1, <2>2
  <2>4. Is(g)
    BY <2>1, <2>3
  <2>5. QED
    BY <2>4
<1>7. Is(f)
  <2> HIDE DEF Is
  <2>1. QED
    BY <1>6
<1>8. Reach(from, through) = f[N]
  BY DEF Reach, Next1, start
<1>9. Grows(f, F, a)
  <2> HIDE DEF f
  <2>1. \A n \in 0 .. N : f[n] = IF n = 0 THEN a ELSE Next1(f[n - 1])
    BY <1>3, <1>7
  <2> HIDE DEF N
  <2>2. \A n \in 0 .. N : f[n] \in SUBSET Inside
    <3> DEFINE S == {n \in 0 .. N : f[n] \in SUBSET Inside}
    <3>1. 0 \in S
      BY <1>1, <2>1
    <3>2. ASSUME NEW n \in 0 .. N - 1, n \in S PROVE n + 1 \in S
      <4>1. n + 1 \in 0 .. N /\ n + 1 # 0 /\ (n + 1) - 1 = n
        BY <1>1
      <4>2. f[n + 1] = Next1(f[n])
        BY <2>1, <4>1
      <4>3. QED
        BY <1>4, <1>5, <3>2, <4>1, <4>2
    <3>3. \A n \in 0 .. N : n \in S
      <4> HIDE DEF S
      <4>1. QED
        BY <1>1, <3>1, <3>2, UpTo
    <3>4. QED
      BY <3>3
  <2>3. \A n \in 1 .. N : f[n] = More(F, f[n - 1])
    <3>1. \A n \in 1 .. N : n \in 0 .. N /\ n # 0 /\ n - 1 \in 0 .. N
      BY <1>1
    <3>2. QED
      BY <1>4, <2>1, <2>2, <3>1
  <2>4. f[0] = a
    BY <1>1, <2>1
  <2>5. QED
    BY <2>3, <2>4 DEF Grows, N
<1> HIDE DEF f
<1>10. /\ f[N] \subseteq Inside /\ a \subseteq f[N]
       /\ \A q \in f[N] : F[q] \subseteq f[N]
       /\ \A T : a \subseteq T /\ (\A q \in T \cap Inside : F[q] \subseteq T) => f[N] \subseteq T
  BY <1>9, GrowsClosed
<1>11. QED
  <2> HIDE DEF N
  <2>1. PICK Y : Y = f[N]
    OBVIOUS
  <2>2. Reach(from, through) = Y
    BY <1>8, <2>1
  <2>3. Y \subseteq through
    <3>1. \A q \in through \cap Inside : F[q] \subseteq through
      BY <1>2
    <3>2. QED
      BY <1>3, <1>10, <2>1, <3>1
  <2>4. \A q \in Y : Around(q) \cap through \subseteq Y
    BY <1>2, <1>10, <2>1
  <2>5. ASSUME NEW T, from \cap through \subseteq T, \A q \in T \cap through : Around(q) \cap through \subseteq T
        PROVE  Y \subseteq T
    <3>1. PICK U : U = T \cap through
      OBVIOUS
    <3>2. a \subseteq U /\ \A q \in U \cap Inside : F[q] \subseteq U
      BY <1>2, <1>3, <2>5, <3>1
    <3>3. Y \subseteq U
      BY <1>10, <2>1, <3>2
    <3>4. QED
      BY <3>1, <3>3
  <2>6. QED
    BY <1>3, <1>10, <2>1, <2>2, <2>3, <2>4, <2>5

-----------------------------------------------------------------------------
(* The heap keeps the nodes it was given.                                   *)

\* What the loops of the heap go through: nodes of S, and one that moves.
Sifting(S, n) == [d : [1 .. n -> S], i : 1 .. n]

\* The steps of min-heap.c neither lose nodes nor make up others.
LEMMA SwapKeeps ==
  ASSUME NEW S, NEW n \in Nat \ {0}, NEW d \in [1 .. n -> S], NEW i \in 1 .. n, NEW j \in 1 .. n
  PROVE  Swap(d, i, j) \in [1 .. n -> S]
BY DEF Swap

\* A turn of sift_up () keeps the nodes in their set.
LEMMA RiseKeeps ==
  ASSUME NEW S, NEW n \in Nat \ {0}, NEW b \in Sifting(S, n)
  PROVE  Rise(b) \in Sifting(S, n)
<1> DEFINE parent == b.i \div 2
<1>1. b.d \in [1 .. n -> S] /\ b.i \in 1 .. n
  BY DEF Sifting
<1>2. parent # 0 => parent \in 1 .. n
  BY <1>1
<1> HIDE DEF parent
<1>3. Rise(b) = IF parent = 0 \/ b.d[parent].key <= b.d[b.i].key THEN b
                ELSE [d |-> Swap(b.d, parent, b.i), i |-> parent]
  BY DEF Rise, parent
<1>4. ASSUME parent # 0 PROVE [d |-> Swap(b.d, parent, b.i), i |-> parent] \in Sifting(S, n)
  <2>1. PICK x : x = Swap(b.d, parent, b.i)
    OBVIOUS
  <2>2. x \in [1 .. n -> S] /\ parent \in 1 .. n
    BY <1>1, <1>2, <1>4, <2>1, SwapKeeps
  <2>3. [d |-> x, i |-> parent] \in Sifting(S, n)
    BY <2>2 DEF Sifting
  <2>4. QED
    BY <2>1, <2>3
<1>5. QED
  BY <1>3, <1>4

\* A turn of sift_down () keeps the nodes in their set.
LEMMA SinkKeeps ==
  ASSUME NEW S, NEW n \in Nat \ {0}, NEW b \in Sifting(S, n)
  PROVE  Sink(b) \in Sifting(S, n)
<1> DEFINE below(c, i) == IF c <= Len(b.d) /\ b.d[c].key < b.d[i].key THEN c ELSE i
           smallest == below(2 * b.i + 1, below(2 * b.i, b.i))
<1>1. b.d \in [1 .. n -> S] /\ b.i \in 1 .. n
  BY DEF Sifting
<1>2. Len(b.d) = n
  BY <1>1
<1>3. ASSUME NEW c \in Nat \ {0}, NEW i \in 1 .. n PROVE below(c, i) \in 1 .. n
  BY <1>2
<1>4. 2 * b.i \in Nat \ {0} /\ 2 * b.i + 1 \in Nat \ {0}
  BY <1>1
<1>5. smallest \in 1 .. n
  <2> HIDE DEF below
  <2>1. below(2 * b.i, b.i) \in 1 .. n
    BY <1>1, <1>3, <1>4
  <2>2. QED
    BY <1>3, <1>4, <2>1
<1>6. Sink(b) = [d |-> Swap(b.d, smallest, b.i), i |-> smallest]
  BY DEF Sink
<1> HIDE DEF smallest
<1>7. PICK x : x = Swap(b.d, smallest, b.i)
  OBVIOUS
<1>8. x \in [1 .. n -> S]
  BY <1>1, <1>5, <1>7, SwapKeeps
<1>9. [d |-> x, i |-> smallest] \in Sifting(S, n)
  BY <1>5, <1>8 DEF Sifting
<1>10. QED
  BY <1>6, <1>7, <1>9

\* sift_up (), turn by turn.
SiftsUp(f, data, n) ==
  /\ f[0] = [d |-> data, i |-> n]
  /\ \A k \in 0 .. n - 1 : f[k + 1] = Rise(f[k])
  /\ SiftUp(data) = f[n].d

\* sift_up () is its turns, one after the other.
LEMMA SiftUpTurns ==
  ASSUME NEW S, NEW n \in Nat \ {0}, NEW data \in Seq(S), Len(data) = n
  PROVE  \E f : SiftsUp(f, data, n) /\ \A k \in 0 .. n : f[k] \in Sifting(S, n)
<1> DEFINE Is(g) == g = [k \in 0 .. Len(data) |->
                           IF k = 0 THEN [d |-> data, i |-> Len(data)] ELSE Rise(g[k - 1])]
           f == CHOOSE g : Is(g)
<1>1. PICK A : A = Sifting(S, n)
  OBVIOUS
<1>2. PICK a \in A : a = [d |-> data, i |-> n]
  <2>1. data \in [1 .. n -> S] /\ n \in 1 .. n
    OBVIOUS
  <2>2. [d |-> data, i |-> n] \in A
    BY <1>1, <2>1 DEF Sifting
  <2>3. QED
    BY <2>2
<1>3. PICK R : R = {x \in (1 .. n) \X A \X A : x[3] = Rise(x[2])}
  OBVIOUS
<1>4. StepsAlways(R, n, A)
  <2>1. SUFFICES ASSUME NEW k \in 1 .. n, NEW x \in A PROVE \E y \in A : <<k, x, y>> \in R
    BY DEF StepsAlways
  <2>2. Rise(x) \in A
    BY <1>1, RiseKeeps
  <2>3. QED
    BY <1>3, <2>2
<1>5. PICK g : IsRun(g, R, n, a, A)
  BY <1>4, Recursion
<1>6. Is(g)
  <2>1. \A k \in 1 .. n : g[k] = Rise(g[k - 1])
    BY <1>3, <1>5 DEF IsRun
  <2>2. \A k \in 0 .. n : g[k] = IF k = 0 THEN [d |-> data, i |-> n] ELSE Rise(g[k - 1])
    <3>1. \A k \in 0 .. n : k # 0 => k \in 1 .. n
      OBVIOUS
    <3>2. QED
      BY <1>2, <1>5, <2>1, <3>1 DEF IsRun
  <2>3. QED
    BY <1>5, <2>2 DEF IsRun
<1>7. Is(f)
  <2> HIDE DEF Is
  <2>1. QED
    BY <1>6
<1>8. SiftUp(data) = f[n].d
  BY DEF SiftUp
<1>9. \A k \in 0 .. n : f[k] \in A
  <2> DEFINE T == {k \in 0 .. n : f[k] \in A}
  <2>1. \A k \in 0 .. n : f[k] = IF k = 0 THEN a ELSE Rise(f[k - 1])
    <3> HIDE DEF f
    <3>1. QED
      BY <1>2, <1>7
  <2> HIDE DEF f
  <2>2. 0 \in T
    BY <2>1
  <2>3. ASSUME NEW k \in 0 .. n - 1, k \in T PROVE k + 1 \in T
    <3>1. k + 1 \in 0 .. n /\ k + 1 # 0 /\ (k + 1) - 1 = k
      OBVIOUS
    <3>2. f[k + 1] = Rise(f[k])
      BY <2>1, <3>1
    <3>3. f[k] \in A
      BY <2>3
    <3>4. QED
      BY <1>1, <3>1, <3>2, <3>3, RiseKeeps
  <2>4. \A k \in 0 .. n : k \in T
    <3> HIDE DEF T
    <3>1. QED
      BY <2>2, <2>3, UpTo
  <2>5. QED
    BY <2>4
<1>10. SiftsUp(f, data, n)
  <2>1. \A k \in 0 .. n : f[k] = IF k = 0 THEN a ELSE Rise(f[k - 1])
    <3> HIDE DEF f
    <3>1. QED
      BY <1>2, <1>7
  <2> HIDE DEF f
  <2>2. \A k \in 0 .. n - 1 : k + 1 \in 0 .. n /\ k + 1 # 0 /\ (k + 1) - 1 = k
    OBVIOUS
  <2>3. QED
    BY <1>2, <1>8, <2>1, <2>2 DEF SiftsUp
<1>11. QED
  <2> HIDE DEF f
  <2>1. QED
    BY <1>1, <1>9, <1>10

\* sift_up () keeps the number of nodes, and their set.
LEMMA SiftUpKeeps ==
  ASSUME NEW S, NEW n \in Nat \ {0}, NEW data \in Seq(S), Len(data) = n
  PROVE  SiftUp(data) \in Seq(S) /\ Len(SiftUp(data)) = n
<1>1. PICK f : SiftsUp(f, data, n) /\ \A k \in 0 .. n : f[k] \in Sifting(S, n)
  BY SiftUpTurns
<1>2. PICK d \in [1 .. n -> S] : d = f[n].d
  BY <1>1 DEF Sifting
<1>3. QED
  BY <1>1, <1>2 DEF SiftsUp

\* sift_down (), turn by turn.
SiftsDown(f, data, n) ==
  /\ f[0] = [d |-> data, i |-> 1]
  /\ \A k \in 0 .. n - 1 : f[k + 1] = Sink(f[k])
  /\ SiftDown(data) = f[n].d

\* sift_down () is its turns, one after the other.
LEMMA SiftDownTurns ==
  ASSUME NEW S, NEW n \in Nat \ {0}, NEW data \in Seq(S), Len(data) = n
  PROVE  \E f : SiftsDown(f, data, n) /\ \A k \in 0 .. n : f[k] \in Sifting(S, n)
<1> DEFINE Is(g) == g = [k \in 0 .. Len(data) |->
                           IF k = 0 THEN [d |-> data, i |-> 1] ELSE Sink(g[k - 1])]
           f == CHOOSE g : Is(g)
<1>1. PICK A : A = Sifting(S, n)
  OBVIOUS
<1>2. PICK a \in A : a = [d |-> data, i |-> 1]
  <2>1. data \in [1 .. n -> S] /\ 1 \in 1 .. n
    OBVIOUS
  <2>2. [d |-> data, i |-> 1] \in A
    BY <1>1, <2>1 DEF Sifting
  <2>3. QED
    BY <2>2
<1>3. PICK R : R = {x \in (1 .. n) \X A \X A : x[3] = Sink(x[2])}
  OBVIOUS
<1>4. StepsAlways(R, n, A)
  <2>1. SUFFICES ASSUME NEW k \in 1 .. n, NEW x \in A PROVE \E y \in A : <<k, x, y>> \in R
    BY DEF StepsAlways
  <2>2. Sink(x) \in A
    BY <1>1, SinkKeeps
  <2>3. QED
    BY <1>3, <2>2
<1>5. PICK g : IsRun(g, R, n, a, A)
  BY <1>4, Recursion
<1>6. Is(g)
  <2>1. \A k \in 1 .. n : g[k] = Sink(g[k - 1])
    BY <1>3, <1>5 DEF IsRun
  <2>2. \A k \in 0 .. n : g[k] = IF k = 0 THEN [d |-> data, i |-> 1] ELSE Sink(g[k - 1])
    <3>1. \A k \in 0 .. n : k # 0 => k \in 1 .. n
      OBVIOUS
    <3>2. QED
      BY <1>2, <1>5, <2>1, <3>1 DEF IsRun
  <2>3. QED
    BY <1>5, <2>2 DEF IsRun
<1>7. Is(f)
  <2> HIDE DEF Is
  <2>1. QED
    BY <1>6
<1>8. SiftDown(data) = f[n].d
  BY DEF SiftDown
<1>9. \A k \in 0 .. n : f[k] \in A
  <2> DEFINE T == {k \in 0 .. n : f[k] \in A}
  <2>1. \A k \in 0 .. n : f[k] = IF k = 0 THEN a ELSE Sink(f[k - 1])
    <3> HIDE DEF f
    <3>1. QED
      BY <1>2, <1>7
  <2> HIDE DEF f
  <2>2. 0 \in T
    BY <2>1
  <2>3. ASSUME NEW k \in 0 .. n - 1, k \in T PROVE k + 1 \in T
    <3>1. k + 1 \in 0 .. n /\ k + 1 # 0 /\ (k + 1) - 1 = k
      OBVIOUS
    <3>2. f[k + 1] = Sink(f[k])
      BY <2>1, <3>1
    <3>3. f[k] \in A
      BY <2>3
    <3>4. QED
      BY <1>1, <3>1, <3>2, <3>3, SinkKeeps
  <2>4. \A k \in 0 .. n : k \in T
    <3> HIDE DEF T
    <3>1. QED
      BY <2>2, <2>3, UpTo
  <2>5. QED
    BY <2>4
<1>10. SiftsDown(f, data, n)
  <2>1. \A k \in 0 .. n : f[k] = IF k = 0 THEN a ELSE Sink(f[k - 1])
    <3> HIDE DEF f
    <3>1. QED
      BY <1>2, <1>7
  <2> HIDE DEF f
  <2>2. \A k \in 0 .. n - 1 : k + 1 \in 0 .. n /\ k + 1 # 0 /\ (k + 1) - 1 = k
    OBVIOUS
  <2>3. QED
    BY <1>2, <1>8, <2>1, <2>2 DEF SiftsDown
<1>11. QED
  <2> HIDE DEF f
  <2>1. QED
    BY <1>1, <1>9, <1>10

\* sift_down () keeps the number of nodes, and their set.
LEMMA SiftDownKeeps ==
  ASSUME NEW S, NEW n \in Nat \ {0}, NEW data \in Seq(S), Len(data) = n
  PROVE  SiftDown(data) \in Seq(S) /\ Len(SiftDown(data)) = n
<1>1. PICK f : SiftsDown(f, data, n) /\ \A k \in 0 .. n : f[k] \in Sifting(S, n)
  BY SiftDownTurns
<1>2. PICK d \in [1 .. n -> S] : d = f[n].d
  BY <1>1 DEF Sifting
<1>3. QED
  BY <1>1, <1>2 DEF SiftsDown

\* A heap of such nodes stays one.
HeapOf(S) == [data : Seq(S), capacity : Nat]

\* A push of a node of the set leaves a heap of nodes of the set.
LEMMA PushKeeps ==
  ASSUME NEW S, NEW h \in HeapOf(S), NEW x \in S
  PROVE  PqPush(h, x) \in HeapOf(S)
<1>1. h.data \in Seq(S) /\ h.capacity \in Nat
  BY DEF HeapOf
<1>2. PICK data \in Seq(S), n \in Nat \ {0} : data = Append(h.data, x) /\ Len(data) = n
  <2>1. PICK data : data = Append(h.data, x)
    OBVIOUS
  <2>2. data \in Seq(S) /\ Len(data) = Len(h.data) + 1 /\ Len(h.data) \in Nat
    BY <1>1, <2>1
  <2>3. Len(data) \in Nat \ {0}
    BY <2>2
  <2>4. QED
    BY <2>1, <2>2, <2>3
<1>3. SiftUp(data) \in Seq(S)
  BY <1>2, SiftUpKeeps
<1>4. QED
  BY <1>1, <1>2, <1>3 DEF PqPush, HeapOf

\* pq_pop () sifts down, from the front, the node that was last.
Popped(h, t, m) ==
  /\ Len(t) = m
  /\ PqPop(h) = [data |-> SiftDown(t), capacity |-> h.capacity]
  /\ t[1] = h.data[m + 1] /\ \A i \in 2 .. m : t[i] = h.data[i]

\* A pop of one of several nodes sifts the last one down from the front.
LEMMA PopSifts ==
  ASSUME NEW S, NEW h \in HeapOf(S), NEW m \in Nat \ {0}, Len(h.data) = m + 1
  PROVE  \E t \in Seq(S) : Popped(h, t, m)
<1>1. h.data \in Seq(S) /\ h.capacity \in Nat /\ h = [data |-> h.data, capacity |-> h.capacity]
  BY DEF HeapOf
<1>2. PICK s \in Seq(S) : s = SubSeq(h.data, 1, m) /\ Len(s) = m /\ \A i \in 1 .. m : s[i] = h.data[i]
  <2>1. PICK o \in Int, k \in Int : o = 1 /\ k = m
    OBVIOUS
  <2>2. \A i \in o .. k : h.data[i] \in S
    BY <1>1, <2>1
  <2>3. /\ SubSeq(h.data, o, k) \in Seq(S)
        /\ Len(SubSeq(h.data, o, k)) = IF o <= k THEN k - o + 1 ELSE 0
        /\ \A i \in 1 .. k - o + 1 : SubSeq(h.data, o, k)[i] = h.data[o + i - 1]
    BY <2>2, SubSeqProperties
  <2>4. \A i \in 1 .. m : i \in 1 .. k - o + 1 /\ o + i - 1 = i
    BY <2>1
  <2>5. SubSeq(h.data, 1, m) = SubSeq(h.data, o, k)
    BY <2>1
  <2>6. Len(SubSeq(h.data, o, k)) = m
    BY <2>1, <2>3
  <2>7. \A i \in 1 .. m : SubSeq(h.data, o, k)[i] = h.data[i]
    BY <2>3, <2>4
  <2>8. QED
    BY <2>3, <2>5, <2>6, <2>7
<1>3. PICK x \in S : x = h.data[m + 1]
  BY <1>1
<1>4. PICK t : t = [s EXCEPT ![1] = x]
  OBVIOUS
<1>5. s \in [1 .. m -> S]
  BY <1>2, LenProperties
<1>6. t \in [1 .. m -> S] /\ t[1] = x /\ \A i \in 2 .. m : t[i] = s[i]
  BY <1>4, <1>5
<1>7. t \in Seq(S) /\ Len(t) = m
  BY <1>6, LenProperties
<1>8. PqPop(h) = [data |-> SiftDown(t), capacity |-> h.capacity]
  <2>1. m + 1 # 1 /\ (m + 1) - 1 = m
    OBVIOUS
  <2>2. PICK n : n = m + 1
    OBVIOUS
  <2>3. n # 1 /\ n - 1 = m /\ n = Len(h.data)
    BY <2>1, <2>2
  <2>4. PICK y : y = SiftDown([SubSeq(h.data, 1, n - 1) EXCEPT ![1] = h.data[n]])
    OBVIOUS
  <2>5. y = SiftDown(t)
    BY <1>2, <1>3, <1>4, <2>2, <2>3, <2>4
  <2>6. PqPop(h) = [data |-> y, capacity |-> h.capacity]
    BY <1>1, <2>3, <2>4 DEF PqPop
  <2>7. QED
    BY <2>5, <2>6
<1>9. t[1] = h.data[m + 1] /\ \A i \in 2 .. m : t[i] = h.data[i]
  <2>1. \A i \in 2 .. m : i \in 1 .. m
    OBVIOUS
  <2>2. QED
    BY <1>2, <1>3, <1>6, <2>1
<1>10. Popped(h, t, m)
  BY <1>7, <1>8, <1>9 DEF Popped
<1>11. QED
  BY <1>7, <1>10

\* A pop of the only node leaves none.
LEMMA PopOne ==
  ASSUME NEW S, NEW h \in HeapOf(S), Len(h.data) = 1
  PROVE  PqPop(h) = [data |-> <<>>, capacity |-> h.capacity]
BY DEF PqPop, HeapOf

\* The node in front is of the set, and a pop leaves a heap of nodes of the
\* set.
LEMMA PopKeeps ==
  ASSUME NEW S, NEW h \in HeapOf(S), h.data # <<>>
  PROVE  PqMin(h) \in S /\ PqPop(h) \in HeapOf(S)
<1>1. h.data \in Seq(S) /\ h.capacity \in Nat
  BY DEF HeapOf
<1>2. PICK n \in Nat \ {0} : n = Len(h.data)
  BY <1>1
<1>3. PqMin(h) \in S
  BY <1>1, <1>2 DEF PqMin
<1>4. CASE n = 1
  <2>1. PqPop(h) = [data |-> <<>>, capacity |-> h.capacity]
    BY <1>2, <1>4, PopOne
  <2>2. <<>> \in Seq(S)
    OBVIOUS
  <2>3. QED
    BY <1>1, <1>3, <2>1, <2>2 DEF HeapOf
<1>5. CASE n # 1
  <2>1. PICK m \in Nat \ {0} : n = m + 1
    <3>1. n - 1 \in Nat \ {0} /\ n = (n - 1) + 1
      BY <1>5
    <3>2. QED
      BY <3>1
  <2>2. PICK t \in Seq(S) : Popped(h, t, m)
    BY <1>2, <2>1, PopSifts
  <2>3. SiftDown(t) \in Seq(S)
    BY <2>2, SiftDownKeeps DEF Popped
  <2>4. QED
    BY <1>1, <1>3, <2>2, <2>3 DEF HeapOf, Popped
<1>6. QED
  BY <1>4, <1>5

\* The nodes that PushAll () leaves out.
LeftOut(seen, nodes, i) ==
  \/ nodes[i].key = NaN \/ nodes[i].at \in seen
  \/ \E j \in 1 .. i - 1 : nodes[j].at = nodes[i].at

\* PushAll (), node by node.
PushesAll(f, h, seen, nodes, m) ==
  /\ f[0] = h
  /\ \A i \in 0 .. m - 1 : f[i + 1] = IF LeftOut(seen, nodes, i + 1) THEN f[i] ELSE PqPush(f[i], nodes[i + 1])
  /\ PushAll(h, seen, nodes) = f[m]

\* Pushing nodes in turn is a run of heaps.
LEMMA PushAllTurns ==
  ASSUME NEW S, NEW h \in HeapOf(S), NEW seen, NEW nodes, NEW m \in Nat, Len(nodes) = m,
         \A i \in 1 .. m : nodes[i].key = NaN \/ nodes[i].at \in seen \/ nodes[i] \in S
  PROVE  \E f : PushesAll(f, h, seen, nodes, m) /\ \A k \in 0 .. m : f[k] \in HeapOf(S)
<1> DEFINE Out(i) == \/ nodes[i].key = NaN \/ nodes[i].at \in seen
                     \/ \E j \in 1 .. i - 1 : nodes[j].at = nodes[i].at
           Put(i, before) == IF Out(i) THEN before ELSE PqPush(before, nodes[i])
           Is(g) == g = [i \in 0 .. Len(nodes) |-> IF i = 0 THEN h ELSE Put(i, g[i - 1])]
           f == CHOOSE g : Is(g)
<1>1. PICK A : A = HeapOf(S)
  OBVIOUS
<1>2. PICK a \in A : a = h
  BY <1>1
<1>3. \A i \in 1 .. m, x \in A : Put(i, x) \in A
  <2>1. SUFFICES ASSUME NEW i \in 1 .. m, NEW x \in A, ~Out(i) PROVE PqPush(x, nodes[i]) \in A
    OBVIOUS
  <2>2. nodes[i] \in S
    BY <2>1
  <2>3. QED
    BY <1>1, <2>2, PushKeeps
<1>4. PushAll(h, seen, nodes) = f[m]
  BY DEF PushAll
<1> HIDE DEF Put
<1>5. PICK R : R = {x \in (1 .. m) \X A \X A : x[3] = Put(x[1], x[2])}
  OBVIOUS
<1>6. StepsAlways(R, m, A)
  BY <1>3, <1>5 DEF StepsAlways
<1>7. PICK g : IsRun(g, R, m, a, A)
  BY <1>6, Recursion
<1>8. Is(g)
  <2>1. \A k \in 1 .. m : g[k] = Put(k, g[k - 1])
    BY <1>5, <1>7 DEF IsRun
  <2>2. \A k \in 0 .. m : g[k] = IF k = 0 THEN h ELSE Put(k, g[k - 1])
    <3>1. \A k \in 0 .. m : k # 0 => k \in 1 .. m
      OBVIOUS
    <3>2. QED
      BY <1>2, <1>7, <2>1, <3>1 DEF IsRun
  <2>3. QED
    BY <1>7, <2>2 DEF IsRun
<1>9. Is(f)
  <2> HIDE DEF Is
  <2>1. QED
    BY <1>8
<1>10. \A k \in 0 .. m : f[k] \in A
  <2> DEFINE T == {k \in 0 .. m : f[k] \in A}
  <2>1. \A k \in 0 .. m : f[k] = IF k = 0 THEN a ELSE Put(k, f[k - 1])
    <3> HIDE DEF f
    <3>1. QED
      BY <1>2, <1>9
  <2> HIDE DEF f
  <2>2. 0 \in T
    BY <2>1
  <2>3. ASSUME NEW k \in 0 .. m - 1, k \in T PROVE k + 1 \in T
    <3>1. k + 1 \in 0 .. m /\ k + 1 \in 1 .. m /\ k + 1 # 0 /\ (k + 1) - 1 = k
      OBVIOUS
    <3>2. f[k + 1] = Put(k + 1, f[k])
      BY <2>1, <3>1
    <3>3. f[k] \in A
      BY <2>3
    <3>4. QED
      BY <1>3, <3>1, <3>2, <3>3
  <2>4. \A k \in 0 .. m : k \in T
    <3> HIDE DEF T
    <3>1. QED
      BY <2>2, <2>3, UpTo
  <2>5. QED
    BY <2>4
<1>11. PushesAll(f, h, seen, nodes, m)
  <2>1. \A k \in 0 .. m : f[k] = IF k = 0 THEN a ELSE Put(k, f[k - 1])
    <3> HIDE DEF f
    <3>1. QED
      BY <1>2, <1>9
  <2> HIDE DEF f
  <2>2. \A k \in 0 .. m - 1 : k + 1 \in 0 .. m /\ k + 1 # 0 /\ (k + 1) - 1 = k
    OBVIOUS
  <2>3. \A k \in 0 .. m - 1 : f[k + 1] = Put(k + 1, f[k])
    BY <2>1, <2>2
  <2>4. \A k \in 0 .. m - 1 : f[k + 1] = IF LeftOut(seen, nodes, k + 1) THEN f[k] ELSE PqPush(f[k], nodes[k + 1])
    BY <2>3 DEF Put, LeftOut
  <2>5. QED
    BY <1>2, <1>4, <2>1, <2>4 DEF PushesAll
<1>12. QED
  <2> HIDE DEF f
  <2>1. QED
    BY <1>1, <1>10, <1>11

\* Nodes pushed in turn, those seen left out, are in the heap's set.
LEMMA PushAllKeeps ==
  ASSUME NEW S, NEW h \in HeapOf(S), NEW seen, NEW nodes, NEW m \in Nat, Len(nodes) = m,
         \A i \in 1 .. m : nodes[i].key = NaN \/ nodes[i].at \in seen \/ nodes[i] \in S
  PROVE  PushAll(h, seen, nodes) \in HeapOf(S)
<1>1. PICK f : PushesAll(f, h, seen, nodes, m) /\ \A k \in 0 .. m : f[k] \in HeapOf(S)
  BY PushAllTurns
<1>2. QED
  BY <1>1 DEF PushesAll

-----------------------------------------------------------------------------
(* The heap is in order: the node in front is before all others.            *)

\* No node of an array is before the one above it, and the nodes there are.
InOrder(d, n) == \A j \in 2 .. n : d[j \div 2].key <= d[j].key
NodesOf(d, n) == {d[j] : j \in 1 .. n}
HasKeys(S) == \A x \in S : x.key \in Int

\* The node above a node, and the two below it.
LEMMA Half ==
  /\ \A j \in Nat \ {0} : j \div 2 \in Nat /\ j \div 2 < j
  /\ \A j \in Nat : j >= 2 => j \div 2 \in Nat \ {0}
  /\ \A i \in Nat, j \in Nat : j \div 2 = i <=> j = 2 * i \/ j = 2 * i + 1
OBVIOUS

\* An exchange keeps the nodes of an array.
LEMMA SwapSame ==
  ASSUME NEW S, NEW n \in Nat \ {0}, NEW d \in [1 .. n -> S], NEW i \in 1 .. n, NEW j \in 1 .. n
  PROVE  /\ NodesOf(Swap(d, i, j), n) = NodesOf(d, n)
         /\ Swap(d, i, i) = d
         /\ Swap(d, i, j)[i] = d[j] /\ Swap(d, i, j)[j] = d[i]
         /\ \A k \in 1 .. n : k # i /\ k # j => Swap(d, i, j)[k] = d[k]
<1>1. PICK e : e = Swap(d, i, j)
  OBVIOUS
<1>2. e[i] = d[j] /\ e[j] = d[i] /\ \A k \in 1 .. n : k # i /\ k # j => e[k] = d[k]
  BY <1>1 DEF Swap
<1>3. NodesOf(e, n) = NodesOf(d, n)
  <2>1. \A k \in 1 .. n : e[k] \in NodesOf(d, n)
    BY <1>2 DEF NodesOf
  <2>2. \A k \in 1 .. n : d[k] \in NodesOf(e, n)
    BY <1>2 DEF NodesOf
  <2>3. QED
    BY <2>1, <2>2 DEF NodesOf
<1>4. Swap(d, i, i) = d
  BY DEF Swap
<1>5. QED
  BY <1>1, <1>2, <1>3, <1>4

\* A node on its way up: all are in order but it, and it is above none that
\* the one above it should not be above.
Rising(b, n) ==
  /\ \A j \in 2 .. n : j # b.i => b.d[j \div 2].key <= b.d[j].key
  /\ \A j \in 2 .. n : j \div 2 = b.i /\ b.i >= 2 => b.d[b.i \div 2].key <= b.d[j].key

UpAtRest(b) == b.i = 1 \/ b.d[b.i \div 2].key <= b.d[b.i].key

\* A turn of sift_up ().
LEMMA RiseOrders ==
  ASSUME NEW S, HasKeys(S), NEW n \in Nat \ {0}, NEW b \in Sifting(S, n), Rising(b, n)
  PROVE  /\ Rising(Rise(b), n) /\ NodesOf(Rise(b).d, n) = NodesOf(b.d, n)
         /\ \/ Rise(b) = b /\ UpAtRest(b)
            \/ Rise(b).i < b.i
<1>1. PICK d \in [1 .. n -> S], i \in 1 .. n : d = b.d /\ i = b.i
  BY DEF Sifting
<1>2. \A j \in 1 .. n : d[j].key \in Int
  BY DEF HasKeys
<1>3. PICK p \in Nat : p = i \div 2
  BY Half
<1>4. Rise(b) = IF p = 0 \/ d[p].key <= d[i].key THEN b ELSE [d |-> Swap(d, p, i), i |-> p]
  BY <1>1, <1>3 DEF Rise
<1>5. CASE p = 0 \/ d[p].key <= d[i].key
  <2>1. p = 0 => i = 1
    BY <1>3, Half
  <2>2. UpAtRest(b)
    BY <1>1, <1>3, <1>5, <2>1 DEF UpAtRest
  <2>3. QED
    BY <1>4, <1>5, <2>2
<1>6. CASE ~(p = 0 \/ d[p].key <= d[i].key)
  <2>1. p \in 1 .. n /\ p < i /\ i >= 2 /\ d[i].key < d[p].key
    BY <1>2, <1>3, <1>6, Half
  <2>2. PICK e : e = Swap(d, p, i)
    OBVIOUS
  <2>3. e[p] = d[i] /\ e[i] = d[p] /\ \A k \in 1 .. n : k # p /\ k # i => e[k] = d[k]
    BY <2>1, <2>2 DEF Swap
  <2>4. NodesOf(e, n) = NodesOf(d, n)
    BY <2>1, <2>2, SwapSame
  <2>5. PICK x : x = [d |-> e, i |-> p]
    OBVIOUS
  <2>6. /\ \A j \in 2 .. n : j # i => d[j \div 2].key <= d[j].key
        /\ \A j \in 2 .. n : j \div 2 = i => d[p].key <= d[j].key
    BY <1>1, <1>3, <2>1 DEF Rising
  <2>7. ASSUME NEW j \in 2 .. n, j # p PROVE e[j \div 2].key <= e[j].key
    <3>1. PICK h \in 1 .. n : h = j \div 2 /\ h < j
      BY Half
    <3>2. CASE j = i
      BY <1>2, <1>3, <2>1, <2>3, <3>1, <3>2
    <3>3. CASE h = p /\ j # i
      <4>1. d[p].key <= d[j].key
        BY <2>6, <3>1, <3>3
      <4>2. QED
        BY <1>2, <2>1, <2>3, <2>7, <3>1, <3>3, <4>1
    <3>4. CASE h = i
      <4>1. d[p].key <= d[j].key
        BY <2>6, <3>1, <3>4
      <4>2. j # i
        BY <3>1, <3>4
      <4>3. QED
        BY <2>3, <2>7, <3>1, <3>4, <4>1, <4>2
    <3>5. CASE h # i /\ h # p /\ j # i
      BY <2>3, <2>6, <2>7, <3>1, <3>5
    <3>6. QED
      BY <3>2, <3>3, <3>4, <3>5
  <2>8. ASSUME NEW j \in 2 .. n, j \div 2 = p, p >= 2 PROVE e[p \div 2].key <= e[j].key
    <3>1. PICK g \in 1 .. n : g = p \div 2 /\ g < p
      BY <2>1, <2>8, Half
    <3>2. d[g].key <= d[p].key /\ e[g] = d[g]
      BY <2>1, <2>3, <2>6, <2>8, <3>1
    <3>3. CASE j = i
      BY <2>3, <3>1, <3>2, <3>3
    <3>4. CASE j # i
      <4>1. d[p].key <= d[j].key
        BY <2>6, <2>8, <3>4
      <4>2. j # p
        BY <2>8, Half
      <4>3. QED
        BY <1>2, <2>1, <2>3, <3>1, <3>2, <3>4, <4>1, <4>2
    <3>5. QED
      BY <3>3, <3>4
  <2>9. Rising(x, n)
    BY <2>5, <2>7, <2>8 DEF Rising
  <2>10. Rise(b) = x
    BY <1>4, <1>6, <2>2, <2>5
  <2>11. NodesOf(x.d, n) = NodesOf(b.d, n) /\ x.i < b.i
    BY <1>1, <2>1, <2>4, <2>5
  <2>12. QED
    BY <2>9, <2>10, <2>11
<1>7. QED
  BY <1>5, <1>6

\* sift_up () leaves an array in order.
LEMMA SiftUpOrders ==
  ASSUME NEW S, HasKeys(S), NEW n \in Nat \ {0}, NEW data \in Seq(S), Len(data) = n, InOrder(data, n - 1)
  PROVE  InOrder(SiftUp(data), n) /\ NodesOf(SiftUp(data), n) = NodesOf(data, n)
<1>1. PICK f : SiftsUp(f, data, n) /\ \A k \in 0 .. n : f[k] \in Sifting(S, n)
  BY SiftUpTurns
<1> DEFINE T == {k \in 0 .. n : /\ Rising(f[k], n) /\ NodesOf(f[k].d, n) = NodesOf(data, n)
                                /\ f[k].i <= n - k \/ UpAtRest(f[k])}
<1>2. 0 \in T
  <2>1. PICK b : b = f[0]
    OBVIOUS
  <2>2. b.d = data /\ b.i = n
    BY <1>1, <2>1 DEF SiftsUp
  <2>3. Rising(b, n)
    <3>1. \A j \in 2 .. n : j # n => data[j \div 2].key <= data[j].key
      BY DEF InOrder
    <3>2. \A j \in 2 .. n : j \div 2 # n
      BY Half
    <3>3. QED
      BY <2>2, <3>1, <3>2 DEF Rising
  <2>4. QED
    BY <2>1, <2>2, <2>3
<1>3. ASSUME NEW k \in 0 .. n - 1, k \in T PROVE k + 1 \in T
  <2>1. PICK b \in Sifting(S, n) : b = f[k]
    BY <1>1
  <2>2. f[k + 1] = Rise(b) /\ k + 1 \in 0 .. n
    BY <1>1, <2>1 DEF SiftsUp
  <2>3. Rising(b, n) /\ NodesOf(b.d, n) = NodesOf(data, n) /\ (b.i <= n - k \/ UpAtRest(b))
    BY <1>3, <2>1
  <2>4. PICK c \in Sifting(S, n) : c = Rise(b)
    BY RiseKeeps
  <2>5. /\ Rising(c, n) /\ NodesOf(c.d, n) = NodesOf(b.d, n)
        /\ (c = b /\ UpAtRest(b)) \/ c.i < b.i
    BY <2>3, <2>4, RiseOrders
  <2>6. b.i \in Nat /\ c.i \in Nat
    BY DEF Sifting
  <2>7. c.i <= n - (k + 1) \/ UpAtRest(c)
    <3>1. CASE c = b /\ UpAtRest(b)
      BY <3>1
    <3>2. CASE c.i < b.i /\ b.i <= n - k
      BY <2>6, <3>2
    <3>3. CASE c.i < b.i /\ UpAtRest(b)
      <4>1. b.i = 1 \/ b.d[b.i \div 2].key <= b.d[b.i].key
        BY <3>3 DEF UpAtRest
      <4>2. Rise(b) = b
        BY <4>1 DEF Rise
      <4>3. QED
        BY <2>4, <2>6, <3>3, <4>2
    <3>4. QED
      BY <2>3, <2>5, <3>1, <3>2, <3>3
  <2>8. QED
    BY <2>2, <2>3, <2>4, <2>5, <2>7
<1>4. n \in T
  <2>1. \A k \in 0 .. n : k \in T
    <3> HIDE DEF T
    <3>1. QED
      BY <1>2, <1>3, UpTo
  <2>2. QED
    BY <2>1
<1>5. PICK b \in Sifting(S, n) : b = f[n]
  BY <1>1
<1>6. b.i \in 1 .. n
  BY DEF Sifting
<1>7. Rising(b, n) /\ NodesOf(b.d, n) = NodesOf(data, n) /\ UpAtRest(b)
  BY <1>4, <1>5, <1>6
<1>8. InOrder(b.d, n)
  BY <1>7 DEF Rising, UpAtRest, InOrder
<1>9. SiftUp(data) = b.d
  BY <1>1, <1>5 DEF SiftsUp
<1>10. QED
  BY <1>7, <1>8, <1>9
\* A node on its way down: all are in order but those below it, and none of
\* those is before the one above it.
Sinking(b, n) ==
  /\ \A j \in 2 .. n : j \div 2 # b.i => b.d[j \div 2].key <= b.d[j].key
  /\ \A j \in 2 .. n : j \div 2 = b.i /\ b.i >= 2 => b.d[b.i \div 2].key <= b.d[j].key

DownAtRest(b, n) == \A j \in 2 .. n : j \div 2 = b.i => b.d[b.i].key <= b.d[j].key

\* The turn of sift_down (): the least of a node and the two below it.
LEMMA SinkTurn ==
  ASSUME NEW S, HasKeys(S), NEW n \in Nat \ {0}, NEW b \in Sifting(S, n)
  PROVE  \E s \in 1 .. n : /\ Sink(b) = [d |-> Swap(b.d, s, b.i), i |-> s]
                           /\ s = b.i \/ s \div 2 = b.i
                           /\ b.d[s].key <= b.d[b.i].key
                           /\ \A j \in 2 .. n : j \div 2 = b.i => b.d[s].key <= b.d[j].key
                           /\ DownAtRest(b, n) => s = b.i
<1>1. PICK d \in [1 .. n -> S], i \in 1 .. n : d = b.d /\ i = b.i
  BY DEF Sifting
<1>2. \A j \in 1 .. n : d[j].key \in Int
  BY DEF HasKeys
<1>3. PICK m : m = IF 2 * i <= n /\ d[2 * i].key < d[i].key THEN 2 * i ELSE i
  OBVIOUS
<1>4. PICK s : s = IF 2 * i + 1 <= n /\ d[2 * i + 1].key < d[m].key THEN 2 * i + 1 ELSE m
  OBVIOUS
<1>5. m \in 1 .. n /\ (m = i \/ m = 2 * i) /\ d[m].key <= d[i].key /\ (2 * i <= n => d[m].key <= d[2 * i].key)
  BY <1>2, <1>3
<1>6. /\ s \in 1 .. n /\ (s = i \/ s = 2 * i \/ s = 2 * i + 1)
      /\ d[s].key <= d[m].key /\ (2 * i + 1 <= n => d[s].key <= d[2 * i + 1].key)
  BY <1>2, <1>4, <1>5
<1>7. Sink(b) = [d |-> Swap(b.d, s, b.i), i |-> s]
  <2>1. Len(d) = n
    OBVIOUS
  <2>2. QED
    BY <1>1, <1>3, <1>4, <2>1 DEF Sink
<1>8. s = i \/ s \div 2 = i
  BY <1>6, Half
<1>9. d[s].key <= d[i].key
  BY <1>2, <1>5, <1>6
<1>10. ASSUME NEW j \in 2 .. n, j \div 2 = i PROVE d[s].key <= d[j].key
  <2>1. j = 2 * i \/ j = 2 * i + 1
    BY <1>10, Half
  <2>2. CASE j = 2 * i
    BY <1>2, <1>5, <1>6, <2>2
  <2>3. CASE j = 2 * i + 1
    BY <1>6, <2>3
  <2>4. QED
    BY <2>1, <2>2, <2>3
<1>11. ASSUME DownAtRest(b, n) PROVE s = i
  <2>1. \A j \in 2 .. n : j = 2 * i \/ j = 2 * i + 1 => d[i].key <= d[j].key
    BY <1>1, <1>11, Half DEF DownAtRest
  <2>2. m = i
    BY <1>2, <1>3, <2>1
  <2>3. QED
    BY <1>2, <1>4, <2>1, <2>2
<1>12. QED
  BY <1>1, <1>6, <1>7, <1>8, <1>9, <1>10, <1>11

\* A turn of the loop of sift_down ().
LEMMA SinkOrders ==
  ASSUME NEW S, HasKeys(S), NEW n \in Nat \ {0}, NEW b \in Sifting(S, n), Sinking(b, n)
  PROVE  /\ Sinking(Sink(b), n) /\ NodesOf(Sink(b).d, n) = NodesOf(b.d, n)
         /\ \/ Sink(b) = b /\ DownAtRest(b, n)
            \/ Sink(b).i > b.i /\ ~DownAtRest(b, n)
<1>1. PICK d \in [1 .. n -> S], i \in 1 .. n : d = b.d /\ i = b.i /\ b = [d |-> d, i |-> i]
  BY DEF Sifting
<1>2. \A j \in 1 .. n : d[j].key \in Int
  BY DEF HasKeys
<1>3. PICK s \in 1 .. n : /\ Sink(b) = [d |-> Swap(b.d, s, b.i), i |-> s]
                          /\ s = b.i \/ s \div 2 = b.i
                          /\ b.d[s].key <= b.d[b.i].key
                          /\ \A j \in 2 .. n : j \div 2 = b.i => b.d[s].key <= b.d[j].key
                          /\ DownAtRest(b, n) => s = b.i
  BY SinkTurn
<1>4. CASE s = i
  <2>1. Swap(d, i, i) = d
    BY SwapSame
  <2>2. Sink(b) = b
    BY <1>1, <1>3, <1>4, <2>1
  <2>3. DownAtRest(b, n)
    BY <1>1, <1>3, <1>4 DEF DownAtRest
  <2>4. QED
    BY <2>2, <2>3
<1>5. CASE s # i
  <2>1. s \div 2 = i /\ i < s /\ s \in 2 .. n /\ d[s].key <= d[i].key
    BY <1>1, <1>3, <1>5, Half
  <2>2. PICK e : e = Swap(d, s, i)
    OBVIOUS
  <2>3. e[i] = d[s] /\ e[s] = d[i] /\ \A k \in 1 .. n : k # s /\ k # i => e[k] = d[k]
    BY <2>1, <2>2 DEF Swap
  <2>4. NodesOf(e, n) = NodesOf(d, n)
    BY <2>1, <2>2, SwapSame
  <2>5. PICK x : x = [d |-> e, i |-> s]
    OBVIOUS
  <2>6. /\ \A j \in 2 .. n : j \div 2 # i => d[j \div 2].key <= d[j].key
        /\ \A j \in 2 .. n : j \div 2 = i => d[s].key <= d[j].key
        /\ i >= 2 => d[i \div 2].key <= d[s].key
    BY <1>1, <1>3, <2>1 DEF Sinking
  <2>7. ASSUME NEW j \in 2 .. n, j \div 2 # s PROVE e[j \div 2].key <= e[j].key
    <3>1. PICK h \in 1 .. n : h = j \div 2 /\ h < j
      BY Half
    <3>2. CASE h = i /\ j = s
      BY <2>1, <2>3, <3>1, <3>2
    <3>3. CASE h = i /\ j # s
      <4>1. d[s].key <= d[j].key
        BY <2>6, <3>1, <3>3
      <4>2. QED
        BY <2>3, <3>1, <3>3, <4>1
    <3>4. CASE h # i /\ j = i
      <4>1. d[h].key <= d[s].key
        BY <2>6, <3>1, <3>4
      <4>2. QED
        BY <2>3, <2>7, <3>1, <3>4, <4>1
    <3>5. CASE h # i /\ j # i
      <4>1. j # s
        BY <2>1, <3>1, <3>5
      <4>2. d[h].key <= d[j].key
        BY <2>6, <3>1, <3>5
      <4>3. QED
        BY <2>3, <2>7, <3>1, <3>5, <4>1, <4>2
    <3>6. QED
      BY <3>2, <3>3, <3>4, <3>5
  <2>8. ASSUME NEW j \in 2 .. n, j \div 2 = s PROVE e[s \div 2].key <= e[j].key
    <3>1. d[s].key <= d[j].key /\ j # s /\ j # i
      BY <2>1, <2>6, <2>8, Half
    <3>2. QED
      BY <2>1, <2>3, <3>1
  <2>9. Sinking(x, n)
    BY <2>5, <2>7, <2>8 DEF Sinking
  <2>10. Sink(b) = x
    BY <1>1, <1>3, <2>2, <2>5
  <2>11. NodesOf(x.d, n) = NodesOf(b.d, n) /\ x.i > b.i
    BY <1>1, <2>1, <2>4, <2>5
  <2>12. ~DownAtRest(b, n)
    BY <1>1, <1>3, <1>5
  <2>13. QED
    BY <2>9, <2>10, <2>11, <2>12
<1>6. QED
  BY <1>4, <1>5

\* sift_down () leaves an array in order.
LEMMA SiftDownOrders ==
  ASSUME NEW S, HasKeys(S), NEW n \in Nat \ {0}, NEW data \in Seq(S), Len(data) = n,
         \A j \in 2 .. n : j \div 2 # 1 => data[j \div 2].key <= data[j].key
  PROVE  InOrder(SiftDown(data), n) /\ NodesOf(SiftDown(data), n) = NodesOf(data, n)
<1>1. PICK f : SiftsDown(f, data, n) /\ \A k \in 0 .. n : f[k] \in Sifting(S, n)
  BY SiftDownTurns
<1> DEFINE T == {k \in 0 .. n : /\ Sinking(f[k], n) /\ NodesOf(f[k].d, n) = NodesOf(data, n)
                                /\ f[k].i > k \/ DownAtRest(f[k], n)}
<1>2. 0 \in T
  <2>1. PICK b : b = f[0]
    OBVIOUS
  <2>2. b.d = data /\ b.i = 1
    BY <1>1, <2>1 DEF SiftsDown
  <2>3. Sinking(b, n)
    BY <2>2 DEF Sinking
  <2>4. QED
    BY <2>1, <2>2, <2>3
<1>3. ASSUME NEW k \in 0 .. n - 1, k \in T PROVE k + 1 \in T
  <2>1. PICK b \in Sifting(S, n) : b = f[k]
    BY <1>1
  <2>2. f[k + 1] = Sink(b) /\ k + 1 \in 0 .. n
    BY <1>1, <2>1 DEF SiftsDown
  <2>3. Sinking(b, n) /\ NodesOf(b.d, n) = NodesOf(data, n) /\ (b.i > k \/ DownAtRest(b, n))
    BY <1>3, <2>1
  <2>4. PICK c \in Sifting(S, n) : c = Sink(b)
    BY SinkKeeps
  <2>5. /\ Sinking(c, n) /\ NodesOf(c.d, n) = NodesOf(b.d, n)
        /\ \/ c = b /\ DownAtRest(b, n)
           \/ c.i > b.i /\ ~DownAtRest(b, n)
    BY <2>3, <2>4, SinkOrders
  <2>6. b.i \in Nat /\ c.i \in Nat
    BY DEF Sifting
  <2>7. c.i > k + 1 \/ DownAtRest(c, n)
    BY <2>3, <2>5, <2>6
  <2>8. QED
    BY <2>2, <2>3, <2>4, <2>5, <2>7
<1>4. n \in T
  <2>1. \A k \in 0 .. n : k \in T
    <3> HIDE DEF T
    <3>1. QED
      BY <1>2, <1>3, UpTo
  <2>2. QED
    BY <2>1
<1>5. PICK b \in Sifting(S, n) : b = f[n]
  BY <1>1
<1>6. b.i \in 1 .. n
  BY DEF Sifting
<1>7. Sinking(b, n) /\ NodesOf(b.d, n) = NodesOf(data, n) /\ DownAtRest(b, n)
  BY <1>4, <1>5, <1>6
<1>8. InOrder(b.d, n)
  BY <1>7 DEF Sinking, DownAtRest, InOrder
<1>9. SiftDown(data) = b.d
  BY <1>1, <1>5 DEF SiftsDown
<1>10. QED
  BY <1>7, <1>8, <1>9

\* A heap as min-heap.c keeps it, and what it holds.
Ordered(h) == InOrder(h.data, Len(h.data))
Held(h) == NodesOf(h.data, Len(h.data))

\* The node in front is before all others.
LEMMA FrontIsLeast ==
  ASSUME NEW S, HasKeys(S), NEW h \in HeapOf(S), Ordered(h), h.data # <<>>
  PROVE  PqMin(h) \in Held(h) /\ \A x \in Held(h) : PqMin(h).key <= x.key
<1>1. PICK d \in Seq(S), n \in Nat : d = h.data /\ n = Len(d)
  BY DEF HeapOf
<1>2. n # 0 /\ \A j \in 1 .. n : d[j].key \in Int
  BY <1>1 DEF HasKeys
<1>3. PqMin(h) = d[1] /\ Held(h) = NodesOf(d, n)
  BY <1>1 DEF PqMin, Held
<1>4. \A j \in 1 .. n : d[1].key <= d[j].key
  <2> DEFINE T == {j \in 1 .. n : ~(d[1].key <= d[j].key)}
  <2>1. SUFFICES ASSUME T # {} PROVE FALSE
    OBVIOUS
  <2>2. PICK j \in T : \A k \in T : j <= k
    <3>1. T \in SUBSET Nat
      OBVIOUS
    <3> HIDE DEF T
    <3>2. QED
      BY <2>1, <3>1, LeastNatural
  <2>3. j \in 2 .. n
    BY <1>2
  <2>4. PICK h2 \in 1 .. n : h2 = j \div 2 /\ h2 < j
    BY <2>3, Half
  <2>5. d[h2].key <= d[j].key
    BY <1>1, <2>3, <2>4 DEF Ordered, InOrder
  <2>6. h2 \notin T
    BY <2>2, <2>4
  <2>7. QED
    BY <1>2, <2>2, <2>4, <2>5, <2>6
<1>5. QED
  BY <1>2, <1>3, <1>4 DEF NodesOf

\* A push keeps the heap in order and what it holds, and adds the node, if it
\* has a key.
LEMMA PushOrders ==
  ASSUME NEW S, HasKeys(S), NEW h \in HeapOf(S), Ordered(h), NEW x \in S
  PROVE  Ordered(PqPush(h, x)) /\ Held(PqPush(h, x)) = Held(h) \cup {x}
<1>1. PICK d \in Seq(S), n \in Nat : d = h.data /\ n = Len(d)
  BY DEF HeapOf
<1>2. PICK m \in Nat \ {0} : m = n + 1
  OBVIOUS
<1>3. PICK data \in Seq(S) : data = Append(d, x) /\ Len(data) = m /\ \A i \in 1 .. n : data[i] = d[i]
  <2>1. PICK data : data = Append(d, x)
    OBVIOUS
  <2>2. data \in Seq(S) /\ Len(data) = m /\ \A i \in 1 .. n : data[i] = d[i]
    BY <1>1, <1>2, <2>1
  <2>3. QED
    BY <2>1, <2>2
<1>4. data[m] = x
  BY <1>1, <1>2, <1>3
<1>5. InOrder(data, m - 1)
  <2>1. ASSUME NEW j \in 2 .. m - 1 PROVE data[j \div 2].key <= data[j].key
    <3>1. j \in 2 .. n /\ j \in 1 .. n /\ j \div 2 \in 1 .. n
      BY <1>2, Half
    <3>2. d[j \div 2].key <= d[j].key
      BY <1>1, <3>1 DEF Ordered, InOrder
    <3>3. QED
      BY <1>3, <3>1, <3>2
  <2>2. QED
    BY <2>1 DEF InOrder
<1>6. PICK e : e = SiftUp(data)
  OBVIOUS
<1>7. InOrder(e, m) /\ NodesOf(e, m) = NodesOf(data, m) /\ Len(e) = m
  BY <1>3, <1>5, <1>6, SiftUpOrders, SiftUpKeeps
<1>8. PqPush(h, x).data = e
  BY <1>1, <1>3, <1>6 DEF PqPush
<1>9. NodesOf(data, m) = NodesOf(d, n) \cup {x}
  <2>1. \A j \in 1 .. m : data[j] \in NodesOf(d, n) \cup {x}
    BY <1>2, <1>3, <1>4 DEF NodesOf
  <2>2. x \in NodesOf(data, m)
    BY <1>2, <1>4 DEF NodesOf
  <2>3. \A j \in 1 .. n : d[j] \in NodesOf(data, m)
    BY <1>2, <1>3 DEF NodesOf
  <2>4. QED
    BY <2>1, <2>2, <2>3 DEF NodesOf
<1>10. QED
  BY <1>1, <1>7, <1>8, <1>9 DEF Ordered, Held

\* A pop keeps the heap in order and takes away the node in front.
LEMMA PopOrders ==
  ASSUME NEW S, HasKeys(S), NEW h \in HeapOf(S), Ordered(h), h.data # <<>>
  PROVE  Ordered(PqPop(h)) /\ Held(h) = Held(PqPop(h)) \cup {PqMin(h)}
<1>1. PICK d \in Seq(S), n \in Nat \ {0} : d = h.data /\ n = Len(d)
  BY DEF HeapOf
<1>2. PqMin(h) = d[1] /\ Held(h) = NodesOf(d, n)
  BY <1>1 DEF PqMin, Held
<1>3. CASE n = 1
  <2>1. PICK h2 : h2 = PqPop(h)
    OBVIOUS
  <2>2. h2.data = <<>>
    <3>1. Len(h.data) = 1
      BY <1>1, <1>3
    <3>2. PqPop(h) = [data |-> <<>>, capacity |-> h.capacity]
      BY <3>1, PopOne
    <3>3. QED
      BY <2>1, <3>2
  <2>3. Ordered(h2) /\ Held(h2) = {}
    BY <2>2 DEF Ordered, Held, InOrder, NodesOf
  <2>4. NodesOf(d, n) = {d[1]}
    BY <1>3 DEF NodesOf
  <2>5. QED
    BY <1>2, <2>1, <2>3, <2>4
<1>4. CASE n # 1
  <2>1. PICK m \in Nat \ {0} : n = m + 1
    <3>1. n - 1 \in Nat \ {0} /\ n = (n - 1) + 1
      BY <1>4
    <3>2. QED
      BY <3>1
  <2>2. PICK t \in Seq(S) : Popped(h, t, m)
    BY <1>1, <2>1, PopSifts
  <2>3. Len(t) = m /\ t[1] = d[n] /\ \A i \in 2 .. m : t[i] = d[i]
    BY <1>1, <2>1, <2>2 DEF Popped
  <2>4. \A j \in 2 .. m : j \div 2 # 1 => t[j \div 2].key <= t[j].key
    <3>1. SUFFICES ASSUME NEW j \in 2 .. m, j \div 2 # 1 PROVE t[j \div 2].key <= t[j].key
      OBVIOUS
    <3>2. j \div 2 \in 2 .. m /\ j \in 2 .. n
      BY <2>1, <3>1, Half
    <3>3. d[j \div 2].key <= d[j].key
      BY <1>1, <3>2 DEF Ordered, InOrder
    <3>4. QED
      BY <2>3, <3>2, <3>3
  <2>5. PICK e : e = SiftDown(t)
    OBVIOUS
  <2>6. InOrder(e, m) /\ NodesOf(e, m) = NodesOf(t, m) /\ Len(e) = m
    BY <2>3, <2>4, <2>5, SiftDownOrders, SiftDownKeeps
  <2>7. PICK h2 : h2 = PqPop(h)
    OBVIOUS
  <2>8. h2.data = e
    BY <2>2, <2>5, <2>7 DEF Popped
  <2>9. Ordered(h2) /\ Held(h2) = NodesOf(t, m)
    BY <2>6, <2>8 DEF Ordered, Held
  <2>10. NodesOf(d, n) = NodesOf(t, m) \cup {d[1]}
    <3>1. \A j \in 1 .. n : d[j] \in NodesOf(t, m) \cup {d[1]}
      <4>1. SUFFICES ASSUME NEW j \in 1 .. n, j # 1 PROVE d[j] \in NodesOf(t, m)
        OBVIOUS
      <4>2. CASE j = n
        BY <2>1, <2>3, <4>2 DEF NodesOf
      <4>3. CASE j # n
        <5>1. j \in 2 .. m /\ j \in 1 .. m
          BY <2>1, <4>1, <4>3
        <5>2. QED
          BY <2>3, <5>1 DEF NodesOf
      <4>4. QED
        BY <4>2, <4>3
    <3>2. \A j \in 1 .. m : t[j] \in NodesOf(d, n)
      <4>1. SUFFICES ASSUME NEW j \in 1 .. m PROVE t[j] \in NodesOf(d, n)
        OBVIOUS
      <4>2. j # 1 => j \in 2 .. m
        OBVIOUS
      <4>3. QED
        BY <2>1, <2>3, <4>2 DEF NodesOf
    <3>3. d[1] \in NodesOf(d, n)
      BY DEF NodesOf
    <3>4. QED
      BY <3>1, <3>2, <3>3 DEF NodesOf
  <2>11. QED
    BY <1>2, <2>7, <2>9, <2>10
<1>5. QED
  BY <1>3, <1>4

\* Nodes pushed in turn are held in the end, one for each cell not seen.
LEMMA PushAllOrders ==
  ASSUME NEW S, HasKeys(S), NEW h \in HeapOf(S), Ordered(h), NEW seen, NEW nodes, NEW m \in Nat, Len(nodes) = m,
         \A i \in 1 .. m : nodes[i].key = NaN \/ nodes[i].at \in seen \/ nodes[i] \in S,
         \A i, j \in 1 .. m : nodes[i].at = nodes[j].at => nodes[i] = nodes[j]
  PROVE  /\ Ordered(PushAll(h, seen, nodes)) /\ Held(h) \subseteq Held(PushAll(h, seen, nodes))
         /\ \A i \in 1 .. m : nodes[i].key # NaN /\ nodes[i].at \notin seen => nodes[i] \in Held(PushAll(h, seen, nodes))
<1>1. PICK f : PushesAll(f, h, seen, nodes, m) /\ \A k \in 0 .. m : f[k] \in HeapOf(S)
  BY PushAllTurns
<1> DEFINE Has(k, i) == nodes[i].key # NaN /\ nodes[i].at \notin seen => nodes[i] \in Held(f[k])
           T == {k \in 0 .. m : /\ Ordered(f[k]) /\ Held(h) \subseteq Held(f[k])
                                /\ \A i \in 1 .. k : Has(k, i)}
<1>2. 0 \in T
  BY <1>1 DEF PushesAll
<1>3. ASSUME NEW k \in 0 .. m - 1, k \in T PROVE k + 1 \in T
  <2>1. PICK b \in HeapOf(S) : b = f[k]
    BY <1>1
  <2>2. k + 1 \in 1 .. m /\ k + 1 \in 0 .. m /\ (k + 1) - 1 = k
    OBVIOUS
  <2>3. PICK x : x = nodes[k + 1]
    OBVIOUS
  <2>4. f[k + 1] = IF LeftOut(seen, nodes, k + 1) THEN b ELSE PqPush(b, x)
    BY <1>1, <2>1, <2>3 DEF PushesAll
  <2>5. /\ Ordered(b) /\ Held(h) \subseteq Held(b)
        /\ \A i \in 1 .. k : Has(k, i)
    BY <1>3, <2>1
  <2>6. CASE LeftOut(seen, nodes, k + 1)
    <3>1. f[k + 1] = f[k]
      BY <2>1, <2>4, <2>6
    <3>2. Has(k + 1, k + 1)
      <4>1. SUFFICES ASSUME x.key # NaN, x.at \notin seen PROVE x \in Held(f[k])
        BY <2>3, <3>1
      <4>2. PICK j \in 1 .. k : nodes[j].at = x.at
        BY <2>2, <2>3, <2>6, <4>1 DEF LeftOut
      <4>3. j \in 1 .. m
        OBVIOUS
      <4>4. nodes[j] = x
        BY <2>2, <2>3, <4>2, <4>3
      <4>5. QED
        BY <2>5, <4>1, <4>4
    <3>3. \A i \in 1 .. k + 1 : i = k + 1 \/ i \in 1 .. k
      OBVIOUS
    <3>4. QED
      BY <2>1, <2>2, <2>5, <3>1, <3>2, <3>3
  <2>7. CASE ~LeftOut(seen, nodes, k + 1)
    <3>1. x \in S
      BY <2>2, <2>3, <2>7 DEF LeftOut
    <3>2. PICK c : c = PqPush(b, x)
      OBVIOUS
    <3>3. Ordered(c) /\ Held(c) = Held(b) \cup {x}
      BY <2>5, <3>1, <3>2, PushOrders
    <3>4. f[k + 1] = c
      BY <2>4, <2>7, <3>2
    <3>5. \A i \in 1 .. k + 1 : i = k + 1 \/ i \in 1 .. k
      OBVIOUS
    <3>6. QED
      BY <2>1, <2>2, <2>3, <2>5, <3>3, <3>4, <3>5
  <2>8. QED
    BY <2>6, <2>7
<1>4. m \in T
  <2>1. \A k \in 0 .. m : k \in T
    <3> HIDE DEF T
    <3>1. QED
      BY <1>2, <1>3, UpTo
  <2>2. QED
    BY <2>1
<1>5. PushAll(h, seen, nodes) = f[m]
  BY <1>1 DEF PushesAll
<1>6. QED
  BY <1>4, <1>5

-----------------------------------------------------------------------------
(* What holds in every state, and the steps that keep it.                   *)

\* The phases in which the arrays are as they were computed.
Routed  == {"routed", "checked", "count", "done"}
Sloped  == {"route"} \cup Routed
Turned  == {"outward"} \cup Sloped
Typed   == {"gradients", "invert"} \cup Turned
Tagged  == {"type"} \cup Typed
Flooding == {"flood", "tag"} \cup Tagged
Early   == {"idle", "loaded", "tagged"}

\* The nodes of cells that were visited, with their elevations.
FloodNodes(seen, e) == {n \in [key : Int, at : Inside] : n.at \in seen /\ n.key # NaN /\ n.key = e[n.at]}

FloodTypes ==
  /\ phase \in Early \cup Flooding \cup {"aborted"}
  /\ raster \in Elevations /\ elevation \in Elevations
  /\ visited \in SUBSET Halo
  /\ pq \in HeapOf(FloodNodes(visited, elevation))
  /\ phase \in Early => pq = PqCreate

\* The cells of the patches there were keep their elevation; the flood came
\* to every other one from a cell that is not above it.
FloodFeeds ==
  /\ phase \in {"loaded", "tagged"} => elevation = raster
  /\ phase = "tagged" => visited = {p \in Halo : FlatTag(raster)[p] # NoTag}
  /\ phase \in Flooding =>
       /\ \A p \in Halo : FlatTag(raster)[p] # NoTag => p \in visited /\ elevation[p] = raster[p]
       /\ \A p \in visited : p \in Inside /\ ~OnBoundary(p) /\ elevation[p] # NaN => 
            \/ FlatTag(raster)[p] # NoTag
            \/ \E q \in Around(p) : /\ q \in Inside /\ q \in visited
                                    /\ elevation[q] # NaN /\ elevation[q] <= elevation[p]

\* The arrays are what the elevation makes them.
RoutesFollow ==
  /\ phase \in Tagged => tag = FlatTag(elevation) /\ stagnant = Stagnant(elevation, tag)
  /\ phase \in Typed => type = FlatType(tag, D8(elevation), InvDirs(D8(elevation)))
  /\ phase = "invert" => g1 = FromInlets(tag, type)
  /\ phase \in Turned => g1 = Inverted(tag, FromInlets(tag, type))
  /\ phase \in Sloped => g2 = FromOutlets(tag, type)
  /\ phase \in Routed => dir = Drains(elevation, tag, g1, g2) /\ invDir = InvDirs(dir)

FlowInv == FloodTypes /\ FloodFeeds /\ RoutesFollow

\* A heap of nodes of a set is one of any larger set.
LEMMA HeapsGrow ==
  ASSUME NEW S, NEW T, S \subseteq T, NEW h \in HeapOf(S)
  PROVE  h \in HeapOf(T)
<1>1. h.data \in Seq(S) /\ h.capacity \in Nat /\ h = [data |-> h.data, capacity |-> h.capacity]
  BY DEF HeapOf
<1>2. h.data \in Seq(T)
  BY <1>1, SeqMonotonic
<1>3. QED
  BY <1>1, <1>2 DEF HeapOf

\* A new heap is a heap of nodes of any set.
LEMMA EmptyHeap ==
  ASSUME NEW S
  PROVE  PqCreate \in HeapOf(S)
BY HeapPageAssumption DEF PqCreate, HeapOf

\* The invariant holds at the start, and each step of the call keeps it.
LEMMA FlowInitInv == Init => FlowInv
<1>1. SUFFICES ASSUME Init PROVE FlowInv
  OBVIOUS
<1>2. phase = "idle" /\ raster = NothingYet /\ elevation = NothingYet /\ visited = {} /\ pq = PqCreate
  BY <1>1 DEF Init, FloodInit
<1>3. NothingYet \in Elevations
  BY DEF NothingYet, Elevations
<1>4. FloodTypes
  BY <1>2, <1>3, EmptyHeap DEF FloodTypes, Early
<1>5. FloodFeeds /\ RoutesFollow
  BY <1>2 DEF FloodFeeds, RoutesFollow, Flooding, Tagged, Typed, Turned, Sloped, Routed
<1>6. QED
  BY <1>4, <1>5 DEF FlowInv

\* Steps that leave the flood alone.
LEMMA FloodKept ==
  ASSUME FlowInv, UNCHANGED floodVars, phase \in Flooding, phase' \in Flooding \cup {"aborted"}
  PROVE  FloodTypes' /\ FloodFeeds'
<1>1. raster' = raster /\ elevation' = elevation /\ visited' = visited /\ pq' = pq
  BY DEF floodVars
<1>2. phase' \notin Early /\ phase' \notin {"loaded", "tagged"} /\ phase' # "tagged"
  BY DEF Early, Flooding, Tagged, Typed, Turned, Sloped, Routed
<1>3. FloodTypes'
  BY <1>1, <1>2 DEF FlowInv, FloodTypes
<1>4. FloodFeeds'
  BY <1>1, <1>2 DEF FlowInv, FloodFeeds
<1>5. QED
  BY <1>3, <1>4

\* Copying the raster keeps the invariant.
LEMMA LoadKeeps == FlowInv /\ CopyRaster => FlowInv'
<1>1. SUFFICES ASSUME FlowInv, CopyRaster PROVE FlowInv'
  OBVIOUS
<1>2. /\ phase = "idle" /\ phase' = "loaded" /\ elevation' = raster' /\ visited' = visited /\ pq' = pq
      /\ raster' \in Rasters
  BY <1>1 DEF CopyRaster, Goes, Load
<1>3. raster' \in Elevations
  BY <1>2, RastersAssumption DEF Elevations
<1>4. pq = PqCreate /\ visited \in SUBSET Halo
  BY <1>1, <1>2 DEF FlowInv, FloodTypes, Early
<1>5. FloodTypes'
  <2>1. pq' \in HeapOf(FloodNodes(visited', elevation'))
    BY <1>2, <1>4, EmptyHeap
  <2>2. QED
    BY <1>2, <1>3, <1>4, <2>1 DEF FloodTypes, Early
<1>6. FloodFeeds' /\ RoutesFollow'
  BY <1>2 DEF FloodFeeds, RoutesFollow, Flooding, Tagged, Typed, Turned, Sloped, Routed
<1>7. QED
  BY <1>5, <1>6 DEF FlowInv

\* Marking the patches of equal elevation keeps the invariant.
LEMMA SkipKeeps == FlowInv /\ SkipFlats => FlowInv'
<1>1. SUFFICES ASSUME FlowInv, SkipFlats PROVE FlowInv'
  OBVIOUS
<1>2. /\ phase = "loaded" /\ phase' = "tagged"
      /\ elevation' = elevation /\ raster' = raster /\ pq' = pq
      /\ visited' = {p \in Halo : FlatTag(elevation)[p] # NoTag}
  BY <1>1 DEF SkipFlats, Goes, TagReservoirs
<1>3. pq = PqCreate /\ elevation = raster /\ raster \in Elevations
  BY <1>1, <1>2 DEF FlowInv, FloodTypes, FloodFeeds, Early
<1>4. FloodTypes'
  <2>1. pq' \in HeapOf(FloodNodes(visited', elevation'))
    BY <1>2, <1>3, EmptyHeap
  <2>2. visited' \in SUBSET Halo
    BY <1>2
  <2>3. QED
    BY <1>2, <1>3, <2>1, <2>2 DEF FloodTypes, Early
<1>5. FloodFeeds' /\ RoutesFollow'
  BY <1>2, <1>3 DEF FloodFeeds, RoutesFollow, Flooding, Tagged, Typed, Turned, Sloped, Routed
<1>6. QED
  BY <1>4, <1>5 DEF FlowInv

\* The cells of the boundary, in order.
LEMMA BoundaryCells ==
  \E n \in Nat : /\ DOMAIN BoundaryOrder = 1 .. n
                 /\ \A i \in 1 .. n : /\ BoundaryOrder[i] \in Inside
                                      /\ OnBoundary(BoundaryOrder[i])
<1> DEFINE sides == [i \in 1 .. 2 * Height |-> <<IF i % 2 = 1 THEN 0 ELSE Width - 1, (i - 1) \div 2>>]
           ends  == [i \in 1 .. 2 * Width |-> <<(i - 1) \div 2, IF i % 2 = 1 THEN 0 ELSE Height - 1>>]
           Rim   == {p \in Inside : OnBoundary(p)}
<1>1. \A m \in Nat \ {0} : \A i \in 1 .. 2 * m : (i - 1) \div 2 \in 0 .. m - 1
  OBVIOUS
<1>2. sides \in Seq(Rim) /\ ends \in Seq(Rim)
  <2>1. ASSUME NEW i \in 1 .. 2 * Height PROVE sides[i] \in Rim
    <3>1. (i - 1) \div 2 \in 0 .. Height - 1
      BY <1>1, RasterAssumption
    <3>2. sides[i] = <<IF i % 2 = 1 THEN 0 ELSE Width - 1, (i - 1) \div 2>>
      OBVIOUS
    <3>3. QED
      BY <3>1, <3>2, RasterAssumption DEF Inside, OnBoundary
  <2>2. ASSUME NEW i \in 1 .. 2 * Width PROVE ends[i] \in Rim
    <3>1. (i - 1) \div 2 \in 0 .. Width - 1
      BY <1>1, RasterAssumption
    <3>2. ends[i] = <<(i - 1) \div 2, IF i % 2 = 1 THEN 0 ELSE Height - 1>>
      OBVIOUS
    <3>3. QED
      BY <3>1, <3>2, RasterAssumption DEF Inside, OnBoundary
  <2>3. 2 * Height \in Nat /\ 2 * Width \in Nat
    BY RasterAssumption
  <2> HIDE DEF Rim
  <2>4. sides \in [1 .. 2 * Height -> Rim] /\ ends \in [1 .. 2 * Width -> Rim]
    BY <2>1, <2>2
  <2> HIDE DEF sides, ends
  <2>5. \A n \in Nat : \A f : f \in [1 .. n -> Rim] => f \in Seq(Rim)
    OBVIOUS
  <2>6. QED
    BY <2>3, <2>4, <2>5
<1> HIDE DEF sides, ends
<1>3. BoundaryOrder = sides \o ends
  BY DEF BoundaryOrder, sides, ends
<1>4. BoundaryOrder \in Seq(Rim)
  <2> HIDE DEF Rim
  <2>1. QED
    BY <1>2, <1>3, ConcatProperties
<1>5. DOMAIN BoundaryOrder = 1 .. Len(BoundaryOrder) /\ Len(BoundaryOrder) \in Nat
  <2> HIDE DEF Rim
  <2>1. QED
    BY <1>4, LenProperties
<1>6. \A i \in 1 .. Len(BoundaryOrder) : BoundaryOrder[i] \in Rim
  <2> HIDE DEF Rim
  <2>1. QED
    BY <1>4, ElementOfSeq
<1>7. QED
  BY <1>5, <1>6

\* Pushing the boundary keeps the invariant.
LEMMA StartKeeps == FlowInv /\ StartFlood => FlowInv'
<1>1. SUFFICES ASSUME FlowInv, StartFlood PROVE FlowInv'
  OBVIOUS
<1> DEFINE nodes == [i \in DOMAIN BoundaryOrder |->
                       [key |-> elevation[BoundaryOrder[i]], at |-> BoundaryOrder[i]]]
           S == FloodNodes(visited', elevation')
<1>2. /\ phase = "tagged" /\ phase' = "flood" /\ elevation' = elevation /\ raster' = raster
      /\ visited' = visited \cup {p \in Inside : OnBoundary(p)}
      /\ pq' = PushAll(PqCreate, visited, nodes)
  BY <1>1 DEF StartFlood, Goes, PushBoundary
<1>3. /\ elevation = raster /\ raster \in Elevations
      /\ visited = {p \in Halo : FlatTag(raster)[p] # NoTag}
  BY <1>1, <1>2 DEF FlowInv, FloodTypes, FloodFeeds
<1>4. pq' \in HeapOf(S)
  <2>1. PICK n \in Nat : /\ DOMAIN BoundaryOrder = 1 .. n
                         /\ \A i \in 1 .. n : BoundaryOrder[i] \in Inside /\ OnBoundary(BoundaryOrder[i])
    BY BoundaryCells
  <2>2. Len(nodes) = n
    BY <2>1
  <2>3. ASSUME NEW i \in 1 .. n PROVE nodes[i].key = NaN \/ nodes[i].at \in visited \/ nodes[i] \in S
    <3>1. PICK p \in Inside : p = BoundaryOrder[i] /\ OnBoundary(p)
      BY <2>1
    <3>2. nodes[i] = [key |-> elevation[p], at |-> p]
      BY <2>1, <3>1
    <3>3. elevation[p] # NaN => elevation[p] \in Int
      BY <1>3, <3>1, CellsFinite DEF Elevations
    <3>4. elevation[p] # NaN => [key |-> elevation[p], at |-> p] \in S
      BY <1>2, <3>1, <3>3 DEF FloodNodes
    <3>5. QED
      BY <3>2, <3>4
  <2>4. PqCreate \in HeapOf(S)
    BY EmptyHeap
  <2> HIDE DEF S, nodes
  <2>5. PushAll(PqCreate, visited, nodes) \in HeapOf(S)
    BY <2>2, <2>3, <2>4, PushAllKeeps
  <2>6. QED
    BY <1>2, <2>5
<1>5. FloodTypes'
  <2>1. visited' \in SUBSET Halo
    BY <1>2, <1>3, CellsFinite
  <2> HIDE DEF nodes
  <2>2. QED
    BY <1>2, <1>3, <1>4, <2>1 DEF FloodTypes, Early, Flooding
<1>6. FloodFeeds'
  <2>1. \A p \in Halo : FlatTag(raster')[p] # NoTag => p \in visited' /\ elevation'[p] = raster'[p]
    BY <1>2, <1>3
  <2>2. \A p \in visited' : p \in Inside /\ ~OnBoundary(p) => FlatTag(raster')[p] # NoTag
    BY <1>2, <1>3
  <2>3. QED
    BY <1>2, <2>1, <2>2 DEF FloodFeeds
<1>7. RoutesFollow'
  BY <1>2 DEF RoutesFollow, Tagged, Typed, Turned, Sloped, Routed
<1>8. QED
  BY <1>5, <1>6, <1>7 DEF FlowInv

\* Flooding from the node in front keeps the invariant: each cell it reaches
\* is fed from the popped one.
LEMMA FloodKeeps == FlowInv /\ Flood => FlowInv'
<1>1. SUFFICES ASSUME FlowInv, Flood PROVE FlowInv'
  OBVIOUS
<1> DEFINE low  == PqMin(pq)
           near == [c \in 1 .. 8 |-> Neighbor(low.at, c - 1)]
           shut == visited \cup (Halo \ Inside)
           filled(p) == IF elevation[p] # NaN /\ low.key > elevation[p] THEN low.key ELSE elevation[p]
           reached == Around(low.at) \ shut
           nodes == [c \in 1 .. 8 |-> [key |-> filled(near[c]), at |-> near[c]]]
           S == FloodNodes(visited', elevation')
<1>2. /\ phase = "flood" /\ phase' = "flood" /\ raster' = raster /\ pq.data # <<>>
      /\ visited' = visited \cup reached
      /\ elevation' = [p \in Halo |-> IF p \in reached THEN filled(p) ELSE elevation[p]]
      /\ pq' = PushAll(PqPop(pq), shut, nodes)
  BY <1>1 DEF Flood, Goes, FloodStep
<1>3. /\ raster \in Elevations /\ elevation \in Elevations /\ visited \in SUBSET Halo
      /\ pq \in HeapOf(FloodNodes(visited, elevation))
      /\ \A p \in Halo : FlatTag(raster)[p] # NoTag => p \in visited /\ elevation[p] = raster[p]
      /\ \A p \in visited : p \in Inside /\ ~OnBoundary(p) /\ elevation[p] # NaN =>
            \/ FlatTag(raster)[p] # NoTag
            \/ \E q \in Around(p) : /\ q \in Inside /\ q \in visited
                                    /\ elevation[q] # NaN /\ elevation[q] <= elevation[p]
  BY <1>1, <1>2 DEF FlowInv, FloodTypes, FloodFeeds, Flooding
<1>4. PqMin(pq) \in FloodNodes(visited, elevation) /\ PqPop(pq) \in HeapOf(FloodNodes(visited, elevation))
  BY <1>2, <1>3, PopKeeps
<1>5. low.at \in Inside /\ low.at \in visited /\ low.key \in Int /\ low.key # NaN /\ low.key = elevation[low.at]
  BY <1>4 DEF FloodNodes
<1> HIDE DEF low
<1>6. reached \subseteq Inside /\ reached \cap visited = {} /\ reached \subseteq Halo /\ Inside \subseteq Halo
  BY <1>5, InHalo, CellsFinite
<1>7. \A p \in Halo : filled(p) \in Int \cup {NaN} /\ (filled(p) # NaN => filled(p) \in Int)
  BY <1>3, <1>5 DEF Elevations
<1>8. elevation' \in Elevations
  BY <1>2, <1>3, <1>7 DEF Elevations
<1>9. \A p \in visited : elevation'[p] = elevation[p]
  BY <1>2, <1>3, <1>6
<1>10. \A p \in reached : elevation'[p] = filled(p)
  BY <1>2, <1>6
<1>11. FloodNodes(visited, elevation) \subseteq S
  BY <1>2, <1>9 DEF FloodNodes
<1>12. pq' \in HeapOf(S)
  <2>1. PqPop(pq) \in HeapOf(S)
    <3> HIDE DEF S
    <3>1. QED
      BY <1>4, <1>11, HeapsGrow
  <2>2. Len(nodes) = 8
    OBVIOUS
  <2>3. ASSUME NEW i \in 1 .. 8 PROVE nodes[i].key = NaN \/ nodes[i].at \in shut \/ nodes[i] \in S
    <3>1. PICK c \in Dirs : c = i - 1
      BY DEF Dirs
    <3>2. PICK p \in Halo : p = Neighbor(low.at, c) /\ p \in Around(low.at)
      BY <1>5, InHalo DEF Around
    <3>3. nodes[i] = [key |-> filled(p), at |-> p]
      BY <3>1, <3>2
    <3>4. ASSUME p \notin shut, filled(p) # NaN PROVE [key |-> filled(p), at |-> p] \in S
      <4>1. p \in reached
        BY <3>2, <3>4
      <4>2. p \in Inside /\ p \in visited' /\ elevation'[p] = filled(p) /\ filled(p) \in Int
        BY <1>2, <1>6, <1>7, <1>10, <3>2, <3>4, <4>1
      <4> HIDE DEF filled
      <4>3. QED
        BY <3>4, <4>2 DEF FloodNodes
    <3>5. nodes[i].key = filled(p) /\ nodes[i].at = p
      BY <3>3
    <3> HIDE DEF nodes, S, shut, filled
    <3>6. QED
      BY <3>3, <3>4, <3>5
  <2> HIDE DEF S, nodes, shut
  <2>4. PushAll(PqPop(pq), shut, nodes) \in HeapOf(S)
    BY <2>1, <2>2, <2>3, PushAllKeeps
  <2>5. QED
    BY <1>2, <2>4
<1>13. FloodTypes'
  <2>1. visited' \in SUBSET Halo
    BY <1>2, <1>3, <1>6
  <2> HIDE DEF nodes, shut, filled, reached
  <2>2. QED
    BY <1>2, <1>3, <1>8, <1>12, <2>1 DEF FloodTypes, Early, Flooding
<1>14. FloodFeeds'
  <2>1. \A p \in Halo : FlatTag(raster')[p] # NoTag => p \in visited' /\ elevation'[p] = raster'[p]
    BY <1>2, <1>3, <1>9
  <2>2. ASSUME NEW p \in visited', p \in Inside, ~OnBoundary(p), elevation'[p] # NaN
        PROVE  \/ FlatTag(raster')[p] # NoTag
               \/ \E q \in Around(p) : /\ q \in Inside /\ q \in visited'
                                       /\ elevation'[q] # NaN /\ elevation'[q] <= elevation'[p]
    <3>1. CASE p \in visited
      <4>1. elevation'[p] = elevation[p]
        BY <1>9, <3>1
      <4>2. \/ FlatTag(raster)[p] # NoTag
            \/ \E q \in Around(p) : /\ q \in Inside /\ q \in visited
                                    /\ elevation[q] # NaN /\ elevation[q] <= elevation[p]
        BY <1>3, <2>2, <3>1, <4>1
      <4>3. QED
        BY <1>2, <1>9, <4>1, <4>2
    <3>2. CASE p \in reached
      <4>1. low.at \in Around(p)
        BY <1>5, <3>2, InHalo, Neighbors
      <4>2. elevation'[low.at] = low.key
        BY <1>5, <1>9
      <4>3. elevation'[p] = filled(p) /\ p \in Halo
        BY <1>6, <1>10, <3>2
      <4>4. elevation[p] # NaN /\ elevation[p] \in Int
        BY <1>3, <1>5, <2>2, <4>3 DEF Elevations
      <4>5. low.key <= filled(p)
        BY <1>5, <4>4
      <4>6. low.at \in Inside /\ low.at \in visited'
        BY <1>2, <1>5
      <4>7. QED
        BY <1>5, <4>1, <4>2, <4>3, <4>5, <4>6
    <3>3. QED
      BY <1>2, <2>2, <3>1, <3>2
  <2>3. QED
    BY <1>2, <2>1, <2>2 DEF FloodFeeds
<1>15. RoutesFollow'
  BY <1>2 DEF RoutesFollow, Tagged, Typed, Turned, Sloped, Routed
<1>16. QED
  BY <1>13, <1>14, <1>15 DEF FlowInv

\* The steps that leave the flood alone: an array or two at a time.
LEMMA RouteKeeps ==
  FlowInv /\ (\/ EndFlood \/ TagFlats \/ TypeFlats \/ FindInward \/ Invert \/ FindOutward \/ Route
              \/ CheckDrains \/ Start \/ Count \/ EndCount)
  => FlowInv'
<1> USE DEF Goes, routeVars
<1>1. ASSUME FlowInv, EndFlood PROVE FlowInv'
  <2>1. phase = "flood" /\ phase' = "tag" /\ UNCHANGED floodVars
    BY <1>1 DEF EndFlood
  <2>2. FloodTypes' /\ FloodFeeds'
    BY <1>1, <2>1, FloodKept DEF Flooding
  <2>3. RoutesFollow'
    BY <2>1 DEF RoutesFollow, Tagged, Typed, Turned, Sloped, Routed
  <2>4. QED
    BY <2>2, <2>3 DEF FlowInv
<1>2. ASSUME FlowInv, TagFlats PROVE FlowInv'
  <2>1. /\ phase = "tag" /\ phase' = "type" /\ UNCHANGED floodVars /\ elevation' = elevation
        /\ tag' = FlatTag(elevation) /\ stagnant' = Stagnant(elevation, tag')
    BY <1>2 DEF TagFlats, floodVars
  <2>2. FloodTypes' /\ FloodFeeds'
    BY <1>2, <2>1, FloodKept DEF Flooding, Tagged
  <2>3. RoutesFollow'
    BY <2>1 DEF RoutesFollow, Tagged, Typed, Turned, Sloped, Routed
  <2>4. QED
    BY <2>2, <2>3 DEF FlowInv
<1>3. ASSUME FlowInv, TypeFlats PROVE FlowInv'
  <2>1. /\ phase = "type" /\ phase' = "gradients" /\ UNCHANGED floodVars /\ elevation' = elevation
        /\ tag' = tag /\ stagnant' = stagnant
        /\ type' = FlatType(tag, D8(elevation), InvDirs(D8(elevation)))
    BY <1>3 DEF TypeFlats, floodVars
  <2>2. FloodTypes' /\ FloodFeeds'
    BY <1>3, <2>1, FloodKept DEF Flooding, Tagged, Typed
  <2>3. RoutesFollow'
    BY <1>3, <2>1 DEF FlowInv, RoutesFollow, Tagged, Typed, Turned, Sloped, Routed
  <2>4. QED
    BY <2>2, <2>3 DEF FlowInv
<1>4. ASSUME FlowInv, FindInward PROVE FlowInv'
  <2>1. /\ phase = "gradients" /\ phase' = "invert" /\ UNCHANGED floodVars /\ elevation' = elevation
        /\ tag' = tag /\ stagnant' = stagnant /\ type' = type /\ g1' = FromInlets(tag, type)
    BY <1>4 DEF FindInward, floodVars
  <2>2. FloodTypes' /\ FloodFeeds'
    BY <1>4, <2>1, FloodKept DEF Flooding, Tagged, Typed
  <2>3. RoutesFollow'
    BY <1>4, <2>1 DEF FlowInv, RoutesFollow, Tagged, Typed, Turned, Sloped, Routed
  <2>4. QED
    BY <2>2, <2>3 DEF FlowInv
<1>5. ASSUME FlowInv, Invert PROVE FlowInv'
  <2>1. /\ phase = "invert" /\ phase' = "outward" /\ UNCHANGED floodVars /\ elevation' = elevation
        /\ tag' = tag /\ stagnant' = stagnant /\ type' = type /\ g1' = Inverted(tag, g1)
    BY <1>5 DEF Invert, floodVars
  <2>2. FloodTypes' /\ FloodFeeds'
    BY <1>5, <2>1, FloodKept DEF Flooding, Tagged, Typed, Turned
  <2>3. RoutesFollow'
    BY <1>5, <2>1 DEF FlowInv, RoutesFollow, Tagged, Typed, Turned, Sloped, Routed
  <2>4. QED
    BY <2>2, <2>3 DEF FlowInv
<1>6. ASSUME FlowInv, FindOutward PROVE FlowInv'
  <2>1. /\ phase = "outward" /\ phase' = "route" /\ UNCHANGED floodVars /\ elevation' = elevation
        /\ tag' = tag /\ stagnant' = stagnant /\ type' = type /\ g1' = g1 /\ g2' = FromOutlets(tag, type)
    BY <1>6 DEF FindOutward, floodVars
  <2>2. FloodTypes' /\ FloodFeeds'
    BY <1>6, <2>1, FloodKept DEF Flooding, Tagged, Typed, Turned, Sloped
  <2>3. RoutesFollow'
    BY <1>6, <2>1 DEF FlowInv, RoutesFollow, Tagged, Typed, Turned, Sloped, Routed
  <2>4. QED
    BY <2>2, <2>3 DEF FlowInv
<1>7. ASSUME FlowInv, Route PROVE FlowInv'
  <2>1. /\ phase = "route" /\ phase' = "routed" /\ UNCHANGED floodVars /\ elevation' = elevation
        /\ tag' = tag /\ stagnant' = stagnant /\ type' = type /\ g1' = g1 /\ g2' = g2
        /\ dir' = Drains(elevation, tag, g1, g2) /\ invDir' = InvDirs(dir')
    BY <1>7 DEF Route, floodVars
  <2>2. FloodTypes' /\ FloodFeeds'
    BY <1>7, <2>1, FloodKept DEF Flooding, Tagged, Typed, Turned, Sloped, Routed
  <2>3. RoutesFollow'
    BY <1>7, <2>1 DEF FlowInv, RoutesFollow, Tagged, Typed, Turned, Sloped, Routed
  <2>4. QED
    BY <2>2, <2>3 DEF FlowInv
<1>8. ASSUME FlowInv, CheckDrains \/ Start \/ Count \/ EndCount PROVE FlowInv'
  <2>1. /\ phase \in Routed /\ phase' \in Routed \cup {"aborted"} /\ UNCHANGED floodVars
        /\ elevation' = elevation /\ tag' = tag /\ stagnant' = stagnant /\ type' = type
        /\ g1' = g1 /\ g2' = g2 /\ dir' = dir /\ invDir' = invDir
    BY <1>8 DEF CheckDrains, Start, Count, EndCount, floodVars, Routed
  <2>2. FloodTypes' /\ FloodFeeds'
    BY <1>8, <2>1, FloodKept DEF Flooding, Tagged, Typed, Turned, Sloped
  <2>3. RoutesFollow'
    <3>1. /\ phase \in Tagged /\ phase \in Typed /\ phase \in Turned /\ phase \in Sloped
          /\ phase' # "invert"
      BY <2>1 DEF Tagged, Typed, Turned, Sloped, Routed
    <3>2. /\ tag = FlatTag(elevation) /\ stagnant = Stagnant(elevation, tag)
          /\ type = FlatType(tag, D8(elevation), InvDirs(D8(elevation)))
          /\ g1 = Inverted(tag, FromInlets(tag, type)) /\ g2 = FromOutlets(tag, type)
          /\ dir = Drains(elevation, tag, g1, g2) /\ invDir = InvDirs(dir)
      BY <1>8, <2>1, <3>1 DEF FlowInv, RoutesFollow
    <3>3. QED
      BY <2>1, <3>1, <3>2 DEF RoutesFollow
  <2>4. QED
    BY <2>2, <2>3 DEF FlowInv
<1>9. QED
  BY <1>1, <1>2, <1>3, <1>4, <1>5, <1>6, <1>7, <1>8

\* Freeing the arrays keeps the invariant.
LEMMA FreeKeeps == FlowInv /\ Free => FlowInv'
<1>1. SUFFICES ASSUME FlowInv, Free PROVE FlowInv'
  OBVIOUS
<1>2. phase' = "idle" /\ raster' = NothingYet /\ elevation' = NothingYet /\ visited' = {} /\ pq' = PqCreate
  BY <1>1 DEF Free, Goes
<1>3. NothingYet \in Elevations
  BY DEF NothingYet, Elevations
<1>4. FloodTypes'
  BY <1>2, <1>3, EmptyHeap DEF FloodTypes, Early
<1>5. FloodFeeds' /\ RoutesFollow'
  BY <1>2 DEF FloodFeeds, RoutesFollow, Flooding, Tagged, Typed, Turned, Sloped, Routed
<1>6. QED
  BY <1>4, <1>5 DEF FlowInv

\* Every step keeps the invariant.
LEMMA FlowStep == FlowInv /\ [Next]_vars => FlowInv'
<1>1. ASSUME FlowInv, UNCHANGED vars PROVE FlowInv'
  <2>1. UNCHANGED <<floodVars, routeVars, phase>>
    BY <1>1 DEF vars
  <2>2. QED
    BY <1>1, <2>1 DEF FlowInv, FloodTypes, FloodFeeds, RoutesFollow, floodVars, routeVars
<1>2. QED
  BY <1>1, LoadKeeps, SkipKeeps, StartKeeps, FloodKeeps, RouteKeeps, FreeKeeps DEF Next, Call

\* In every state of flow_network (), for every raster: the arrays have their
\* types, each is what the arrays before it make it, and every cell that the
\* flood came to off the boundary was fed from one that is not above it.
THEOREM FlowHolds == Spec => []FlowInv
BY FlowInitInv, FlowStep, PTL DEF Spec

\* Once the drains are there, the gradients are those they were made from.
LEMMA GradedWhenRouted ==
  ASSUME FlowInv, phase \in Routed
  PROVE  /\ Graded(elevation, tag, type, g1, g2)
         /\ elevation \in Elevations
         /\ dir = Drains(elevation, tag, g1, g2)
         /\ invDir = InvDirs(dir)
<1>1. phase \in Tagged /\ phase \in Typed /\ phase \in Turned /\ phase \in Sloped
  BY DEF Tagged, Typed, Turned, Sloped
<1>2. QED
  BY <1>1 DEF FlowInv, FloodTypes, RoutesFollow, Graded

\* Above () of the specification, for the drains as they are.
LEMMA AboveIsAboveBy ==
  ASSUME NEW p
  PROVE  Above(p) = AboveBy(dir, p)
BY DEF Above, AboveBy, Into

\* Drains that fall form a forest.
LEMMA ForestWhenRouted ==
  ASSUME FlowInv
  PROVE  DrainsFormForest
<1>1. SUFFICES ASSUME phase = "routed", NEW p \in Inside PROVE p \notin Above(p)
  BY DEF DrainsFormForest
<1>2. /\ Graded(elevation, tag, type, g1, g2) /\ elevation \in Elevations
      /\ dir = Drains(elevation, tag, g1, g2)
  BY <1>1, GradedWhenRouted DEF Routed
<1>3. \A r \in AboveBy(dir, p) : Under(elevation, g1, g2, p, r)
  BY <1>2, NoneAboveItself
<1>4. p \in Halo /\ ~Under(elevation, g1, g2, p, p)
  BY <1>2, UnderOrders, CellsFinite
<1>5. QED
  BY <1>3, <1>4, AboveIsAboveBy

\* The drains that D8 () and the fallback of Garbrecht_Martz () give form a
\* forest, for every raster: each leads down, by elevation or, on a flat, by
\* the sum of the two distances, so no walk along drains returns.
THEOREM NoWaterComesBack == Spec => []DrainsFormForest
BY FlowHolds, ForestWhenRouted, PTL

-----------------------------------------------------------------------------
(* The flood fills the raster to where it spills.                           *)

\* The cells that the flood goes through, those of them up to a level, and
\* those that it comes to from the boundary at that level.
Open(r) == {p \in Inside : r[p] # NaN /\ FlatTag(r)[p] = NoTag}
OpenUnder(r, l) == {p \in Open(r) : r[p] <= l}
Wet(r, l) == Reach({p \in Inside : OnBoundary(p)}, OpenUnder(r, l))

\* What is wet is open, connected step by step to the boundary, and nothing
\* else.
LEMMA WetCells ==
  ASSUME NEW r, NEW l
  PROVE  /\ Wet(r, l) \subseteq OpenUnder(r, l)
         /\ \A p \in OpenUnder(r, l) : OnBoundary(p) => p \in Wet(r, l)
         /\ \A q \in Wet(r, l) : \A p \in Around(q) : p \in OpenUnder(r, l) => p \in Wet(r, l)
         /\ \A T : (\A p \in OpenUnder(r, l) : OnBoundary(p) => p \in T)
                   /\ (\A q \in T \cap OpenUnder(r, l) : Around(q) \cap OpenUnder(r, l) \subseteq T)
                   => Wet(r, l) \subseteq T
<1>1. PICK rim : rim = {p \in Inside : OnBoundary(p)}
  OBVIOUS
<1>2. PICK U \in SUBSET Inside : U = OpenUnder(r, l)
  BY DEF OpenUnder, Open
<1>3. PICK W : W = Reach(rim, U)
  OBVIOUS
<1>4. /\ W \subseteq U /\ rim \cap U \subseteq W
      /\ \A q \in W : Around(q) \cap U \subseteq W
      /\ \A T : rim \cap U \subseteq T /\ (\A q \in T \cap U : Around(q) \cap U \subseteq T) => W \subseteq T
  BY <1>3, ReachSound
<1>5. Wet(r, l) = W
  BY <1>1, <1>2, <1>3 DEF Wet
<1>6. \A p \in U : OnBoundary(p) <=> p \in rim
  BY <1>1
<1>7. ASSUME NEW T, \A p \in U : OnBoundary(p) => p \in T, \A q \in T \cap U : Around(q) \cap U \subseteq T
      PROVE  W \subseteq T
  BY <1>4, <1>6, <1>7
<1>8. QED
  BY <1>2, <1>4, <1>5, <1>6, <1>7

\* What is wet at a level is wet at every higher one.
LEMMA WetterAbove ==
  ASSUME NEW r \in Elevations, NEW k \in Int, NEW l \in Int, k <= l
  PROVE  Wet(r, k) \subseteq Wet(r, l)
<1>1. \A p \in Open(r) : r[p] \in Int
  BY CellsFinite DEF Open, Elevations
<1>2. PICK V, W : V = OpenUnder(r, k) /\ W = OpenUnder(r, l)
  OBVIOUS
<1>3. V \subseteq W
  BY <1>1, <1>2 DEF OpenUnder
<1>4. \A p \in V : OnBoundary(p) => p \in Wet(r, l)
  BY <1>2, <1>3, WetCells
<1>5. \A q \in Wet(r, l) : Around(q) \cap V \subseteq Wet(r, l)
  BY <1>2, <1>3, WetCells
<1>6. QED
  BY <1>2, <1>4, <1>5, WetCells

\* The nodes of cells that the flood goes through.
OpenNodes(r, seen, e) == {n \in FloodNodes(seen, e) : n.at \in Open(r)}

\* The flood on its way, for the raster r: what it came to has the lowest level
\* at which it is wet, and what it has left behind has nothing open beside it.
Fills(r, e, seen, h) ==
  /\ \A p \in Inside : p \notin seen \/ p \notin Open(r) => e[p] = r[p]
  /\ \A p \in seen \cap Open(r) : /\ \E q \in Open(r) : e[p] = r[q]
                                  /\ p \in Wet(r, e[p])
  /\ \A p \in seen \cap Open(r) : \A l \in Int : p \in Wet(r, l) => e[p] <= l
  /\ \A p \in Open(r) : OnBoundary(p) => p \in seen
  /\ h \in HeapOf(OpenNodes(r, seen, e)) /\ Ordered(h)
  /\ \A p \in seen \cap Open(r) : \/ \E n \in Held(h) : n.at = p
                                  \/ Around(p) \cap Open(r) \subseteq seen

\* When nothing is left in the heap, a cell has the least level at which it is
\* wet, and keeps what it had if there is none.
LEMMA FillsInTheEnd ==
  ASSUME NEW r \in Elevations, NEW e, NEW seen, NEW h, Fills(r, e, seen, h), h.data = <<>>, NEW p \in Inside
  PROVE  /\ (\A l \in Int : p \notin Wet(r, l)) => e[p] = r[p]
         /\ \A l \in Int : p \in Wet(r, l) => /\ \E q \in Open(r) : e[p] = r[q]
                                              /\ p \in Wet(r, e[p])
                                              /\ \A k \in Int : p \in Wet(r, k) => e[p] <= k
<1>1. \A q \in Open(r) : r[q] \in Int
  BY CellsFinite DEF Open, Elevations
<1>2. Held(h) = {}
  BY DEF Held, NodesOf
<1>3. /\ \A q \in seen \cap Open(r) : Around(q) \cap Open(r) \subseteq seen
      /\ \A q \in Open(r) : OnBoundary(q) => q \in seen
  BY <1>2 DEF Fills
<1>4. ASSUME NEW l \in Int PROVE Wet(r, l) \subseteq seen \cap Open(r)
  <2>1. PICK U : U = OpenUnder(r, l)
    OBVIOUS
  <2>2. U \subseteq Open(r)
    BY <2>1 DEF OpenUnder
  <2>3. \A q \in U : OnBoundary(q) => q \in seen
    BY <1>3, <2>2
  <2>4. \A q \in seen \cap U : Around(q) \cap U \subseteq seen
    BY <1>3, <2>2
  <2>5. Wet(r, l) \subseteq seen /\ Wet(r, l) \subseteq U
    BY <2>1, <2>3, <2>4, WetCells
  <2>6. QED
    BY <2>2, <2>5
<1>5. ASSUME \A l \in Int : p \notin Wet(r, l) PROVE e[p] = r[p]
  <2>1. CASE p \in seen \cap Open(r)
    <3>1. PICK q \in Open(r) : e[p] = r[q]
      BY <2>1 DEF Fills
    <3>2. e[p] \in Int /\ p \in Wet(r, e[p])
      BY <1>1, <2>1, <3>1 DEF Fills
    <3>3. QED
      BY <1>5, <3>2
  <2>2. CASE p \notin seen \cap Open(r)
    BY <2>2 DEF Fills
  <2>3. QED
    BY <2>1, <2>2
<1>6. ASSUME NEW l \in Int, p \in Wet(r, l)
      PROVE  /\ \E q \in Open(r) : e[p] = r[q]
             /\ p \in Wet(r, e[p])
             /\ \A k \in Int : p \in Wet(r, k) => e[p] <= k
  <2>1. p \in seen \cap Open(r)
    BY <1>4, <1>6
  <2>2. QED
    BY <2>1 DEF Fills
<1>7. QED
  BY <1>5, <1>6

\* The two loops of the boundary come to every cell of it.
LEMMA BoundaryCovered ==
  ASSUME NEW p \in Inside, OnBoundary(p)
  PROVE  \E i \in DOMAIN BoundaryOrder : BoundaryOrder[i] = p
<1> DEFINE sides == [i \in 1 .. 2 * Height |-> <<IF i % 2 = 1 THEN 0 ELSE Width - 1, (i - 1) \div 2>>]
           ends  == [i \in 1 .. 2 * Width |-> <<(i - 1) \div 2, IF i % 2 = 1 THEN 0 ELSE Height - 1>>]
<1>1. PICK x \in 0 .. Width - 1, y \in 0 .. Height - 1 : p = <<x, y>>
  BY DEF Inside
<1>2. PICK s, t : s = sides /\ t = ends
  OBVIOUS
<1>3. PICK a \in Nat, b \in Nat : a = 2 * Height /\ b = 2 * Width
  BY RasterAssumption
<1>4. BoundaryOrder = s \o t
  BY <1>2 DEF BoundaryOrder
<1>5. s \in Seq(Int \X Int) /\ Len(s) = a /\ t \in Seq(Int \X Int) /\ Len(t) = b
  <2>1. \A i \in 1 .. a : s[i] \in Int \X Int
    BY <1>2, <1>3, RasterAssumption
  <2>2. \A i \in 1 .. b : t[i] \in Int \X Int
    BY <1>2, <1>3, RasterAssumption
  <2>3. s = [i \in 1 .. a |-> s[i]] /\ t = [i \in 1 .. b |-> t[i]]
    BY <1>2, <1>3
  <2>4. s \in [1 .. a -> Int \X Int] /\ t \in [1 .. b -> Int \X Int]
    BY <2>1, <2>2, <2>3
  <2> HIDE DEF sides, ends
  <2>5. QED
    BY <2>4
<1>6. /\ Len(s \o t) = a + b
      /\ \A i \in 1 .. a : (s \o t)[i] = s[i]
      /\ \A i \in 1 .. b : (s \o t)[a + i] = t[i]
  <2>1. /\ Len(s \o t) = a + b
        /\ \A i \in 1 .. a + b : (s \o t)[i] = IF i <= a THEN s[i] ELSE t[i - a]
    BY <1>5, ConcatProperties
  <2>2. \A i \in 1 .. b : a + i \in 1 .. a + b /\ ~(a + i <= a) /\ (a + i) - a = i
    OBVIOUS
  <2>3. \A i \in 1 .. a : i \in 1 .. a + b /\ i <= a
    OBVIOUS
  <2>4. QED
    BY <2>1, <2>2, <2>3
<1>7. \A i \in 1 .. a + b : i \in DOMAIN BoundaryOrder
  <2>1. s \o t \in Seq(Int \X Int)
    BY <1>5, ConcatProperties
  <2>2. DOMAIN (s \o t) = 1 .. a + b
    BY <1>6, <2>1, LenProperties
  <2>3. QED
    BY <1>4, <2>2
<1>8. \A n \in Nat : /\ (2 * n + 1) % 2 = 1 /\ ((2 * n + 1) - 1) \div 2 = n
                     /\ (2 * n + 2) % 2 = 0 /\ ((2 * n + 2) - 1) \div 2 = n
  OBVIOUS
<1>9. x = 0 \/ x = Width - 1 \/ y = 0 \/ y = Height - 1
  BY <1>1 DEF OnBoundary
<1>10. CASE x = 0 \/ x = Width - 1
  <2>1. 2 * y + 1 \in 1 .. a /\ 2 * y + 2 \in 1 .. a
    BY <1>3, RasterAssumption
  <2>2. s[2 * y + 1] = <<0, y>> /\ s[2 * y + 2] = <<Width - 1, y>>
    <3>1. \A i \in 1 .. a : s[i] = <<IF i % 2 = 1 THEN 0 ELSE Width - 1, (i - 1) \div 2>>
      BY <1>2, <1>3
    <3>2. QED
      BY <1>8, <2>1, <3>1
  <2>3. PICK i \in 1 .. a : s[i] = p
    BY <1>1, <1>10, <2>1, <2>2
  <2>4. i \in 1 .. a + b
    OBVIOUS
  <2>5. QED
    BY <1>4, <1>6, <1>7, <2>3, <2>4
<1>11. CASE y = 0 \/ y = Height - 1
  <2>1. 2 * x + 1 \in 1 .. b /\ 2 * x + 2 \in 1 .. b
    BY <1>3, RasterAssumption
  <2>2. t[2 * x + 1] = <<x, 0>> /\ t[2 * x + 2] = <<x, Height - 1>>
    <3>1. \A i \in 1 .. b : t[i] = <<(i - 1) \div 2, IF i % 2 = 1 THEN 0 ELSE Height - 1>>
      BY <1>2, <1>3
    <3>2. QED
      BY <1>8, <2>1, <3>1
  <2>3. PICK i \in 1 .. b : t[i] = p
    BY <1>1, <1>11, <2>1, <2>2
  <2>4. a + i \in 1 .. a + b
    OBVIOUS
  <2>5. QED
    BY <1>4, <1>6, <1>7, <2>3, <2>4
<1>12. QED
  BY <1>9, <1>10, <1>11

\* A heap of nodes of a set holds nodes of that set.
LEMMA HeldIn ==
  ASSUME NEW S, NEW h \in HeapOf(S)
  PROVE  Held(h) \subseteq S
BY DEF Held, NodesOf, HeapOf

\* Open cells have elevations.
LEMMA OpenNodesHaveKeys ==
  ASSUME NEW r, NEW seen, NEW e
  PROVE  HasKeys(OpenNodes(r, seen, e))
BY DEF HasKeys, OpenNodes, FloodNodes

\* The boundary floods to its own elevations.
LEMMA StartFills ==
  ASSUME FlowInv, StartFlood
  PROVE  Fills(raster', elevation', visited', pq')
<1>1. /\ phase = "tagged" /\ elevation' = elevation /\ raster' = raster
      /\ visited' = visited \cup {p \in Inside : OnBoundary(p)}
      /\ pq' = PushAll(PqCreate, visited, [i \in DOMAIN BoundaryOrder |->
                       [key |-> elevation[BoundaryOrder[i]], at |-> BoundaryOrder[i]]])
  BY DEF StartFlood, Goes, PushBoundary
<1>2. /\ elevation = raster /\ raster \in Elevations
      /\ visited = {p \in Halo : FlatTag(raster)[p] # NoTag}
  BY <1>1 DEF FlowInv, FloodTypes, FloodFeeds
<1>3. PICK r \in Elevations, v \in {visited'} : r = raster /\ v = visited'
  BY <1>2
<1>4. v = visited \cup {p \in Inside : OnBoundary(p)}
  BY <1>1, <1>3
<1>5. \A p \in Open(r) : /\ p \in Inside /\ p \in Halo /\ p \notin visited /\ r[p] \in Int /\ r[p] # NaN
                         /\ p \in v <=> OnBoundary(p)
  BY <1>2, <1>3, <1>4, CellsFinite DEF Open, Elevations
<1> DEFINE S == OpenNodes(r, v, r)
<1>6. PICK nodes : nodes = [i \in DOMAIN BoundaryOrder |-> [key |-> r[BoundaryOrder[i]], at |-> BoundaryOrder[i]]]
  OBVIOUS
<1>7. PICK n \in Nat : /\ DOMAIN BoundaryOrder = 1 .. n
                       /\ \A i \in 1 .. n : BoundaryOrder[i] \in Inside /\ OnBoundary(BoundaryOrder[i])
  BY BoundaryCells
<1>8. /\ Len(nodes) = n
      /\ \A i \in 1 .. n : nodes[i] = [key |-> r[BoundaryOrder[i]], at |-> BoundaryOrder[i]]
  BY <1>6, <1>7
<1>9. ASSUME NEW i \in 1 .. n PROVE nodes[i].key = NaN \/ nodes[i].at \in visited \/ nodes[i] \in S
  <2>1. PICK p \in Inside : p = BoundaryOrder[i] /\ OnBoundary(p)
    BY <1>7
  <2>2. nodes[i] = [key |-> r[p], at |-> p]
    BY <1>8, <2>1
  <2>3. ASSUME r[p] # NaN, p \notin visited PROVE [key |-> r[p], at |-> p] \in S
    <3>1. p \in Halo
      BY CellsFinite
    <3>2. p \in Open(r) /\ p \in v /\ r[p] \in Int
      BY <1>2, <1>3, <1>4, <2>1, <2>3, <3>1 DEF Open, Elevations
    <3>3. QED
      BY <2>3, <3>2 DEF OpenNodes, FloodNodes
  <2>4. nodes[i].key = r[p] /\ nodes[i].at = p
    BY <2>2
  <2> HIDE DEF S
  <2>5. QED
    BY <2>2, <2>3, <2>4
<1>10. \A i, j \in 1 .. n : nodes[i].at = nodes[j].at => nodes[i] = nodes[j]
  BY <1>8
<1>11. PqCreate \in HeapOf(S) /\ Ordered(PqCreate)
  <2>1. Ordered(PqCreate)
    BY DEF Ordered, InOrder, PqCreate
  <2> HIDE DEF S
  <2>2. QED
    BY <2>1, EmptyHeap
<1>12. HasKeys(S)
  BY OpenNodesHaveKeys
<1>13. PICK h : h = PushAll(PqCreate, visited, nodes)
  OBVIOUS
<1> HIDE DEF S
<1>14. h \in HeapOf(S)
  BY <1>8, <1>9, <1>11, <1>13, PushAllKeeps
<1>15. /\ Ordered(h)
       /\ \A i \in 1 .. n : nodes[i].key # NaN /\ nodes[i].at \notin visited => nodes[i] \in Held(h)
  BY <1>8, <1>9, <1>10, <1>11, <1>12, <1>13, PushAllOrders
<1>16. ASSUME NEW p \in v \cap Open(r) PROVE /\ p \in Wet(r, r[p])
                                             /\ \A l \in Int : p \in Wet(r, l) => r[p] <= l
  <2>1. p \in OpenUnder(r, r[p]) /\ OnBoundary(p)
    BY <1>5 DEF OpenUnder
  <2>2. \A l \in Int : Wet(r, l) \subseteq OpenUnder(r, l)
    BY WetCells
  <2>3. QED
    BY <2>1, <2>2, WetCells DEF OpenUnder
<1>17. ASSUME NEW p \in v \cap Open(r) PROVE \E x \in Held(h) : x.at = p
  <2>1. PICK i \in 1 .. n : BoundaryOrder[i] = p
    BY <1>5, <1>7, BoundaryCovered
  <2>2. nodes[i] = [key |-> r[p], at |-> p]
    BY <1>8, <2>1
  <2>3. nodes[i] \in Held(h) /\ nodes[i].at = p
    BY <1>5, <1>15, <2>2
  <2>4. QED
    BY <2>3
<1>18. Fills(r, r, v, h)
  BY <1>5, <1>14, <1>15, <1>16, <1>17 DEF Fills, S
<1>19. raster' = r /\ elevation' = r /\ pq' = h
  BY <1>1, <1>2, <1>3, <1>6, <1>13
<1>20. QED
  BY <1>3, <1>18, <1>19

\* Below the level of the node in front everything wet has been seen.
LEMMA WetIsSeen ==
  ASSUME NEW r \in Elevations, NEW e, NEW seen, NEW h, Fills(r, e, seen, h), h.data # <<>>,
         NEW l \in Int, l < PqMin(h).key
  PROVE  Wet(r, l) \subseteq seen
<1>1. PICK S : S = OpenNodes(r, seen, e)
  OBVIOUS
<1>2. HasKeys(S) /\ h \in HeapOf(S) /\ Ordered(h)
  BY <1>1, OpenNodesHaveKeys DEF Fills
<1>3. PqMin(h) \in Held(h) /\ \A x \in Held(h) : PqMin(h).key <= x.key
  BY <1>2, FrontIsLeast
<1>4. \A x \in Held(h) : x.key \in Int /\ x.key = e[x.at]
  BY <1>1, <1>2, HeldIn DEF OpenNodes, FloodNodes
<1>5. \A q \in seen \cap Open(r) : q \in Wet(r, l) => Around(q) \cap Open(r) \subseteq seen
  <2>1. SUFFICES ASSUME NEW q \in seen \cap Open(r), q \in Wet(r, l), NEW x \in Held(h), x.at = q PROVE FALSE
    BY DEF Fills
  <2>2. e[q] <= l
    BY <2>1 DEF Fills
  <2>3. QED
    BY <1>3, <1>4, <2>1, <2>2
<1>6. PICK U : U = OpenUnder(r, l)
  OBVIOUS
<1>7. PICK T : T = seen \cap Wet(r, l)
  OBVIOUS
<1>8. U \subseteq Open(r)
  BY <1>6 DEF OpenUnder
<1>9. \A p \in U : OnBoundary(p) => p \in T
  BY <1>6, <1>7, <1>8, WetCells DEF Fills
<1>10. \A q \in T \cap U : Around(q) \cap U \subseteq T
  BY <1>5, <1>6, <1>7, <1>8, WetCells
<1>11. QED
  BY <1>6, <1>7, <1>9, <1>10, WetCells

\* A cell is lowered from the heap, and its neighbours get the level of it or
\* their own.
LEMMA FloodFills ==
  ASSUME FlowInv, Flood, Fills(raster, elevation, visited, pq)
  PROVE  Fills(raster', elevation', visited', pq')
<1>1. PICK r \in Elevations, e \in Elevations, v \in SUBSET Halo, h \in {pq} : r = raster /\ e = elevation /\ v = visited /\ h = pq
  BY DEF FlowInv, FloodTypes
<1>2. PICK low : low = PqMin(h)
  OBVIOUS
<1> DEFINE filled(p) == IF e[p] # NaN /\ low.key > e[p] THEN low.key ELSE e[p]
<1>3. PICK shut, reached : shut = v \cup (Halo \ Inside) /\ reached = Around(low.at) \ shut
  OBVIOUS
<1>4. PICK nodes : nodes = [i \in 1 .. 8 |-> [key |-> filled(Neighbor(low.at, i - 1)), at |-> Neighbor(low.at, i - 1)]]
  OBVIOUS
<1>5. PICK e2, v2, h2 : /\ e2 = [p \in Halo |-> IF p \in reached THEN filled(p) ELSE e[p]]
                        /\ v2 = v \cup reached
                        /\ h2 = PushAll(PqPop(h), shut, nodes)
  OBVIOUS
<1>6. phase = "flood" /\ h.data # <<>> /\ raster' = r /\ elevation' = e2 /\ visited' = v2 /\ pq' = h2
  <2>1. /\ phase = "flood" /\ raster' = raster /\ pq.data # <<>>
        /\ visited' = visited \cup (Around(PqMin(pq).at) \ (visited \cup (Halo \ Inside)))
    BY DEF Flood, Goes, FloodStep
  <2>2. elevation' = e2
    BY <1>1, <1>2, <1>3, <1>5 DEF Flood, FloodStep
  <2>3. pq' = h2
    <3>1. [c \in 1 .. 8 |-> [key |-> filled([i \in 1 .. 8 |-> Neighbor(low.at, i - 1)][c]),
                            at |-> [i \in 1 .. 8 |-> Neighbor(low.at, i - 1)][c]]] = nodes
      BY <1>4
    <3>2. QED
      BY <1>1, <1>2, <1>3, <1>5, <3>1 DEF Flood, FloodStep
  <2>4. QED
    BY <1>1, <1>2, <1>3, <1>5, <2>1, <2>2, <2>3
<1>7. Fills(r, e, v, h)
  BY <1>1
<1>8. PICK S : S = OpenNodes(r, v, e)
  OBVIOUS
<1>9. h \in HeapOf(S) /\ Ordered(h) /\ HasKeys(S)
  BY <1>7, <1>8, OpenNodesHaveKeys DEF Fills
<1>10. low \in Held(h) /\ \A x \in Held(h) : low.key <= x.key
  BY <1>2, <1>6, <1>9, FrontIsLeast
<1>11. \A x \in Held(h) : x.key \in Int /\ x.key = e[x.at] /\ x.at \in v /\ x.at \in Open(r)
                         /\ x = [key |-> x.key, at |-> x.at]
  BY <1>8, <1>9, HeldIn DEF OpenNodes, FloodNodes
<1>12. PICK c \in Open(r), k \in Int : c = low.at /\ k = low.key /\ c \in v /\ e[c] = k
  BY <1>10, <1>11
<1>13. c \in Inside /\ Around(c) \subseteq Halo
  BY <1>12, InHalo DEF Open
<1>14. /\ reached \subseteq Inside /\ reached \subseteq Halo /\ reached \cap v = {} /\ reached \subseteq Around(c)
       /\ \A p \in Around(c) : p \in Inside => p \in v2
  BY <1>3, <1>5, <1>12, <1>13
<1>15. \A p \in Halo : FlatTag(r)[p] # NoTag => p \in v
  BY <1>1, <1>6 DEF FlowInv, FloodFeeds, Flooding
<1>16. \A p \in reached : e[p] = r[p] /\ (p \in Open(r) <=> r[p] # NaN)
  BY <1>7, <1>14, <1>15 DEF Fills, Open
<1>17. \A p \in Inside : r[p] \in Int \/ r[p] = NaN
  BY CellsFinite DEF Elevations
<1>18. \A p \in Inside : p \notin reached => e2[p] = e[p]
  BY <1>5, CellsFinite
<1>19. \A p \in reached : /\ r[p] = NaN => e2[p] = NaN
                          /\ p \in Open(r) => /\ e2[p] \in Int /\ k <= e2[p] /\ r[p] <= e2[p]
                                              /\ e2[p] = k \/ e2[p] = r[p]
                                              /\ e2[p] # NaN
  <2>1. SUFFICES ASSUME NEW p \in reached
                 PROVE  /\ r[p] = NaN => e2[p] = NaN
                        /\ p \in Open(r) => /\ e2[p] \in Int /\ k <= e2[p] /\ r[p] <= e2[p]
                                            /\ e2[p] = k \/ e2[p] = r[p]
                                            /\ e2[p] # NaN
    OBVIOUS
  <2>2. e2[p] = IF r[p] # NaN /\ k > r[p] THEN k ELSE r[p]
    BY <1>5, <1>12, <1>14, <1>16
  <2>3. r[p] \in Int \/ r[p] = NaN
    BY <1>14, <1>17
  <2>4. k # NaN
    <3>1. low \in FloodNodes(v, e)
      BY <1>8, <1>9, <1>10, HeldIn DEF OpenNodes
    <3>2. QED
      BY <1>12, <3>1 DEF FloodNodes
  <2>5. QED
    BY <1>16, <2>2, <2>3, <2>4
<1> HIDE DEF filled
<1>20. \A p \in Inside : p \notin v2 \/ p \notin Open(r) => e2[p] = r[p]
  <2>1. SUFFICES ASSUME NEW p \in Inside, p \notin v2 \/ p \notin Open(r) PROVE e2[p] = r[p]
    OBVIOUS
  <2>2. CASE p \in reached
    BY <1>5, <1>16, <1>19, <2>1, <2>2
  <2>3. CASE p \notin reached
    BY <1>5, <1>7, <1>18, <2>1, <2>3 DEF Fills
  <2>4. QED
    BY <2>2, <2>3
<1>21. ASSUME NEW p \in v2 \cap Open(r)
       PROVE  /\ \E q \in Open(r) : e2[p] = r[q]
              /\ p \in Wet(r, e2[p])
              /\ \A l \in Int : p \in Wet(r, l) => e2[p] <= l
  <2>1. CASE p \in reached
    <3>1. /\ e2[p] \in Int /\ k <= e2[p] /\ r[p] <= e2[p]
          /\ e2[p] = k \/ e2[p] = r[p]
      BY <1>19, <1>21, <2>1
    <3>2. \E q \in Open(r) : e2[p] = r[q]
      <4>1. PICK q \in Open(r) : e[c] = r[q]
        BY <1>7, <1>12 DEF Fills
      <4>2. QED
        BY <1>12, <1>21, <3>1, <4>1
    <3>3. p \in Wet(r, e2[p])
      <4>1. c \in Wet(r, k)
        BY <1>7, <1>12 DEF Fills
      <4>2. c \in Wet(r, e2[p])
        BY <3>1, <4>1, WetterAbove
      <4>3. p \in OpenUnder(r, e2[p]) /\ p \in Around(c)
        BY <1>14, <1>21, <2>1, <3>1 DEF OpenUnder
      <4>4. QED
        BY <4>2, <4>3, WetCells
    <3>4. ASSUME NEW l \in Int, p \in Wet(r, l) PROVE e2[p] <= l
      <4>1. r[p] <= l
        BY <3>4, WetCells DEF OpenUnder
      <4>2. ~(l < k)
        <5>1. SUFFICES ASSUME l < k PROVE FALSE
          OBVIOUS
        <5>2. Wet(r, l) \subseteq v
          BY <1>2, <1>6, <1>7, <1>12, <5>1, WetIsSeen
        <5>3. QED
          BY <1>14, <2>1, <3>4, <5>2
      <4>3. QED
        BY <1>12, <3>1, <4>1, <4>2
    <3>5. QED
      BY <3>2, <3>3, <3>4
  <2>2. CASE p \notin reached
    <3>1. p \in v \cap Open(r) /\ e2[p] = e[p]
      BY <1>5, <1>18, <1>21, <2>2 DEF Open
    <3>2. QED
      BY <1>7, <3>1 DEF Fills
  <2>3. QED
    BY <2>1, <2>2
<1>22. PICK S2 : S2 = OpenNodes(r, v2, e2)
  OBVIOUS
<1>23. HasKeys(S2) /\ S \subseteq S2
  <2>1. \A p \in v : p \in Inside => e2[p] = e[p]
    BY <1>14, <1>18
  <2>2. FloodNodes(v, e) \subseteq FloodNodes(v2, e2)
    BY <1>5, <2>1 DEF FloodNodes
  <2>3. QED
    BY <1>8, <1>22, <2>2, OpenNodesHaveKeys DEF OpenNodes
<1>24. PICK h1 : h1 = PqPop(h)
  OBVIOUS
<1>25. Ordered(h1) /\ Held(h) = Held(h1) \cup {low} /\ h1 \in HeapOf(S2)
  <2>1. h1 \in HeapOf(S)
    BY <1>6, <1>9, <1>24, PopKeeps
  <2>2. QED
    BY <1>2, <1>6, <1>9, <1>23, <1>24, <2>1, PopOrders, HeapsGrow
<1>26. Len(nodes) = 8 /\ \A i \in 1 .. 8 : nodes[i] = [key |-> filled(Neighbor(c, i - 1)), at |-> Neighbor(c, i - 1)]
  BY <1>4, <1>12
<1>27. \A p \in reached : e2[p] = filled(p)
  BY <1>5, <1>14
<1>28. ASSUME NEW i \in 1 .. 8 PROVE nodes[i].key = NaN \/ nodes[i].at \in shut \/ nodes[i] \in S2
  <2>1. PICK d \in Dirs : d = i - 1
    BY DEF Dirs
  <2>2. PICK p \in Around(c) : p = Neighbor(c, d)
    BY DEF Around
  <2>3. nodes[i] = [key |-> filled(p), at |-> p]
    BY <1>26, <2>1, <2>2
  <2>4. ASSUME p \notin shut, filled(p) # NaN PROVE [key |-> filled(p), at |-> p] \in S2
    <3>1. p \in reached
      BY <1>3, <1>12, <2>2, <2>4
    <3>2. p \in Open(r) /\ p \in Inside /\ p \in v2
      BY <1>5, <1>14, <1>16, <1>19, <1>27, <2>4, <3>1
    <3>3. e2[p] = filled(p) /\ e2[p] \in Int
      BY <1>19, <1>27, <3>1, <3>2
    <3>4. QED
      BY <1>22, <2>4, <3>2, <3>3 DEF OpenNodes, FloodNodes
  <2>5. nodes[i].key = filled(p) /\ nodes[i].at = p
    BY <2>3
  <2>6. QED
    BY <2>3, <2>4, <2>5
<1>29. \A i, j \in 1 .. 8 : nodes[i].at = nodes[j].at => nodes[i] = nodes[j]
  BY <1>26
<1>30. h2 \in HeapOf(S2)
  BY <1>5, <1>24, <1>25, <1>26, <1>28, PushAllKeeps
<1>31. /\ Ordered(h2) /\ Held(h1) \subseteq Held(h2)
       /\ \A i \in 1 .. 8 : nodes[i].key # NaN /\ nodes[i].at \notin shut => nodes[i] \in Held(h2)
  <2>1. PICK m \in Nat : m = 8
    OBVIOUS
  <2>2. /\ Len(nodes) = m
        /\ \A i \in 1 .. m : nodes[i].key = NaN \/ nodes[i].at \in shut \/ nodes[i] \in S2
        /\ \A i, j \in 1 .. m : nodes[i].at = nodes[j].at => nodes[i] = nodes[j]
    BY <1>26, <1>28, <1>29, <2>1
  <2>3. h2 = PushAll(h1, shut, nodes)
    BY <1>5, <1>24
  <2>4. /\ Ordered(PushAll(h1, shut, nodes)) /\ Held(h1) \subseteq Held(PushAll(h1, shut, nodes))
        /\ \A i \in 1 .. m : nodes[i].key # NaN /\ nodes[i].at \notin shut => nodes[i] \in Held(PushAll(h1, shut, nodes))
    BY <1>23, <1>25, <2>2, PushAllOrders
  <2>5. QED
    BY <2>1, <2>3, <2>4
<1>32. ASSUME NEW p \in v2 \cap Open(r)
       PROVE  (\E x \in Held(h2) : x.at = p) \/ Around(p) \cap Open(r) \subseteq v2
  <2>1. CASE p \in reached
    <3>1. PICK d \in Dirs : p = Neighbor(c, d)
      BY <1>14, <2>1 DEF Around
    <3>2. PICK i \in 1 .. 8 : d = i - 1
      <4>1. d + 1 \in 1 .. 8 /\ d = (d + 1) - 1
        BY DEF Dirs
      <4>2. QED
        BY <4>1
    <3>3. nodes[i] = [key |-> filled(p), at |-> p]
      BY <1>26, <3>1, <3>2
    <3>4. filled(p) # NaN /\ p \notin shut
      BY <1>3, <1>19, <1>27, <1>32, <2>1
    <3>5. nodes[i] \in Held(h2) /\ nodes[i].at = p
      BY <1>31, <3>3, <3>4
    <3>6. QED
      BY <3>5
  <2>2. CASE p = c
    BY <1>14, <2>2 DEF Open
  <2>3. CASE p \notin reached /\ p # c
    <3>1. p \in v \cap Open(r)
      BY <1>5, <1>32, <2>3
    <3>2. CASE \E x \in Held(h) : x.at = p
      <4>1. PICK x \in Held(h) : x.at = p
        BY <3>2
      <4>2. x \in Held(h1)
        BY <1>12, <1>25, <2>3, <4>1
      <4>3. QED
        BY <1>31, <4>1, <4>2
    <3>3. CASE Around(p) \cap Open(r) \subseteq v
      BY <1>5, <3>3
    <3>4. QED
      BY <1>7, <3>1, <3>2, <3>3 DEF Fills
  <2>4. QED
    BY <2>1, <2>2, <2>3
<1>33. \A p \in Open(r) : OnBoundary(p) => p \in v2
  BY <1>5, <1>7 DEF Fills
<1>34. Fills(r, e2, v2, h2)
  BY <1>20, <1>21, <1>22, <1>30, <1>31, <1>32, <1>33 DEF Fills
<1>35. QED
  BY <1>6, <1>34

-----------------------------------------------------------------------------
\* The flood from its beginning to its end.
SpillInv ==
  /\ FlowInv
  /\ phase \in {"flood", "tag"} => Fills(raster, elevation, visited, pq)
  /\ phase = "tag" => pq.data = <<>>

\* Every step of the call keeps that.
LEMMA SpillStep == SpillInv /\ [Next]_vars => SpillInv'
<1> USE DEF Goes
<1>1. SUFFICES ASSUME SpillInv, [Next]_vars PROVE SpillInv'
  OBVIOUS
<1>2. FlowInv /\ FlowInv'
  BY <1>1, FlowStep DEF SpillInv
<1>3. CASE UNCHANGED vars
  <2>1. UNCHANGED <<phase, raster, elevation, visited, pq>>
    BY <1>3 DEF vars, floodVars
  <2>2. QED
    BY <1>1, <1>2, <2>1 DEF SpillInv
<1>4. CASE CopyRaster \/ SkipFlats \/ TagFlats \/ TypeFlats \/ FindInward \/ Invert \/ FindOutward \/ Route
           \/ CheckDrains \/ Start \/ Count \/ EndCount \/ Free
  <2>1. phase' \notin {"flood", "tag"}
    <3>1. CASE CopyRaster \/ SkipFlats \/ TagFlats \/ TypeFlats \/ FindInward \/ Invert \/ FindOutward \/ Route
      BY <3>1 DEF CopyRaster, SkipFlats, TagFlats, TypeFlats, FindInward, Invert, FindOutward, Route
    <3>2. CASE CheckDrains \/ Start \/ Count \/ EndCount \/ Free
      BY <3>2 DEF CheckDrains, Start, Count, EndCount, Free
    <3>3. QED
      BY <1>4, <3>1, <3>2
  <2>2. QED
    BY <1>2, <2>1 DEF SpillInv
<1>5. CASE StartFlood
  <2>1. phase' = "flood"
    BY <1>5 DEF StartFlood
  <2>2. QED
    BY <1>2, <1>5, <2>1, StartFills DEF SpillInv
<1>6. CASE Flood
  <2>1. phase = "flood" /\ phase' = "flood"
    BY <1>6 DEF Flood
  <2>2. QED
    BY <1>1, <1>2, <1>6, <2>1, FloodFills DEF SpillInv
<1>7. CASE EndFlood
  <2>1. phase = "flood" /\ phase' = "tag" /\ pq.data = <<>> /\ UNCHANGED <<raster, elevation, visited, pq>>
    BY <1>7 DEF EndFlood, floodVars
  <2>2. Fills(raster, elevation, visited, pq)
    BY <1>1, <2>1 DEF SpillInv
  <2>3. QED
    BY <1>2, <2>1, <2>2 DEF SpillInv
<1>8. QED
  BY <1>1, <1>3, <1>4, <1>5, <1>6, <1>7 DEF Next, Call

\* The least of some integers is what Least () finds.
LEMMA LeastIs ==
  ASSUME NEW S \in SUBSET Int, NEW m \in S, \A x \in S : m <= x
  PROVE  Least(S) = m
<1>1. \E i \in S : \A j \in S : i <= j
  OBVIOUS
<1>2. PICK i \in S : i = Least(S) /\ \A j \in S : i <= j
  BY <1>1 DEF Least
<1>3. i <= m /\ m <= i /\ i \in Int /\ m \in Int
  BY <1>2
<1>4. QED
  BY <1>2, <1>3

\* When the heap is empty every cell has the level it spills at.
LEMMA FilledWhenDone == SpillInv => FilledToSpill
<1> DEFINE ground == {p \in Inside : raster[p] # NaN /\ FlatTag(raster)[p] = NoTag}
           water == [l \in {raster[p] : p \in ground} |->
                       Reach({p \in Inside : OnBoundary(p)}, {p \in ground : raster[p] <= l})]
           levels(p) == {l \in DOMAIN water : p \in water[l]}
<1>1. SUFFICES ASSUME SpillInv, phase = "tag", NEW p \in Inside
               PROVE  elevation[p] = IF levels(p) = {} THEN raster[p] ELSE Least(levels(p))
  BY DEF FilledToSpill
<1>2. PICK r \in Elevations, e \in {elevation} : r = raster /\ e = elevation
  BY <1>1 DEF SpillInv, FlowInv, FloodTypes
<1>3. Fills(r, e, visited, pq) /\ pq.data = <<>>
  BY <1>1, <1>2 DEF SpillInv
<1>4. PICK rim : rim = {q \in Inside : OnBoundary(q)}
  OBVIOUS
<1>5. PICK open : open = ground
  OBVIOUS
<1>6. open = Open(r) /\ \A q \in open : r[q] \in Int
  BY <1>2, <1>5, CellsFinite DEF Open, Elevations
<1>7. PICK wet : wet = water
  OBVIOUS
<1> HIDE DEF ground
<1>8. wet = [l \in {r[q] : q \in open} |-> Reach(rim, {q \in open : r[q] <= l})]
  BY <1>2, <1>4, <1>5, <1>7
<1> HIDE DEF water
<1>9. DOMAIN wet = {r[q] : q \in open} /\ \A l \in DOMAIN wet : wet[l] = Wet(r, l) /\ l \in Int
  BY <1>4, <1>6, <1>8 DEF Wet, OpenUnder
<1>10. ASSUME NEW spills, spills = {l \in DOMAIN wet : p \in wet[l]}
       PROVE  e[p] = IF spills = {} THEN r[p] ELSE Least(spills)
  <2>1. CASE \A l \in Int : p \notin Wet(r, l)
    <3>1. e[p] = r[p]
      BY <1>3, <2>1, FillsInTheEnd
    <3>2. spills = {}
      BY <1>9, <1>10, <2>1
    <3>3. QED
      BY <3>1, <3>2
  <2>2. CASE \E l \in Int : p \in Wet(r, l)
    <3>1. /\ \E q \in Open(r) : e[p] = r[q]
          /\ p \in Wet(r, e[p])
          /\ \A k \in Int : p \in Wet(r, k) => e[p] <= k
      BY <1>3, <2>2, FillsInTheEnd
    <3>2. e[p] \in spills
      BY <1>6, <1>9, <1>10, <3>1
    <3>3. spills \in SUBSET Int /\ \A k \in spills : e[p] <= k
      BY <1>9, <1>10, <3>1
    <3>4. Least(spills) = e[p]
      BY <3>2, <3>3, LeastIs
    <3>5. QED
      BY <3>2, <3>4
  <2>3. QED
    BY <2>1, <2>2
<1>11. PICK spills : spills = levels(p)
  OBVIOUS
<1>12. spills = {l \in DOMAIN wet : p \in wet[l]}
  BY <1>7, <1>11
<1> HIDE DEF levels
<1>13. QED
  BY <1>2, <1>10, <1>11, <1>12

\* flow_remove_pits () fills every raster to where it spills: a cell it comes to
\* gets the lowest elevation, its own at least, over which it is connected to
\* the boundary, whatever the order in which the heap brings cells of one level;
\* and patches of equal elevation keep what the raster had.
THEOREM RaisedToSpill == Spec => []FilledToSpill
<1>1. Init => SpillInv
  BY FlowInitInv DEF Init, SpillInv
<1>2. QED
  BY <1>1, SpillStep, FilledWhenDone, PTL DEF Spec

-----------------------------------------------------------------------------
(* Water finds a way.                                                       *)

\* Off the boundary, a cell of a patch is next to another one of the domain.
LEMMA PatchHasPair ==
  ASSUME NEW e, NEW p \in Inside, ~OnBoundary(p), FlatTag(e)[p] # NoTag
  PROVE  \E q \in Around(p) : q \in Inside /\ e[q] = e[p] /\ e[p] # NaN
<1>1. SUFFICES ASSUME \A q \in Around(p) : ~(q \in Inside /\ e[q] = e[p] /\ e[p] # NaN) PROVE FALSE
  OBVIOUS
<1>2. p \in Halo /\ Around(p) \subseteq Inside
  BY CellsFinite, InHalo
<1>3. PICK P \in Flats(e) : p \in Body(e, P)
  BY <1>2, TagMeaning
<1>4. p \in P /\ P \in Patches(e) /\ P \subseteq Inside
  <2>1. P \in Patches(e)
    BY DEF Flats
  <2>2. P \subseteq Inside
    BY <2>1, FirstOf
  <2>3. QED
    BY <1>3, <2>1, <2>2 DEF Body, Ghosts
<1>5. /\ \A x, y \in Body(e, P) : e[x] = e[y] /\ e[x] # NaN
      /\ \A x \in Body(e, P) : x \notin Inside => \E y \in P : x \in Around(y)
      /\ P \subseteq Body(e, P)
  BY BodyLevel
<1>6. Around(p) \cap P = {}
  BY <1>1, <1>2, <1>3, <1>5
<1>7. P = {p}
  <2>1. Connected(P)
    BY <1>4, PatchesSound DEF SoundPatches
  <2>2. {p} \in SUBSET P /\ {p} # {} /\ \A x \in {p} : Around(x) \cap P \subseteq {p}
    BY <1>4, <1>6
  <2>3. QED
    BY <2>1, <2>2 DEF Connected
<1>8. PICK g \in Body(e, P) : g # p
  <2>1. SUFFICES ASSUME \A g \in Body(e, P) : g = p PROVE FALSE
    OBVIOUS
  <2>2. Body(e, P) = {p}
    BY <1>3, <2>1
  <2>3. Cardinality({p}) = 1
    BY FS_Singleton
  <2>4. QED
    BY <2>2, <2>3 DEF Flats
<1>9. g \notin Inside
  BY <1>7, <1>8 DEF Body, Ghosts
<1>10. g \in Around(p)
  BY <1>5, <1>7, <1>8, <1>9
<1>11. QED
  BY <1>2, <1>9, <1>10

\* A cell the flood came to has a way down, or is of a patch.
LEMMA FloodedDrain ==
  ASSUME FlowInv, phase \in Flooding, NEW p \in Inside, p \in Flooded, ~OnBoundary(p),
         FlatTag(elevation)[p] = NoTag
  PROVE  DownhillDir(elevation, p) # NoDir
<1>1. /\ elevation \in Elevations /\ raster \in Elevations
      /\ \A x \in Halo : FlatTag(raster)[x] # NoTag => x \in visited /\ elevation[x] = raster[x]
      /\ \A x \in visited : x \in Inside /\ ~OnBoundary(x) /\ elevation[x] # NaN =>
            \/ FlatTag(raster)[x] # NoTag
            \/ \E q \in Around(x) : /\ q \in Inside /\ q \in visited
                                    /\ elevation[q] # NaN /\ elevation[q] <= elevation[x]
  BY DEF FlowInv, FloodTypes, FloodFeeds
<1>2. p \in visited /\ elevation[p] # NaN /\ p \in Halo
  BY CellsFinite DEF Flooded
<1>3. ASSUME NEW q \in Around(p), q \in Inside, elevation[q] = elevation[p] PROVE FALSE
  <2>1. q \in Alike(elevation, p)
    BY <1>2, <1>3 DEF Alike
  <2>2. QED
    BY <2>1, FlatTags
<1>4. FlatTag(raster)[p] = NoTag
  <2>1. SUFFICES ASSUME FlatTag(raster)[p] # NoTag PROVE FALSE
    OBVIOUS
  <2>2. PICK q \in Around(p) : q \in Inside /\ raster[q] = raster[p] /\ raster[p] # NaN
    BY <2>1, PatchHasPair
  <2>3. q \in Alike(raster, p) /\ q \in Halo
    BY <2>2, CellsFinite DEF Alike
  <2>4. FlatTag(raster)[q] # NoTag
    BY <2>3, FlatTags
  <2>5. elevation[q] = raster[q] /\ elevation[p] = raster[p]
    BY <1>1, <1>2, <2>1, <2>3, <2>4
  <2>6. QED
    BY <1>3, <2>2, <2>5
<1>5. PICK q \in Around(p) : /\ q \in Inside /\ elevation[q] # NaN /\ elevation[q] <= elevation[p]
  BY <1>1, <1>2, <1>4
<1>6. elevation[q] \in Int /\ elevation[p] \in Int /\ elevation[q] # elevation[p]
  BY <1>1, <1>2, <1>3, <1>5, CellsFinite DEF Elevations
<1>7. elevation[q] < elevation[p]
  BY <1>5, <1>6
<1>8. QED
  BY <1>1, <1>2, <1>5, <1>7, Downhill

\* The gradient inward changes by one at most from a cell to the next.
LEMMA SmallSteps ==
  ASSUME NEW tags, NEW types, NEW p \in Halo, NEW r \in Around(p) \cap Halo, tags[r] = tags[p], tags[p] # NoTag
  PROVE  Inverted(tags, FromInlets(tags, types))[r] <= Inverted(tags, FromInlets(tags, types))[p] + 1
<1> DEFINE inlets == {x \in Inside : types[x] = "inlet"}
<1>1. PICK n \in Nat : n = Cardinality(Halo)
  BY CellsFinite
<1>2. PICK g : g = StepsFrom(inlets, tags)
  OBVIOUS
<1>3. FromInlets(tags, types) = g
  BY <1>2 DEF FromInlets, Inlets
<1>4. inlets \in SUBSET Halo
  BY CellsFinite
<1> HIDE DEF inlets
<1>5. /\ g \in [Halo -> 0 .. n]
      /\ \A x \in Halo : \A y \in Around(x) \cap Halo :
            g[y] >= 1 /\ tags[y] = tags[x] => g[x] >= 1 /\ g[x] <= g[y] + 1
  BY <1>1, <1>2, <1>4, Distances
<1>6. p \in Around(r) \cap Halo
  BY InHalo, Neighbors
<1>7. g[p] \in 0 .. n /\ g[r] \in 0 .. n
  BY <1>5
<1>8. g[p] <= g[r] + 1
  <2>1. CASE g[p] >= 1
    <3>1. g[r] >= 1
      BY <1>5, <1>6, <2>1
    <3>2. QED
      BY <1>5, <3>1
  <2>2. CASE ~(g[p] >= 1)
    BY <1>7, <2>2
  <2>3. QED
    BY <2>1, <2>2
<1>9. /\ Inverted(tags, g) \in [Halo -> Int]
      /\ Inverted(tags, g)[p] + g[p] = Inverted(tags, g)[r] + g[r]
  BY <1>5, InvertedLevels
<1>10. Inverted(tags, g)[p] \in Int /\ Inverted(tags, g)[r] \in Int
  BY <1>9
<1>11. Inverted(tags, g)[r] <= Inverted(tags, g)[p] + 1
  BY <1>7, <1>8, <1>9, <1>10
<1>12. QED
  BY <1>3, <1>11

\* In a patch with an outlet every cell has a drain.
LEMMA OutletsDrain ==
  ASSUME NEW e \in Elevations, NEW tags, NEW types, NEW up, NEW out, Graded(e, tags, types, up, out),
         NEW p \in Inside, tags[p] # NoTag, NEW s \in Halo, tags[s] = tags[p], types[s] = "outlet",
         DownhillDir(e, p) = NoDir
  PROVE  FallbackDir(tags, up, out, p) # NoDir
<1> DEFINE outlets == {x \in Halo : types[x] = "outlet"}
<1>1. PICK n \in Nat : n = Cardinality(Halo)
  BY CellsFinite
<1>2. out = StepsFrom(outlets, tags) /\ outlets \in SUBSET Halo /\ s \in outlets /\ p \in Halo
  BY CellsFinite DEF Graded, FromOutlets, Outlets
<1>3. p \notin outlets
  <2>1. D8(e)[p] = NoDir
    BY DEF D8
  <2>2. types[p] # "outlet"
    BY <1>2, <2>1 DEF Graded, FlatType
  <2>3. QED
    BY <2>2
<1> HIDE DEF outlets
<1>4. /\ out \in [Halo -> 0 .. n]
      /\ \A x \in Halo : out[x] = 1 <=> x \in outlets
      /\ \A x \in Halo : out[x] > 1 => \E r \in Around(x) \cap Halo : tags[r] = tags[x] /\ out[r] = out[x] - 1
  BY <1>1, <1>2, Distances
<1>5. Connected({x \in Halo : tags[x] = tags[s]})
  <2>1. tags[s] \in Nat \cup {NoTag} /\ tags[s] # NoTag
    BY FlatTags DEF Graded
  <2>2. tags[s] \in Nat
    BY <2>1
  <2>3. QED
    BY <2>2, FlatTags DEF Graded
<1>6. out[p] >= 1
  BY <1>2, <1>5, ConnectedReached
<1>7. out[p] > 1
  BY <1>2, <1>3, <1>4, <1>6
<1>8. PICK r \in Around(p) \cap Halo : tags[r] = tags[p] /\ out[r] = out[p] - 1
  BY <1>2, <1>4, <1>7
<1>9. up[r] <= up[p] + 1 /\ up[r] \in Int /\ up[p] \in Int
  <2>1. up[r] <= up[p] + 1
    BY <1>2, <1>8, SmallSteps DEF Graded
  <2>2. QED
    BY <1>2, <2>1, Levels
<1>10. Level(up, out, r) < Level(up, out, p)
  <2>1. out[p] \in 0 .. n
    BY <1>2, <1>4
  <2>2. QED
    BY <1>8, <1>9, <2>1 DEF Level
<1>11. QED
  BY <1>8, <1>10, Fallback

\* Stagnant cells drain into stagnant cells.
LEMMA StagnantKept ==
  ASSUME NEW e \in Elevations, NEW tags, NEW types, NEW up, NEW out, Graded(e, tags, types, up, out),
         NEW d, d = Drains(e, tags, up, out), NEW p \in Stagnant(e, tags), d[p] # NoDir
  PROVE  Neighbor(p, d[p]) \in Stagnant(e, tags)
<1> DEFINE drained == {x \in Inside : OnBoundary(x) \/ DownhillDir(e, x) # NoDir}
           dry == {tags[x] : x \in drained}
           pools == {x \in Inside \ drained : tags[x] = NoTag}
           cut == {x \in Inside : tags[x] # NoTag /\ tags[x] \notin dry}
<1>1. Stagnant(e, tags) = IF pools = {} THEN {} ELSE pools \cup cut
  BY DEF Stagnant
<1>2. pools # {} /\ (p \in pools \/ p \in cut) /\ p \in Inside
  BY <1>1
<1>3. p \notin drained
  BY <1>2
<1>4. ~OnBoundary(p) /\ DownhillDir(e, p) = NoDir
  BY <1>2, <1>3
<1>5. d[p] = FallbackDir(tags, up, out, p)
  BY <1>2, <1>4 DEF Drains
<1>6. PICK q : q = Neighbor(p, d[p])
  OBVIOUS
<1>7. d[p] \in Dirs /\ tags[p] # NoTag /\ tags[q] = tags[p]
  BY <1>2, <1>5, <1>6, Fallback
<1>8. q \in Inside
  BY <1>2, <1>4, <1>6, <1>7, InHalo DEF Around
<1>9. p \in cut
  BY <1>2, <1>7
<1>10. q \in cut
  BY <1>7, <1>8, <1>9
<1>11. QED
  BY <1>1, <1>2, <1>6, <1>10

\* Water finds a way as soon as the drains are there.
LEMMA WaterWhenRouted ==
  ASSUME FlowInv
  PROVE  WaterFindsAWay
<1>1. SUFFICES ASSUME phase = "routed", NEW p \in Inside
      PROVE  /\ (\/ tag[p] = NoTag /\ p \in Flooded /\ ~OnBoundary(p)
                 \/ tag[p] # NoTag /\ \E q \in Halo : tag[q] = tag[p] /\ type[q] = "outlet")
                => dir[p] # NoDir
             /\ p \in stagnant /\ dir[p] # NoDir => Neighbor(p, dir[p]) \in stagnant
  BY DEF WaterFindsAWay
<1>2. /\ Graded(elevation, tag, type, g1, g2) /\ elevation \in Elevations
      /\ dir = Drains(elevation, tag, g1, g2)
  BY <1>1, GradedWhenRouted DEF Routed
<1>3. stagnant = Stagnant(elevation, tag) /\ tag = FlatTag(elevation)
  BY <1>1 DEF FlowInv, RoutesFollow, Tagged, Typed, Turned, Sloped, Routed
<1>4. dir[p] = IF DownhillDir(elevation, p) # NoDir THEN DownhillDir(elevation, p)
               ELSE FallbackDir(tag, g1, g2, p)
  BY <1>2 DEF Drains
<1>5. ASSUME tag[p] = NoTag, p \in Flooded, ~OnBoundary(p) PROVE dir[p] # NoDir
  <2>1. phase \in Flooding
    BY <1>1 DEF Flooding, Tagged, Typed, Turned, Sloped, Routed
  <2>2. QED
    BY <1>3, <1>4, <1>5, <2>1, FloodedDrain
<1>6. ASSUME tag[p] # NoTag, NEW q \in Halo, tag[q] = tag[p], type[q] = "outlet" PROVE dir[p] # NoDir
  BY <1>2, <1>4, <1>6, OutletsDrain
<1>7. ASSUME p \in stagnant, dir[p] # NoDir PROVE Neighbor(p, dir[p]) \in stagnant
  BY <1>2, <1>3, <1>7, StagnantKept
<1>8. QED
  BY <1>5, <1>6, <1>7

\* Every cell that flow_remove_pits () flooded has a drain after
\* Garbrecht_Martz (), and so has every cell of a flat with an outlet; and the
\* water of a cell that drain_validity () marks stays in marked cells.
THEOREM WaterIsLedAway == Spec => []WaterFindsAWay
BY FlowHolds, WaterWhenRouted, PTL

-----------------------------------------------------------------------------
(* The drains and their inverses agree.                                     *)

\* Drains and their inverses as D8 () and the fallback set them agree.
LEMMA DrainsAgree ==
  ASSUME NEW d, \A p \in Inside : d[p] \in Dirs \cup {NoDir}
  PROVE  /\ Complementary(d, InvDirs(d))
         /\ \A q \in Halo : \A c \in InvDirs(d)[q] : /\ c \in Dirs /\ Neighbor(q, c) \in Inside
                                                     /\ d[Neighbor(q, c)] = Opposite(c)
         /\ \A q \in Halo : \A r \in Into(d, q) : /\ r \in Inside /\ d[r] \in Dirs /\ Neighbor(r, d[r]) = q
                                                  /\ Opposite(d[r]) \in InvDirs(d)[q]
                                                  /\ Neighbor(q, Opposite(d[r])) = r
         /\ \A q \in Halo : \A c \in InvDirs(d)[q] : Neighbor(q, c) \in Into(d, q)
<1>1. \A q \in Halo : InvDirs(d)[q] = {c \in Dirs : Neighbor(q, c) \in Inside /\ d[Neighbor(q, c)] = Opposite(c)}
  BY DEF InvDirs
<1>2. \A q \in Halo : \A c \in InvDirs(d)[q] : c \in Dirs /\ Neighbor(q, c) \in Inside /\ d[Neighbor(q, c)] = Opposite(c)
  BY <1>1
<1>3. ASSUME NEW r \in Inside, d[r] # NoDir
      PROVE  /\ d[r] \in Dirs /\ Neighbor(r, d[r]) \in Halo
             /\ Opposite(d[r]) \in InvDirs(d)[Neighbor(r, d[r])]
             /\ Neighbor(Neighbor(r, d[r]), Opposite(d[r])) = r
  <2>1. d[r] \in Dirs /\ r \in Int \X Int
    BY <1>3, InHalo
  <2>2. Neighbor(r, d[r]) \in Halo /\ Neighbor(Neighbor(r, d[r]), Opposite(d[r])) = r
    BY <2>1, InHalo, Neighbors
  <2>3. Opposite(d[r]) \in Dirs /\ Opposite(Opposite(d[r])) = d[r]
    BY <2>1, Steps
  <2>4. QED
    BY <1>1, <2>1, <2>2, <2>3
<1>4. \A q \in Halo : \A r \in Into(d, q) : r \in Inside /\ d[r] # NoDir /\ Neighbor(r, d[r]) = q
  BY DEF Into
<1>5. ASSUME NEW q \in Halo, NEW c \in InvDirs(d)[q] PROVE Neighbor(q, c) \in Into(d, q)
  <2>1. PICK r : r = Neighbor(q, c)
    OBVIOUS
  <2>2. c \in Dirs /\ r \in Inside /\ d[r] = Opposite(c)
    BY <1>2, <2>1
  <2>3. Opposite(c) \in Dirs /\ q \in Int \X Int
    BY <2>2, Steps, InHalo
  <2>4. d[r] # NoDir
    BY <2>2, <2>3, Steps
  <2>5. Neighbor(r, d[r]) = q /\ r \in Around(q)
    BY <2>1, <2>2, <2>3, Neighbors DEF Around
  <2>6. QED
    BY <2>1, <2>2, <2>4, <2>5 DEF Into
<1>6. Complementary(d, InvDirs(d))
  BY <1>2, <1>3, CellsFinite DEF Complementary
<1>7. QED
  BY <1>2, <1>3, <1>4, <1>5, <1>6

\* A walk down the drains ends under where it began.
LEMMA WalkEndsUnder ==
  ASSUME NEW e \in Elevations, NEW tags, NEW types, NEW up, NEW out, Graded(e, tags, types, up, out),
         NEW d, d = Drains(e, tags, up, out), NEW p \in Inside, d[p] # NoDir, NEW seen, p \notin seen
  PROVE  WalkDown(d, p, seen).at # p
<1>1. PICK N \in Nat \ {0} : N = Width * Height
  BY CellsFinite
<1> DEFINE Go(w) == IF w.at \in w.visited \/ w.at \notin Inside \/ d[w.at] = NoDir THEN w
                    ELSE [at |-> Neighbor(w.at, d[w.at]), visited |-> w.visited \cup {w.at}]
           Is(g) == g = [n \in 0 .. Width * Height |->
                           IF n = 0 THEN [at |-> p, visited |-> seen] ELSE Go(g[n - 1])]
           f == CHOOSE g : Is(g)
<1>2. WalkDown(d, p, seen) = f[Width * Height]
  BY DEF WalkDown
<1>3. PICK A : A = [at : Halo, visited : {seen \cup X : X \in SUBSET Inside}]
  OBVIOUS
<1>4. PICK a \in A : a = [at |-> p, visited |-> seen]
  <2>1. seen = seen \cup {} /\ {} \in SUBSET Inside
    OBVIOUS
  <2>2. seen \in {seen \cup X : X \in SUBSET Inside}
    BY <2>1
  <2>3. p \in Halo
    BY CellsFinite
  <2>4. QED
    BY <1>3, <2>2, <2>3
<1>5. ASSUME NEW w \in A PROVE Go(w) \in A
  <2>1. CASE w.at \in w.visited \/ w.at \notin Inside \/ d[w.at] = NoDir
    BY <2>1
  <2>2. CASE ~(w.at \in w.visited \/ w.at \notin Inside \/ d[w.at] = NoDir)
    <3>1. PICK X \in SUBSET Inside : w.visited = seen \cup X
      BY <1>3
    <3>2. w.visited \cup {w.at} = seen \cup (X \cup {w.at}) /\ X \cup {w.at} \in SUBSET Inside
      BY <2>2, <3>1
    <3>3. w.visited \cup {w.at} \in {seen \cup Y : Y \in SUBSET Inside}
      BY <3>2
    <3>4. Neighbor(w.at, d[w.at]) \in Halo
      BY <2>2, DrainsLeadUnder, InHalo
    <3>5. QED
      BY <1>3, <2>2, <3>3, <3>4
  <2>3. QED
    BY <2>1, <2>2
<1>6. \E g : Is(g)
  <2> HIDE DEF Go
  <2>1. PICK R : R = {x \in (1 .. N) \X A \X A : x[3] = Go(x[2])}
    OBVIOUS
  <2>2. StepsAlways(R, N, A)
    BY <1>5, <2>1 DEF StepsAlways
  <2>3. PICK g : IsRun(g, R, N, a, A)
    BY <2>2, Recursion
  <2>4. \A k \in 1 .. N : g[k] = Go(g[k - 1])
    BY <2>1, <2>3 DEF IsRun
  <2>5. \A k \in 0 .. N : k # 0 => k \in 1 .. N
    OBVIOUS
  <2>6. \A k \in 0 .. N : g[k] = IF k = 0 THEN [at |-> p, visited |-> seen] ELSE Go(g[k - 1])
    BY <1>4, <2>3, <2>4, <2>5 DEF IsRun
  <2>7. Is(g)
    BY <1>1, <2>3, <2>6 DEF IsRun
  <2>8. QED
    BY <2>7
<1>7. \A n \in 0 .. N : f[n] = IF n = 0 THEN a ELSE Go(f[n - 1])
  <2>1. Is(f)
    <3> HIDE DEF Is
    <3>1. QED
      BY <1>6
  <2> HIDE DEF f, Go
  <2>2. QED
    BY <1>1, <1>4, <2>1
<1> HIDE DEF f
<1> DEFINE S == {n \in 0 .. N : /\ f[n] \in A
                                /\ n = 0 => f[n] = a
                                /\ n # 0 => Under(e, up, out, f[n].at, p)}
<1>8. 0 \in S
  <2>1. 0 \in 0 .. N /\ f[0] = a
    <3> HIDE DEF Go
    <3>1. QED
      BY <1>7
  <2>2. QED
    BY <2>1
<1>9. p \in Halo /\ \A x \in Inside : x \in Halo
  BY CellsFinite
<1>10. ASSUME NEW n \in 0 .. N - 1, n \in S PROVE n + 1 \in S
  <2>1. n + 1 \in 0 .. N /\ n + 1 # 0 /\ (n + 1) - 1 = n
    OBVIOUS
  <2>2. PICK w \in A : w = f[n]
    BY <1>10
  <2>3. f[n + 1] = Go(w)
    <3> HIDE DEF Go
    <3>1. QED
      BY <1>7, <2>1, <2>2
  <2>4. f[n + 1] \in A
    BY <1>5, <2>3
  <2>5. Under(e, up, out, f[n + 1].at, p)
    <3>1. CASE n = 0
      <4>1. w = a /\ w.at = p /\ w.visited = seen
        BY <1>4, <1>10, <2>2, <3>1
      <4>2. f[n + 1].at = Neighbor(p, d[p])
        BY <2>3, <4>1
      <4>3. QED
        BY <4>2, DrainsLeadUnder
    <3>2. CASE n # 0
      <4>1. Under(e, up, out, w.at, p) /\ w.at \in Halo
        BY <1>3, <1>10, <2>2, <3>2
      <4>2. CASE Go(w) = w
        BY <2>3, <4>1, <4>2
      <4>3. CASE Go(w) # w
        <5>1. w.at \in Inside /\ d[w.at] # NoDir /\ f[n + 1].at = Neighbor(w.at, d[w.at])
          BY <2>3, <4>3
        <5>2. Under(e, up, out, f[n + 1].at, w.at)
          BY <5>1, DrainsLeadUnder
        <5>3. f[n + 1].at \in Halo
          BY <1>3, <2>4
        <5>4. QED
          BY <1>9, <4>1, <5>2, <5>3, UnderOrders
      <4>4. QED
        BY <4>2, <4>3
    <3>3. QED
      BY <3>1, <3>2
  <2>6. QED
    BY <2>1, <2>4, <2>5
<1>11. N \in S
  <2>1. \A n \in 0 .. N : n \in S
    <3> HIDE DEF S
    <3>1. QED
      BY <1>8, <1>10, UpTo
  <2>2. QED
    BY <2>1
<1>12. QED
  BY <1>1, <1>2, <1>9, <1>11, UnderOrders

\* The assertions of DAG_validity () hold of these drains.
LEMMA DrainsAreValid ==
  ASSUME NEW e \in Elevations, NEW tags, NEW types, NEW up, NEW out, Graded(e, tags, types, up, out),
         NEW d, d = Drains(e, tags, up, out)
  PROVE  DAG_validity(d, InvDirs(d))
<1>1. Complementary(d, InvDirs(d))
  BY DrainsLeadUnder, DrainsAgree
<1>2. NoWalkComesBack(d)
  <2> DEFINE f == CHOOSE g : g = [i \in 0 .. Width * Height |->
                     IF i = 0 THEN {}
                     ELSE UNION {WalkDown(d, CellAt(i - 1), seen).visited : seen \in {g[i - 1]}}]
  <2>1. ASSUME NEW i \in 0 .. Width * Height - 1, CellAt(i) \notin f[i], d[CellAt(i)] # NoDir
        PROVE  WalkDown(d, CellAt(i), f[i]).at # CellAt(i)
    <3> HIDE DEF f
    <3>1. PICK p \in Inside : p = CellAt(i)
      BY ScanNumbers
    <3>2. QED
      BY <2>1, <3>1, WalkEndsUnder
  <2>2. QED
    BY <2>1 DEF NoWalkComesBack
<1>3. QED
  BY <1>1, <1>2 DEF DAG_validity

-----------------------------------------------------------------------------
(* Water falls: what the count needs of the drains.                         *)

\* What water does by drains that lead under where they begin: every fact
\* that the count needs of them.
Falls(d) ==
  /\ \A p \in Inside : d[p] \in Dirs \cup {NoDir}
  /\ \A p \in Inside : p \notin AboveBy(d, p)
  /\ \A p \in Inside : \A r \in AboveBy(d, p) : p \notin AboveBy(d, r)

\* The drains of Garbrecht_Martz () are of that kind.
LEMMA DrainsFall ==
  ASSUME NEW e \in Elevations, NEW tags, NEW types, NEW up, NEW out, Graded(e, tags, types, up, out),
         NEW d, d = Drains(e, tags, up, out)
  PROVE  Falls(d)
<1>1. \A p \in Inside : \A r \in AboveBy(d, p) : Under(e, up, out, p, r) /\ r \in Inside
  BY NoneAboveItself, AboveSound
<1>2. \A p \in Inside : p \in Halo
  BY CellsFinite
<1>3. \A p, q, r \in Halo : Under(e, up, out, q, p) /\ Under(e, up, out, r, q) => Under(e, up, out, r, p)
  BY UnderOrders
<1>4. \A p \in Halo : ~Under(e, up, out, p, p)
  BY UnderOrders
<1>5. \A p \in Inside : p \notin AboveBy(d, p)
  BY <1>1, <1>2, <1>4
<1>6. \A p \in Inside : \A r \in AboveBy(d, p) : p \notin AboveBy(d, r)
  BY <1>1, <1>2, <1>3, <1>4
<1>7. QED
  BY <1>5, <1>6, DrainsLeadUnder DEF Falls

\* What is above a cell drains, step by step, into it.
LEMMA AboveGrows ==
  ASSUME NEW d, NEW p, NEW r \in AboveBy(d, p)
  PROVE  AboveBy(d, r) \subseteq AboveBy(d, p)
<1>1. Into(d, r) \subseteq AboveBy(d, p) /\ Closed(d, AboveBy(d, p))
  BY AboveSound DEF Closed
<1>2. QED
  BY <1>1, AboveSound

\* The water of a cell and of all above it.
Basin(d, r) == {r} \cup AboveBy(d, r)

\* What the cells seen that drain into q bring.
Gathered(d, seen, q) == UNION {Basin(d, r) : r \in Into(d, q) \cap seen}

\* Finite sets, so that counting them makes sense.
LEMMA GatheredFinite ==
  ASSUME NEW d, NEW seen, NEW q
  PROVE  /\ Gathered(d, seen, q) \subseteq Inside /\ IsFiniteSet(Gathered(d, seen, q))
         /\ Cardinality(Gathered(d, seen, q)) \in Nat
         /\ IsFiniteSet(AboveBy(d, q)) /\ Cardinality(AboveBy(d, q)) \in Nat
<1>1. AboveBy(d, q) \in SUBSET Inside
  BY AboveSound
<1>2. Gathered(d, seen, q) \in SUBSET Inside
  <2>1. ASSUME NEW r \in Into(d, q) PROVE Basin(d, r) \subseteq Inside
    BY AboveSound DEF Into, Basin
  <2>2. QED
    BY <2>1 DEF Gathered
<1>3. \A X \in SUBSET Inside : IsFiniteSet(X) /\ Cardinality(X) \in Nat
  BY CellsFinite, FS_Subset, FS_CardinalityType
<1>4. QED
  BY <1>1, <1>2, <1>3

\* When all that drain into q have been seen, they bring all that is above q.
LEMMA GatheredAll ==
  ASSUME NEW d, NEW seen, NEW q, Into(d, q) \subseteq seen
  PROVE  Gathered(d, seen, q) = AboveBy(d, q)
<1>1. ASSUME NEW r \in Into(d, q) PROVE Basin(d, r) \subseteq AboveBy(d, q)
  BY AboveSound, AboveGrows DEF Basin
<1>2. Gathered(d, seen, q) \subseteq AboveBy(d, q)
  BY <1>1 DEF Gathered
<1>3. Into(d, q) \subseteq Gathered(d, seen, q)
  BY DEF Gathered, Basin
<1>4. Closed(d, Gathered(d, seen, q))
  <2>1. SUFFICES ASSUME NEW z \in Gathered(d, seen, q) PROVE Into(d, z) \subseteq Gathered(d, seen, q)
    BY DEF Closed
  <2>2. PICK r \in Into(d, q) \cap seen : z \in Basin(d, r)
    BY DEF Gathered
  <2>3. Into(d, z) \subseteq AboveBy(d, r)
    BY <2>2, AboveSound DEF Closed, Basin
  <2>4. QED
    BY <2>2, <2>3 DEF Gathered, Basin
<1>5. AboveBy(d, q) \subseteq Gathered(d, seen, q)
  BY <1>3, <1>4, AboveSound
<1>6. QED
  BY <1>2, <1>5

\* What is above a cell drains into it or into what is above it.
LEMMA AboveLeadsTo ==
  ASSUME NEW d, NEW p, NEW y \in AboveBy(d, p)
  PROVE  y \in Inside /\ d[y] # NoDir /\ Neighbor(y, d[y]) \in Basin(d, p)
<1> DEFINE T == {x \in AboveBy(d, p) : d[x] # NoDir /\ Neighbor(x, d[x]) \in Basin(d, p)}
<1>1. \A q : \A r \in Into(d, q) : d[r] # NoDir /\ Neighbor(r, d[r]) = q
  BY DEF Into
<1>2. Into(d, p) \subseteq T
  BY <1>1, AboveSound DEF Basin
<1>3. Closed(d, T)
  <2>1. Closed(d, AboveBy(d, p))
    BY AboveSound
  <2>2. QED
    BY <1>1, <2>1 DEF Closed, Basin
<1>4. AboveBy(d, p) \subseteq T
  <2> HIDE DEF T
  <2>1. QED
    BY <1>2, <1>3, AboveSound
<1>5. QED
  BY <1>4, AboveSound

\* The water of two cells that drain into one is not the same.
LEMMA BasinsApart ==
  ASSUME NEW d, Falls(d), NEW q \in Inside, NEW p \in Into(d, q), NEW r \in Into(d, q), p # r
  PROVE  Basin(d, r) \cap Basin(d, p) = {}
<1>1. /\ p \in Inside /\ r \in Inside /\ p \in Around(q) /\ r \in Around(q)
      /\ Neighbor(p, d[p]) = q /\ Neighbor(r, d[r]) = q
  BY DEF Into
<1>2. q # p /\ q # r
  BY <1>1, Neighbors, InHalo
<1>3. p \in AboveBy(d, q) /\ r \in AboveBy(d, q)
  BY AboveSound
<1>4. q \notin AboveBy(d, p) /\ q \notin AboveBy(d, r)
  BY <1>3 DEF Falls
<1>5. r \notin Basin(d, p)
  <2>1. SUFFICES ASSUME r \in AboveBy(d, p) PROVE FALSE
    BY DEF Basin
  <2>2. q \in Basin(d, p)
    BY <1>1, <2>1, AboveLeadsTo
  <2>3. QED
    BY <1>2, <1>4, <2>2 DEF Basin
<1> DEFINE T == AboveBy(d, r) \ Basin(d, p)
<1>6. \A z : \A y \in Into(d, z) : y \in Inside /\ Neighbor(y, d[y]) = z
  BY DEF Into
<1>7. ASSUME NEW z, z \in Basin(d, r), z \notin Basin(d, p), NEW y \in Into(d, z) PROVE y \in T
  <2>1. y \in AboveBy(d, r)
    BY <1>7, AboveSound DEF Basin, Closed
  <2>2. SUFFICES ASSUME y \in Basin(d, p) PROVE FALSE
    BY <2>1
  <2>3. CASE y = p
    <3>1. z = q
      BY <1>1, <1>6, <1>7, <2>3
    <3>2. QED
      BY <1>2, <1>4, <1>7, <3>1 DEF Basin
  <2>4. CASE y \in AboveBy(d, p)
    <3>1. z \in Basin(d, p)
      BY <1>6, <1>7, <2>4, AboveLeadsTo
    <3>2. QED
      BY <1>7, <3>1
  <2>5. QED
    BY <2>2, <2>3, <2>4 DEF Basin
<1>8. Into(d, r) \subseteq T
  BY <1>5, <1>7 DEF Basin
<1>9. Closed(d, T)
  BY <1>7 DEF Closed, Basin
<1>10. AboveBy(d, r) \subseteq T
  <2> HIDE DEF T
  <2>1. QED
    BY <1>8, <1>9, AboveSound
<1>11. QED
  BY <1>5, <1>10 DEF Basin

\* One more cell seen brings its own water and that of all above it.
LEMMA OneMoreSeen ==
  ASSUME NEW d, Falls(d), NEW seen, NEW q \in Inside, NEW p \in Into(d, q), p \notin seen
  PROVE  Cardinality(Gathered(d, seen \cup {p}, q))
           = Cardinality(Gathered(d, seen, q)) + 1 + Cardinality(AboveBy(d, p))
<1>1. PICK X : X = Gathered(d, seen, q)
  OBVIOUS
<1>2. PICK Y : Y = Basin(d, p)
  OBVIOUS
<1>3. Gathered(d, seen \cup {p}, q) = X \cup Y
  <2>1. PICK I : I = Into(d, q) \cap seen
    OBVIOUS
  <2>2. Into(d, q) \cap (seen \cup {p}) = I \cup {p}
    BY <2>1
  <2>3. Gathered(d, seen \cup {p}, q) = UNION {Basin(d, r) : r \in I \cup {p}}
    BY <2>2 DEF Gathered
  <2>4. X = UNION {Basin(d, r) : r \in I}
    BY <1>1, <2>1 DEF Gathered
  <2>5. QED
    BY <1>2, <2>3, <2>4
<1>4. X \cap Y = {}
  <2>1. \A r \in Into(d, q) \cap seen : Basin(d, r) \cap Y = {}
    BY <1>2, BasinsApart
  <2>2. QED
    BY <1>1, <2>1 DEF Gathered
<1>5. PICK Z : Z = AboveBy(d, p)
  OBVIOUS
<1>6. p \in Inside /\ p \notin Z /\ Y = Z \cup {p}
  BY <1>2, <1>5 DEF Falls, Into, Basin
<1>7. IsFiniteSet(Z) /\ Cardinality(Z) \in Nat /\ IsFiniteSet(X) /\ Cardinality(X) \in Nat
  BY <1>1, <1>5, GatheredFinite
<1>8. IsFiniteSet(Y) /\ Cardinality(Y) = Cardinality(Z) + 1
  BY <1>6, <1>7, FS_AddElement
<1>9. Cardinality(X \cup Y) = Cardinality(X) + Cardinality(Y) - Cardinality(X \cap Y)
  BY <1>7, <1>8, FS_Union
<1>10. Cardinality(X \cap Y) = 0
  BY <1>4, FS_EmptySet
<1>11. Cardinality(X \cup Y) = Cardinality(X) + 1 + Cardinality(Z)
  <2>1. PICK x \in Nat, z \in Nat : x = Cardinality(X) /\ z = Cardinality(Z)
    BY <1>7
  <2>2. Cardinality(X \cup Y) = x + (z + 1) - 0
    BY <1>8, <1>9, <1>10, <2>1
  <2>3. QED
    BY <2>1, <2>2
<1>12. QED
  BY <1>1, <1>3, <1>5, <1>11

\* Cells that each wait for another one of them there are none.
LEMMA NoneWaitForever ==
  ASSUME NEW d, Falls(d), NEW S \in SUBSET Inside, S # {}
  PROVE  \E q \in S : Into(d, q) \cap S = {}
<1> DEFINE sizes == {Cardinality(AboveBy(d, q)) : q \in S}
<1>1. sizes \in SUBSET Nat /\ sizes # {}
  BY GatheredFinite
<1>2. PICK m \in sizes : \A k \in sizes : m <= k
  <2> HIDE DEF sizes
  <2>1. QED
    BY <1>1, LeastNatural
<1>3. PICK q \in S : Cardinality(AboveBy(d, q)) = m
  OBVIOUS
<1>4. ASSUME NEW r \in Into(d, q), r \in S PROVE FALSE
  <2>1. r \in AboveBy(d, q) /\ AboveBy(d, r) \subseteq AboveBy(d, q) /\ r \notin AboveBy(d, r) /\ r \in Inside
    BY <1>4, AboveSound, AboveGrows DEF Falls
  <2>2. PICK X, Y : X = AboveBy(d, r) /\ Y = AboveBy(d, q)
    OBVIOUS
  <2>3. IsFiniteSet(Y) /\ X \in SUBSET Y /\ X # Y /\ Cardinality(X) \in Nat /\ Cardinality(Y) \in Nat
    BY <2>1, <2>2, GatheredFinite
  <2>4. Cardinality(X) <= Cardinality(Y) /\ (Cardinality(X) = Cardinality(Y) => X = Y)
    BY <2>3, FS_Subset
  <2>5. Cardinality(X) < Cardinality(Y)
    BY <2>3, <2>4
  <2>6. m <= Cardinality(X)
    BY <1>2, <1>4, <2>2
  <2>7. QED
    BY <1>3, <2>2, <2>3, <2>5, <2>6
<1>5. QED
  BY <1>4

-----------------------------------------------------------------------------
(* The ring holds a set of cells.                                           *)

Slots == Inside \cup {Junk}

\* The ring holds the cells of W, each of them once.
Holds(q, W) ==
  /\ Ring(q, Slots)
  /\ W \subseteq Inside
  /\ \A i \in 1 .. q.count : Contents(q)[i] \in W
  /\ \A x \in W : \E i \in 1 .. q.count : Contents(q)[i] = x
  /\ \A i, j \in 1 .. q.count : Contents(q)[i] = Contents(q)[j] => i = j

\* A new ring holds nothing; a push adds one cell, a pop takes away the one in
\* front.
LEMMA HoldsNone == Holds(QueueInit, {})
<1>1. Ring(QueueInit, Slots)
  BY InitRing DEF Slots
<1>2. QueueInit.count = 0
  BY DEF QueueInit
<1>3. QED
  BY <1>1, <1>2 DEF Holds

\* A push adds the cell to what the ring holds.
LEMMA HoldsOneMore ==
  ASSUME NEW q, NEW W, Holds(q, W), NEW x \in Inside, x \notin W
  PROVE  Holds(QueuePush(q, x), W \cup {x})
<1>1. PICK r : r = QueuePush(q, x)
  OBVIOUS
<1>2. Ring(q, Slots) /\ x \in Slots
  BY DEF Holds, Slots
<1>3. Ring(r, Slots) /\ Contents(r) = Append(Contents(q), x)
  <2>1. Junk \in Slots
    BY DEF Slots
  <2>2. QED
    BY <1>1, <1>2, <2>1, PushAppends
<1>4. Contents(q) \in Seq(Slots) /\ Len(Contents(q)) = q.count /\ Len(Contents(r)) = r.count
  BY <1>2, <1>3, ContentsType
<1>5. PICK n \in Nat : n = q.count
  BY <1>2 DEF Ring
<1>6. /\ r.count = n + 1
      /\ \A i \in 1 .. n : Contents(r)[i] = Contents(q)[i]
      /\ Contents(r)[n + 1] = x
  <2>1. PICK s \in Seq(Slots) : s = Contents(q) /\ Len(s) = n
    BY <1>4, <1>5
  <2>2. Contents(r) = Append(s, x)
    BY <1>3, <2>1
  <2>3. Len(Append(s, x)) = n + 1 /\ Append(s, x)[n + 1] = x /\ \A i \in 1 .. n : Append(s, x)[i] = s[i]
    BY <1>2, <2>1, AppendProperties
  <2>4. QED
    BY <1>4, <2>1, <2>2, <2>3
<1>7. PICK c, b : c = Contents(q) /\ b = Contents(r)
  OBVIOUS
<1>8. /\ W \subseteq Inside
      /\ \A i \in 1 .. n : c[i] \in W
      /\ \A y \in W : \E i \in 1 .. n : c[i] = y
      /\ \A i, j \in 1 .. n : c[i] = c[j] => i = j
  BY <1>5, <1>7 DEF Holds
<1>9. \A i \in 1 .. n : b[i] = c[i] /\ i \in 1 .. n + 1
  BY <1>6, <1>7
<1>10. b[n + 1] = x /\ n + 1 \in 1 .. n + 1
  BY <1>6, <1>7
<1>11. \A i \in 1 .. n + 1 : i \in 1 .. n \/ i = n + 1
  OBVIOUS
<1>12. \A i \in 1 .. n + 1 : b[i] \in W \cup {x}
  BY <1>8, <1>9, <1>10, <1>11
<1>13. \A y \in W \cup {x} : \E i \in 1 .. n + 1 : b[i] = y
  BY <1>8, <1>9, <1>10
<1>14. \A i, j \in 1 .. n + 1 : b[i] = b[j] => i = j
  BY <1>8, <1>9, <1>10, <1>11
<1>15. QED
  BY <1>1, <1>3, <1>6, <1>7, <1>8, <1>12, <1>13, <1>14 DEF Holds

\* A pop takes the cell in front from what the ring holds.
LEMMA HoldsOneLess ==
  ASSUME NEW q, NEW W, Holds(q, W), q.count > 0
  PROVE  QueueFront(q) \in W /\ Holds(QueuePop(q), W \ {QueueFront(q)})
<1>1. PICK r, x : r = QueuePop(q) /\ x = QueueFront(q)
  OBVIOUS
<1>2. Ring(q, Slots)
  BY DEF Holds
<1>3. Ring(r, Slots) /\ Contents(r) = Tail(Contents(q)) /\ x = Head(Contents(q))
  BY <1>1, <1>2, PopTakesFront
<1>4. Contents(q) \in Seq(Slots) /\ Len(Contents(q)) = q.count /\ Len(Contents(r)) = r.count
  BY <1>2, <1>3, ContentsType
<1>5. PICK n \in Nat \ {0} : n = q.count
  BY <1>2 DEF Ring
<1>6. /\ r.count = n - 1
      /\ \A i \in 1 .. n - 1 : Contents(r)[i] = Contents(q)[i + 1]
      /\ Contents(q)[1] = x
  <2>1. PICK s \in Seq(Slots) : s = Contents(q) /\ Len(s) = n
    BY <1>4, <1>5
  <2>2. Contents(r) = Tail(s) /\ x = Head(s)
    BY <1>3, <2>1
  <2>3. Len(Tail(s)) = n - 1 /\ Head(s) = s[1] /\ \A i \in 1 .. n - 1 : Tail(s)[i] = s[i + 1]
    BY <2>1
  <2>4. QED
    BY <1>4, <2>1, <2>2, <2>3
<1>7. PICK c, b : c = Contents(q) /\ b = Contents(r)
  OBVIOUS
<1>8. /\ W \subseteq Inside
      /\ \A i \in 1 .. n : c[i] \in W
      /\ \A y \in W : \E i \in 1 .. n : c[i] = y
      /\ \A i, j \in 1 .. n : c[i] = c[j] => i = j
  BY <1>5, <1>7 DEF Holds
<1>9. \A i \in 1 .. n - 1 : b[i] = c[i + 1] /\ i + 1 \in 1 .. n /\ i + 1 # 1
  BY <1>6, <1>7
<1>10. c[1] = x /\ 1 \in 1 .. n
  BY <1>6, <1>7
<1>11. \A i \in 1 .. n : i = 1 \/ (i - 1 \in 1 .. n - 1 /\ (i - 1) + 1 = i)
  OBVIOUS
<1>12. \A i \in 1 .. n - 1 : b[i] \in W \ {x}
  BY <1>8, <1>9, <1>10
<1>13. \A y \in W \ {x} : \E i \in 1 .. n - 1 : b[i] = y
  <2>1. SUFFICES ASSUME NEW y \in W \ {x} PROVE \E i \in 1 .. n - 1 : b[i] = y
    OBVIOUS
  <2>2. PICK i \in 1 .. n : c[i] = y
    BY <1>8
  <2>3. i # 1
    BY <1>10, <2>2
  <2>4. PICK j \in 1 .. n - 1 : j + 1 = i
    BY <1>11, <2>3
  <2>5. b[j] = y
    BY <1>9, <2>2, <2>4
  <2>6. QED
    BY <2>5
<1>14. ASSUME NEW i \in 1 .. n - 1, NEW j \in 1 .. n - 1, b[i] = b[j] PROVE i = j
  <2>1. c[i + 1] = c[j + 1] /\ i + 1 \in 1 .. n /\ j + 1 \in 1 .. n
    BY <1>9, <1>14
  <2>2. i + 1 = j + 1
    BY <1>8, <2>1
  <2>3. QED
    BY <2>2
<1>15. x \in W
  BY <1>8, <1>10
<1>16. Holds(r, W \ {x})
  BY <1>3, <1>6, <1>7, <1>8, <1>12, <1>13, <1>14 DEF Holds
<1>17. QED
  BY <1>1, <1>15, <1>16

\* A ring whose count is zero holds nothing.
LEMMA HoldsNothing ==
  ASSUME NEW q, NEW W, Holds(q, W), q.count = 0
  PROVE  W = {}
BY DEF Holds

\* The rings, as a set.
RingSet ==
  {q \in [buf : UNION {[0 .. n - 1 -> Slots] : n \in Nat}, head : Nat, count : Nat, cap : Nat] : Ring(q, Slots)}

\* Every ring of cells is in that set.
LEMMA RingsInSet ==
  ASSUME NEW q, Ring(q, Slots)
  PROVE  q \in RingSet
<1>1. /\ q.cap \in Nat /\ q.head \in Nat /\ q.count \in Nat
      /\ q = [buf |-> q.buf, head |-> q.head, count |-> q.count, cap |-> q.cap]
      /\ q.buf \in [0 .. q.cap - 1 -> Slots]
  BY DEF Ring
<1>2. PICK B : B = UNION {[0 .. n - 1 -> Slots] : n \in Nat}
  OBVIOUS
<1>3. q.buf \in B
  BY <1>1, <1>2
<1>4. q \in [buf : B, head : Nat, count : Nat, cap : Nat]
  BY <1>1, <1>3
<1>5. QED
  BY <1>2, <1>4 DEF RingSet

\* The cells that wait for nothing are in the ring, each once.
LEMMA SourcesHeld ==
  ASSUME NEW waits
  PROVE  Holds(Sources(waits), {p \in Inside : waits[p] = {}})
<1>1. PICK N \in Nat : N = Width * Height
  BY CellsFinite
<1> DEFINE Put(i, q) == IF waits[CellAt(i - 1)] = {} THEN QueuePush(q, CellAt(i - 1)) ELSE q
           Is(g) == g = [i \in 0 .. Width * Height |-> IF i = 0 THEN QueueInit ELSE Put(i, g[i - 1])]
           f == CHOOSE g : Is(g)
           Before(n) == {p \in Inside : ScanIndex(p) < n /\ waits[p] = {}}
<1>2. Sources(waits) = f[Width * Height]
  BY DEF Sources
<1>3. \A i \in 1 .. N : CellAt(i - 1) \in Inside /\ ScanIndex(CellAt(i - 1)) = i - 1
  <2>1. \A i \in 1 .. N : i - 1 \in 0 .. N - 1
    OBVIOUS
  <2>2. QED
    BY <1>1, <2>1, ScanNumbers
<1>4. \E g : Is(g)
  <2>1. PICK A : A = RingSet
    OBVIOUS
  <2>2. PICK a \in A : a = QueueInit
    <3>1. Ring(QueueInit, Slots)
      BY InitRing DEF Slots
    <3>2. QED
      BY <2>1, <3>1, RingsInSet
  <2>3. ASSUME NEW i \in 1 .. N, NEW q \in A PROVE Put(i, q) \in A
    <3>1. Ring(q, Slots)
      BY <2>1 DEF RingSet
    <3>2. PICK x \in Slots : x = CellAt(i - 1)
      BY <1>3 DEF Slots
    <3>3. Ring(QueuePush(q, x), Slots)
      <4>1. Junk \in Slots
        BY DEF Slots
      <4>2. QED
        BY <3>1, <4>1, PushAppends
    <3>4. QueuePush(q, x) \in A
      BY <2>1, <3>3, RingsInSet
    <3>5. QED
      BY <3>2, <3>4
  <2> HIDE DEF Put
  <2>4. PICK R : R = {x \in (1 .. N) \X A \X A : x[3] = Put(x[1], x[2])}
    OBVIOUS
  <2>5. StepsAlways(R, N, A)
    BY <2>3, <2>4 DEF StepsAlways
  <2>6. PICK g : IsRun(g, R, N, a, A)
    BY <2>5, Recursion
  <2>7. \A k \in 1 .. N : g[k] = Put(k, g[k - 1])
    BY <2>4, <2>6 DEF IsRun
  <2>8. \A k \in 0 .. N : k # 0 => k \in 1 .. N
    OBVIOUS
  <2>9. \A k \in 0 .. N : g[k] = IF k = 0 THEN QueueInit ELSE Put(k, g[k - 1])
    BY <2>2, <2>6, <2>7, <2>8 DEF IsRun
  <2>10. Is(g)
    BY <1>1, <2>6, <2>9 DEF IsRun
  <2>11. QED
    BY <2>10
<1>5. f[0] = QueueInit /\ \A n \in 0 .. N - 1 : f[n + 1] = Put(n + 1, f[n])
  <2>1. Is(f)
    <3> HIDE DEF Is
    <3>1. QED
      BY <1>4
  <2> HIDE DEF f, Put
  <2>2. \A n \in 0 .. N : f[n] = IF n = 0 THEN QueueInit ELSE Put(n, f[n - 1])
    BY <1>1, <2>1
  <2>3. \A n \in 0 .. N - 1 : n + 1 \in 0 .. N /\ n + 1 # 0 /\ (n + 1) - 1 = n
    OBVIOUS
  <2>4. ASSUME NEW n \in 0 .. N - 1 PROVE f[n + 1] = Put(n + 1, f[n])
    BY <2>2, <2>3
  <2>5. 0 \in 0 .. N
    OBVIOUS
  <2>6. QED
    BY <2>2, <2>4, <2>5
<1> HIDE DEF f
<1>6. \A p \in Inside : ScanIndex(p) \in 0 .. N - 1 /\ CellAt(ScanIndex(p)) = p
  BY <1>1, ScanNumbers
<1> DEFINE S == {n \in 0 .. N : Holds(f[n], Before(n))}
<1>7. 0 \in S
  <2>1. Before(0) = {}
    BY <1>6
  <2>2. QED
    BY <1>5, <2>1, HoldsNone
<1>8. ASSUME NEW n \in 0 .. N - 1, n \in S PROVE n + 1 \in S
  <2>1. PICK x \in Inside : x = CellAt(n) /\ ScanIndex(x) = n
    BY <1>1, ScanNumbers
  <2>2. \A p \in Inside : ScanIndex(p) = n => p = x
    BY <1>6, <2>1
  <2>3. \A p \in Inside : ScanIndex(p) < n + 1 <=> ScanIndex(p) < n \/ p = x
    BY <1>6, <2>1, <2>2
  <2>4. (n + 1) - 1 = n /\ n + 1 \in 0 .. N
    OBVIOUS
  <2>5. f[n + 1] = IF waits[x] = {} THEN QueuePush(f[n], x) ELSE f[n]
    BY <1>5, <2>1, <2>4
  <2>6. x \notin Before(n)
    BY <2>1
  <2>7. CASE waits[x] = {}
    <3>1. Before(n + 1) = Before(n) \cup {x}
      BY <2>3, <2>7
    <3>2. Holds(f[n], Before(n))
      BY <1>8
    <3> HIDE DEF Before
    <3>3. Holds(QueuePush(f[n], x), Before(n) \cup {x})
      BY <2>6, <3>2, HoldsOneMore
    <3>4. QED
      BY <2>4, <2>5, <2>7, <3>1, <3>3
  <2>8. CASE waits[x] # {}
    <3>1. Before(n + 1) = Before(n)
      BY <2>3, <2>8
    <3>2. Holds(f[n], Before(n))
      BY <1>8
    <3> HIDE DEF Before
    <3>3. QED
      BY <2>4, <2>5, <2>8, <3>1, <3>2
  <2>9. QED
    BY <2>7, <2>8
<1>9. N \in S
  <2>1. \A n \in 0 .. N : n \in S
    <3> HIDE DEF S
    <3>1. QED
      BY <1>7, <1>8, UpTo
  <2>2. QED
    BY <2>1
<1>10. Before(N) = {p \in Inside : waits[p] = {}}
  BY <1>6
<1>11. QED
  BY <1>1, <1>2, <1>9, <1>10

-----------------------------------------------------------------------------
(* Kahn's count.                                                            *)

\* The cells that wait for nothing more, given the cells counted.
Ready(d, seen) == {q \in Inside \ seen : Into(d, q) \subseteq seen}

\* Kahn's count over drains d, by its arrays, its ring and the cells counted.
Kahn(d, a, waits, ring, seen) ==
  /\ seen \subseteq Inside
  /\ \A q \in seen : Into(d, q) \subseteq seen
  /\ waits \in [Halo -> SUBSET Dirs]
  /\ \A q \in Inside : waits[q] = {c \in InvDirs(d)[q] : Neighbor(q, c) \notin seen}
  /\ Holds(ring, Ready(d, seen))
  /\ a \in [Inside -> Nat]
  /\ \A q \in Inside : a[q] = 1 + Cardinality(Gathered(d, seen, q))

\* A cell waits for no direction when all that drains into it was counted.
LEMMA WaitsForInto ==
  ASSUME NEW d, Falls(d), NEW seen, NEW q \in Inside
  PROVE  {c \in InvDirs(d)[q] : Neighbor(q, c) \notin seen} = {} <=> Into(d, q) \subseteq seen
<1>1. q \in Halo
  BY CellsFinite
<1>2. /\ \A c \in InvDirs(d)[q] : Neighbor(q, c) \in Into(d, q)
      /\ \A r \in Into(d, q) : Opposite(d[r]) \in InvDirs(d)[q] /\ Neighbor(q, Opposite(d[r])) = r
  BY <1>1, DrainsAgree DEF Falls
<1>3. QED
  BY <1>2

\* The count begins with the cells that nothing drains into.
LEMMA KahnBegins ==
  ASSUME NEW d, Falls(d)
  PROVE  Kahn(d, [p \in Inside |-> 1], InvDirs(d), Sources(InvDirs(d)), {})
<1>1. InvDirs(d) \in [Halo -> SUBSET Dirs]
  BY DEF InvDirs
<1>2. \A q \in Inside : InvDirs(d)[q] = {c \in InvDirs(d)[q] : Neighbor(q, c) \notin {}}
  OBVIOUS
<1>3. Ready(d, {}) = {p \in Inside : InvDirs(d)[p] = {}}
  <2>1. ASSUME NEW q \in Inside PROVE InvDirs(d)[q] = {} <=> Into(d, q) \subseteq {}
    <3>1. {c \in InvDirs(d)[q] : Neighbor(q, c) \notin {}} = {} <=> Into(d, q) \subseteq {}
      BY WaitsForInto
    <3>2. QED
      BY <1>2, <3>1
  <2>2. QED
    BY <2>1 DEF Ready
<1>4. Holds(Sources(InvDirs(d)), Ready(d, {}))
  BY <1>3, SourcesHeld
<1>5. ASSUME NEW q \in Inside PROVE 1 = 1 + Cardinality(Gathered(d, {}, q))
  <2>1. Gathered(d, {}, q) = {}
    BY DEF Gathered
  <2>2. QED
    BY <2>1, FS_EmptySet
<1>6. PICK a : a = [p \in Inside |-> 1]
  OBVIOUS
<1>7. a \in [Inside -> Nat] /\ \A q \in Inside : a[q] = 1 + Cardinality(Gathered(d, {}, q))
  BY <1>5, <1>6
<1>8. QED
  BY <1>1, <1>2, <1>4, <1>6, <1>7 DEF Kahn

\* The cell in front is one that waits for nothing.
LEMMA FrontIsReady ==
  ASSUME NEW d, NEW a, NEW waits, NEW ring, NEW seen, Kahn(d, a, waits, ring, seen), ring.count > 0
  PROVE  /\ QueueFront(ring) \in Inside \ seen /\ Into(d, QueueFront(ring)) \subseteq seen
         /\ Holds(QueuePop(ring), Ready(d, seen) \ {QueueFront(ring)})
<1>1. Holds(ring, Ready(d, seen))
  BY DEF Kahn
<1>2. QueueFront(ring) \in Ready(d, seen) /\ Holds(QueuePop(ring), Ready(d, seen) \ {QueueFront(ring)})
  BY <1>1, HoldsOneLess
<1>3. QED
  BY <1>2 DEF Ready

\* A cell that drains into no other one of the domain is counted.
LEMMA KahnAtAnEnd ==
  ASSUME NEW d, Falls(d), NEW a, NEW waits, NEW ring, NEW seen, Kahn(d, a, waits, ring, seen), ring.count > 0,
         NEW p, p = QueueFront(ring), d[p] = NoDir \/ Neighbor(p, d[p]) \notin Inside
  PROVE  Kahn(d, a, waits, QueuePop(ring), seen \cup {p})
<1>1. p \in Inside \ seen /\ Into(d, p) \subseteq seen /\ Holds(QueuePop(ring), Ready(d, seen) \ {p})
  BY FrontIsReady
<1>2. \A q \in Inside : p \notin Into(d, q)
  BY DEF Into
<1>3. PICK now : now = seen \cup {p}
  OBVIOUS
<1>4. now \subseteq Inside /\ \A q \in now : Into(d, q) \subseteq now
  BY <1>1, <1>3 DEF Kahn
<1>5. \A q \in Inside : waits[q] = {c \in InvDirs(d)[q] : Neighbor(q, c) \notin now}
  <2>1. SUFFICES ASSUME NEW q \in Inside PROVE waits[q] = {c \in InvDirs(d)[q] : Neighbor(q, c) \notin now}
    OBVIOUS
  <2>2. waits[q] = {c \in InvDirs(d)[q] : Neighbor(q, c) \notin seen}
    BY DEF Kahn
  <2>3. \A c \in InvDirs(d)[q] : Neighbor(q, c) # p
    BY <1>2, DrainsAgree, CellsFinite DEF Falls
  <2>4. QED
    BY <1>3, <2>2, <2>3
<1>6. Ready(d, now) = Ready(d, seen) \ {p}
  BY <1>2, <1>3 DEF Ready
<1>7. ASSUME NEW q \in Inside PROVE Gathered(d, now, q) = Gathered(d, seen, q)
  <2>1. Into(d, q) \cap now = Into(d, q) \cap seen
    BY <1>2, <1>3
  <2>2. QED
    BY <2>1 DEF Gathered
<1>8. \A q \in Inside : a[q] = 1 + Cardinality(Gathered(d, now, q))
  BY <1>7 DEF Kahn
<1>9. waits \in [Halo -> SUBSET Dirs] /\ a \in [Inside -> Nat]
  BY DEF Kahn
<1>10. PICK r : r = QueuePop(ring)
  OBVIOUS
<1>11. Holds(r, Ready(d, now))
  BY <1>1, <1>6, <1>10
<1>12. Kahn(d, a, waits, r, now)
  BY <1>4, <1>5, <1>8, <1>9, <1>11 DEF Kahn
<1>13. QED
  BY <1>3, <1>10, <1>12

\* A cell is counted and brings what it has to the one that it drains into.
LEMMA KahnGoesOn ==
  ASSUME NEW d, Falls(d), NEW a, NEW waits, NEW ring, NEW seen, Kahn(d, a, waits, ring, seen), ring.count > 0,
         NEW p, p = QueueFront(ring), NEW q \in Inside, d[p] # NoDir, q = Neighbor(p, d[p]),
         NEW left, left = waits[q] \ {Opposite(d[p])}
  PROVE  /\ Opposite(d[p]) \in waits[q]
         /\ Kahn(d, [a EXCEPT ![q] = a[q] + a[p]], [waits EXCEPT ![q] = left],
                 IF left = {} THEN QueuePush(QueuePop(ring), q) ELSE QueuePop(ring), seen \cup {p})
<1>1. p \in Inside \ seen /\ Into(d, p) \subseteq seen /\ Holds(QueuePop(ring), Ready(d, seen) \ {p})
  BY FrontIsReady
<1>2. q \in Halo /\ p \in Int \X Int /\ d[p] \in Dirs
  BY <1>1, CellsFinite, InHalo DEF Falls
<1>3. p \in Into(d, q) /\ \A x \in Inside : x # q => p \notin Into(d, x)
  <2>1. p \in Around(q)
    BY <1>2, Neighbors DEF Around
  <2>2. QED
    BY <1>1, <2>1 DEF Into
<1>4. PICK now : now = seen \cup {p}
  OBVIOUS
<1>5. /\ seen \subseteq Inside /\ \A x \in seen : Into(d, x) \subseteq seen
      /\ \A x \in Inside : waits[x] = {c \in InvDirs(d)[x] : Neighbor(x, c) \notin seen}
      /\ waits \in [Halo -> SUBSET Dirs] /\ a \in [Inside -> Nat]
      /\ \A x \in Inside : a[x] = 1 + Cardinality(Gathered(d, seen, x))
  BY DEF Kahn
<1>6. q \notin seen /\ q # p
  <2>1. q # p
    BY <1>2, Neighbors
  <2>2. QED
    BY <1>1, <1>3, <1>5, <2>1
<1>7. now \subseteq Inside /\ \A x \in now : Into(d, x) \subseteq now
  BY <1>1, <1>4, <1>5
<1>8. PICK o : o = Opposite(d[p])
  OBVIOUS
<1>9. /\ o \in InvDirs(d)[q] /\ Neighbor(q, o) = p
      /\ \A c \in InvDirs(d)[q] : Neighbor(q, c) = p => c = o
  <2>1. o \in InvDirs(d)[q] /\ Neighbor(q, o) = p /\ \A c \in InvDirs(d)[q] : c \in Dirs
    BY <1>2, <1>3, <1>8, DrainsAgree DEF Falls
  <2>2. q \in Int \X Int
    BY InHalo
  <2>3. QED
    BY <2>1, <2>2, Neighbors
<1>10. o \in waits[q]
  BY <1>1, <1>5, <1>9
<1>11. left = {c \in InvDirs(d)[q] : Neighbor(q, c) \notin now}
  BY <1>4, <1>5, <1>8, <1>9
<1>12. PICK w : w = [waits EXCEPT ![q] = left]
  OBVIOUS
<1>13. /\ w \in [Halo -> SUBSET Dirs]
       /\ \A x \in Inside : w[x] = {c \in InvDirs(d)[x] : Neighbor(x, c) \notin now}
  <2>1. w \in [Halo -> SUBSET Dirs] /\ w[q] = left /\ \A x \in Inside : x # q => w[x] = waits[x]
    <3>1. left \in SUBSET Dirs
      BY <1>2, <1>5
    <3>2. \A x \in Inside : x \in Halo
      BY CellsFinite
    <3>3. QED
      BY <1>2, <1>5, <1>12, <3>1, <3>2
  <2>2. ASSUME NEW x \in Inside, x # q PROVE waits[x] = {c \in InvDirs(d)[x] : Neighbor(x, c) \notin now}
    <3>1. \A c \in InvDirs(d)[x] : Neighbor(x, c) # p
      BY <1>3, <2>2, DrainsAgree, CellsFinite DEF Falls
    <3>2. waits[x] = {c \in InvDirs(d)[x] : Neighbor(x, c) \notin seen}
      BY <1>5
    <3>3. QED
      BY <1>4, <3>1, <3>2
  <2>3. QED
    BY <1>11, <2>1, <2>2
<1>14. PICK b : b = [a EXCEPT ![q] = a[q] + a[p]]
  OBVIOUS
<1>15. /\ b \in [Inside -> Nat]
       /\ \A x \in Inside : b[x] = 1 + Cardinality(Gathered(d, now, x))
  <2>1. b \in [Inside -> Nat] /\ b[q] = a[q] + a[p] /\ \A x \in Inside : x # q => b[x] = a[x]
    <3>1. a[q] + a[p] \in Nat
      BY <1>1, <1>5
    <3>2. QED
      BY <1>5, <1>14, <3>1
  <2>2. ASSUME NEW x \in Inside, x # q PROVE Gathered(d, now, x) = Gathered(d, seen, x)
    <3>1. Into(d, x) \cap now = Into(d, x) \cap seen
      BY <1>3, <1>4, <2>2
    <3>2. QED
      BY <3>1 DEF Gathered
  <2>3. b[q] = 1 + Cardinality(Gathered(d, now, q))
    <3>1. PICK g \in Nat, k \in Nat : g = Cardinality(Gathered(d, seen, q)) /\ k = Cardinality(AboveBy(d, p))
      BY GatheredFinite
    <3>2. a[q] = 1 + g
      BY <1>5, <3>1
    <3>3. a[p] = 1 + k
      BY <1>1, <1>5, <3>1, GatheredAll
    <3>4. Cardinality(Gathered(d, now, q)) = g + 1 + k
      BY <1>1, <1>3, <1>4, <3>1, OneMoreSeen
    <3>5. QED
      BY <2>1, <3>2, <3>3, <3>4
  <2>4. QED
    BY <1>5, <2>1, <2>2, <2>3
<1>16. PICK r : r = IF left = {} THEN QueuePush(QueuePop(ring), q) ELSE QueuePop(ring)
  OBVIOUS
<1>17. Holds(r, Ready(d, now))
  <2>1. left = {} <=> Into(d, q) \subseteq now
    BY <1>11, WaitsForInto
  <2>2. q \notin Ready(d, seen)
    BY <1>1, <1>3 DEF Ready
  <2>3. \A x \in Inside : x # q => (x \in Ready(d, now) <=> x \in Ready(d, seen) /\ x # p)
    BY <1>3, <1>4 DEF Ready
  <2>4. q \in Ready(d, now) <=> left = {}
    BY <1>4, <1>6, <2>1 DEF Ready
  <2>5. Ready(d, now) = IF left = {} THEN (Ready(d, seen) \ {p}) \cup {q} ELSE Ready(d, seen) \ {p}
    <3>1. \A s : Ready(d, s) \subseteq Inside
      BY DEF Ready
    <3>2. QED
      BY <2>2, <2>3, <2>4, <3>1
  <2>6. CASE left = {}
    BY <1>1, <1>16, <2>2, <2>5, <2>6, HoldsOneMore
  <2>7. CASE left # {}
    BY <1>1, <1>16, <2>5, <2>7
  <2>8. QED
    BY <2>6, <2>7
<1>18. Kahn(d, b, w, r, now)
  BY <1>7, <1>13, <1>15, <1>17 DEF Kahn
<1>19. QED
  BY <1>4, <1>8, <1>10, <1>12, <1>14, <1>16, <1>18

\* When the ring is empty every cell has been counted.
LEMMA KahnEnds ==
  ASSUME NEW d, Falls(d), NEW a, NEW waits, NEW ring, NEW seen, Kahn(d, a, waits, ring, seen), ring.count = 0
  PROVE  /\ seen = Inside
         /\ \A q \in Inside : a[q] = 1 + Cardinality(AboveBy(d, q))
<1>1. Ready(d, seen) = {} /\ seen \subseteq Inside
  BY HoldsNothing DEF Kahn
<1>2. seen = Inside
  <2>1. SUFFICES ASSUME Inside \ seen # {} PROVE FALSE
    BY <1>1
  <2>2. PICK S \in SUBSET Inside : S = Inside \ seen /\ S # {}
    BY <2>1
  <2>3. PICK q \in S : Into(d, q) \cap S = {}
    BY <2>2, NoneWaitForever
  <2>4. Into(d, q) \subseteq seen
    BY <2>2, <2>3 DEF Into
  <2>5. q \in Ready(d, seen)
    BY <2>2, <2>4 DEF Ready
  <2>6. QED
    BY <1>1, <2>5
<1>3. ASSUME NEW q \in Inside PROVE a[q] = 1 + Cardinality(AboveBy(d, q))
  <2>1. Into(d, q) \subseteq seen
    BY <1>2 DEF Into
  <2>2. Gathered(d, seen, q) = AboveBy(d, q)
    BY <2>1, GatheredAll
  <2>3. QED
    BY <2>2 DEF Kahn
<1>4. QED
  BY <1>2, <1>3

-----------------------------------------------------------------------------
\* The count in the phases of flow_accumulation (), and its end.
CountInv ==
  /\ FlowInv
  /\ phase # "aborted"
  /\ phase = "count" => Kahn(dir, acc, in_degree, queue, counted)
  /\ phase = "done" => \A p \in Inside : acc[p] = 1 + Cardinality(AboveBy(dir, p))

\* Once the drains are there they fall, and DAG_validity () holds.
LEMMA FallsWhenRouted ==
  ASSUME FlowInv, phase \in Routed
  PROVE  Falls(dir) /\ invDir = InvDirs(dir) /\ DAG_validity(dir, invDir)
BY GradedWhenRouted, DrainsFall, DrainsAreValid

\* A turn of the loop of flow_accumulation (), its assertion included.
LEMMA CountKeeps ==
  ASSUME CountInv, Count
  PROVE  CountInv'
<1> USE DEF Goes
<1>1. /\ phase = "count" /\ queue.count > 0 /\ CountStep(dir) /\ dir' = dir
      /\ phase' = IF Awaited(dir) THEN "count" ELSE "aborted"
  BY DEF Count, routeVars
<1>2. FlowInv' /\ FlowInv
  BY RouteKeeps DEF CountInv
<1>3. Falls(dir) /\ Kahn(dir, acc, in_degree, queue, counted)
  BY <1>1, <1>2, FallsWhenRouted DEF CountInv, Routed
<1>4. PICK p, q : p = QueueFront(queue) /\ q = Neighbor(p, dir[p])
  OBVIOUS
<1>5. counted' = counted \cup {p}
  BY <1>1, <1>4 DEF CountStep
<1>6. CASE dir[p] = NoDir \/ q \notin Inside
  <2>1. queue' = QueuePop(queue) /\ acc' = acc /\ in_degree' = in_degree
    BY <1>1, <1>4, <1>6 DEF CountStep
  <2>2. Awaited(dir)
    BY <1>4, <1>6 DEF Awaited
  <2>3. Kahn(dir, acc, in_degree, QueuePop(queue), counted \cup {p})
    BY <1>1, <1>3, <1>4, <1>6, KahnAtAnEnd
  <2>4. Kahn(dir', acc', in_degree', queue', counted')
    BY <1>1, <1>5, <2>1, <2>3
  <2>5. QED
    BY <1>1, <1>2, <2>2, <2>4 DEF CountInv
<1>7. CASE dir[p] # NoDir /\ q \in Inside
  <2>1. PICK left : left = in_degree[q] \ {Opposite(dir[p])}
    OBVIOUS
  <2>2. /\ acc' = [acc EXCEPT ![q] = acc[q] + acc[p]]
        /\ in_degree' = [in_degree EXCEPT ![q] = left]
        /\ queue' = IF left = {} THEN QueuePush(QueuePop(queue), q) ELSE QueuePop(queue)
    BY <1>1, <1>4, <1>7, <2>1 DEF CountStep, Brings, WaitsNoMore
  <2>3. /\ Opposite(dir[p]) \in in_degree[q]
        /\ Kahn(dir, [acc EXCEPT ![q] = acc[q] + acc[p]], [in_degree EXCEPT ![q] = left],
                IF left = {} THEN QueuePush(QueuePop(queue), q) ELSE QueuePop(queue), counted \cup {p})
    BY <1>1, <1>3, <1>4, <1>7, <2>1, KahnGoesOn
  <2>4. Awaited(dir)
    BY <1>4, <2>3 DEF Awaited
  <2>5. Kahn(dir', acc', in_degree', queue', counted')
    BY <1>1, <1>5, <2>2, <2>3
  <2>6. QED
    BY <1>1, <1>2, <2>4, <2>5 DEF CountInv
<1>8. QED
  BY <1>6, <1>7

\* Every step of the call keeps the count's invariant.
LEMMA CountInvStep == CountInv /\ [Next]_vars => CountInv'
<1> USE DEF Goes
<1>1. ASSUME CountInv, UNCHANGED vars PROVE CountInv'
  <2>1. UNCHANGED <<phase, dir, acc, in_degree, queue, counted>>
    BY <1>1 DEF vars, routeVars, countVars
  <2>2. FlowInv'
    BY <1>1, FlowStep DEF CountInv
  <2>3. QED
    BY <1>1, <2>1, <2>2 DEF CountInv
<1>2. ASSUME CountInv, Next PROVE FlowInv'
  BY <1>2, FlowStep DEF CountInv
<1>3. ASSUME CountInv, CopyRaster \/ SkipFlats \/ StartFlood \/ Flood \/ EndFlood \/ TagFlats \/ TypeFlats
                       \/ FindInward \/ Invert \/ FindOutward \/ Route \/ Free
      PROVE  phase' \notin {"aborted", "count", "done"}
  BY <1>3 DEF CopyRaster, SkipFlats, StartFlood, Flood, EndFlood, TagFlats, TypeFlats, FindInward, Invert,
              FindOutward, Route, Free
<1>4. ASSUME CountInv, CheckDrains PROVE phase' \notin {"aborted", "count", "done"}
  <2>1. phase = "routed" /\ phase' = IF DAG_validity(dir, invDir) THEN "checked" ELSE "aborted"
    BY <1>4 DEF CheckDrains
  <2>2. DAG_validity(dir, invDir)
    BY <1>4, <2>1, FallsWhenRouted DEF CountInv, Routed
  <2>3. QED
    BY <2>1, <2>2
<1>5. ASSUME CountInv, Start, FlowInv' PROVE CountInv'
  <2>1. /\ phase = "checked" /\ phase' = "count" /\ dir' = dir
        /\ acc' = [p \in Inside |-> 1] /\ in_degree' = invDir /\ queue' = Sources(invDir) /\ counted' = {}
    BY <1>5 DEF Start, StartCount, routeVars
  <2>2. Falls(dir) /\ invDir = InvDirs(dir)
    BY <1>5, <2>1, FallsWhenRouted DEF CountInv, Routed
  <2>3. Kahn(dir', acc', in_degree', queue', counted')
    BY <2>1, <2>2, KahnBegins
  <2>4. QED
    BY <1>5, <2>1, <2>3 DEF CountInv
<1>6. ASSUME CountInv, EndCount, FlowInv' PROVE CountInv'
  <2>1. /\ phase = "count" /\ queue.count = 0 /\ dir' = dir /\ acc' = acc
        /\ phase' = IF counted = Inside THEN "done" ELSE "aborted"
    BY <1>6 DEF EndCount, routeVars, countVars
  <2>2. Falls(dir) /\ Kahn(dir, acc, in_degree, queue, counted)
    BY <1>6, <2>1, FallsWhenRouted DEF CountInv, Routed
  <2>3. counted = Inside /\ \A p \in Inside : acc[p] = 1 + Cardinality(AboveBy(dir, p))
    BY <2>1, <2>2, KahnEnds
  <2>4. QED
    BY <1>6, <2>1, <2>3 DEF CountInv
<1>7. QED
  BY <1>1, <1>2, <1>3, <1>4, <1>5, <1>6, CountKeeps DEF Next, Call, CountInv

\* The count's invariant holds at the start.
LEMMA CountInvInit == Init => CountInv
BY FlowInitInv DEF Init, CountInv

\* flow_accumulation () never fails an assertion, DAG_validity () included,
\* and ends with each cell's count the number of cells whose water comes by it
\* and itself: Kahn's order over the ring of fifo.c counts none twice and
\* leaves none waiting.
THEOREM CountIsExact == Spec => []CountsExact
<1>1. CountInv => CountsExact
  BY AboveIsAboveBy DEF CountInv, CountsExact
<1>2. QED
  BY <1>1, CountInvInit, CountInvStep, PTL DEF Spec
=============================================================================
