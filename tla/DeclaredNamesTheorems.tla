----------------------- MODULE DeclaredNamesTheorems -----------------------
(***************************************************************************)
(* The tables of names of libc-pp, for any names, any hash, any tables and *)
(* any file: whatever is declared, opened, closed and given up at errors,  *)
(* each table belongs to one scope, or to the kept parameters, or is once  *)
(* in the free list of its size.                                           *)
(*                                                                         *)
(* The free lists are chains of all the tables that nothing uses (Heap).   *)
(* That a scope is always there takes more: a list of parameters that is   *)
(* kept is taken off without a look at what is below it, and an error pops *)
(* scopes that are gone already.  What holds is that the scopes of the     *)
(* lists open are there, with the file's below them; and where some of     *)
(* these lists were open before a block, so are the scopes of the block    *)
(* and of all in it (Nest).                                                *)
(***************************************************************************)
EXTENDS DeclaredNames, WellFoundedInduction, FiniteSetTheorems, SequenceTheorems, TLAPS
-----------------------------------------------------------------------------
(***************************************************************************)
(* Free lists: the tables sq, each linked to the next one, from the first. *)
(***************************************************************************)
Linked(tables, first, sq) ==
  /\ sq \in Seq(1..Len(tables))
  /\ first = (IF Len(sq) = 0 THEN 0 ELSE sq[1])
  /\ \A i \in 1..Len(sq) : tables[sq[i]].next = (IF i = Len(sq) THEN 0 ELSE sq[i + 1])
  /\ \A i, j \in 1..Len(sq) : sq[i] = sq[j] => i = j

Members(sq) == {sq[i] : i \in 1..Len(sq)}

\* A list has no more members than there are tables.
LEMMA LinkedLength ==
  ASSUME NEW T, Len(T) \in Nat, NEW first, NEW sq, Linked(T, first, sq)
  PROVE  Len(sq) \in Nat /\ Len(sq) =< Len(T)
<1>1. sq \in Seq(1..Len(T)) /\ Len(sq) \in Nat /\ sq \in [1..Len(sq) -> 1..Len(T)]
  BY DEF Linked
<1> DEFINE n == Len(sq)
          m == Len(T)
<1>a. n \in Nat /\ m \in Nat /\ 1 \in Int /\ n \in Int /\ m \in Int
  BY <1>1
<1> HIDE DEF n, m
<1>b. /\ IsFiniteSet(1..n) /\ Cardinality(1..n) = IF 1 > n THEN 0 ELSE n - 1 + 1
      /\ IsFiniteSet(1..m) /\ Cardinality(1..m) = IF 1 > m THEN 0 ELSE m - 1 + 1
  BY <1>a, FS_Interval
<1>c. Cardinality(1..n) = n /\ Cardinality(1..m) = m
  BY <1>a, <1>b
<1>2. IsFiniteSet(1..Len(sq)) /\ Cardinality(1..Len(sq)) = Len(sq)
  BY <1>b, <1>c DEF n
<1>3. IsFiniteSet(1..Len(T)) /\ Cardinality(1..Len(T)) = Len(T)
  BY <1>b, <1>c DEF m
<1>4. ASSUME Len(T) < Len(sq) PROVE FALSE
  <2>1. Cardinality(1..Len(T)) < Cardinality(1..Len(sq))
    BY <1>2, <1>3, <1>4
  <2>2. \E x, y \in 1..Len(sq) : x # y /\ sq[x] = sq[y]
    BY <1>1, <1>2, <1>3, <2>1, FS_PigeonHole
  <2>3. QED
    BY <2>2 DEF Linked
<1>5. QED
  BY <1>1, <1>4

\* Other tables may change their links, and more may be made.
LEMMA KeepLinked ==
  ASSUME NEW T, NEW T2, NEW first, NEW sq, Linked(T, first, sq),
         Len(T) \in Nat, Len(T2) \in Nat, Len(T) =< Len(T2),
         \A t \in Members(sq) : T2[t].next = T[t].next
  PROVE  Linked(T2, first, sq)
<1>1. sq \in Seq(1..Len(T)) /\ Len(sq) \in Nat /\ sq \in [1..Len(sq) -> 1..Len(T)]
  BY DEF Linked
<1>2. sq \in Seq(1..Len(T2))
  BY <1>1
<1>3. \A i \in 1..Len(sq) : T2[sq[i]].next = T[sq[i]].next
  BY DEF Members
<1>4. QED
  BY <1>2, <1>3 DEF Linked

InFront(t, sq) == <<t>> \o sq

\* A table put in front.
LEMMA PutInFront ==
  ASSUME NEW T, NEW T2, NEW first, NEW sq, Linked(T, first, sq),
         Len(T) \in Nat, Len(T2) = Len(T),
         NEW t \in 1..Len(T), t \notin Members(sq),
         T2[t].next = first, \A u \in Members(sq) : T2[u].next = T[u].next
  PROVE  Linked(T2, t, InFront(t, sq)) /\ Members(InFront(t, sq)) = Members(sq) \cup {t}
<1> DEFINE tq == InFront(t, sq)
<1>1. sq \in Seq(1..Len(T)) /\ Len(sq) \in Nat /\ sq \in [1..Len(sq) -> 1..Len(T)]
  BY DEF Linked
<1>2. /\ tq \in Seq(1..Len(T)) /\ Len(tq) = Len(sq) + 1 /\ tq[1] = t
  BY <1>1 DEF InFront
<1>2a. \A i \in 1..Len(sq) : tq[i + 1] = sq[i]
  BY <1>1 DEF InFront
<1>2b. \A i \in 2..Len(tq) : tq[i] = sq[i - 1]
  BY <1>1 DEF InFront
<1> HIDE DEF tq
<1>3. \A i \in 1..Len(sq) : sq[i] \in Members(sq) /\ sq[i] # t
  BY DEF Members
<1>4. \A i \in 1..Len(tq) : T2[tq[i]].next = (IF i = Len(tq) THEN 0 ELSE tq[i + 1])
  <2> SUFFICES ASSUME NEW i \in 1..Len(tq)
               PROVE  T2[tq[i]].next = (IF i = Len(tq) THEN 0 ELSE tq[i + 1])
    OBVIOUS
  <2>1. CASE i = 1
    <3>1. CASE Len(sq) = 0
      BY <2>1, <3>1, <1>1, <1>2 DEF Linked
    <3>2. CASE Len(sq) # 0
      <4>1. 1 \in 1..Len(sq) /\ tq[1 + 1] = sq[1]
        BY <3>2, <1>1, <1>2a
      <4>2. first = sq[1]
        BY <3>2 DEF Linked
      <4>3. QED
        BY <4>1, <4>2, <2>1, <3>2, <1>1, <1>2
    <3>3. QED
      BY <3>1, <3>2
  <2>2. CASE i # 1
    <3>1. PICK k \in 1..Len(sq) : i = k + 1
      BY <2>2, <1>1, <1>2
    <3>2. tq[i] = sq[k] /\ T2[sq[k]].next = T[sq[k]].next
      BY <3>1, <1>2a, <1>3
    <3>3. T[sq[k]].next = (IF k = Len(sq) THEN 0 ELSE sq[k + 1])
      BY DEF Linked
    <3>4. ASSUME k # Len(sq) PROVE i \in 1..Len(sq) /\ tq[i + 1] = sq[i]
      <4> DEFINE n == Len(sq)
      <4>1. n \in Nat /\ k \in 1..n /\ k # n
        BY <3>4, <1>1
      <4> HIDE DEF n
      <4>2. k + 1 \in 1..n
        BY <4>1
      <4>3. QED
        BY <4>2, <3>1, <1>2a DEF n
    <3>5. i = Len(tq) <=> k = Len(sq)
      <4>1. Len(tq) = Len(sq) + 1 /\ Len(sq) \in Int /\ k \in Int
        BY <1>1, <1>2
      <4>2. QED
        BY <4>1, <3>1
    <3>6. k # Len(sq) => sq[k + 1] = sq[i]
      BY <3>1
    <3>7. QED
      BY <3>2, <3>3, <3>4, <3>5, <3>6
  <2>3. QED
    BY <2>1, <2>2
<1>5. \A i, j \in 1..Len(tq) : tq[i] = tq[j] => i = j
  <2> SUFFICES ASSUME NEW i \in 1..Len(tq), NEW j \in 1..Len(tq), tq[i] = tq[j]
               PROVE  i = j
    OBVIOUS
  <2>1. CASE i # 1 /\ j # 1
    <3>1. i - 1 \in 1..Len(sq) /\ j - 1 \in 1..Len(sq) /\ sq[i - 1] = sq[j - 1]
      BY <2>1, <1>1, <1>2, <1>2b
    <3>2. i - 1 = j - 1
      BY <3>1 DEF Linked
    <3>3. QED
      BY <3>2
  <2>2. CASE i = 1 /\ j # 1
    <3>1. j - 1 \in 1..Len(sq) /\ tq[j] = sq[j - 1]
      BY <2>2, <1>1, <1>2, <1>2b
    <3>2. QED
      BY <3>1, <2>2, <1>2, <1>3
  <2>3. CASE i # 1 /\ j = 1
    <3>1. i - 1 \in 1..Len(sq) /\ tq[i] = sq[i - 1]
      BY <2>3, <1>1, <1>2, <1>2b
    <3>2. QED
      BY <3>1, <2>3, <1>2, <1>3
  <2>4. QED
    BY <2>1, <2>2, <2>3
<1>6. Members(tq) = Members(sq) \cup {t}
  <2>1. \A i \in 1..Len(tq) : tq[i] \in Members(sq) \cup {t}
    <3> SUFFICES ASSUME NEW i \in 1..Len(tq) PROVE tq[i] \in Members(sq) \cup {t}
      OBVIOUS
    <3>1. i # 1 => i - 1 \in 1..Len(sq) /\ tq[i] = sq[i - 1]
      BY <1>1, <1>2, <1>2b
    <3>2. QED
      BY <3>1, <1>2, <1>3
  <2>2. t \in Members(tq)
    BY <1>1, <1>2 DEF Members
  <2>3. \A i \in 1..Len(sq) : sq[i] \in Members(tq)
    <3> SUFFICES ASSUME NEW i \in 1..Len(sq) PROVE sq[i] \in Members(tq)
      OBVIOUS
    <3>1. i + 1 \in 1..Len(tq) /\ tq[i + 1] = sq[i]
      BY <1>1, <1>2, <1>2a
    <3>2. QED
      BY <3>1 DEF Members
  <2>4. QED
    BY <2>1, <2>2, <2>3 DEF Members
<1>8. Linked(T2, t, tq)
  <2>1. tq \in Seq(1..Len(T2))
    BY <1>2
  <2>2. t = (IF Len(tq) = 0 THEN 0 ELSE tq[1])
    BY <1>1, <1>2
  <2>3. QED
    BY <2>1, <2>2, <1>4, <1>5 DEF Linked
<1>9. QED
  BY <1>6, <1>8 DEF tq

\* The first table taken.
LEMMA TakeFirst ==
  ASSUME NEW T, NEW first, NEW sq, Linked(T, first, sq), Len(T) \in Nat, first # 0
  PROVE  /\ Linked(T, T[first].next, Tail(sq))
         /\ Members(Tail(sq)) = Members(sq) \ {first}
         /\ first \in Members(sq) /\ first \in 1..Len(T)
<1> DEFINE tq == Tail(sq)
<1>1. sq \in Seq(1..Len(T)) /\ Len(sq) \in Nat /\ sq \in [1..Len(sq) -> 1..Len(T)]
  BY DEF Linked
<1>2a. Len(sq) # 0 /\ first = sq[1]
  BY DEF Linked
<1>2. first = sq[1] /\ Len(sq) > 0 /\ 1 \in 1..Len(sq)
  BY <1>1, <1>2a
<1>3. /\ tq \in Seq(1..Len(T)) /\ Len(tq) = Len(sq) - 1 /\ Len(tq) \in Nat
  BY <1>1, <1>2
<1>3a. \A i \in 1..Len(tq) : tq[i] = sq[i + 1] /\ i + 1 \in 1..Len(sq)
  BY <1>1, <1>2
<1>3b. \A i \in 2..Len(sq) : sq[i] = tq[i - 1] /\ i - 1 \in 1..Len(tq)
  BY <1>1, <1>2
<1> HIDE DEF tq
<1>4. T[first].next = (IF Len(tq) = 0 THEN 0 ELSE tq[1])
  <2>1. T[first].next = (IF 1 = Len(sq) THEN 0 ELSE sq[1 + 1])
    BY <1>2 DEF Linked
  <2>2. Len(tq) = 0 <=> Len(sq) = 1
    BY <1>1, <1>2, <1>3
  <2>3. Len(sq) # 1 => sq[1 + 1] = tq[1]
    BY <1>1, <1>2, <1>3, <1>3a
  <2>4. QED
    BY <2>1, <2>2, <2>3
<1>5. \A i \in 1..Len(tq) : T[tq[i]].next = (IF i = Len(tq) THEN 0 ELSE tq[i + 1])
  <2> SUFFICES ASSUME NEW i \in 1..Len(tq)
               PROVE  T[tq[i]].next = (IF i = Len(tq) THEN 0 ELSE tq[i + 1])
    OBVIOUS
  <2>1. T[sq[i + 1]].next = (IF i + 1 = Len(sq) THEN 0 ELSE sq[(i + 1) + 1])
    BY <1>3a DEF Linked
  <2>2. i # Len(tq) => tq[i + 1] = sq[(i + 1) + 1]
    BY <1>3, <1>3a
  <2>3. tq[i] = sq[i + 1] /\ (i = Len(tq) <=> i + 1 = Len(sq))
    BY <1>1, <1>3, <1>3a
  <2>4. QED
    BY <2>1, <2>2, <2>3
<1>6. \A i, j \in 1..Len(tq) : tq[i] = tq[j] => i = j
  <2> SUFFICES ASSUME NEW i \in 1..Len(tq), NEW j \in 1..Len(tq), tq[i] = tq[j]
               PROVE  i = j
    OBVIOUS
  <2>1. i + 1 = j + 1
    BY <1>3a DEF Linked
  <2>2. QED
    BY <2>1
<1>7. Members(tq) = Members(sq) \ {first}
  <2>1. \A i \in 1..Len(tq) : tq[i] \in Members(sq) \ {first}
    <3> SUFFICES ASSUME NEW i \in 1..Len(tq) PROVE tq[i] \in Members(sq) \ {first}
      OBVIOUS
    <3>1. tq[i] = sq[i + 1] /\ i + 1 \in 1..Len(sq) /\ i + 1 # 1
      BY <1>3a
    <3>2. sq[i + 1] # sq[1]
      BY <3>1, <1>2 DEF Linked
    <3>3. QED
      BY <3>1, <3>2, <1>2 DEF Members
  <2>2. \A i \in 1..Len(sq) : sq[i] # first => sq[i] \in Members(tq)
    <3> SUFFICES ASSUME NEW i \in 1..Len(sq), sq[i] # first PROVE sq[i] \in Members(tq)
      OBVIOUS
    <3>1. i \in 2..Len(sq)
      BY <1>1, <1>2
    <3>2. QED
      BY <3>1, <1>3b DEF Members
  <2>3. QED
    BY <2>1, <2>2 DEF Members
<1>8. Linked(T, T[first].next, tq)
  BY <1>3, <1>4, <1>5, <1>6 DEF Linked
<1>9. first \in Members(sq) /\ first \in 1..Len(T)
  BY <1>1, <1>2 DEF Members
<1>10. QED
  BY <1>7, <1>8, <1>9 DEF tq
-----------------------------------------------------------------------------
(***************************************************************************)
(* The table's state, and the tables out of use.                           *)
(***************************************************************************)
Kinds == {"variable", "typedef"}
EntrySet == [name : Names, kind : Kinds, decl : Nat]
TablesOf(n) == [size : {n}, bucket : [0..(n - 1) -> SUBSET EntrySet], next : Nat]
TableSet == UNION {TablesOf(n) : n \in Sizes}
ScopeSet == [table : Nat, n : Nat]

State ==
  [scopes : Seq(ScopeSet), fn_params : ScopeSet \cup {NoScope}, param_depth : Nat,
   typedef_seen : BOOLEAN, declaring : Kinds, free : [Sizes -> Nat], tables : Seq(TableSet)]

\* All but the tables is as it was.
SameScopes(s, r) ==
  /\ r.scopes = s.scopes /\ r.fn_params = s.fn_params /\ r.param_depth = s.param_depth
  /\ r.typedef_seen = s.typedef_seen /\ r.declaring = s.declaring

\* sq are the free tables of size n, where those of U are in use.
FreeList(s, n, U, sq) ==
  /\ Linked(s.tables, s.free[n], sq)
  /\ Members(sq) = {t \in 1..Len(s.tables) : s.tables[t].size = n} \ U

Heap(s, U) ==
  /\ U \in SUBSET (1..Len(s.tables))
  /\ \A n \in Sizes : \E sq : FreeList(s, n, U, sq)

LEMMA SizesArePositive == Sizes \subseteq Nat \ {0}
  BY BucketsAssumption DEF Sizes

LEMMA StateFields ==
  ASSUME NEW s \in State
  PROVE  /\ s.scopes \in Seq(ScopeSet) /\ Len(s.scopes) \in Nat
         /\ s.fn_params \in ScopeSet \cup {NoScope} /\ s.param_depth \in Nat
         /\ s.typedef_seen \in BOOLEAN /\ s.declaring \in Kinds
         /\ s.free \in [Sizes -> Nat] /\ s.tables \in Seq(TableSet) /\ Len(s.tables) \in Nat
BY DEF State

LEMMA TableFields ==
  ASSUME NEW s \in State, NEW t \in 1..Len(s.tables)
  PROVE  /\ s.tables[t] \in TablesOf(s.tables[t].size)
         /\ s.tables[t].size \in Sizes /\ s.tables[t].size \in Nat \ {0}
         /\ s.tables[t].bucket \in [0..(s.tables[t].size - 1) -> SUBSET EntrySet]
         /\ s.tables[t].next \in Nat
<1>1. s.tables[t] \in TableSet
  BY StateFields
<1>2. PICK n \in Sizes : s.tables[t] \in TablesOf(n)
  BY <1>1 DEF TableSet
<1>3. s.tables[t].size = n
  BY <1>2 DEF TablesOf
<1>4. QED
  BY <1>2, <1>3, SizesArePositive DEF TablesOf

\* Table t of T replaced by one of n buckets b, linked to k.
TableWith(T, t, n, b, k) == [T EXCEPT ![t] = [size |-> n, bucket |-> b, next |-> k]]

OnlyChanged(T2, T, t, n, b, k) ==
  /\ T2 \in Seq(TableSet) /\ Len(T2) = Len(T)
  /\ T2[t] = [size |-> n, bucket |-> b, next |-> k]
  /\ \A u \in 1..Len(T) : u # t => T2[u] = T[u]
  /\ \A u \in 1..Len(T) : T2[u].size = T[u].size

LEMMA TableChanged ==
  ASSUME NEW T \in Seq(TableSet), NEW t \in 1..Len(T), NEW n \in Sizes, T[t].size = n,
         NEW b \in [0..(n - 1) -> SUBSET EntrySet], NEW k \in Nat
  PROVE  OnlyChanged(TableWith(T, t, n, b, k), T, t, n, b, k)
<1> DEFINE x == [size |-> n, bucket |-> b, next |-> k]
           T2 == TableWith(T, t, n, b, k)
<1>1. x \in TableSet /\ x.size = n
  BY DEF TableSet, TablesOf
<1>2. T2 = [T EXCEPT ![t] = x]
  BY DEF TableWith
<1> HIDE DEF x, T2
<1>3. /\ T2 \in Seq(TableSet) /\ Len(T2) = Len(T) /\ T2[t] = x
      /\ \A u \in 1..Len(T) : u # t => T2[u] = T[u]
  BY <1>1, <1>2
<1>4. \A u \in 1..Len(T) : T2[u].size = T[u].size
  BY <1>1, <1>3
<1>5. QED
  BY <1>3, <1>4 DEF x, T2, OnlyChanged

LEMMA EmptyBucketsType ==
  ASSUME NEW n \in Sizes
  PROVE  EmptyBuckets(n) \in [0..(n - 1) -> SUBSET EntrySet]
BY DEF EmptyBuckets

\* What TakeTable returns: a table of n buckets, empty, that was not in use.
TookTable(s, n, U, t, r) ==
  /\ r \in State /\ SameScopes(s, r)
  /\ Len(s.tables) =< Len(r.tables) /\ t \in 1..Len(r.tables) /\ t \notin U
  /\ r.tables[t].size = n /\ r.tables[t].bucket = EmptyBuckets(n)
  /\ \A u \in 1..Len(s.tables) : r.tables[u].size = s.tables[u].size
  /\ \A u \in 1..Len(s.tables) : u # t => r.tables[u] = s.tables[u]
  /\ Heap(r, U \cup {t})

LEMMA TakesNewTable ==
  ASSUME NEW s \in State, NEW U, Heap(s, U), NEW n \in Sizes, s.free[n] = 0
  PROVE  TookTable(s, n, U, Taken(s, n), TakeTable(s, n))
<1> DEFINE t == Len(s.tables) + 1
          T == s.tables
          new == [size |-> n, bucket |-> EmptyBuckets(n), next |-> 0]
          T2 == Append(T, new)
          r == TakeTable(s, n)
<1>1. Taken(s, n) = t /\ r = [s EXCEPT !.tables = T2]
  BY DEF Taken, TakeTable
<1>2. T \in Seq(TableSet) /\ Len(T) \in Nat /\ s.free \in [Sizes -> Nat]
  BY StateFields
<1>3. new \in TableSet
  BY EmptyBucketsType DEF TableSet, TablesOf
<1> HIDE DEF new
<1>4. /\ T2 \in Seq(TableSet) /\ Len(T2) = Len(T) + 1 /\ T2[t] = new
      /\ \A u \in 1..Len(T) : T2[u] = T[u]
  BY <1>2, <1>3
<1> HIDE DEF T2, r
<1>5. r \in State /\ SameScopes(s, r) /\ r.tables = T2 /\ r.free = s.free
  BY <1>1, <1>4 DEF State, SameScopes
<1>6. U \in SUBSET (1..Len(T))
  BY DEF Heap
<1>7. ASSUME NEW m \in Sizes PROVE \E sq : FreeList(r, m, U \cup {t}, sq)
  <2>1. PICK sq : FreeList(s, m, U, sq)
    BY DEF Heap
  <2>2. Members(sq) \subseteq 1..Len(T)
    BY <2>1 DEF FreeList
  <2>3. Linked(T, s.free[m], sq) /\ \A u \in Members(sq) : T2[u].next = T[u].next
    BY <2>1, <2>2, <1>4 DEF FreeList
  <2>4. Len(T2) \in Nat /\ Len(T) =< Len(T2)
    BY <1>2, <1>4
  <2>5. Linked(T2, s.free[m], sq)
    BY <2>3, <2>4, <1>2, KeepLinked
  <2>6. {u \in 1..Len(T2) : T2[u].size = m} \ (U \cup {t}) = {u \in 1..Len(T) : T[u].size = m} \ U
    BY <1>2, <1>4
  <2>7. FreeList(r, m, U \cup {t}, sq)
    BY <2>1, <2>5, <2>6, <1>5 DEF FreeList
  <2>8. QED
    BY <2>7
<1>8. U \cup {t} \in SUBSET (1..Len(T2))
  <2>1. \A u \in U : u \in 1..Len(T2)
    BY <1>2, <1>4, <1>6
  <2>2. t \in 1..Len(T2)
    BY <1>2, <1>4
  <2>3. QED
    BY <2>1, <2>2
<1>9. Heap(r, U \cup {t})
  BY <1>5, <1>7, <1>8 DEF Heap
<1>10. t \notin U /\ t \in 1..Len(T2) /\ Len(T) =< Len(T2)
  BY <1>2, <1>4, <1>6
<1>11. T2[t].size = n /\ T2[t].bucket = EmptyBuckets(n)
  BY <1>4 DEF new
<1>12. TookTable(s, n, U, t, r)
  BY <1>4, <1>5, <1>9, <1>10, <1>11 DEF TookTable
<1>13. QED
  BY <1>1, <1>12 DEF r

LEMMA TakesFreeTable ==
  ASSUME NEW s \in State, NEW U, Heap(s, U), NEW n \in Sizes, s.free[n] # 0
  PROVE  TookTable(s, n, U, Taken(s, n), TakeTable(s, n))
<1> DEFINE t == s.free[n]
          T == s.tables
          T2 == [T EXCEPT ![t] = [size |-> n, bucket |-> EmptyBuckets(n), next |-> 0]]
          r == TakeTable(s, n)
<1>1. Taken(s, n) = t
  BY DEF Taken
<1>2. T \in Seq(TableSet) /\ Len(T) \in Nat /\ s.free \in [Sizes -> Nat]
  BY StateFields
<1>3. PICK fq : FreeList(s, n, U, fq)
  BY DEF Heap
<1>4. /\ Linked(T, T[t].next, Tail(fq)) /\ Members(Tail(fq)) = Members(fq) \ {t}
      /\ t \in Members(fq) /\ t \in 1..Len(T)
  BY <1>2, <1>3, TakeFirst DEF FreeList
<1>5. T[t].size = n /\ t \notin U
  BY <1>3, <1>4 DEF FreeList
<1>6. T[t] \in TablesOf(n) /\ T[t].next \in Nat
  BY <1>4, <1>5, TableFields
<1>7. EmptyBuckets(n) \in [0..(n - 1) -> SUBSET EntrySet]
  BY EmptyBucketsType
<1>8. /\ T2 \in Seq(TableSet) /\ Len(T2) = Len(T)
      /\ T2[t] = [size |-> n, bucket |-> EmptyBuckets(n), next |-> 0]
      /\ \A u \in 1..Len(T) : u # t => T2[u] = T[u]
      /\ \A u \in 1..Len(T) : T2[u].size = T[u].size
  <2> DEFINE b == EmptyBuckets(n)
             k == 0
  <2>1. T2 = TableWith(T, t, n, b, k)
    BY DEF TableWith
  <2>2. /\ k \in Nat /\ b \in [0..(n - 1) -> SUBSET EntrySet]
        /\ T \in Seq(TableSet) /\ t \in 1..Len(T) /\ n \in Sizes /\ T[t].size = n
    BY <1>2, <1>4, <1>5, <1>7
  <2> HIDE DEF T2, T, t, b, k
  <2>3. /\ T2 \in Seq(TableSet) /\ Len(T2) = Len(T)
        /\ T2[t] = [size |-> n, bucket |-> b, next |-> k]
        /\ \A u \in 1..Len(T) : u # t => T2[u] = T[u]
        /\ \A u \in 1..Len(T) : T2[u].size = T[u].size
    <3>1. /\ t \in 1..Len(T) /\ T \in Seq(TableSet) /\ k \in Nat /\ n \in Sizes /\ T[t].size = n
          /\ b \in [0..(n - 1) -> SUBSET EntrySet]
      BY <2>2
    <3>2. OnlyChanged(TableWith(T, t, n, b, k), T, t, n, b, k)
      BY ONLY <3>1, TableChanged
    <3>3. QED
      BY <2>1, <3>2 DEF OnlyChanged
  <2>4. QED
    BY <2>3 DEF b, k
<1>9. r = [s EXCEPT !.free = [s.free EXCEPT ![n] = T[t].next], !.tables = T2]
  <2> DEFINE F == [s.free EXCEPT ![n] = T[t].next]
             X == [T EXCEPT ![t].bucket = EmptyBuckets(n)]
             Y == [X EXCEPT ![t].next = 0]
             q == [s EXCEPT !.free = F, !.tables = X]
  <2>1. T2 = Y
    BY <1>2, <1>4, <1>6 DEF TablesOf
  <2>2. r = [q EXCEPT !.tables[t].next = 0]
    <3>1. r = [s EXCEPT !.free[n] = T[t].next, !.tables[t].bucket = EmptyBuckets(n), !.tables[t].next = 0]
      BY DEF TakeTable
    <3>2. QED
      BY <3>1
  <2> HIDE DEF F, T2, r
  <2>3. q.tables = X
    BY DEF State
  <2>4. r = [q EXCEPT !.tables = Y]
    <3> HIDE DEF q, X
    <3>1. QED
      BY <2>2, <2>3
  <2> HIDE DEF X, Y
  <2>5. r = [s EXCEPT !.free = F, !.tables = Y]
    BY <2>4
  <2>6. QED
    BY <2>1, <2>5 DEF F
<1> HIDE DEF T2, r
<1>10. /\ r \in State /\ SameScopes(s, r) /\ r.tables = T2
       /\ r.free = [s.free EXCEPT ![n] = T[t].next]
  BY <1>2, <1>6, <1>8, <1>9 DEF State, SameScopes
<1>11. U \in SUBSET (1..Len(T))
  BY DEF Heap
<1>12. ASSUME NEW m \in Sizes PROVE \E sq : FreeList(r, m, U \cup {t}, sq)
  <2>1. {u \in 1..Len(T2) : T2[u].size = m} = {u \in 1..Len(T) : T[u].size = m}
    BY <1>8
  <2>2. CASE m = n
    <3>1. \A u \in Members(Tail(fq)) : T2[u].next = T[u].next
      BY <1>3, <1>4, <1>8 DEF FreeList
    <3>2. Linked(T2, T[t].next, Tail(fq))
      BY <3>1, <1>2, <1>4, <1>8, KeepLinked
    <3>3. FreeList(r, m, U \cup {t}, Tail(fq))
      BY <2>1, <2>2, <3>2, <1>2, <1>3, <1>4, <1>10 DEF FreeList
    <3>4. QED
      BY <3>3
  <2>3. CASE m # n
    <3>1. PICK sq : FreeList(s, m, U, sq)
      BY DEF Heap
    <3>2. t \notin Members(sq)
      BY <2>3, <3>1, <1>5 DEF FreeList
    <3>3. Linked(T, s.free[m], sq) /\ \A u \in Members(sq) : T2[u].next = T[u].next
      BY <3>1, <3>2, <1>8 DEF FreeList
    <3>4. Linked(T2, s.free[m], sq)
      BY <3>3, <1>2, <1>8, KeepLinked
    <3>5. r.free[m] = s.free[m]
      BY <2>3, <1>2, <1>10
    <3>6. FreeList(r, m, U \cup {t}, sq)
      BY <2>1, <3>1, <3>2, <3>4, <3>5, <1>10 DEF FreeList
    <3>7. QED
      BY <3>6
  <2>4. QED
    BY <2>2, <2>3
<1>13. U \cup {t} \in SUBSET (1..Len(T2))
  BY <1>4, <1>8, <1>11
<1>14. Heap(r, U \cup {t})
  BY <1>10, <1>12, <1>13 DEF Heap
<1>15. T2[t].size = n /\ T2[t].bucket = EmptyBuckets(n)
  BY <1>5, <1>8
<1>16. TookTable(s, n, U, t, r)
  BY <1>2, <1>4, <1>5, <1>8, <1>10, <1>14, <1>15 DEF TookTable
<1>17. QED
  BY <1>1, <1>16 DEF r

\* What ReleaseTable returns: t is in use no more, and another table keeps all
\* that it holds.
ReleasedTable(s, U, t, r) ==
  /\ r \in State /\ SameScopes(s, r)
  /\ Len(r.tables) = Len(s.tables)
  /\ \A u \in 1..Len(s.tables) : u # t => r.tables[u] = s.tables[u]
  /\ Heap(r, U \ {t})

LEMMA ReleasesTable ==
  ASSUME NEW s \in State, NEW U, Heap(s, U), NEW t, t = 0 \/ t \in U
  PROVE  ReleasedTable(s, U, t, ReleaseTable(s, t))
<1>1. CASE t = 0
  <2>1. ReleaseTable(s, t) = s
    BY <1>1 DEF ReleaseTable
  <2>2. U \in SUBSET (1..Len(s.tables))
    BY DEF Heap
  <2>3. U \ {t} = U
    BY <1>1, <2>2
  <2>4. QED
    BY <2>1, <2>3 DEF ReleasedTable, SameScopes
<1>2. CASE t # 0
  <2> DEFINE T == s.tables
            n == T[t].size
            b == [T[t].bucket EXCEPT ![0] = {}]
            T2 == [T EXCEPT ![t] = [size |-> n, bucket |-> b, next |-> s.free[n]]]
            r == ReleaseTable(s, t)
  <2>1. T \in Seq(TableSet) /\ Len(T) \in Nat /\ s.free \in [Sizes -> Nat]
    BY StateFields
  <2>2. U \in SUBSET (1..Len(T)) /\ t \in U /\ t \in 1..Len(T)
    BY <1>2 DEF Heap
  <2>3. /\ T[t] \in TablesOf(n) /\ n \in Sizes
        /\ T[t].bucket \in [0..(n - 1) -> SUBSET EntrySet] /\ s.free[n] \in Nat
    BY <2>1, <2>2, TableFields
  <2>4. b \in [0..(n - 1) -> SUBSET EntrySet]
    BY <2>3
  <2>5. T2 = [T EXCEPT ![t] = [T[t] EXCEPT !.next = s.free[n], !.bucket[0] = {}]]
    BY <2>1, <2>2, <2>3 DEF TablesOf
  <2> HIDE DEF b
  <2>6. /\ T2 \in Seq(TableSet) /\ Len(T2) = Len(T)
        /\ T2[t] = [size |-> n, bucket |-> b, next |-> s.free[n]]
        /\ \A u \in 1..Len(T) : u # t => T2[u] = T[u]
        /\ \A u \in 1..Len(T) : T2[u].size = T[u].size
    <3> DEFINE m == n
               k == s.free[n]
    <3>2. m \in Sizes /\ T[t].size = m /\ b \in [0..(m - 1) -> SUBSET EntrySet] /\ k \in Nat
          /\ T2 = TableWith(T, t, m, b, k)
      BY <2>3, <2>4 DEF TableWith
    <3> HIDE DEF T2, m, k
    <3>3. /\ T2 \in Seq(TableSet) /\ Len(T2) = Len(T)
          /\ T2[t] = [size |-> m, bucket |-> b, next |-> k]
          /\ \A u \in 1..Len(T) : u # t => T2[u] = T[u]
          /\ \A u \in 1..Len(T) : T2[u].size = T[u].size
      <4> HIDE DEF T
      <4>1. OnlyChanged(TableWith(T, t, m, b, k), T, t, m, b, k)
        BY <3>2, <2>1, <2>2, TableChanged
      <4>2. QED
        BY <3>2, <4>1 DEF OnlyChanged
    <3>4. QED
      BY <3>3 DEF m, k
  <2> HIDE DEF T2
  <2>7. r = [s EXCEPT !.tables = T2, !.free = [s.free EXCEPT ![n] = t]]
    <3>1. SizeOf(s, t) = n
      BY <1>2 DEF SizeOf
    <3>2. r = [s EXCEPT !.tables = [T EXCEPT ![t] = [T[t] EXCEPT !.next = s.free[n], !.bucket[0] = {}]],
                        !.free = [s.free EXCEPT ![n] = t]]
      BY <3>1, <1>2 DEF ReleaseTable, State
    <3> HIDE DEF T2, r
    <3>3. QED
      BY <3>2, <2>5
  <2>8. /\ r \in State /\ SameScopes(s, r) /\ r.tables = T2
        /\ r.free = [s.free EXCEPT ![n] = t]
    <3> HIDE DEF r
    <3>1. t \in Nat
      BY <2>1, <2>2
    <3>2. QED
      BY <3>1, <2>1, <2>3, <2>6, <2>7 DEF State, SameScopes
  <2> HIDE DEF r
  <2>9. ASSUME NEW m \in Sizes PROVE \E sq : FreeList(r, m, U \ {t}, sq)
    <3>1. PICK sq : FreeList(s, m, U, sq)
      BY DEF Heap
    <3>2. t \notin Members(sq)
      BY <3>1, <2>2 DEF FreeList
    <3>3. Linked(T, s.free[m], sq) /\ \A u \in Members(sq) : T2[u].next = T[u].next
      BY <3>1, <3>2, <2>6 DEF FreeList
    <3>4. {u \in 1..Len(T2) : T2[u].size = m} = {u \in 1..Len(T) : T[u].size = m}
      BY <2>6
    <3>5. CASE m = n
      <4>1. T2[t].next = s.free[m]
        BY <2>6, <3>5
      <4>2. Linked(T2, t, InFront(t, sq)) /\ Members(InFront(t, sq)) = Members(sq) \cup {t}
        <5> DEFINE first == s.free[m]
        <5>1. /\ T2[t].next = first /\ Linked(T, first, sq)
              /\ \A u \in Members(sq) : T2[u].next = T[u].next
              /\ Len(T) \in Nat /\ Len(T2) = Len(T) /\ t \in 1..Len(T)
          BY <4>1, <3>3, <2>1, <2>2, <2>6
        <5> HIDE DEF T, first
        <5>2. QED
          BY <5>1, <3>2, PutInFront
      <4>3. FreeList(r, m, U \ {t}, InFront(t, sq))
        BY <4>2, <3>1, <3>4, <3>5, <2>1, <2>2, <2>3, <2>8 DEF FreeList
      <4>4. QED
        BY <4>3
    <3>6. CASE m # n
      <4>1. Linked(T2, s.free[m], sq)
        BY <3>3, <2>1, <2>6, KeepLinked
      <4>2. r.free[m] = s.free[m]
        BY <3>6, <2>1, <2>8
      <4>3. {u \in 1..Len(T) : T[u].size = m} \ (U \ {t}) = {u \in 1..Len(T) : T[u].size = m} \ U
        BY <3>6
      <4>4. FreeList(r, m, U \ {t}, sq)
        BY <4>1, <4>2, <4>3, <3>1, <3>4, <2>8 DEF FreeList
      <4>5. QED
        BY <4>4
    <3>7. QED
      BY <3>5, <3>6
  <2>10. U \ {t} \in SUBSET (1..Len(T2))
    BY <2>2, <2>6
  <2>11. Heap(r, U \ {t})
    BY <2>8, <2>9, <2>10 DEF Heap
  <2>12. ReleasedTable(s, U, t, r)
    BY <2>6, <2>8, <2>11 DEF ReleasedTable
  <2>13. QED
    BY <2>12 DEF r
<1>3. QED
  BY <1>1, <1>2
-----------------------------------------------------------------------------
(***************************************************************************)
(* Which tables are in use, by the scopes c and the kept parameters f.     *)
(***************************************************************************)
Owned(c, f, i) == IF i = 0 THEN f.table ELSE c[i].table

Uses(c, f) == {Owned(c, f, i) : i \in 0..Len(c)} \ {0}

Separate(c, f) ==
  \A i, j \in 0..Len(c) : Owned(c, f, i) = Owned(c, f, j) /\ Owned(c, f, i) # 0 => i = j

KeptSet == ScopeSet \cup {NoScope}

LEMMA TablesAreNumbers ==
  ASSUME NEW c \in Seq(ScopeSet), NEW f \in KeptSet, NEW i \in 0..Len(c)
  PROVE  Owned(c, f, i) \in Nat /\ Len(c) \in Nat
<1>1. Len(c) \in Nat /\ f.table \in Nat
  BY DEF KeptSet, NoScope, ScopeSet
<1>2. i # 0 => c[i] \in ScopeSet
  BY <1>1
<1>3. QED
  BY <1>1, <1>2 DEF Owned, ScopeSet

\* A new scope has the table of the kept parameters, which wait no more, or none.
LEMMA ScopePushed ==
  ASSUME NEW c \in Seq(ScopeSet), NEW f \in KeptSet, Separate(c, f),
         NEW x \in ScopeSet, NEW g \in KeptSet,
         \/ x.table = 0 /\ g = f
         \/ x.table = f.table /\ g.table = 0
  PROVE  /\ Append(c, x) \in Seq(ScopeSet) /\ Len(Append(c, x)) = Len(c) + 1
         /\ Separate(Append(c, x), g) /\ Uses(Append(c, x), g) = Uses(c, f)
<1> DEFINE d == Append(c, x)
           n == Len(c)
<1>1. /\ n \in Nat /\ d \in Seq(ScopeSet) /\ Len(d) = n + 1 /\ d[n + 1] = x
      /\ \A i \in 1..n : d[i] = c[i]
  OBVIOUS
<1> HIDE DEF d
<1>2. \A i \in 1..n : Owned(d, g, i) = Owned(c, f, i) /\ i # n + 1 /\ i # 0
  BY <1>1 DEF Owned
<1>3. Owned(d, g, n + 1) = x.table /\ Owned(d, g, 0) = g.table /\ Owned(c, f, 0) = f.table
  BY <1>1 DEF Owned
<1>4. \A i \in 0..(n + 1) : i = 0 \/ i = n + 1 \/ i \in 1..n
  BY <1>1
<1>5. 0 \in 0..n /\ 0 \in 0..(n + 1) /\ n + 1 \in 0..(n + 1) /\ 1..n \subseteq 0..n /\ 1..n \subseteq 0..(n + 1)
      /\ \A i \in 0..n : i = 0 \/ i \in 1..n
  BY <1>1
<1>6. Separate(d, g)
  <2> SUFFICES ASSUME NEW i \in 0..(n + 1), NEW j \in 0..(n + 1),
                      Owned(d, g, i) = Owned(d, g, j), Owned(d, g, i) # 0
               PROVE  i = j
    BY <1>1 DEF Separate
  <2>1. \A k \in 0..n, l \in 0..n : Owned(c, f, k) = Owned(c, f, l) /\ Owned(c, f, k) # 0 => k = l
    BY DEF Separate
  <2>2. CASE i \in 1..n /\ j \in 1..n
    BY <2>1, <2>2, <1>2, <1>5
  <2>3. CASE i \in 1..n /\ j \notin 1..n
    <3>1. j = 0 \/ j = n + 1
      BY <1>4, <2>3
    <3>2. Owned(d, g, j) = f.table
      BY <3>1, <1>3
    <3>3. i = 0
      BY <3>2, <2>1, <2>3, <1>2, <1>3, <1>5
    <3>4. QED
      BY <3>3, <2>3, <1>2
  <2>4. CASE i \notin 1..n /\ j \in 1..n
    <3>1. i = 0 \/ i = n + 1
      BY <1>4, <2>4
    <3>2. Owned(d, g, i) = f.table
      BY <3>1, <1>3
    <3>3. j = 0
      BY <3>2, <2>1, <2>4, <1>2, <1>3, <1>5
    <3>4. QED
      BY <3>3, <2>4, <1>2
  <2>5. CASE i \notin 1..n /\ j \notin 1..n
    BY <2>5, <1>3, <1>4
  <2>6. QED
    BY <2>2, <2>3, <2>4, <2>5
<1>7. \A i \in 0..(n + 1) : Owned(d, g, i) # 0 => \E j \in 0..n : Owned(c, f, j) = Owned(d, g, i)
  <2> SUFFICES ASSUME NEW i \in 0..(n + 1), Owned(d, g, i) # 0
               PROVE  \E j \in 0..n : Owned(c, f, j) = Owned(d, g, i)
    OBVIOUS
  <2>1. CASE i \in 1..n
    BY <2>1, <1>2, <1>5
  <2>2. CASE i \notin 1..n
    <3>1. Owned(d, g, i) = Owned(c, f, 0)
      BY <2>2, <1>3, <1>4
    <3>2. QED
      BY <3>1, <1>5
  <2>3. QED
    BY <2>1, <2>2
<1>8. \A j \in 0..n : Owned(c, f, j) # 0 => \E i \in 0..(n + 1) : Owned(d, g, i) = Owned(c, f, j)
  <2> SUFFICES ASSUME NEW j \in 0..n, Owned(c, f, j) # 0
               PROVE  \E i \in 0..(n + 1) : Owned(d, g, i) = Owned(c, f, j)
    OBVIOUS
  <2>1. CASE j \in 1..n
    BY <2>1, <1>2, <1>5
  <2>2. CASE j = 0
    <3>1. Owned(d, g, 0) = Owned(c, f, j) \/ Owned(d, g, n + 1) = Owned(c, f, j)
      BY <2>2, <1>3
    <3>2. QED
      BY <3>1, <1>5
  <2>3. QED
    BY <2>1, <2>2, <1>5
<1>9. Uses(d, g) = Uses(c, f)
  BY <1>1, <1>7, <1>8 DEF Uses
<1>10. QED
  BY <1>1, <1>6, <1>9 DEF d

LEMMA FrontOf ==
  ASSUME NEW S, NEW c \in Seq(S), Len(c) # 0
  PROVE  /\ Front(c) \in Seq(S) /\ Len(c) - 1 \in Nat
         /\ Len(Front(c)) = Len(c) - 1 /\ Len(c) = (Len(c) - 1) + 1
         /\ \A i \in 1..(Len(c) - 1) : Front(c)[i] = c[i]
<1> DEFINE n == Len(c) - 1
<1>1. n \in Nat /\ n \in Int /\ 1 \in Int /\ Len(c) = n + 1 /\ \A i \in 1..n : c[i] \in S
  OBVIOUS
<1>2. Front(c) = SubSeq(c, 1, n)
  BY DEF Front
<1> HIDE DEF n
<1>3. /\ SubSeq(c, 1, n) \in Seq(S)
      /\ Len(SubSeq(c, 1, n)) = IF 1 <= n THEN n - 1 + 1 ELSE 0
      /\ \A i \in 1..(n - 1 + 1) : SubSeq(c, 1, n)[i] = c[1 + i - 1]
  BY <1>1, SubSeqProperties
<1>4. Len(Front(c)) = n
  BY <1>1, <1>2, <1>3
<1>5. \A i \in 1..n : Front(c)[i] = c[i]
  <2> SUFFICES ASSUME NEW i \in 1..n PROVE Front(c)[i] = c[i]
    OBVIOUS
  <2>1. i \in 1..(n - 1 + 1) /\ 1 + i - 1 = i
    BY <1>1
  <2>2. QED
    BY <2>1, <1>2, <1>3
<1>6. QED
  BY <1>1, <1>2, <1>3, <1>4, <1>5 DEF n

\* The last scope goes: its table is kept, or not in use any more.
LEMMA ScopePopped ==
  ASSUME NEW c \in Seq(ScopeSet), NEW f \in KeptSet, Separate(c, f), Len(c) # 0,
         NEW g \in KeptSet,
         \/ g = f
         \/ f.table = 0 /\ g = c[Len(c)]
  PROVE  /\ Front(c) \in Seq(ScopeSet) /\ Len(Front(c)) = Len(c) - 1
         /\ Separate(Front(c), g)
         /\ g = f => Uses(Front(c), g) = Uses(c, f) \ {c[Len(c)].table}
         /\ f.table = 0 /\ g = c[Len(c)] => Uses(Front(c), g) = Uses(c, f)
<1> DEFINE d == Front(c)
           n == Len(c) - 1
           x == c[Len(c)]
<1>1. /\ n \in Nat /\ d \in Seq(ScopeSet) /\ Len(d) = n /\ Len(c) = n + 1
      /\ \A i \in 1..n : d[i] = c[i]
  BY FrontOf
<1> HIDE DEF d, n
<1>2. \A i \in 1..n : Owned(d, g, i) = Owned(c, f, i) /\ i # n + 1 /\ i # 0
  BY <1>1 DEF Owned
<1>3. Owned(c, f, n + 1) = x.table /\ Owned(d, g, 0) = g.table /\ Owned(c, f, 0) = f.table
  BY <1>1 DEF Owned
<1>4. \A i \in 0..(n + 1) : i = 0 \/ i = n + 1 \/ i \in 1..n
  BY <1>1
<1>5. 0 \in 0..n /\ 0 \in 0..(n + 1) /\ n + 1 \in 0..(n + 1) /\ 1..n \subseteq 0..n /\ 1..n \subseteq 0..(n + 1)
      /\ \A i \in 0..n : i = 0 \/ i \in 1..n
  BY <1>1
<1>6. \A k \in 0..(n + 1), l \in 0..(n + 1) :
        Owned(c, f, k) = Owned(c, f, l) /\ Owned(c, f, k) # 0 => k = l
  BY <1>1 DEF Separate
<1>7. n + 1 # 0
  BY <1>1
<1>8. CASE g = f
  <2>1. \A i \in 0..n : Owned(d, g, i) = Owned(c, f, i) /\ i # n + 1 /\ i \in 0..(n + 1)
    BY <1>8, <1>1, <1>2, <1>3, <1>5
  <2>2. Separate(d, g)
    BY <2>1, <1>1, <1>6 DEF Separate
  <2>3. Uses(d, g) = Uses(c, f) \ {x.table}
    <3>1. \A i \in 0..n : Owned(d, g, i) # 0 =>
            Owned(c, f, i) # x.table /\ \E j \in 0..(n + 1) : Owned(c, f, j) = Owned(d, g, i)
      BY <2>1, <1>3, <1>5, <1>6
    <3>2. \A j \in 0..(n + 1) : Owned(c, f, j) # x.table => \E i \in 0..n : Owned(d, g, i) = Owned(c, f, j)
      BY <2>1, <1>3, <1>4, <1>5
    <3>3. Uses(d, g) = {Owned(d, g, i) : i \in 0..n} \ {0} /\ Uses(c, f) = {Owned(c, f, i) : i \in 0..(n + 1)} \ {0}
      BY <1>1 DEF Uses
    <3>4. \A i \in 0..n : Owned(d, g, i) # 0 => Owned(d, g, i) \in Uses(c, f) \ {x.table}
      BY <3>1, <3>3, <2>1
    <3>5. \A j \in 0..(n + 1) : Owned(c, f, j) # 0 /\ Owned(c, f, j) # x.table => Owned(c, f, j) \in Uses(d, g)
      BY <3>2, <3>3
    <3>6. QED
      BY <3>3, <3>4, <3>5
  <2>4. f.table = 0 /\ g = x => Uses(d, g) = Uses(c, f)
    <3>1. ASSUME f.table = 0, g = x PROVE Uses(c, f) \ {x.table} = Uses(c, f)
      BY <3>1, <1>8 DEF Uses
    <3>2. QED
      BY <3>1, <2>3
  <2>5. QED
    BY <2>2, <2>3, <2>4, <1>1, <1>8 DEF d, n
<1>9. CASE f.table = 0 /\ g = x /\ g # f
  <2>1. Separate(d, g)
    <3> SUFFICES ASSUME NEW i \in 0..n, NEW j \in 0..n,
                        Owned(d, g, i) = Owned(d, g, j), Owned(d, g, i) # 0
                 PROVE  i = j
      BY <1>1 DEF Separate
    <3>1. CASE i # 0 /\ j # 0
      BY <3>1, <1>2, <1>5, <1>6
    <3>2. CASE i = 0 /\ j # 0
      <4>1. Owned(c, f, n + 1) = Owned(c, f, j) /\ j \in 0..(n + 1) /\ j # n + 1
        BY <3>2, <1>2, <1>3, <1>5, <1>9
      <4>2. Owned(c, f, n + 1) # 0
        BY <3>2, <1>3, <1>9
      <4>3. QED
        BY <4>1, <4>2, <1>5, <1>6
    <3>3. CASE i # 0 /\ j = 0
      <4>1. Owned(c, f, n + 1) = Owned(c, f, i) /\ i \in 0..(n + 1) /\ i # n + 1
        BY <3>3, <1>2, <1>3, <1>5, <1>9
      <4>2. Owned(c, f, n + 1) # 0
        BY <3>3, <1>3, <1>9
      <4>3. QED
        BY <4>1, <4>2, <1>5, <1>6
    <3>4. QED
      BY <3>1, <3>2, <3>3
  <2>2. Uses(d, g) = Uses(c, f)
    <3>1. \A i \in 0..n : \E j \in 0..(n + 1) : Owned(c, f, j) = Owned(d, g, i)
      <4> SUFFICES ASSUME NEW i \in 0..n PROVE \E j \in 0..(n + 1) : Owned(c, f, j) = Owned(d, g, i)
        OBVIOUS
      <4>1. CASE i = 0
        BY <4>1, <1>3, <1>5, <1>9
      <4>2. CASE i # 0
        BY <4>2, <1>2, <1>5
      <4>3. QED
        BY <4>1, <4>2
    <3>2. \A j \in 0..(n + 1) : Owned(c, f, j) # 0 => \E i \in 0..n : Owned(d, g, i) = Owned(c, f, j)
      <4> SUFFICES ASSUME NEW j \in 0..(n + 1), Owned(c, f, j) # 0
                   PROVE  \E i \in 0..n : Owned(d, g, i) = Owned(c, f, j)
        OBVIOUS
      <4>1. CASE j = 0
        BY <4>1, <1>3, <1>9
      <4>2. CASE j = n + 1
        BY <4>2, <1>3, <1>5, <1>9
      <4>3. CASE j \in 1..n
        BY <4>3, <1>2, <1>5
      <4>4. QED
        BY <4>1, <4>2, <4>3, <1>4
    <3>3. QED
      BY <3>1, <3>2, <1>1 DEF Uses
  <2>3. QED
    BY <2>1, <2>2, <1>1, <1>9 DEF d, n
<1>10. QED
  BY <1>8, <1>9

\* The kept parameters go.
LEMMA KeptDropped ==
  ASSUME NEW c \in Seq(ScopeSet), NEW f \in KeptSet, Separate(c, f), NEW g, g.table = 0
  PROVE  Separate(c, g) /\ Uses(c, g) = Uses(c, f) \ {f.table}
<1>1. Len(c) \in Nat /\ 0 \in 0..Len(c)
  OBVIOUS
<1>2. \A i \in 0..Len(c) : i # 0 => Owned(c, g, i) = Owned(c, f, i)
  BY DEF Owned
<1>3. Owned(c, g, 0) = 0 /\ Owned(c, f, 0) = f.table
  BY DEF Owned
<1>4. Separate(c, g)
  BY <1>1, <1>2, <1>3 DEF Separate
<1>5. \A i \in 0..Len(c) : Owned(c, g, i) # 0 => i # 0 /\ Owned(c, f, i) # f.table
  BY <1>1, <1>2, <1>3 DEF Separate
<1>6. Uses(c, g) = Uses(c, f) \ {f.table}
  BY <1>2, <1>3, <1>5 DEF Uses
<1>7. QED
  BY <1>4, <1>6

\* The top scope moves to a table that was not in use, or stays in its own.
LEMMA TopMoved ==
  ASSUME NEW c \in Seq(ScopeSet), NEW f \in KeptSet, Separate(c, f), Len(c) # 0,
         NEW x \in ScopeSet, x.table # 0,
         x.table = c[Len(c)].table \/ x.table \notin Uses(c, f)
  PROVE  /\ [c EXCEPT ![Len(c)] = x] \in Seq(ScopeSet) /\ Len([c EXCEPT ![Len(c)] = x]) = Len(c)
         /\ Separate([c EXCEPT ![Len(c)] = x], f)
         /\ Uses([c EXCEPT ![Len(c)] = x], f) = (Uses(c, f) \cup {x.table}) \ ({c[Len(c)].table} \ {x.table})
<1> DEFINE d == [c EXCEPT ![Len(c)] = x]
           n == Len(c)
           old == c[Len(c)].table
<1>1. /\ n \in Nat /\ n # 0 /\ n \in 1..n /\ n \in 0..n /\ d \in Seq(ScopeSet) /\ Len(d) = n /\ d[n] = x
      /\ \A i \in 1..n : i # n => d[i] = c[i]
  OBVIOUS
<1> HIDE DEF d, n
<1>2. \A i \in 0..n : i # n => Owned(d, f, i) = Owned(c, f, i)
  BY <1>1 DEF Owned
<1>3. Owned(d, f, n) = x.table /\ Owned(c, f, n) = old
  BY <1>1 DEF Owned, n
<1>4. \A k \in 0..n, l \in 0..n :
        Owned(c, f, k) = Owned(c, f, l) /\ Owned(c, f, k) # 0 => k = l
  BY DEF Separate, n
<1>5. \A i \in 0..n : i # n => Owned(c, f, i) # x.table
  <2> SUFFICES ASSUME NEW i \in 0..n, i # n, Owned(c, f, i) = x.table PROVE FALSE
    OBVIOUS
  <2>1. CASE x.table = old
    BY <2>1, <1>1, <1>3, <1>4
  <2>2. CASE x.table \notin Uses(c, f)
    BY <2>2 DEF Uses, n
  <2>3. QED
    BY <2>1, <2>2 DEF n
<1>6. Separate(d, f)
  <2> SUFFICES ASSUME NEW i \in 0..n, NEW j \in 0..n, Owned(d, f, i) = Owned(d, f, j), Owned(d, f, i) # 0
               PROVE  i = j
    BY <1>1 DEF Separate
  <2>1. i # n /\ j # n => i = j
    BY <1>2, <1>4
  <2>2. ~(i = n /\ j # n) /\ ~(i # n /\ j = n)
    BY <1>2, <1>3, <1>5
  <2>3. QED
    BY <2>1, <2>2
<1>7. Uses(d, f) = (Uses(c, f) \cup {x.table}) \ ({old} \ {x.table})
  <2>1. \A i \in 0..n : Owned(d, f, i) # 0 =>
          Owned(d, f, i) \in (Uses(c, f) \cup {x.table}) \ ({old} \ {x.table})
    <3> SUFFICES ASSUME NEW i \in 0..n, Owned(d, f, i) # 0
                 PROVE  Owned(d, f, i) \in (Uses(c, f) \cup {x.table}) \ ({old} \ {x.table})
      OBVIOUS
    <3>1. CASE i = n
      BY <3>1, <1>3
    <3>2. CASE i # n
      <4>1. Owned(d, f, i) = Owned(c, f, i) /\ Owned(c, f, i) # old
        BY <3>2, <1>1, <1>2, <1>3, <1>4
      <4>2. Owned(c, f, i) \in Uses(c, f)
        BY <4>1 DEF Uses, n
      <4>3. QED
        BY <4>1, <4>2
    <3>3. QED
      BY <3>1, <3>2
  <2>2. \A i \in 0..n : Owned(c, f, i) # 0 /\ Owned(c, f, i) \notin {old} \ {x.table} => Owned(c, f, i) \in Uses(d, f)
    <3> SUFFICES ASSUME NEW i \in 0..n, Owned(c, f, i) # 0, Owned(c, f, i) \notin {old} \ {x.table}
                 PROVE  Owned(c, f, i) \in Uses(d, f)
      OBVIOUS
    <3>1. Owned(d, f, i) = Owned(c, f, i)
      BY <1>2, <1>3
    <3>2. QED
      BY <3>1, <1>1 DEF Uses
  <2>3. x.table \in Uses(d, f)
    BY <1>1, <1>3 DEF Uses
  <2>4. Uses(c, f) = {Owned(c, f, i) : i \in 0..n} \ {0} /\ Uses(d, f) = {Owned(d, f, i) : i \in 0..n} \ {0}
    BY <1>1 DEF Uses, n
  <2>5. QED
    BY <2>1, <2>2, <2>3, <2>4
<1>8. QED
  BY <1>1, <1>6, <1>7 DEF d, n
-----------------------------------------------------------------------------
(***************************************************************************)
(* A table of names in order, and the operations that keep it so.          *)
(***************************************************************************)
InUseBy(s) == Uses(s.scopes, s.fn_params)

Good(s) ==
  /\ s \in State /\ Len(s.scopes) # 0
  /\ Separate(s.scopes, s.fn_params)
  /\ Heap(s, InUseBy(s))

\* A table in order, with len scopes, in depth lists of parameters.
GoodAs(r, len, depth) == Good(r) /\ Len(r.scopes) = len /\ r.param_depth = depth

LEMMA SameHeap ==
  ASSUME NEW s, NEW r, r.tables = s.tables, r.free = s.free, NEW U, Heap(s, U)
  PROVE  Heap(r, U)
BY DEF Heap, FreeList

\* The table of a scope is one of those there are, or none.
LEMMA TableOfScope ==
  ASSUME NEW s, Good(s)
  PROVE  /\ Top(s) \in ScopeSet /\ Top(s) = s.scopes[Len(s.scopes)]
         /\ Len(s.scopes) \in 1..Len(s.scopes)
         /\ Top(s).table = 0 \/ Top(s).table \in InUseBy(s)
         /\ s.fn_params \in KeptSet
         /\ s.fn_params.table = 0 \/ s.fn_params.table \in InUseBy(s)
         /\ InUseBy(s) \subseteq 1..Len(s.tables) /\ 0 \notin InUseBy(s)
<1>1. s \in State /\ s.scopes \in Seq(ScopeSet) /\ Len(s.scopes) \in Nat /\ Len(s.scopes) # 0
      /\ s.fn_params \in KeptSet
  BY StateFields DEF Good, KeptSet
<1>2. Len(s.scopes) \in 1..Len(s.scopes) /\ Len(s.scopes) \in 0..Len(s.scopes) /\ 0 \in 0..Len(s.scopes)
  BY <1>1
<1>3. Top(s) \in ScopeSet /\ Top(s) = s.scopes[Len(s.scopes)]
  BY <1>1, <1>2 DEF Top
<1>4. Top(s).table = 0 \/ Top(s).table \in InUseBy(s)
  <2>1. Owned(s.scopes, s.fn_params, Len(s.scopes)) = Top(s).table
    BY <1>1, <1>3 DEF Owned
  <2>2. QED
    BY <2>1, <1>2 DEF InUseBy, Uses
<1>5. s.fn_params.table = 0 \/ s.fn_params.table \in InUseBy(s)
  <2>1. Owned(s.scopes, s.fn_params, 0) = s.fn_params.table
    BY DEF Owned
  <2>2. QED
    BY <2>1, <1>2 DEF InUseBy, Uses
<1>6. InUseBy(s) \subseteq 1..Len(s.tables) /\ 0 \notin InUseBy(s)
  BY DEF Good, Heap, InUseBy, Uses
<1>7. QED
  BY <1>1, <1>2, <1>3, <1>4, <1>5, <1>6

LEMMA PushKeeps ==
  ASSUME NEW s, Good(s), NEW x \in ScopeSet, NEW g \in KeptSet,
         \/ x.table = 0 /\ g = s.fn_params
         \/ x.table = s.fn_params.table /\ g.table = 0
  PROVE  GoodAs([s EXCEPT !.scopes = Append(@, x), !.fn_params = g], Len(s.scopes) + 1, s.param_depth)
<1> DEFINE c == s.scopes
           f == s.fn_params
           r == [s EXCEPT !.scopes = Append(@, x), !.fn_params = g]
<1>1. s \in State /\ c \in Seq(ScopeSet) /\ Len(c) \in Nat /\ f \in KeptSet /\ Separate(c, f)
  BY StateFields DEF Good, KeptSet
<1>2. /\ Append(c, x) \in Seq(ScopeSet) /\ Len(Append(c, x)) = Len(c) + 1
      /\ Separate(Append(c, x), g) /\ Uses(Append(c, x), g) = Uses(c, f)
  BY <1>1, ScopePushed
<1>3. /\ r \in State /\ r.scopes = Append(c, x) /\ r.fn_params = g /\ r.param_depth = s.param_depth
      /\ r.tables = s.tables /\ r.free = s.free
  BY <1>1, <1>2 DEF State, KeptSet
<1> HIDE DEF r
<1>4. Heap(r, InUseBy(r))
  <2>1. Heap(s, Uses(c, f))
    BY DEF Good, InUseBy
  <2>2. Heap(r, Uses(c, f))
    BY <2>1, <1>3, SameHeap
  <2>3. QED
    BY <2>2, <1>2, <1>3 DEF InUseBy
<1>5. GoodAs(r, Len(c) + 1, s.param_depth)
  BY <1>1, <1>2, <1>3, <1>4 DEF GoodAs, Good
<1>6. QED
  BY <1>5 DEF r

LEMMA PushGood ==
  ASSUME NEW s, Good(s)
  PROVE  GoodAs(Push(s), Len(s.scopes) + 1, s.param_depth)
<1>1. EmptyScope \in ScopeSet /\ EmptyScope.table = 0 /\ s.fn_params \in KeptSet
  BY TableOfScope DEF EmptyScope, ScopeSet
<1>2. GoodAs([s EXCEPT !.scopes = Append(@, EmptyScope), !.fn_params = s.fn_params], Len(s.scopes) + 1, s.param_depth)
  BY <1>1, PushKeeps
<1>3. Push(s) = [s EXCEPT !.scopes = Append(@, EmptyScope), !.fn_params = s.fn_params]
  BY DEF Push, Good, State
<1>4. QED
  BY <1>2, <1>3

LEMMA ResumeGood ==
  ASSUME NEW s, Good(s)
  PROVE  GoodAs(ResumeParams(s), Len(s.scopes) + 1, s.param_depth)
<1> DEFINE x == IF s.fn_params = NoScope THEN EmptyScope ELSE s.fn_params
<1>1. s.fn_params \in KeptSet
  BY TableOfScope
<1>2. x \in ScopeSet /\ x.table = s.fn_params.table
  BY <1>1 DEF EmptyScope, NoScope, ScopeSet, KeptSet
<1>3. NoScope \in KeptSet /\ NoScope.table = 0
  BY DEF NoScope, KeptSet
<1> HIDE DEF x
<1>4. GoodAs([s EXCEPT !.scopes = Append(@, x), !.fn_params = NoScope], Len(s.scopes) + 1, s.param_depth)
  BY <1>2, <1>3, PushKeeps
<1>5. QED
  BY <1>4 DEF ResumeParams, x

\* The depth and the latches are no part of it.
LEMMA LatchesGood ==
  ASSUME NEW s, Good(s), NEW r \in State,
         r.scopes = s.scopes, r.fn_params = s.fn_params, r.tables = s.tables, r.free = s.free
  PROVE  GoodAs(r, Len(s.scopes), r.param_depth)
<1>1. Heap(r, InUseBy(s)) /\ InUseBy(r) = InUseBy(s)
  BY SameHeap DEF Good, InUseBy
<1>2. QED
  BY <1>1 DEF Good, GoodAs

\* A scope less, whose table is free now, or kept with the parameters.
LEMMA PopGood ==
  ASSUME NEW s, Good(s)
  PROVE  GoodAs(Pop(s), IF Len(s.scopes) = 1 THEN 1 ELSE Len(s.scopes) - 1, s.param_depth)
<1> DEFINE c == s.scopes
           f == s.fn_params
           U == Uses(c, f)
           t == Top(s).table
           q == ReleaseTable(s, t)
           r == [q EXCEPT !.scopes = Front(@)]
<1>1. s \in State /\ c \in Seq(ScopeSet) /\ Len(c) \in Nat /\ Len(c) # 0 /\ f \in KeptSet /\ Separate(c, f)
      /\ Heap(s, U) /\ t = c[Len(c)].table /\ (t = 0 \/ t \in U)
  BY StateFields, TableOfScope DEF Good, InUseBy
<1>2. CASE Len(c) = 1
  BY <1>2 DEF Pop, GoodAs
<1>3. CASE Len(c) # 1
  <2>1. Pop(s) = r
    BY <1>3 DEF Pop
  <2>2. /\ Front(c) \in Seq(ScopeSet) /\ Len(Front(c)) = Len(c) - 1
        /\ Separate(Front(c), f) /\ Uses(Front(c), f) = U \ {t}
    BY <1>1, ScopePopped
  <2>3. ReleasedTable(s, U, t, q)
    <3> HIDE DEF t, U
    <3>1. QED
      BY <1>1, ReleasesTable
  <2> HIDE DEF q, t
  <2>4. q \in State /\ SameScopes(s, q) /\ Heap(q, U \ {t})
    BY <2>3 DEF ReleasedTable
  <2>5. /\ r \in State /\ r.scopes = Front(c) /\ r.fn_params = f /\ r.param_depth = s.param_depth
        /\ r.tables = q.tables /\ r.free = q.free
    BY <2>2, <2>4 DEF State, SameScopes
  <2> HIDE DEF r
  <2>6. Heap(r, U \ {t})
    BY <2>4, <2>5, SameHeap
  <2>7. Heap(r, InUseBy(r))
    BY <2>2, <2>5, <2>6 DEF InUseBy
  <2>8. GoodAs(r, Len(c) - 1, s.param_depth)
    <3>1. Len(r.scopes) = Len(c) - 1 /\ Len(r.scopes) # 0
      <4> DEFINE n == Len(c)
      <4>1. n \in Nat /\ n # 0 /\ n # 1 /\ Len(r.scopes) = n - 1
        BY <1>1, <1>3, <2>2, <2>5
      <4> HIDE DEF n
      <4>2. n - 1 # 0
        BY <4>1
      <4>3. QED
        BY <4>1, <4>2 DEF n
    <3>2. QED
      BY <3>1, <2>2, <2>5, <2>7 DEF GoodAs, Good
  <2>9. QED
    BY <2>1, <2>8, <1>3
<1>4. QED
  BY <1>2, <1>3

LEMMA KeepParamsGood ==
  ASSUME NEW s, Good(s), s.fn_params = NoScope, Len(s.scopes) # 1
  PROVE  GoodAs([s EXCEPT !.param_depth = 0, !.fn_params = Top(s), !.scopes = Front(@)],
                Len(s.scopes) - 1, 0)
<1> DEFINE c == s.scopes
           f == s.fn_params
           g == Top(s)
           r == [s EXCEPT !.param_depth = 0, !.fn_params = g, !.scopes = Front(@)]
<1>1. s \in State /\ c \in Seq(ScopeSet) /\ Len(c) \in Nat /\ Len(c) # 0 /\ f \in KeptSet /\ Separate(c, f)
  BY StateFields, TableOfScope DEF Good
<1>2. g \in KeptSet /\ g = c[Len(c)] /\ f.table = 0
  BY TableOfScope DEF NoScope, KeptSet
<1>3. /\ Front(c) \in Seq(ScopeSet) /\ Len(Front(c)) = Len(c) - 1
      /\ Separate(Front(c), g) /\ Uses(Front(c), g) = Uses(c, f)
  <2> HIDE DEF c, f, g
  <2>1. QED
    BY <1>1, <1>2, ScopePopped
<1> HIDE DEF g
<1>4. /\ r \in State /\ r.scopes = Front(c) /\ r.fn_params = g /\ r.param_depth = 0
      /\ r.tables = s.tables /\ r.free = s.free
  BY <1>1, <1>2, <1>3 DEF State, KeptSet
<1> HIDE DEF r
<1>5. Heap(r, InUseBy(r))
  <2>1. Heap(s, Uses(c, f))
    BY DEF Good, InUseBy
  <2>2. Heap(r, Uses(c, f))
    BY <2>1, <1>4, SameHeap
  <2>3. QED
    BY <2>2, <1>3, <1>4 DEF InUseBy
<1>6. GoodAs(r, Len(c) - 1, 0)
  <2>1. Len(r.scopes) = Len(c) - 1 /\ Len(r.scopes) # 0
    <3> DEFINE n == Len(c)
    <3>1. n \in Nat /\ n # 0 /\ n # 1 /\ Len(r.scopes) = n - 1
      BY <1>1, <1>3, <1>4
    <3> HIDE DEF n
    <3>2. n - 1 # 0
      BY <3>1
    <3>3. QED
      BY <3>1, <3>2 DEF n
  <2>2. QED
    BY <2>1, <1>3, <1>4, <1>5 DEF GoodAs, Good
<1>7. QED
  BY <1>6 DEF r, g

LEMMA PushParamsGood ==
  ASSUME NEW s, Good(s)
  PROVE  GoodAs(PushParams(s), Len(s.scopes) + 1, s.param_depth + 1)
<1>1. Good(Push(s)) /\ Len(Push(s).scopes) = Len(s.scopes) + 1 /\ Push(s).param_depth = s.param_depth
  BY PushGood DEF GoodAs
<1> DEFINE q == Push(s)
           r == PushParams(s)
<1>2. r = [q EXCEPT !.param_depth = @ + 1]
  BY DEF PushParams
<1> HIDE DEF q
<1>3. /\ r \in State /\ r.scopes = q.scopes /\ r.fn_params = q.fn_params
      /\ r.tables = q.tables /\ r.free = q.free /\ r.param_depth = q.param_depth + 1
  <2> HIDE DEF r
  <2>1. q \in State /\ q.param_depth + 1 \in Nat
    BY <1>1, StateFields DEF Good, q
  <2>2. QED
    BY <2>1, <1>2 DEF State
<1> HIDE DEF r
<1>4. GoodAs(r, Len(q.scopes), r.param_depth)
  BY <1>1, <1>3, LatchesGood DEF q
<1>5. QED
  BY <1>1, <1>3, <1>4 DEF q, r

LEMMA AbandonGood ==
  ASSUME NEW s, Good(s)
  PROVE  GoodAs(AbandonParams(s), IF Len(s.scopes) = 1 THEN 1 ELSE Len(s.scopes) - 1,
                IF s.param_depth > 0 THEN s.param_depth - 1 ELSE 0)
<1> DEFINE k == IF s.param_depth > 0 THEN s.param_depth - 1 ELSE 0
           q == [s EXCEPT !.param_depth = k]
<1>1. s \in State /\ s.param_depth \in Nat
  BY StateFields DEF Good
<1>2. k \in Nat
  BY <1>1
<1>3. /\ q \in State /\ q.scopes = s.scopes /\ q.fn_params = s.fn_params
      /\ q.tables = s.tables /\ q.free = s.free /\ q.param_depth = k
  <2> HIDE DEF k
  <2>1. QED
    BY <1>1, <1>2 DEF State
<1> HIDE DEF q
<1>4. GoodAs(q, Len(s.scopes), q.param_depth)
  BY <1>3, LatchesGood
<1>5. GoodAs(Pop(q), IF Len(q.scopes) = 1 THEN 1 ELSE Len(q.scopes) - 1, q.param_depth)
  BY <1>4, PopGood DEF GoodAs
<1>6. AbandonParams(s) = Pop(q)
  BY DEF AbandonParams, q
<1>7. QED
  BY <1>3, <1>5, <1>6

LEMMA PopParamsGood ==
  ASSUME NEW s, Good(s), s.param_depth =< Len(s.scopes) - 1
  PROVE  GoodAs(PopParams(s), IF Len(s.scopes) = 1 THEN 1 ELSE Len(s.scopes) - 1,
                IF s.param_depth > 0 THEN s.param_depth - 1 ELSE 0)
<1>1. CASE s.param_depth = 1 /\ s.fn_params = NoScope
  <2>1. Len(s.scopes) # 1
    <3>1. Len(s.scopes) = 1 => 1 =< 1 - 1
      BY <1>1
    <3>2. QED
      BY <3>1
  <2>2. GoodAs(PopParams(s), Len(s.scopes) - 1, 0)
    BY <2>1, <1>1, KeepParamsGood DEF PopParams
  <2>3. QED
    BY <2>1, <2>2, <1>1
<1>2. CASE ~(s.param_depth = 1 /\ s.fn_params = NoScope)
  <2>1. PopParams(s) = AbandonParams(s)
    BY <1>2 DEF PopParams, AbandonParams
  <2>2. QED
    BY <2>1, AbandonGood
<1>3. QED
  BY <1>1, <1>2

LEMMA DropParamsGood ==
  ASSUME NEW s, Good(s)
  PROVE  GoodAs(DropParams(s), Len(s.scopes), s.param_depth)
<1> DEFINE c == s.scopes
           f == s.fn_params
           U == Uses(c, f)
           t == f.table
           q == ReleaseTable(s, t)
           r == [q EXCEPT !.fn_params = NoScope]
<1>1. s \in State /\ c \in Seq(ScopeSet) /\ Len(c) \in Nat /\ Len(c) # 0 /\ f \in KeptSet /\ Separate(c, f)
      /\ Heap(s, U) /\ (t = 0 \/ t \in U)
  BY StateFields, TableOfScope DEF Good, InUseBy
<1>2. CASE s.param_depth = 0 /\ f # NoScope
  <2>1. DropParams(s) = r
    BY <1>2 DEF DropParams
  <2>2. Separate(c, NoScope) /\ Uses(c, NoScope) = U \ {t}
    BY <1>1, KeptDropped DEF NoScope
  <2>3. ReleasedTable(s, U, t, q)
    <3> HIDE DEF t, U
    <3>1. QED
      BY <1>1, ReleasesTable
  <2> HIDE DEF q, t
  <2>4. q \in State /\ SameScopes(s, q) /\ Heap(q, U \ {t})
    BY <2>3 DEF ReleasedTable
  <2>5. /\ r \in State /\ r.scopes = c /\ r.fn_params = NoScope /\ r.param_depth = s.param_depth
        /\ r.tables = q.tables /\ r.free = q.free
    BY <2>4 DEF State, SameScopes
  <2> HIDE DEF r
  <2>6. Heap(r, U \ {t})
    BY <2>4, <2>5, SameHeap
  <2>7. Heap(r, InUseBy(r))
    BY <2>2, <2>5, <2>6 DEF InUseBy
  <2>8. GoodAs(r, Len(c), s.param_depth)
    BY <2>2, <2>5, <2>7, <1>1 DEF GoodAs, Good
  <2>9. QED
    BY <2>1, <2>8
<1>3. CASE ~(s.param_depth = 0 /\ f # NoScope)
  BY <1>3 DEF DropParams, GoodAs
<1>4. QED
  BY <1>2, <1>3

LEMMA LatchOpsGood ==
  ASSUME NEW s, Good(s)
  PROVE  /\ GoodAs(TypedefSeen(s), Len(s.scopes), s.param_depth)
         /\ GoodAs(SpecifiersDone(s), Len(s.scopes), s.param_depth)
         /\ GoodAs(SpecifiersReset(s), Len(s.scopes), s.param_depth)
         /\ GoodAs(DeclaratorNamed(s), Len(s.scopes), s.param_depth)
         /\ GoodAs(ErrorRecovered(s), Len(s.scopes), s.param_depth)
<1>1. ASSUME NEW seen \in BOOLEAN, NEW what \in Kinds,
             NEW r, r = [s EXCEPT !.typedef_seen = seen, !.declaring = what]
      PROVE  GoodAs(r, Len(s.scopes), s.param_depth)
  <2>1. /\ r \in State /\ r.scopes = s.scopes /\ r.fn_params = s.fn_params /\ r.tables = s.tables /\ r.free = s.free
        /\ r.param_depth = s.param_depth
    BY <1>1 DEF State, Good
  <2>2. QED
    BY <2>1, LatchesGood
<1>2. s.typedef_seen \in BOOLEAN /\ s.declaring \in Kinds /\ s \in State
  BY StateFields DEF Good
<1>3. GoodAs(TypedefSeen(s), Len(s.scopes), s.param_depth)
  <2>1. TypedefSeen(s) = [s EXCEPT !.typedef_seen = TRUE, !.declaring = s.declaring]
    BY <1>2 DEF TypedefSeen, State
  <2>2. QED
    BY <2>1, <1>1, <1>2
<1>4. GoodAs(SpecifiersDone(s), Len(s.scopes), s.param_depth)
  <2> DEFINE what == IF s.typedef_seen THEN "typedef" ELSE "variable"
  <2>1. SpecifiersDone(s) = [s EXCEPT !.typedef_seen = FALSE, !.declaring = what]
    BY <1>2 DEF SpecifiersDone, State
  <2>2. what \in Kinds
    BY DEF Kinds
  <2> HIDE DEF what
  <2>3. QED
    BY <2>1, <2>2, <1>1
<1>5. GoodAs(SpecifiersReset(s), Len(s.scopes), s.param_depth)
  <2>1. SpecifiersReset(s) = [s EXCEPT !.typedef_seen = FALSE, !.declaring = s.declaring]
    BY <1>2 DEF SpecifiersReset, State
  <2>2. QED
    BY <2>1, <1>1, <1>2
<1>6. GoodAs(DeclaratorNamed(s), Len(s.scopes), s.param_depth)
  BY DropParamsGood DEF DeclaratorNamed
<1>7. GoodAs(ErrorRecovered(s), Len(s.scopes), s.param_depth)
  <2> DEFINE q == [s EXCEPT !.typedef_seen = FALSE, !.declaring = "variable"]
  <2>1. GoodAs(q, Len(s.scopes), s.param_depth)
    <3> DEFINE what == "variable"
    <3>1. what \in Kinds /\ FALSE \in BOOLEAN /\ q = [s EXCEPT !.typedef_seen = FALSE, !.declaring = what]
      BY DEF Kinds
    <3> HIDE DEF what, q
    <3>2. QED
      BY <3>1, <1>1
  <2>2. ErrorRecovered(s) = DropParams(q)
    BY DEF ErrorRecovered
  <2> HIDE DEF q
  <2>3. QED
    BY <2>1, <2>2, DropParamsGood DEF GoodAs
<1>8. QED
  BY <1>3, <1>4, <1>5, <1>6, <1>7
-----------------------------------------------------------------------------
(***************************************************************************)
(* Declaring a name, in a table that doubles as it fills.                  *)
(***************************************************************************)
Power(k) == 2^k

LEMMA PowersOfTwo ==
  ASSUME NEW k \in 0..15
  PROVE  Power(k) \in Nat \ {0} /\ Power(k + 1) = 2 * Power(k) /\ Power(k) =< 32768 /\ Power(k) = 2^k
<1>1. CASE k = 0 BY <1>1 DEF Power
<1>2. CASE k = 1 BY <1>2 DEF Power
<1>3. CASE k = 2 BY <1>3 DEF Power
<1>4. CASE k = 3 BY <1>4 DEF Power
<1>5. CASE k = 4 BY <1>5 DEF Power
<1>6. CASE k = 5 BY <1>6 DEF Power
<1>7. CASE k = 6 BY <1>7 DEF Power
<1>8. CASE k = 7 BY <1>8 DEF Power
<1>9. CASE k = 8 BY <1>9 DEF Power
<1>10. CASE k = 9 BY <1>10 DEF Power
<1>11. CASE k = 10 BY <1>11 DEF Power
<1>12. CASE k = 11 BY <1>12 DEF Power
<1>13. CASE k = 12 BY <1>13 DEF Power
<1>14. CASE k = 13 BY <1>14 DEF Power
<1>15. CASE k = 14 BY <1>15 DEF Power
<1>16. CASE k = 15 BY <1>16 DEF Power
<1>17. QED
  BY <1>1, <1>2, <1>3, <1>4, <1>5, <1>6, <1>7, <1>8,
     <1>9, <1>10, <1>11, <1>12, <1>13, <1>14, <1>15, <1>16

\* The sizes that tables have are closed under doubling, up to the largest.
LEMMA SizesDouble ==
  /\ MinBuckets \in Sizes
  /\ \A n \in Sizes : 2 * n =< MaxBuckets => 2 * n \in Sizes
<1>1. MinBuckets \in Nat \ {0} /\ MaxBuckets \in Nat
  BY BucketsAssumption
<1>2. PICK m \in 0..15 : MaxBuckets = MinBuckets * Power(m)
  BY BucketsAssumption DEF Power
<1>3. Sizes = {n \in MinBuckets..MaxBuckets : \E k \in 0..15 : n = MinBuckets * Power(k)}
  BY DEF Sizes, Power
<1>4. /\ Power(m) \in Nat \ {0} /\ Power(m) =< 32768
      /\ Power(0) = 1 /\ Power(15) = 32768 /\ 0 \in 0..15
  <2>1. Power(0) = 1 /\ Power(15) = 32768
    BY DEF Power
  <2>2. QED
    BY <2>1, PowersOfTwo
<1>5. MinBuckets \in Sizes
  <2>1. MinBuckets =< MinBuckets * Power(m) /\ MinBuckets = MinBuckets * Power(0)
    BY <1>1, <1>4
  <2>2. QED
    BY <1>1, <1>2, <1>3, <1>4, <2>1
<1>6. ASSUME NEW n \in Sizes, 2 * n =< MaxBuckets PROVE 2 * n \in Sizes
  <2>1. PICK k \in 0..15 : n = MinBuckets * Power(k)
    BY <1>3
  <2>2. n \in Nat /\ n >= MinBuckets
    BY <1>1, <1>3
  <2>3. Power(k) \in Nat \ {0} /\ Power(k + 1) = 2 * Power(k)
    BY PowersOfTwo
  <2>4. 2 * n = MinBuckets * Power(k + 1)
    BY <1>1, <2>1, <2>3
  <2>5. k # 15
    <3>1. ASSUME k = 15 PROVE FALSE
      <4>1. n = MinBuckets * 32768
        BY <2>1, <3>1, <1>4
      <4>2. MaxBuckets =< MinBuckets * 32768
        BY <1>1, <1>2, <1>4
      <4>3. QED
        BY <4>1, <4>2, <1>1, <1>6
    <3>2. QED
      BY <3>1
  <2>6. k + 1 \in 0..15 /\ 2 * n \in MinBuckets..MaxBuckets
    BY <2>2, <2>5, <1>1, <1>6
  <2>7. QED
    BY <2>4, <2>6, <1>3
<1>7. QED
  BY <1>5, <1>6

\* A table that holds other names.
Refilled(s, t, b) ==
  [s EXCEPT !.tables = [@ EXCEPT ![t] = [size |-> s.tables[t].size, bucket |-> b, next |-> s.tables[t].next]]]

LEMMA RefilledFields ==
  ASSUME NEW s \in State, NEW U, Heap(s, U), NEW t \in 1..Len(s.tables),
         NEW b \in [0..(s.tables[t].size - 1) -> SUBSET EntrySet]
  PROVE  /\ Refilled(s, t, b) \in State /\ SameScopes(s, Refilled(s, t, b))
         /\ Len(Refilled(s, t, b).tables) = Len(s.tables)
         /\ Refilled(s, t, b).tables[t].bucket = b
         /\ \A u \in 1..Len(s.tables) : Refilled(s, t, b).tables[u].size = s.tables[u].size
         /\ \A u \in 1..Len(s.tables) : u # t => Refilled(s, t, b).tables[u] = s.tables[u]
         /\ Heap(Refilled(s, t, b), U)
<1> DEFINE T == s.tables
           n == T[t].size
           k == T[t].next
           T2 == [T EXCEPT ![t] = [size |-> n, bucket |-> b, next |-> k]]
           r == Refilled(s, t, b)
<1>1. T \in Seq(TableSet) /\ Len(T) \in Nat /\ n \in Sizes /\ k \in Nat /\ s.free \in [Sizes -> Nat]
  BY StateFields, TableFields
<1>2. /\ T2 \in Seq(TableSet) /\ Len(T2) = Len(T)
      /\ T2[t] = [size |-> n, bucket |-> b, next |-> k]
      /\ \A u \in 1..Len(T) : u # t => T2[u] = T[u]
      /\ \A u \in 1..Len(T) : T2[u].size = T[u].size
  <2>1. /\ t \in 1..Len(T) /\ T \in Seq(TableSet) /\ k \in Nat /\ n \in Sizes /\ T[t].size = n
        /\ b \in [0..(n - 1) -> SUBSET EntrySet]
    BY <1>1
  <2>2. T2 = TableWith(T, t, n, b, k)
    BY DEF TableWith
  <2> HIDE DEF T2, T, k, n
  <2>3. OnlyChanged(TableWith(T, t, n, b, k), T, t, n, b, k)
    BY ONLY <2>1, TableChanged
  <2>4. QED
    BY <2>2, <2>3 DEF OnlyChanged
<1>3. r = [s EXCEPT !.tables = T2]
  BY DEF Refilled
<1> HIDE DEF T2
<1>4. r \in State /\ SameScopes(s, r) /\ r.tables = T2 /\ r.free = s.free
  <2> HIDE DEF r
  <2>1. QED
    BY <1>2, <1>3 DEF State, SameScopes
<1> HIDE DEF r
<1>5. \A u \in 1..Len(T) : T2[u].next = T[u].next
  BY <1>2
<1>6. ASSUME NEW m \in Sizes PROVE \E sq : FreeList(r, m, U, sq)
  <2>1. PICK sq : FreeList(s, m, U, sq)
    BY DEF Heap
  <2>2. Linked(T, s.free[m], sq) /\ \A u \in Members(sq) : T2[u].next = T[u].next
    BY <2>1, <1>5 DEF FreeList
  <2>3. Linked(T2, s.free[m], sq)
    <3> DEFINE first == s.free[m]
    <3>1. /\ Linked(T, first, sq) /\ Len(T) \in Nat /\ Len(T2) \in Nat /\ Len(T) =< Len(T2)
          /\ \A u \in Members(sq) : T2[u].next = T[u].next
      BY <2>2, <1>1, <1>2
    <3> HIDE DEF T, first
    <3>2. Linked(T2, first, sq)
      BY ONLY <3>1, KeepLinked
    <3>3. QED
      BY <3>2 DEF first
  <2>4. {u \in 1..Len(T2) : T2[u].size = m} = {u \in 1..Len(T) : T[u].size = m}
    BY <1>2
  <2>5. FreeList(r, m, U, sq)
    BY <2>1, <2>3, <2>4, <1>4 DEF FreeList
  <2>6. QED
    BY <2>5
<1>7. Heap(r, U)
  BY <1>2, <1>4, <1>6 DEF Heap
<1>8. T2[t].bucket = b
  BY <1>2
<1>9. QED
  BY <1>2, <1>4, <1>7, <1>8 DEF r

\* Grow moves the names of the top scope to a table of n buckets.
GrownTo(s) == IF Top(s).table = 0 THEN MinBuckets ELSE 2 * SizeOf(s, Top(s).table)

HeldIn(s, t) == IF t = 0 THEN {} ELSE UNION {s.tables[t].bucket[b] : b \in DOMAIN s.tables[t].bucket}

MovedNames(s, n) == [b \in 0..(n - 1) |-> {} \cup {v \in HeldIn(s, Top(s).table) : Hash[v.name] % n = b}]

LEMMA HeldEntries ==
  ASSUME NEW s \in State, NEW t, t = 0 \/ t \in 1..Len(s.tables)
  PROVE  HeldIn(s, t) \subseteq EntrySet
<1>1. CASE t = 0
  BY <1>1 DEF HeldIn
<1>2. CASE t # 0
  <2>1. s.tables[t].bucket \in [0..(s.tables[t].size - 1) -> SUBSET EntrySet]
    BY <1>2, TableFields
  <2>2. QED
    BY <2>1, <1>2 DEF HeldIn
<1>3. QED
  BY <1>1, <1>2

\* What Grow does, if there is a larger size: t is the new table, q the state
\* with the names in it, p the one with the old table given back.
GrowSteps(s, t, q, p) ==
  /\ t = Taken(s, GrownTo(s))
  /\ q = Refilled(TakeTable(s, GrownTo(s)), t, MovedNames(s, GrownTo(s)))
  /\ p = ReleaseTable(q, Top(s).table)
  /\ Grow(s) = [p EXCEPT !.scopes[Len(s.scopes)].table = t]

LEMMA GrowByStep ==
  ASSUME NEW s, Good(s), GrownTo(s) =< MaxBuckets
  PROVE  /\ GrownTo(s) \in Sizes
         /\ TookTable(s, GrownTo(s), InUseBy(s), Taken(s, GrownTo(s)), TakeTable(s, GrownTo(s)))
         /\ MovedNames(s, GrownTo(s)) \in [0..(GrownTo(s) - 1) -> SUBSET EntrySet]
         /\ \E t, q, p : GrowSteps(s, t, q, p)
<1> DEFINE n == GrownTo(s)
           old == Top(s).table
           t == Taken(s, n)
           r == TakeTable(s, n)
           b == MovedNames(s, n)
<1>1. s \in State /\ Heap(s, InUseBy(s))
  BY DEF Good
<1>2. old = 0 \/ (old \in 1..Len(s.tables) /\ old # 0)
  BY TableOfScope
<1>3. n \in Sizes
  <2>1. CASE old = 0
    BY <2>1, SizesDouble DEF GrownTo
  <2>2. CASE old # 0
    <3>1. SizeOf(s, old) \in Sizes
      BY <2>2, <1>1, <1>2, TableFields DEF SizeOf
    <3>2. n = 2 * SizeOf(s, old)
      BY <2>2 DEF GrownTo
    <3>3. QED
      BY <3>1, <3>2, SizesDouble
  <2>3. QED
    BY <2>1, <2>2
<1>4. TookTable(s, n, InUseBy(s), t, r)
  <2> HIDE DEF n
  <2>1. s.free[n] = 0 \/ s.free[n] # 0
    OBVIOUS
  <2>2. QED
    BY <2>1, <1>1, <1>3, TakesNewTable, TakesFreeTable
<1>5. b \in [0..(n - 1) -> SUBSET EntrySet]
  BY <1>1, <1>2, HeldEntries DEF MovedNames
<1>6. /\ r \in State /\ t \in 1..Len(r.tables) /\ r.tables[t].size = n
      /\ r.tables[t].bucket = EmptyBuckets(n) /\ r.tables[t] \in TablesOf(n) /\ r.tables \in Seq(TableSet)
  <2> HIDE DEF n, r, t
  <2>1. QED
    BY <1>4, TableFields, StateFields DEF TookTable
<1>7. [r EXCEPT !.tables[t].bucket = [c \in 0..(n - 1) |-> @[c] \cup {v \in HeldIn(s, old) : Hash[v.name] % n = c}]]
      = Refilled(r, t, b)
  <2> DEFINE x == [c \in 0..(n - 1) |-> r.tables[t].bucket[c] \cup {v \in HeldIn(s, old) : Hash[v.name] % n = c}]
  <2>1. x = b
    BY <1>6 DEF MovedNames, EmptyBuckets
  <2> HIDE DEF x, r, t, n, b
  <2>2. [r EXCEPT !.tables[t].bucket = x] = Refilled(r, t, x)
    <3>1. [r.tables[t] EXCEPT !.bucket = x] = [size |-> r.tables[t].size, bucket |-> x, next |-> r.tables[t].next]
      BY <1>6 DEF TablesOf
    <3>2. QED
      BY <3>1, <1>6 DEF Refilled, State
  <2>3. QED
    BY <2>1, <2>2 DEF x
<1>8. n \in Nat /\ MaxBuckets \in Nat /\ ~(n > MaxBuckets)
  <2>1. n \in Nat /\ MaxBuckets \in Nat /\ n =< MaxBuckets
    BY <1>3, SizesArePositive, BucketsAssumption
  <2> HIDE DEF n
  <2>2. QED
    BY <2>1
<1>9. Grow(s) = [ReleaseTable(Refilled(r, t, b), old) EXCEPT !.scopes[Len(s.scopes)].table = t]
  <2>1. Grow(s) =
          [ReleaseTable([r EXCEPT !.tables[t].bucket = [c \in 0..(n - 1) |-> @[c] \cup {v \in HeldIn(s, old) : Hash[v.name] % n = c}]], old)
             EXCEPT !.scopes[Len(s.scopes)].table = t]
    BY <1>8 DEF Grow, HeldIn, GrownTo
  <2> HIDE DEF r, t, n, b, old
  <2>2. QED
    BY <2>1, <1>7
<1>10. GrowSteps(s, t, Refilled(r, t, b), ReleaseTable(Refilled(r, t, b), old))
  BY <1>9 DEF GrowSteps
<1>11. QED
  BY <1>3, <1>4, <1>5, <1>10

\* The scopes but for the top one, which keeps its count.
SameBelow(s, r) ==
  /\ Len(r.scopes) = Len(s.scopes) /\ Top(r).n = Top(s).n
  /\ \A i \in 1..Len(s.scopes) : i # Len(s.scopes) => r.scopes[i] = s.scopes[i]
  /\ r.fn_params = s.fn_params /\ r.typedef_seen = s.typedef_seen /\ r.declaring = s.declaring

LEMMA GrowGood ==
  ASSUME NEW s, Good(s)
  PROVE  /\ GoodAs(Grow(s), Len(s.scopes), s.param_depth)
         /\ SameBelow(s, Grow(s)) /\ Top(Grow(s)).table # 0
<1> DEFINE n == GrownTo(s)
           U == InUseBy(s)
           old == Top(s).table
           c == s.scopes
           f == s.fn_params
           r == TakeTable(s, n)
<1>1. /\ s \in State /\ Heap(s, U) /\ U = Uses(c, f) /\ Separate(c, f)
      /\ c \in Seq(ScopeSet) /\ Len(c) \in Nat /\ Len(c) # 0 /\ f \in KeptSet /\ Len(c) \in 1..Len(c)
      /\ Top(s) \in ScopeSet /\ Top(s) = c[Len(c)] /\ (old = 0 \/ (old \in U /\ old # 0))
      /\ U \subseteq 1..Len(s.tables) /\ 0 \notin U
  BY StateFields, TableOfScope DEF Good, InUseBy
<1>2. CASE n =< MaxBuckets
  <2>1. PICK t, q, p : GrowSteps(s, t, q, p)
    BY <1>2, GrowByStep
  <2>2. TookTable(s, n, U, t, r) /\ MovedNames(s, n) \in [0..(n - 1) -> SUBSET EntrySet]
    BY <1>2, <2>1, GrowByStep DEF GrowSteps
  <2> HIDE DEF n, U, old
  <2>3. /\ r \in State /\ SameScopes(s, r) /\ t \in 1..Len(r.tables) /\ t \notin U
        /\ r.tables[t].size = n /\ Heap(r, U \cup {t}) /\ Len(r.tables) \in Nat
    <3> HIDE DEF r
    <3>1. QED
      BY <2>2, StateFields DEF TookTable
  <2>4. q = Refilled(r, t, MovedNames(s, n))
    BY <2>1 DEF GrowSteps, n
  <2> HIDE DEF r
  <2>5. q \in State /\ SameScopes(r, q) /\ Heap(q, U \cup {t})
    <3> DEFINE b == MovedNames(s, n)
    <3>1. b \in [0..(r.tables[t].size - 1) -> SUBSET EntrySet]
      BY <2>2, <2>3
    <3> HIDE DEF b
    <3>2. QED
      BY <3>1, <2>3, <2>4, RefilledFields DEF b
  <2>6. p = ReleaseTable(q, old)
    BY <2>1 DEF GrowSteps, old
  <2>7. ReleasedTable(q, U \cup {t}, old, p)
    <3>1. old = 0 \/ old \in U \cup {t}
      BY <1>1
    <3>2. QED
      BY <3>1, <2>5, <2>6, ReleasesTable
  <2>8. p \in State /\ SameScopes(s, p) /\ Heap(p, (U \cup {t}) \ {old})
    BY <2>3, <2>5, <2>7 DEF ReleasedTable, SameScopes
  <2> DEFINE x == [table |-> t, n |-> Top(s).n]
             d == [c EXCEPT ![Len(c)] = x]
             g == Grow(s)
  <2>9. x \in ScopeSet /\ x.table = t /\ t # 0 /\ x.n = Top(s).n
    BY <1>1, <2>3 DEF ScopeSet
  <2>10. g = [p EXCEPT !.scopes = d]
    <3>1. g = [p EXCEPT !.scopes[Len(c)].table = t]
      BY <2>1 DEF GrowSteps
    <3>2. p.scopes = c /\ p \in State
      BY <2>8 DEF SameScopes
    <3>3. [c[Len(c)] EXCEPT !.table = t] = x
      BY <1>1 DEF ScopeSet
    <3> HIDE DEF x, g
    <3>4. QED
      BY <3>1, <3>2, <3>3 DEF State
  <2>11. t \notin Uses(c, f)
    BY <1>1, <2>3 DEF U
  <2> HIDE DEF x
  <2>12. /\ d \in Seq(ScopeSet) /\ Len(d) = Len(c) /\ Separate(d, f)
         /\ Uses(d, f) = (Uses(c, f) \cup {t}) \ ({c[Len(c)].table} \ {t})
         /\ d[Len(c)] = x /\ \A i \in 1..Len(c) : i # Len(c) => d[i] = c[i]
    <3>1. /\ d \in Seq(ScopeSet) /\ Len(d) = Len(c) /\ Separate(d, f)
          /\ Uses(d, f) = (Uses(c, f) \cup {x.table}) \ ({c[Len(c)].table} \ {x.table})
      <4> HIDE DEF c, f
      <4>1. QED
        BY <1>1, <2>9, <2>11, TopMoved
    <3>2. d[Len(c)] = x /\ \A i \in 1..Len(c) : i # Len(c) => d[i] = c[i]
      BY <1>1
    <3> HIDE DEF d
    <3>3. QED
      BY <3>1, <3>2, <2>9
  <2>13. (Uses(c, f) \cup {t}) \ ({c[Len(c)].table} \ {t}) = (U \cup {t}) \ {old}
    BY <1>1, <2>3 DEF old
  <2> HIDE DEF d, g
  <2>14. /\ g \in State /\ g.scopes = d /\ g.fn_params = f /\ g.param_depth = s.param_depth
         /\ g.typedef_seen = s.typedef_seen /\ g.declaring = s.declaring
         /\ g.tables = p.tables /\ g.free = p.free
    BY <2>8, <2>10, <2>12 DEF State, SameScopes
  <2>15. Heap(g, InUseBy(g))
    <3>1. InUseBy(g) = (U \cup {t}) \ {old}
      BY <2>12, <2>13, <2>14 DEF InUseBy
    <3>2. QED
      BY <3>1, <2>8, <2>14, SameHeap
  <2>16. GoodAs(g, Len(c), s.param_depth)
    BY <2>12, <2>14, <2>15, <1>1 DEF GoodAs, Good
  <2>17. Top(g) = x
    BY <2>12, <2>14 DEF Top
  <2>18. SameBelow(s, g)
    BY <2>9, <2>12, <2>14, <2>17 DEF SameBelow
  <2>19. QED
    BY <2>9, <2>16, <2>17, <2>18 DEF g
<1>3. CASE ~(n =< MaxBuckets)
  <2>1. MinBuckets \in Nat /\ MaxBuckets \in Nat /\ MinBuckets =< MaxBuckets
    BY SizesDouble, BucketsAssumption DEF Sizes
  <2>2. old # 0
    BY <2>1, <1>3 DEF GrownTo
  <2>3. n \in Nat
    <3>1. s.tables[old].size \in Nat
      BY <1>1, <2>2, TableFields
    <3>2. QED
      BY <3>1, <2>2 DEF GrownTo, SizeOf
  <2>4. n > MaxBuckets
    <3> HIDE DEF n
    <3>1. QED
      BY <2>1, <2>3, <1>3
  <2>5. Grow(s) = s
    BY <2>4 DEF Grow, GrownTo
  <2>6. QED
    BY <2>2, <2>5 DEF GoodAs, SameBelow
<1>4. QED
  BY <1>2, <1>3

\* Where Add puts the entry: sc of room is the top scope once there is room.
RoomFor(s, x) ==
  IF FindIn(s, Top(s), x) = {} /\ Top(s).n >= SizeOf(s, Top(s).table) THEN Grow(s) ELSE s

Added(room, s, x, v) ==
  LET t == Top(room).table
      b == Hash[x] % SizeOf(room, t)
  IN  [room.tables[t].bucket EXCEPT ![b] = (@ \ FindIn(s, Top(s), x)) \cup {v}]

LEMMA AddByStep ==
  ASSUME NEW s, Good(s), NEW x \in Names, NEW kind \in Kinds, NEW decl \in Nat,
         NEW room, room = RoomFor(s, x),
         NEW v, v = [name |-> x, kind |-> kind, decl |-> decl]
  PROVE  /\ GoodAs(room, Len(s.scopes), s.param_depth)
         /\ SameBelow(s, room) /\ Top(room).table # 0
         /\ room = s \/ (room = Grow(s) /\ FindIn(s, Top(s), x) = {})
         /\ Added(room, s, x, v) \in [0..(SizeOf(room, Top(room).table) - 1) -> SUBSET EntrySet]
         /\ Add(s, x, kind, decl) =
              [Refilled(room, Top(room).table, Added(room, s, x, v)) EXCEPT
                 !.scopes[Len(s.scopes)].n = IF FindIn(s, Top(s), x) = {} THEN @ + 1 ELSE @]
<1> DEFINE old == FindIn(s, Top(s), x)
           t == Top(room).table
           b == Hash[x] % SizeOf(room, t)
<1>1. room = s \/ (room = Grow(s) /\ old = {})
  BY DEF RoomFor
<1>2. GoodAs(room, Len(s.scopes), s.param_depth) /\ SameBelow(s, room)
  BY <1>1, GrowGood DEF GoodAs, SameBelow
<1>3. t # 0
  <2>1. CASE room = Grow(s) /\ old = {}
    BY <2>1, GrowGood
  <2>2. CASE room = s
    <3>1. CASE old # {}
      BY <3>1, <2>2 DEF FindIn
    <3>2. CASE old = {}
      <4>1. ASSUME Top(s).table = 0 PROVE FALSE
        <5>1. Top(s).n \in Nat
          BY TableOfScope DEF ScopeSet
        <5>2. Top(s).n >= SizeOf(s, Top(s).table)
          BY <4>1, <5>1 DEF SizeOf
        <5>3. room = Grow(s)
          BY <3>2, <5>2 DEF RoomFor
        <5>4. QED
          BY <4>1, <5>3, <2>2, GrowGood
      <4>2. QED
        BY <4>1, <2>2
    <3>3. QED
      BY <3>1, <3>2
  <2>3. QED
    BY <1>1, <2>1, <2>2
<1>4. Good(room)
  BY <1>2 DEF GoodAs
<1>5. t \in 1..Len(room.tables) /\ room \in State
  BY <1>3, <1>4, TableOfScope DEF Good
<1>6. /\ room.tables[t] \in TablesOf(room.tables[t].size)
      /\ room.tables[t].bucket \in [0..(room.tables[t].size - 1) -> SUBSET EntrySet]
      /\ room.tables[t].size \in Nat \ {0} /\ SizeOf(room, t) = room.tables[t].size
  BY <1>3, <1>5, TableFields DEF SizeOf
<1>7. v \in EntrySet
  BY DEF EntrySet
<1>8. b \in 0..(SizeOf(room, t) - 1)
  BY <1>6, HashAssumption
<1>9. Added(room, s, x, v) \in [0..(SizeOf(room, t) - 1) -> SUBSET EntrySet]
  <2> HIDE DEF t, b, old
  <2>1. room.tables[t].bucket \in [0..(SizeOf(room, t) - 1) -> SUBSET EntrySet]
    BY <1>6
  <2>2. Added(room, s, x, v) = [room.tables[t].bucket EXCEPT ![b] = (room.tables[t].bucket[b] \ old) \cup {v}]
    BY DEF Added, t, b, old
  <2>3. (room.tables[t].bucket[b] \ old) \cup {v} \in SUBSET EntrySet
    BY <2>1, <1>7, <1>8
  <2>4. QED
    BY <2>1, <2>2, <2>3, <1>8
<1>10. [room EXCEPT !.tables[t].bucket[b] = (@ \ old) \cup {v}] = Refilled(room, t, Added(room, s, x, v))
  <2> DEFINE a == Added(room, s, x, v)
  <2>1. [room.tables[t].bucket EXCEPT ![b] = (@ \ old) \cup {v}] = a
    BY DEF Added
  <2> HIDE DEF a, t, b, old
  <2>2. [room.tables[t] EXCEPT !.bucket = a]
        = [size |-> room.tables[t].size, bucket |-> a, next |-> room.tables[t].next]
    BY <1>6 DEF TablesOf
  <2>3. [room EXCEPT !.tables[t].bucket[b] = (@ \ old) \cup {v}]
        = [room EXCEPT !.tables = [room.tables EXCEPT ![t] = [room.tables[t] EXCEPT !.bucket = a]]]
    BY <2>1, <1>5 DEF State
  <2>4. QED
    BY <2>2, <2>3, <1>5 DEF Refilled, State, a
<1>11. Add(s, x, kind, decl) =
         [[room EXCEPT !.tables[t].bucket[b] = (@ \ old) \cup {v}] EXCEPT
            !.scopes[Len(s.scopes)].n = IF old = {} THEN @ + 1 ELSE @]
  BY DEF Add, RoomFor
<1>12. Add(s, x, kind, decl) =
         [Refilled(room, t, Added(room, s, x, v)) EXCEPT
            !.scopes[Len(s.scopes)].n = IF old = {} THEN @ + 1 ELSE @]
  <2> HIDE DEF t, b, old
  <2>1. QED
    BY <1>10, <1>11
<1>13. QED
  BY <1>1, <1>2, <1>3, <1>9, <1>12

LEMMA AddGood ==
  ASSUME NEW s, Good(s), NEW x \in Names, NEW kind \in Kinds, NEW decl \in Nat
  PROVE  GoodAs(Add(s, x, kind, decl), Len(s.scopes), s.param_depth)
<1> DEFINE room == RoomFor(s, x)
           v == [name |-> x, kind |-> kind, decl |-> decl]
           t == Top(room).table
           a == Added(room, s, x, v)
           q == Refilled(room, t, a)
           m == IF FindIn(s, Top(s), x) = {} THEN Top(room).n + 1 ELSE Top(room).n
           y == [table |-> t, n |-> m]
           c == room.scopes
           f == room.fn_params
           d == [c EXCEPT ![Len(c)] = y]
           r == Add(s, x, kind, decl)
<1>1. /\ GoodAs(room, Len(s.scopes), s.param_depth) /\ t # 0
      /\ a \in [0..(SizeOf(room, t) - 1) -> SUBSET EntrySet]
      /\ r = [q EXCEPT !.scopes[Len(s.scopes)].n = IF FindIn(s, Top(s), x) = {} THEN @ + 1 ELSE @]
  <2> HIDE DEF room, v
  <2>1. room = RoomFor(s, x) /\ v = [name |-> x, kind |-> kind, decl |-> decl]
    BY DEF room, v
  <2>2. QED
    BY <2>1, AddByStep
<1> HIDE DEF room, v
<1>2. Good(room) /\ Len(c) = Len(s.scopes) /\ room.param_depth = s.param_depth
  BY <1>1 DEF GoodAs
<1>3. /\ room \in State /\ c \in Seq(ScopeSet) /\ Len(c) \in Nat /\ Len(c) # 0 /\ f \in KeptSet
      /\ Separate(c, f) /\ Heap(room, InUseBy(room)) /\ InUseBy(room) = Uses(c, f)
      /\ Top(room) \in ScopeSet /\ Top(room) = c[Len(c)] /\ t \in Uses(c, f) /\ t \in 1..Len(room.tables)
      /\ Len(c) \in 1..Len(c)
  BY <1>1, <1>2, StateFields, TableOfScope DEF Good, InUseBy
<1>4. SizeOf(room, t) = room.tables[t].size
  BY <1>1 DEF SizeOf
<1> HIDE DEF a, q
<1>5. q \in State /\ SameScopes(room, q) /\ Heap(q, InUseBy(room))
  <2> HIDE DEF t
  <2>1. QED
    BY <1>1, <1>3, <1>4, RefilledFields DEF q
<1>6. m \in Nat /\ y \in ScopeSet /\ y.table = t /\ y.table = c[Len(c)].table /\ y.table # 0
  BY <1>1, <1>3 DEF ScopeSet
<1> HIDE DEF t
<1>7. /\ d \in Seq(ScopeSet) /\ Len(d) = Len(c) /\ Separate(d, f)
      /\ Uses(d, f) = (Uses(c, f) \cup {y.table}) \ ({c[Len(c)].table} \ {y.table})
  <2> HIDE DEF c, f, y
  <2>1. QED
    BY <1>3, <1>6, TopMoved
<1>8. Uses(d, f) = Uses(c, f)
  BY <1>3, <1>6, <1>7
<1>9. r = [q EXCEPT !.scopes = d]
  <2>1. q.scopes = c /\ q \in State
    BY <1>5 DEF SameScopes
  <2>2. r = [q EXCEPT !.scopes[Len(c)].n = IF FindIn(s, Top(s), x) = {} THEN @ + 1 ELSE @]
    BY <1>1, <1>2
  <2>3. [c[Len(c)] EXCEPT !.n = IF FindIn(s, Top(s), x) = {} THEN @ + 1 ELSE @] = y
    BY <1>3 DEF ScopeSet, t
  <2> HIDE DEF y, r
  <2>4. QED
    BY <2>1, <2>2, <2>3 DEF State
<1> HIDE DEF d, r
<1>10. /\ r \in State /\ r.scopes = d /\ r.fn_params = f /\ r.param_depth = s.param_depth
       /\ r.tables = q.tables /\ r.free = q.free
  BY <1>2, <1>5, <1>7, <1>9 DEF State, SameScopes
<1>11. Heap(r, InUseBy(r))
  <2>1. InUseBy(r) = InUseBy(room)
    BY <1>3, <1>8, <1>10 DEF InUseBy
  <2>2. QED
    BY <2>1, <1>5, <1>10, SameHeap
<1>12. GoodAs(r, Len(s.scopes), s.param_depth)
  BY <1>2, <1>3, <1>7, <1>10, <1>11 DEF GoodAs, Good
<1>13. QED
  BY <1>12 DEF r
-----------------------------------------------------------------------------
(***************************************************************************)
(* The table at the start.                                                 *)
(***************************************************************************)
LEMMA LeastNatural ==
  ASSUME NEW S \in SUBSET Nat, S # {}
  PROVE  \E x \in S : \A y \in S : x =< y
<1>1. \E x \in S : \A y \in S : ~(<<y, x>> \in OpToRel(<, Nat))
  BY NatLessThanWellFounded, WFMin
<1>2. PICK x \in S : \A y \in S : ~(<<y, x>> \in OpToRel(<, Nat))
  BY <1>1
<1>3. \A y \in S : ~(y < x)
  BY <1>2 DEF OpToRel
<1>4. QED
  BY <1>3

LEMMA EmptyTableGood == GoodAs(EmptyTable, 1, 0)
<1>1. EmptyTable \in State
  <2>1. EmptyScope \in ScopeSet /\ <<EmptyScope>> \in Seq(ScopeSet)
    BY DEF EmptyScope, ScopeSet
  <2>2. [n \in Sizes |-> 0] \in [Sizes -> Nat] /\ <<>> \in Seq(TableSet)
    OBVIOUS
  <2>3. "variable" \in Kinds
    BY DEF Kinds
  <2>4. QED
    BY <2>1, <2>2, <2>3 DEF EmptyTable, State, KeptSet
<1> DEFINE c == <<EmptyScope>>
           s == EmptyTable
<1>2. /\ s.scopes = c /\ s.fn_params = NoScope /\ s.param_depth = 0 /\ s.tables = <<>>
      /\ \A n \in Sizes : s.free[n] = 0
  BY DEF EmptyTable
<1>3. Len(c) = 1 /\ \A i \in 0..Len(c) : Owned(c, NoScope, i) = 0
  BY DEF Owned, EmptyScope, NoScope
<1> HIDE DEF c, s
<1>4. Separate(c, NoScope) /\ Uses(c, NoScope) = {}
  BY <1>3 DEF Separate, Uses
<1>5. Heap(s, {})
  <2>1. ASSUME NEW n \in Sizes PROVE FreeList(s, n, {}, <<>>)
    <3>1. Linked(s.tables, 0, <<>>)
      BY <1>2 DEF Linked
    <3>2. Members(<<>>) = {} /\ Len(s.tables) = 0
      BY <1>2 DEF Members
    <3>3. {t \in 1..Len(s.tables) : s.tables[t].size = n} = {}
      BY <3>2
    <3>4. QED
      BY <3>1, <3>2, <3>3, <1>2 DEF FreeList
  <2>2. QED
    BY <2>1 DEF Heap
<1>6. GoodAs(s, 1, 0)
  BY <1>1, <1>2, <1>3, <1>4, <1>5 DEF GoodAs, Good, InUseBy, s
<1>7. QED
  BY <1>6 DEF s

\* The built-in types, declared one after another: w is what NewTable defines.
BuiltinStep(w, n) ==
  w = [i \in 0..n |-> IF i = 0 THEN EmptyTable ELSE Add(w[i - 1], BuiltinTypes[i], "typedef", 0)]

LEMMA BuiltinSteps ==
  ASSUME NEW n \in Nat
  PROVE  \E w : BuiltinStep(w, n)
<1> DEFINE S == {k \in Nat : ~\E w : BuiltinStep(w, k)}
<1>1. ASSUME n \in S PROVE FALSE
  <2>1. PICK k \in S : \A y \in S : k =< y
    <3>1. S \in SUBSET Nat /\ S # {}
      BY <1>1
    <3> HIDE DEF S
    <3>2. QED
      BY <3>1, LeastNatural
  <2>2. k # 0
    <3>1. ASSUME k = 0 PROVE FALSE
      <4> DEFINE w == [i \in 0..0 |-> EmptyTable]
      <4>1. BuiltinStep(w, 0)
        BY DEF BuiltinStep
      <4>2. QED
        BY <4>1, <3>1
    <3>2. QED
      BY <3>1
  <2>3. k - 1 \in Nat /\ k - 1 \notin S
    BY <2>1, <2>2
  <2>4. PICK w : BuiltinStep(w, k - 1)
    BY <2>3
  <2> DEFINE z == [i \in 0..k |-> IF i = k THEN Add(w[k - 1], BuiltinTypes[k], "typedef", 0) ELSE w[i]]
  <2>5. \A i \in 0..(k - 1) : w[i] = IF i = 0 THEN EmptyTable ELSE Add(w[i - 1], BuiltinTypes[i], "typedef", 0)
    BY <2>4 DEF BuiltinStep
  <2>6. \A i \in 0..k : i # 0 => i - 1 \in 0..k /\ i - 1 # k /\ z[i - 1] = w[i - 1]
    BY <2>1
  <2>7. \A i \in 0..k : z[i] = IF i = 0 THEN EmptyTable ELSE Add(z[i - 1], BuiltinTypes[i], "typedef", 0)
    <3> SUFFICES ASSUME NEW i \in 0..k
                 PROVE  z[i] = IF i = 0 THEN EmptyTable ELSE Add(z[i - 1], BuiltinTypes[i], "typedef", 0)
      OBVIOUS
    <3>1. CASE i = k
      BY <3>1, <2>2, <2>6
    <3>2. CASE i # k
      <4>1. i \in 0..(k - 1) /\ z[i] = w[i]
        BY <3>2
      <4>2. QED
        BY <4>1, <2>5, <2>6
    <3>3. QED
      BY <3>1, <3>2
  <2>8. BuiltinStep(z, k)
    <3>1. z = [i \in 0..k |-> z[i]]
      OBVIOUS
    <3> HIDE DEF z
    <3>2. QED
      BY <3>1, <2>7 DEF BuiltinStep
  <2>9. QED
    BY <2>1, <2>8
<1>2. QED
  BY <1>1

LEMMA NewTableGood == GoodAs(NewTable, 1, 0)
<1> DEFINE n == Len(BuiltinTypes)
           w == CHOOSE w : BuiltinStep(w, n)
<1>1. n \in Nat /\ \A i \in 1..n : BuiltinTypes[i] \in Names
  BY BuiltinsAssumption
<1>2. NewTable = w[n]
  BY DEF NewTable, BuiltinStep
<1>3. BuiltinStep(w, n)
  BY <1>1, BuiltinSteps
<1> HIDE DEF n, w
<1>4. /\ w[0] = EmptyTable
      /\ \A i \in 1..n : w[i] = Add(w[i - 1], BuiltinTypes[i], "typedef", 0)
  BY <1>1, <1>3 DEF BuiltinStep
<1> DEFINE S == {k \in Nat : k =< n /\ ~GoodAs(w[k], 1, 0)}
<1>5. S = {}
  <2>1. ASSUME S # {} PROVE FALSE
    <3>1. PICK k \in S : \A y \in S : k =< y
      <4>1. S \in SUBSET Nat
        OBVIOUS
      <4> HIDE DEF S
      <4>2. QED
        BY <4>1, <2>1, LeastNatural
    <3>2. k # 0
      BY <1>4, <3>1, EmptyTableGood
    <3>3. k - 1 \in Nat /\ k - 1 \notin S /\ k \in 1..n /\ k - 1 =< n
      BY <1>1, <3>1, <3>2
    <3>4. GoodAs(w[k - 1], 1, 0)
      BY <3>3
    <3>5. w[k] = Add(w[k - 1], BuiltinTypes[k], "typedef", 0) /\ BuiltinTypes[k] \in Names
      BY <1>1, <1>4, <3>3 DEF n
    <3>6. "typedef" \in Kinds /\ 0 \in Nat
      BY DEF Kinds
    <3>7. GoodAs(w[k], 1, 0)
      <4> DEFINE s == w[k - 1]
                 x == BuiltinTypes[k]
                 kind == "typedef"
      <4>1. Good(s) /\ Len(s.scopes) = 1 /\ s.param_depth = 0 /\ x \in Names /\ kind \in Kinds
        BY <3>4, <3>5, <3>6 DEF GoodAs
      <4> HIDE DEF s, x, kind
      <4>2. GoodAs(Add(s, x, kind, 0), Len(s.scopes), s.param_depth)
        BY <4>1, <3>6, AddGood
      <4>3. QED
        BY <4>1, <4>2, <3>5 DEF s, x, kind
    <3>8. QED
      BY <3>1, <3>7
  <2>2. QED
    BY <2>1
<1>6. QED
  BY <1>1, <1>2, <1>5
-----------------------------------------------------------------------------
(***************************************************************************)
(* Following the links of a free list gives the list.                      *)
(***************************************************************************)
Follow(s, n, q) ==
  LET t == IF q = <<>> THEN s.free[n] ELSE s.tables[Last(q)].next
  IN  IF t = 0 THEN q ELSE Append(q, t)

\* w is what FreeTables defines.
Following(s, n, w) ==
  w = [k \in 0..(Len(s.tables) + 1) |-> IF k = 0 THEN <<>> ELSE Follow(s, n, w[k - 1])]

Prefix(sq, m) == [i \in 1..m |-> sq[i]]

LEMMA FollowsLink ==
  ASSUME NEW s, NEW n, NEW sq, Linked(s.tables, s.free[n], sq),
         NEW m \in Nat, m =< Len(sq)
  PROVE  Follow(s, n, Prefix(sq, m)) = Prefix(sq, IF m < Len(sq) THEN m + 1 ELSE m)
<1> DEFINE T == s.tables
           q == Prefix(sq, m)
           L == Len(T)
           K == Len(sq)
           t == IF q = <<>> THEN s.free[n] ELSE T[Last(q)].next
<1>1. /\ sq \in Seq(1..L) /\ K \in Nat /\ \A i \in 1..K : sq[i] \in 1..L /\ sq[i] # 0
      /\ s.free[n] = (IF K = 0 THEN 0 ELSE sq[1])
      /\ \A i \in 1..K : T[sq[i]].next = (IF i = K THEN 0 ELSE sq[i + 1])
  BY DEF Linked
<1>2. q \in Seq(1..L) /\ Len(q) = m /\ \A i \in 1..m : q[i] = sq[i]
  BY <1>1 DEF Prefix
<1> HIDE DEF q, T, L
<1>3. q = <<>> <=> m = 0
  BY <1>2
<1>4. t = IF m < K THEN sq[m + 1] ELSE 0
  <2>1. CASE m = 0
    BY <2>1, <1>1, <1>3
  <2>2. CASE m # 0
    <3>1. m \in 1..K /\ m \in 1..m /\ Last(q) = sq[m]
      BY <2>2, <1>1, <1>2 DEF Last
    <3>2. t = T[sq[m]].next
      BY <3>1, <2>2, <1>3
    <3>3. m = K <=> ~(m < K)
      BY <1>1
    <3>4. QED
      BY <3>1, <3>2, <3>3, <1>1
  <2>3. QED
    BY <2>1, <2>2
<1>5. Follow(s, n, q) = IF t = 0 THEN q ELSE Append(q, t)
  BY DEF Follow, T
<1> HIDE DEF t
<1>6. CASE m < K
  <2>1. m + 1 \in 1..K
    BY <1>1, <1>6
  <2>2. t = sq[m + 1] /\ t # 0 /\ t \in 1..L
    BY <2>1, <1>1, <1>4, <1>6
  <2>3. Append(q, t) = Prefix(sq, m + 1)
    <3>1. Append(q, t) = [i \in 1..(m + 1) |-> IF i = m + 1 THEN t ELSE q[i]]
      BY <1>2, <2>2
    <3>2. \A i \in 1..(m + 1) : (IF i = m + 1 THEN t ELSE q[i]) = sq[i]
      BY <1>2, <2>2
    <3>3. QED
      BY <3>1, <3>2 DEF Prefix
  <2>4. QED
    BY <2>2, <2>3, <1>5, <1>6 DEF q
<1>7. CASE ~(m < K)
  BY <1>4, <1>5, <1>7 DEF q
<1>8. QED
  BY <1>6, <1>7

LEMMA FollowingSteps ==
  ASSUME NEW s, NEW n, NEW w, Following(s, n, w), Len(s.tables) \in Nat
  PROVE  w[0] = <<>> /\ \A k \in 1..(Len(s.tables) + 1) : w[k] = Follow(s, n, w[k - 1])
<1> DEFINE L == Len(s.tables)
<1>1. \A k \in 0..(L + 1) : w[k] = IF k = 0 THEN <<>> ELSE Follow(s, n, w[k - 1])
  BY DEF Following
<1>2. L \in Nat
  OBVIOUS
<1> HIDE DEF L
<1>3. 0 \in 0..(L + 1) /\ \A k \in 1..(L + 1) : k \in 0..(L + 1) /\ k # 0
  BY <1>2
<1>4. w[0] = <<>>
  BY <1>1, <1>3
<1>5. \A k \in 1..(L + 1) : w[k] = Follow(s, n, w[k - 1])
  BY <1>1, <1>3
<1>6. QED
  BY <1>4, <1>5 DEF L

LEMMA ListedTables ==
  ASSUME NEW s \in State, NEW n, NEW sq, Linked(s.tables, s.free[n], sq)
  PROVE  FreeTables(s, n) = sq
<1> DEFINE L == Len(s.tables)
           K == Len(sq)
           Upto(k) == IF k =< K THEN k ELSE K
           h == [k \in 0..(L + 1) |-> Prefix(sq, Upto(k))]
           w == CHOOSE w : Following(s, n, w)
<1>1. L \in Nat /\ K \in Nat /\ K =< L
  BY StateFields, LinkedLength
<1>2. FreeTables(s, n) = w[L + 1]
  BY DEF FreeTables, Following, Follow
<1>3. ASSUME NEW k \in 1..(L + 1)
      PROVE  Follow(s, n, Prefix(sq, Upto(k - 1))) = Prefix(sq, Upto(k))
  <2> DEFINE m == Upto(k - 1)
  <2>1. m \in Nat /\ m =< K /\ (IF m < K THEN m + 1 ELSE m) = Upto(k)
    BY <1>1
  <2> HIDE DEF Upto
  <2>2. Follow(s, n, Prefix(sq, m)) = Prefix(sq, IF m < Len(sq) THEN m + 1 ELSE m)
    <3> HIDE DEF m
    <3>1. QED
      BY <2>1, FollowsLink
  <2>3. QED
    BY <2>1, <2>2
<1>4. Following(s, n, h)
  <2>1. ASSUME NEW k \in 0..(L + 1)
        PROVE  h[k] = IF k = 0 THEN <<>> ELSE Follow(s, n, h[k - 1])
    <3>1. CASE k = 0
      <4>1. h[0] = Prefix(sq, 0) /\ Prefix(sq, 0) = <<>>
        BY <1>1 DEF Prefix
      <4>2. QED
        BY <4>1, <3>1
    <3>2. CASE k # 0
      <4>1. k \in 1..(L + 1) /\ k - 1 \in 0..(L + 1)
        BY <3>2, <1>1
      <4>2. h[k - 1] = Prefix(sq, Upto(k - 1)) /\ h[k] = Prefix(sq, Upto(k))
        BY <4>1
      <4>3. Follow(s, n, Prefix(sq, Upto(k - 1))) = Prefix(sq, Upto(k))
        <5> HIDE DEF Upto
        <5>1. QED
          BY <4>1, <1>3
      <4> HIDE DEF h, Upto
      <4>4. QED
        BY <4>2, <4>3, <3>2
    <3>3. QED
      BY <3>1, <3>2
  <2>2. h = [k \in 0..(L + 1) |-> h[k]]
    OBVIOUS
  <2> HIDE DEF h
  <2>3. QED
    BY <2>1, <2>2 DEF Following
<1>5. Following(s, n, w)
  <2> HIDE DEF h
  <2>1. QED
    BY <1>4
<1> HIDE DEF w
<1>6. w[0] = <<>> /\ \A k \in 1..(L + 1) : w[k] = Follow(s, n, w[k - 1])
  BY <1>1, <1>5, FollowingSteps
<1>7. h[0] = <<>> /\ \A k \in 1..(L + 1) : h[k] = Follow(s, n, h[k - 1])
  <2> HIDE DEF h
  <2>1. QED
    BY <1>1, <1>4, FollowingSteps
<1> DEFINE S == {k \in Nat : k =< L + 1 /\ w[k] # h[k]}
<1>8. S = {}
  <2> HIDE DEF h, Upto
  <2>1. ASSUME S # {} PROVE FALSE
    <3>1. PICK k \in S : \A y \in S : k =< y
      <4>1. S \in SUBSET Nat
        OBVIOUS
      <4> HIDE DEF S
      <4>2. QED
        BY <4>1, <2>1, LeastNatural
    <3>2. k # 0
      BY <1>6, <1>7, <3>1
    <3>3. k - 1 \in Nat /\ k - 1 \notin S /\ k \in 1..(L + 1) /\ k - 1 =< L + 1
      BY <1>1, <3>1, <3>2
    <3>4. w[k - 1] = h[k - 1]
      BY <3>3
    <3>5. QED
      BY <3>1, <3>3, <3>4, <1>6, <1>7
  <2>2. QED
    BY <2>1
<1>9. w[L + 1] = h[L + 1]
  <2> HIDE DEF h, Upto
  <2>1. L + 1 \in Nat /\ L + 1 =< L + 1
    BY <1>1
  <2>2. QED
    BY <2>1, <1>8
<1>10. h[L + 1] = Prefix(sq, K)
  BY <1>1
<1>11. Prefix(sq, K) = sq
  <2>1. sq \in Seq(1..L)
    BY DEF Linked
  <2>2. QED
    BY <2>1 DEF Prefix
<1>12. QED
  BY <1>2, <1>9, <1>10, <1>11

\* The tables of a state in order are where OneOwnerEach looks for them.
LEMMA GoodIsApart ==
  ASSUME NEW s, Good(s)
  PROVE  OneOwnerEach(s)
<1> DEFINE c == s.scopes
           f == s.fn_params
           U == InUseBy(s)
           used == {InUse(s)[i] : i \in DOMAIN InUse(s)} \ {0}
           listed(n) == {FreeTables(s, n)[i] : i \in DOMAIN FreeTables(s, n)}
<1>1. /\ s \in State /\ Separate(c, f) /\ Heap(s, U) /\ U = Uses(c, f) /\ U \subseteq 1..Len(s.tables)
      /\ s.tables \in Seq(TableSet) /\ Len(s.tables) \in Nat /\ 0 \notin U
  BY StateFields, TableOfScope DEF Good, InUseBy
<1>2. DOMAIN InUse(s) = 0..Len(c) /\ \A i \in 0..Len(c) : InUse(s)[i] = Owned(c, f, i)
  BY DEF InUse, Owned
<1>3. used = U
  BY <1>1, <1>2 DEF Uses
<1>4. \A i, j \in DOMAIN InUse(s) : InUse(s)[i] = InUse(s)[j] /\ InUse(s)[i] # 0 => i = j
  BY <1>1, <1>2 DEF Separate
<1>5. ASSUME NEW n \in Sizes
      PROVE  /\ IsInjective(FreeTables(s, n))
             /\ listed(n) = {t \in 1..Len(s.tables) : s.tables[t].size = n} \ U
  <2>1. PICK sq : FreeList(s, n, U, sq)
    BY <1>1 DEF Heap
  <2>2. FreeTables(s, n) = sq
    BY <1>1, <2>1, ListedTables DEF FreeList
  <2>3. DOMAIN sq = 1..Len(sq) /\ \A i, j \in 1..Len(sq) : sq[i] = sq[j] => i = j
    BY <2>1 DEF FreeList, Linked
  <2>4. IsInjective(sq)
    BY <2>3 DEF IsInjective
  <2>5. listed(n) = Members(sq)
    BY <2>2, <2>3 DEF Members
  <2>6. QED
    BY <2>1, <2>2, <2>4, <2>5 DEF FreeList
<1> HIDE DEF used, listed
<1>6. \A n \in Sizes : /\ IsInjective(FreeTables(s, n))
                      /\ \A t \in listed(n) : SizeOf(s, t) = n /\ t \notin used
  <2> SUFFICES ASSUME NEW n \in Sizes
               PROVE  /\ IsInjective(FreeTables(s, n))
                      /\ \A t \in listed(n) : SizeOf(s, t) = n /\ t \notin used
    OBVIOUS
  <2>1. \A t \in 1..Len(s.tables) : SizeOf(s, t) = s.tables[t].size
    BY DEF SizeOf
  <2>2. QED
    BY <2>1, <1>3, <1>5
<1>7. DOMAIN s.tables = used \cup UNION {listed(n) : n \in Sizes}
  <2>1. DOMAIN s.tables = 1..Len(s.tables)
    BY <1>1
  <2>2. \A t \in 1..Len(s.tables) : t \notin U => \E n \in Sizes : t \in listed(n)
    BY <1>1, <1>5, TableFields
  <2>3. \A n \in Sizes : listed(n) \subseteq 1..Len(s.tables)
    BY <1>5
  <2>4. QED
    BY <2>1, <2>2, <2>3, <1>1, <1>3
<1>8. QED
  BY <1>4, <1>6, <1>7 DEF OneOwnerEach, used, listed
-----------------------------------------------------------------------------
(***************************************************************************)
(* How the constructs nest in the scopes.  F are the frames, d of them are *)
(* open; there are len scopes, and the table counts depth lists of         *)
(* parameters.  p and q count the lists and the other scopes among the     *)
(* first i frames.                                                         *)
(***************************************************************************)
Scoped == {"block", "for", "function"}

CountedBy(F, d, p, q) ==
  /\ p \in [0..d -> Nat] /\ q \in [0..d -> Nat]
  /\ \A i \in 1..d : p[i] = p[i - 1] + (IF F[i].what = "params" THEN 1 ELSE 0)
  /\ \A i \in 1..d : q[i] = q[i - 1] + (IF F[i].what \in Scoped THEN 1 ELSE 0)
  /\ \A i, j \in 0..d : i =< j => p[i] =< p[j]

NestBy(F, d, len, depth, p, q) ==
  \A i \in 1..d : F[i].what \in Scoped /\ depth > p[d] - p[i] => len - depth >= q[d] - q[i] + 2

\* Of the lists that the table counts, those beyond the ones open inside of a
\* block, for or function are older: then the scopes of it and of all in it are
\* there, besides those of the lists and the file's.
Nest(F, d, len, depth) ==
  /\ depth =< len - 1
  /\ \E p, q : CountedBy(F, d, p, q) /\ NestBy(F, d, len, depth, p, q)

LEMMA NestSame ==
  ASSUME NEW F, NEW G, NEW d \in Nat, NEW len, NEW depth, Nest(F, d, len, depth),
         \A i \in 1..d : G[i].what = F[i].what
  PROVE  Nest(G, d, len, depth)
<1>1. PICK p, q : CountedBy(F, d, p, q) /\ NestBy(F, d, len, depth, p, q)
  BY DEF Nest
<1>2. CountedBy(G, d, p, q)
  BY <1>1 DEF CountedBy
<1>3. NestBy(G, d, len, depth, p, q)
  BY <1>1 DEF NestBy
<1>4. QED
  BY <1>1, <1>2, <1>3 DEF Nest

LEMMA NestNothing ==
  ASSUME NEW F, F[1].what = "file"
  PROVE  Nest(F, 1, 1, 0)
<1> DEFINE p == [i \in 0..1 |-> 0]
<1>1. \A i \in 1..1 : F[i].what = "file"
  OBVIOUS
<1>2. CountedBy(F, 1, p, p)
  <2>1. p \in [0..1 -> Nat] /\ \A i \in 0..1 : p[i] = 0
    OBVIOUS
  <2>2. \A i \in 1..1 : i \in 0..1 /\ i - 1 \in 0..1
    OBVIOUS
  <2> HIDE DEF p
  <2>3. QED
    BY <1>1, <2>1, <2>2 DEF CountedBy, Scoped
<1>3. NestBy(F, 1, 1, 0, p, p)
  BY <1>1 DEF NestBy, Scoped
<1>4. QED
  BY <1>2, <1>3 DEF Nest

\* One more frame is open: a list of parameters, another scope, or neither.
LEMMA NestOpened ==
  ASSUME NEW F, NEW d \in Nat, NEW len \in Nat, NEW depth \in Nat, Nest(F, d, len, depth)
  PROVE  /\ F[d + 1].what = "params" => Nest(F, d + 1, len + 1, depth + 1)
         /\ F[d + 1].what \in Scoped => Nest(F, d + 1, len + 1, depth)
         /\ F[d + 1].what \notin Scoped \cup {"params"} => Nest(F, d + 1, len, depth)
<1> DEFINE x == F[d + 1].what
           a == IF x = "params" THEN 1 ELSE 0
           b == IF x \in Scoped THEN 1 ELSE 0
<1>1. PICK p, q : CountedBy(F, d, p, q) /\ NestBy(F, d, len, depth, p, q)
  BY DEF Nest
<1>2. /\ p \in [0..d -> Nat] /\ q \in [0..d -> Nat]
      /\ \A i \in 1..d : p[i] = p[i - 1] + (IF F[i].what = "params" THEN 1 ELSE 0)
      /\ \A i \in 1..d : q[i] = q[i - 1] + (IF F[i].what \in Scoped THEN 1 ELSE 0)
      /\ \A i, j \in 0..d : i =< j => p[i] =< p[j]
  BY <1>1 DEF CountedBy
<1> DEFINE p2 == [i \in 0..(d + 1) |-> IF i = d + 1 THEN p[d] + a ELSE p[i]]
           q2 == [i \in 0..(d + 1) |-> IF i = d + 1 THEN q[d] + b ELSE q[i]]
<1>3. /\ p[d] \in Nat /\ q[d] \in Nat /\ a \in 0..1 /\ b \in 0..1 /\ d \in 0..d
      /\ (a = 1 <=> x = "params") /\ (a = 0 <=> x # "params")
      /\ (b = 1 <=> x \in Scoped) /\ (b = 0 <=> x \notin Scoped)
  BY <1>2
<1>4. /\ p2 \in [0..(d + 1) -> Nat] /\ q2 \in [0..(d + 1) -> Nat]
      /\ p2[d + 1] = p[d] + a /\ q2[d + 1] = q[d] + b
      /\ \A i \in 0..d : p2[i] = p[i] /\ q2[i] = q[i]
  <2> HIDE DEF a, b
  <2>1. \A i \in 0..(d + 1) : i # d + 1 => i \in 0..d
    OBVIOUS
  <2>2. \A i \in 0..d : i # d + 1 /\ i \in 0..(d + 1)
    OBVIOUS
  <2>3. p[d] + a \in Nat /\ q[d] + b \in Nat /\ d + 1 \in 0..(d + 1)
    BY <1>3
  <2>4. QED
    BY <1>2, <2>1, <2>2, <2>3
<1> HIDE DEF p2, q2
<1>5. CountedBy(F, d + 1, p2, q2)
  <2>1. ASSUME NEW i \in 1..(d + 1)
        PROVE  /\ p2[i] = p2[i - 1] + (IF F[i].what = "params" THEN 1 ELSE 0)
               /\ q2[i] = q2[i - 1] + (IF F[i].what \in Scoped THEN 1 ELSE 0)
    <3>1. CASE i = d + 1
      <4>1. i - 1 = d
        BY <3>1
      <4>2. QED
        BY <3>1, <4>1, <1>3, <1>4
    <3>2. CASE i # d + 1
      <4>1. i \in 1..d /\ i \in 0..d /\ i - 1 \in 0..d
        BY <3>2
      <4>2. QED
        BY <4>1, <1>2, <1>4
    <3>3. QED
      BY <3>1, <3>2
  <2>2. ASSUME NEW i \in 0..(d + 1), NEW j \in 0..(d + 1), i =< j
        PROVE  p2[i] =< p2[j]
    <3>1. CASE j = d + 1
      <4>1. CASE i = d + 1
        BY <3>1, <4>1, <1>4
      <4>2. CASE i # d + 1
        <5>1. i \in 0..d /\ i =< d
          BY <4>2
        <5>2. p[i] =< p[d] /\ p[i] \in Nat
          BY <5>1, <1>2, <1>3
        <5>3. p2[i] = p[i] /\ p2[j] = p[d] + a
          BY <5>1, <3>1, <1>4
        <5> HIDE DEF a
        <5>4. QED
          BY <5>2, <5>3, <1>3
      <4>3. QED
        BY <4>1, <4>2
    <3>2. CASE j # d + 1
      <4>1. i \in 0..d /\ j \in 0..d
        BY <2>2, <3>2
      <4>2. QED
        BY <4>1, <2>2, <1>2, <1>4
    <3>3. QED
      BY <3>1, <3>2
  <2>3. QED
    BY <2>1, <2>2, <1>4 DEF CountedBy
<1>6. ASSUME NEW i \in 1..d
      PROVE  /\ p2[i] = p[i] /\ q2[i] = q[i] /\ p[i] \in Nat /\ q[i] \in Nat
             /\ F[i].what \in Scoped /\ depth > p[d] - p[i] => len - depth >= q[d] - q[i] + 2
  BY <1>1, <1>2, <1>4 DEF NestBy
<1>7. ASSUME NEW l \in Nat, NEW e \in Nat, e =< l - 1, x \in Scoped => e =< l - 2,
             \A i \in 1..d : F[i].what \in Scoped /\ e > (p[d] + a) - p[i] => l - e >= (q[d] + b) - q[i] + 2
      PROVE  Nest(F, d + 1, l, e)
  <2>1. NestBy(F, d + 1, l, e, p2, q2)
    <3> SUFFICES ASSUME NEW i \in 1..(d + 1), F[i].what \in Scoped, e > p2[d + 1] - p2[i]
                 PROVE  l - e >= q2[d + 1] - q2[i] + 2
      BY DEF NestBy
    <3>1. CASE i = d + 1
      <4>1. e =< l - 2 /\ q2[i] \in Nat
        BY <3>1, <1>4, <1>7
      <4>2. QED
        BY <4>1, <3>1
    <3>2. CASE i # d + 1
      <4>1. i \in 1..d
        BY <3>2
      <4>2. p2[i] = p[i] /\ q2[i] = q[i]
        BY <4>1, <1>6
      <4>3. QED
        BY <4>1, <4>2, <1>4, <1>7
    <3>3. QED
      BY <3>1, <3>2
  <2>2. QED
    BY <2>1, <1>5, <1>7 DEF Nest
<1>8. depth =< len - 1
  BY DEF Nest
<1>9. ASSUME x = "params" PROVE Nest(F, d + 1, len + 1, depth + 1)
  <2> DEFINE l == len + 1
             e == depth + 1
  <2>1. a = 1 /\ b = 0 /\ x \notin Scoped
    BY <1>9 DEF Scoped
  <2>2. l \in Nat /\ e \in Nat /\ e =< l - 1 /\ l - e = len - depth
    BY <1>8
  <2> HIDE DEF a, b, x
  <2>3. ASSUME NEW i \in 1..d, F[i].what \in Scoped, e > (p[d] + a) - p[i] PROVE l - e >= (q[d] + b) - q[i] + 2
    <3>1. depth > p[d] - p[i]
      BY <2>1, <2>3, <1>3, <1>6
    <3>2. len - depth >= q[d] - q[i] + 2
      BY <3>1, <2>3, <1>6
    <3>3. QED
      BY <3>2, <2>1, <2>2, <1>3, <1>6
  <2> HIDE DEF l, e
  <2>4. QED
    BY <2>1, <2>2, <2>3, <1>7 DEF l, e
<1>10. ASSUME x \in Scoped PROVE Nest(F, d + 1, len + 1, depth)
  <2> DEFINE l == len + 1
  <2>1. a = 0 /\ b = 1
    BY <1>10 DEF Scoped
  <2>2. l \in Nat /\ depth =< l - 2 /\ depth =< l - 1 /\ l - depth = (len - depth) + 1
    BY <1>8
  <2> HIDE DEF a, b, x
  <2>3. ASSUME NEW i \in 1..d, F[i].what \in Scoped, depth > (p[d] + a) - p[i] PROVE l - depth >= (q[d] + b) - q[i] + 2
    <3>1. depth > p[d] - p[i]
      BY <2>1, <2>3, <1>3, <1>6
    <3>2. len - depth >= q[d] - q[i] + 2
      BY <3>1, <2>3, <1>6
    <3> HIDE DEF l
    <3>3. QED
      BY <3>2, <2>1, <2>2, <1>3, <1>6
  <2> HIDE DEF l
  <2>4. QED
    BY <2>2, <2>3, <1>7 DEF l
<1>11. ASSUME x \notin Scoped \cup {"params"} PROVE Nest(F, d + 1, len, depth)
  <2>1. a = 0 /\ b = 0 /\ x \notin Scoped
    BY <1>11
  <2> HIDE DEF a, b, x
  <2>2. ASSUME NEW i \in 1..d, F[i].what \in Scoped, depth > (p[d] + a) - p[i] PROVE len - depth >= (q[d] + b) - q[i] + 2
    <3>1. depth > p[d] - p[i]
      BY <2>1, <2>2, <1>3, <1>6
    <3>2. len - depth >= q[d] - q[i] + 2
      BY <3>1, <2>2, <1>6
    <3>3. QED
      BY <3>2, <2>1, <1>3, <1>6
  <2>3. QED
    BY <2>1, <2>2, <1>7, <1>8
<1>12. QED
  BY <1>9, <1>10, <1>11

Less(len) == IF len = 1 THEN 1 ELSE len - 1
Before(depth) == IF depth > 0 THEN depth - 1 ELSE 0

\* The last frame is closed.  Its scope goes if there is another one; a list
\* that is given up is counted no more, even when it was not.
LEMMA NestClosed ==
  ASSUME NEW F, NEW d \in Nat, NEW len \in Nat \ {0}, NEW depth \in Nat, Nest(F, d + 1, len, depth)
  PROVE  /\ F[d + 1].what # "params" => Nest(F, d, len, depth)
         /\ F[d + 1].what \in Scoped => Nest(F, d, Less(len), depth)
         /\ Nest(F, d, Less(len), Before(depth))
<1> DEFINE x == F[d + 1].what
           a == IF x = "params" THEN 1 ELSE 0
           b == IF x \in Scoped THEN 1 ELSE 0
<1>1. PICK p, q : CountedBy(F, d + 1, p, q) /\ NestBy(F, d + 1, len, depth, p, q)
  BY DEF Nest
<1>2. /\ p \in [0..(d + 1) -> Nat] /\ q \in [0..(d + 1) -> Nat]
      /\ \A i \in 1..(d + 1) : p[i] = p[i - 1] + (IF F[i].what = "params" THEN 1 ELSE 0)
      /\ \A i \in 1..(d + 1) : q[i] = q[i - 1] + (IF F[i].what \in Scoped THEN 1 ELSE 0)
      /\ \A i, j \in 0..(d + 1) : i =< j => p[i] =< p[j]
  BY <1>1 DEF CountedBy
<1>3. /\ d \in 0..(d + 1) /\ d + 1 \in 1..(d + 1) /\ (d + 1) - 1 = d /\ p[d] \in Nat /\ q[d] \in Nat
      /\ a \in 0..1 /\ b \in 0..1 /\ p[d + 1] = p[d] + a /\ q[d + 1] = q[d] + b
  <2>1. d \in 0..(d + 1) /\ d + 1 \in 1..(d + 1) /\ (d + 1) - 1 = d
    OBVIOUS
  <2>2. p[d + 1] = p[d] + a /\ q[d + 1] = q[d] + b
    BY <2>1, <1>2
  <2>3. QED
    BY <2>1, <2>2, <1>2
<1> DEFINE p2 == [i \in 0..d |-> p[i]]
           q2 == [i \in 0..d |-> q[i]]
<1>4. CountedBy(F, d, p2, q2)
  <2>1. \A i \in 0..d : i \in 0..(d + 1) /\ p2[i] = p[i] /\ q2[i] = q[i]
    OBVIOUS
  <2>2. \A i \in 1..d : i \in 0..d /\ i - 1 \in 0..d /\ i \in 1..(d + 1)
    OBVIOUS
  <2>3. p2 \in [0..d -> Nat] /\ q2 \in [0..d -> Nat]
    BY <2>1, <1>2
  <2> HIDE DEF p2, q2
  <2>4. QED
    BY <2>1, <2>2, <2>3, <1>2 DEF CountedBy
<1>5. ASSUME NEW i \in 1..d
      PROVE  /\ p2[i] = p[i] /\ q2[i] = q[i] /\ p2[d] = p[d] /\ q2[d] = q[d]
             /\ p[i] \in Nat /\ q[i] \in Nat /\ p[i] =< p[d]
             /\ F[i].what \in Scoped /\ depth > (p[d] + a) - p[i] => len - depth >= (q[d] + b) - q[i] + 2
  <2>1. i \in 0..d /\ i \in 1..(d + 1) /\ i \in 0..(d + 1) /\ i =< d /\ d \in 0..d
    OBVIOUS
  <2>2. F[i].what \in Scoped /\ depth > (p[d] + a) - p[i] => len - depth >= (q[d] + b) - q[i] + 2
    BY <2>1, <1>1, <1>3 DEF NestBy
  <2>3. p[i] =< p[d] /\ p[i] \in Nat /\ q[i] \in Nat
    BY <2>1, <1>2, <1>3
  <2>4. QED
    BY <2>1, <2>2, <2>3
<1> HIDE DEF p2, q2
<1>6. ASSUME NEW l \in Nat, NEW e \in Nat, e =< l - 1,
             \A i \in 1..d : F[i].what \in Scoped /\ e > p[d] - p[i] => l - e >= q[d] - q[i] + 2
      PROVE  Nest(F, d, l, e)
  <2>1. NestBy(F, d, l, e, p2, q2)
    BY <1>5, <1>6 DEF NestBy
  <2>2. QED
    BY <2>1, <1>4, <1>6 DEF Nest
<1>7. depth =< len - 1
  BY DEF Nest
<1>8. ASSUME x # "params" PROVE Nest(F, d, len, depth)
  <2>1. a = 0
    BY <1>8
  <2> HIDE DEF a, b, x
  <2>2. ASSUME NEW i \in 1..d, F[i].what \in Scoped, depth > p[d] - p[i] PROVE len - depth >= q[d] - q[i] + 2
    <3>1. len - depth >= (q[d] + b) - q[i] + 2
      BY <2>1, <2>2, <1>3, <1>5
    <3>2. QED
      BY <3>1, <1>3, <1>5
  <2>3. QED
    BY <2>2, <1>6, <1>7
<1>9. ASSUME x \in Scoped PROVE Nest(F, d, Less(len), depth)
  <2> DEFINE l == Less(len)
  <2>1. a = 0 /\ b = 1
    BY <1>9 DEF Scoped
  <2>2. depth > 0 => len - depth >= 2
    <3>1. x \in Scoped /\ depth > p[d + 1] - p[d + 1] => len - depth >= q[d + 1] - q[d + 1] + 2
      BY <1>1, <1>3 DEF NestBy
    <3>2. p[d + 1] \in Nat /\ q[d + 1] \in Nat
      BY <1>2, <1>3
    <3>3. QED
      BY <3>1, <3>2, <1>9
  <2>3. l \in Nat /\ depth =< l - 1 /\ (depth > 0 => l = len - 1)
    BY <1>7, <2>2 DEF Less
  <2> HIDE DEF a, b, x, l
  <2>4. ASSUME NEW i \in 1..d, F[i].what \in Scoped, depth > p[d] - p[i] PROVE l - depth >= q[d] - q[i] + 2
    <3>1. depth > (p[d] + a) - p[i] /\ depth > 0
      BY <2>1, <2>4, <1>3, <1>5
    <3>2. len - depth >= (q[d] + b) - q[i] + 2
      BY <3>1, <2>4, <1>5
    <3>3. QED
      BY <3>1, <3>2, <2>1, <2>3, <1>3, <1>5
  <2>5. QED
    BY <2>3, <2>4, <1>6 DEF l
<1>10. Nest(F, d, Less(len), Before(depth))
  <2> DEFINE l == Less(len)
             e == Before(depth)
  <2>1. l \in Nat /\ e \in Nat /\ e =< l - 1 /\ (e > 0 => l = len - 1 /\ e = depth - 1)
    BY <1>7 DEF Less, Before
  <2> HIDE DEF a, b, x, l, e
  <2>2. ASSUME NEW i \in 1..d, F[i].what \in Scoped, e > p[d] - p[i] PROVE l - e >= q[d] - q[i] + 2
    <3>1. e > 0 /\ depth > (p[d] + a) - p[i]
      BY <2>1, <2>2, <1>3, <1>5
    <3>2. len - depth >= (q[d] + b) - q[i] + 2
      BY <3>1, <2>2, <1>5
    <3>3. QED
      BY <3>1, <3>2, <2>1, <1>3, <1>5
  <2>3. QED
    BY <2>1, <2>2, <1>6 DEF l, e
<1>11. QED
  BY <1>8, <1>9, <1>10
-----------------------------------------------------------------------------
(***************************************************************************)
(* The frames and the table together.                                      *)
(***************************************************************************)
WhatSet == {"file", "decl", "params", "closing", "function", "block", "for"}
StageSet == {"", "specifiers", "named", "initializer", "declared"}
MeansSet == {"", "typedef", "variable", "member"}
NamesSet == UNION {[X -> [kind : MeansSet, decl : Nat]] : X \in SUBSET Names}
FrameSet == [what : WhatSet, names : NamesSet, stage : StageSet, means : MeansSet,
             lists : Seq(NamesSet), nested : BOOLEAN]

\* The first frame is the file, and only that one.
Framed(F) ==
  /\ F \in Seq(FrameSet) /\ Len(F) # 0
  /\ \A i \in 1..Len(F) : F[i].what = "file" <=> i = 1

Settled(F, s) == Framed(F) /\ Good(s) /\ Nest(F, Len(F), Len(s.scopes), s.param_depth)

Inv == Settled(frames, st) /\ decls \in Nat

LEMMA SettledTypes ==
  ASSUME NEW F, NEW s, Settled(F, s)
  PROVE  /\ F \in Seq(FrameSet) /\ Len(F) \in Nat \ {0} /\ Len(F) \in 1..Len(F)
         /\ F[Len(F)] \in FrameSet /\ F[1].what = "file" /\ 1 \in 1..Len(F)
         /\ \A i \in 1..Len(F) : F[i] \in FrameSet /\ (F[i].what = "file" <=> i = 1)
         /\ Good(s) /\ Len(s.scopes) \in Nat \ {0} /\ s.param_depth \in Nat
         /\ s.param_depth =< Len(s.scopes) - 1
         /\ Nest(F, Len(F), Len(s.scopes), s.param_depth)
         /\ GoodAs(s, Len(s.scopes), s.param_depth)
<1>1. F \in Seq(FrameSet) /\ Len(F) # 0 /\ Len(F) \in Nat
  BY DEF Settled, Framed
<1>2. Len(F) \in 1..Len(F) /\ 1 \in 1..Len(F) /\ \A i \in 1..Len(F) : F[i] \in FrameSet
  BY <1>1
<1>3. F[1].what = "file" /\ \A i \in 1..Len(F) : F[i].what = "file" <=> i = 1
  BY <1>2 DEF Settled, Framed
<1>4. Good(s) /\ Len(s.scopes) \in Nat \ {0} /\ s.param_depth \in Nat
  BY StateFields DEF Settled, Good
<1>5. Nest(F, Len(F), Len(s.scopes), s.param_depth) /\ s.param_depth =< Len(s.scopes) - 1
  BY DEF Settled, Nest
<1>6. QED
  BY <1>1, <1>2, <1>3, <1>4, <1>5 DEF GoodAs

\* No construct opens or closes.
LEMMA StaysSettled ==
  ASSUME NEW F, NEW s, Settled(F, s), NEW r, GoodAs(r, Len(s.scopes), s.param_depth),
         NEW G \in Seq(FrameSet), Len(G) = Len(F), \A i \in 1..Len(F) : G[i].what = F[i].what
  PROVE  Settled(G, r)
<1>1. Framed(G)
  BY DEF Settled, Framed
<1> DEFINE d == Len(F)
           l == Len(s.scopes)
           e == s.param_depth
<1>2. d \in Nat /\ Nest(F, d, l, e) /\ \A i \in 1..d : G[i].what = F[i].what
  BY DEF Settled, Framed
<1>3. Len(G) = d /\ Good(r) /\ Len(r.scopes) = l /\ r.param_depth = e
  BY DEF GoodAs
<1> HIDE DEF d, l, e
<1>4. Nest(G, d, l, e)
  BY <1>2, NestSame
<1>5. QED
  BY <1>1, <1>3, <1>4 DEF Settled

LEMMA OpensSettled ==
  ASSUME NEW F, NEW s, Settled(F, s), NEW f \in FrameSet, f.what # "file", NEW r,
         \/ f.what = "params" /\ GoodAs(r, Len(s.scopes) + 1, s.param_depth + 1)
         \/ f.what \in Scoped /\ GoodAs(r, Len(s.scopes) + 1, s.param_depth)
         \/ f.what \notin Scoped \cup {"params"} /\ GoodAs(r, Len(s.scopes), s.param_depth)
  PROVE  Settled(Append(F, f), r)
<1> DEFINE d == Len(F)
           l == Len(s.scopes)
           e == s.param_depth
           G == Append(F, f)
<1>1. F \in Seq(FrameSet) /\ d \in Nat /\ d # 0 /\ l \in Nat /\ e \in Nat /\ Nest(F, d, l, e)
      /\ \A i \in 1..d : F[i].what = "file" <=> i = 1
  BY SettledTypes
<1>2. /\ G \in Seq(FrameSet) /\ Len(G) = d + 1 /\ G[d + 1] = f
      /\ \A i \in 1..d : G[i] = F[i]
  BY <1>1
<1>3. /\ f.what = "params" => GoodAs(r, l + 1, e + 1)
      /\ f.what \in Scoped => GoodAs(r, l + 1, e)
      /\ f.what \notin Scoped \cup {"params"} => GoodAs(r, l, e)
  BY DEF Scoped
<1> HIDE DEF d, l, e, G
<1>4. Framed(G)
  <2>1. ASSUME NEW i \in 1..(d + 1) PROVE G[i].what = "file" <=> i = 1
    <3>1. CASE i = d + 1
      BY <3>1, <1>1, <1>2
    <3>2. CASE i # d + 1
      <4>1. i \in 1..d
        BY <3>2, <1>1
      <4>2. QED
        BY <4>1, <1>1, <1>2
    <3>3. QED
      BY <3>1, <3>2
  <2>2. Len(G) # 0
    BY <1>1, <1>2
  <2>3. QED
    BY <2>1, <2>2, <1>2 DEF Framed
<1>5. Nest(G, d, l, e)
  <2>1. \A i \in 1..d : G[i].what = F[i].what
    BY <1>2
  <2>2. QED
    BY <2>1, <1>1, NestSame
<1>6. /\ f.what = "params" => Nest(G, d + 1, l + 1, e + 1)
      /\ f.what \in Scoped => Nest(G, d + 1, l + 1, e)
      /\ f.what \notin Scoped \cup {"params"} => Nest(G, d + 1, l, e)
  BY <1>1, <1>2, <1>5, NestOpened
<1>7. Good(r) /\ Nest(G, d + 1, Len(r.scopes), r.param_depth)
  BY <1>3, <1>6 DEF GoodAs
<1>8. Settled(G, r)
  BY <1>2, <1>4, <1>7 DEF Settled
<1>9. QED
  BY <1>8 DEF G

LEMMA ClosesSettled ==
  ASSUME NEW F, NEW s, Settled(F, s), F[Len(F)].what # "file", NEW r,
         \/ F[Len(F)].what # "params" /\ GoodAs(r, Len(s.scopes), s.param_depth)
         \/ F[Len(F)].what \in Scoped /\ GoodAs(r, Less(Len(s.scopes)), s.param_depth)
         \/ GoodAs(r, Less(Len(s.scopes)), Before(s.param_depth))
  PROVE  Settled(Front(F), r)
<1> DEFINE d == Len(F) - 1
           l == Len(s.scopes)
           e == s.param_depth
           G == Front(F)
<1>1. F \in Seq(FrameSet) /\ Len(F) \in Nat \ {0} /\ l \in Nat \ {0} /\ e \in Nat /\ Nest(F, Len(F), l, e)
      /\ \A i \in 1..Len(F) : F[i].what = "file" <=> i = 1
  BY SettledTypes
<1>2. Len(F) # 1
  BY <1>1
<1>3. d \in Nat /\ d # 0 /\ Len(F) = d + 1
  BY <1>1, <1>2
<1>4. G \in Seq(FrameSet) /\ Len(G) = d /\ \A i \in 1..d : G[i] = F[i]
  BY <1>1, FrontOf
<1>5. \/ F[d + 1].what # "params" /\ GoodAs(r, l, e)
      \/ F[d + 1].what \in Scoped /\ GoodAs(r, Less(l), e)
      \/ GoodAs(r, Less(l), Before(e))
  BY <1>3
<1> HIDE DEF d, l, e, G
<1>6. Framed(G)
  BY <1>1, <1>3, <1>4 DEF Framed
<1>7. Nest(F, d + 1, l, e)
  BY <1>1, <1>3
<1>8. /\ F[d + 1].what # "params" => Nest(F, d, l, e)
      /\ F[d + 1].what \in Scoped => Nest(F, d, Less(l), e)
      /\ Nest(F, d, Less(l), Before(e))
  BY <1>1, <1>3, <1>7, NestClosed
<1>9. Good(r) /\ Nest(F, d, Len(r.scopes), r.param_depth)
  BY <1>5, <1>8 DEF GoodAs
<1>10. Nest(G, d, Len(r.scopes), r.param_depth)
  <2> DEFINE m == Len(r.scopes)
             k == r.param_depth
  <2>1. Nest(F, d, m, k) /\ \A i \in 1..d : G[i].what = F[i].what
    BY <1>4, <1>9
  <2> HIDE DEF m, k
  <2>2. Nest(G, d, m, k)
    BY <2>1, <1>3, NestSame
  <2>3. QED
    BY <2>2 DEF m, k
<1>11. Settled(G, r)
  BY <1>4, <1>6, <1>9, <1>10 DEF Settled
<1>12. QED
  BY <1>11 DEF G

\* One frame changes, not in what it is.
LEMMA FrameChanged ==
  ASSUME NEW F, NEW s, Settled(F, s), NEW k \in 1..Len(F), NEW f \in FrameSet, f.what = F[k].what,
         NEW r, GoodAs(r, Len(s.scopes), s.param_depth)
  PROVE  Settled([F EXCEPT ![k] = f], r)
<1> DEFINE G == [F EXCEPT ![k] = f]
<1>1. F \in Seq(FrameSet)
  BY SettledTypes
<1>2. G \in Seq(FrameSet) /\ Len(G) = Len(F) /\ \A i \in 1..Len(F) : G[i].what = F[i].what
  BY <1>1
<1> HIDE DEF G
<1>3. Settled(G, r)
  BY <1>2, StaysSettled
<1>4. QED
  BY <1>3 DEF G

LEMMA ScopeTypes ==
  ASSUME NEW what \in WhatSet, NEW names \in NamesSet
  PROVE  Scope(what, names) \in FrameSet /\ Scope(what, names).what = what
<1>1. <<>> \in Seq(NamesSet) /\ "" \in StageSet /\ "" \in MeansSet
  BY DEF StageSet, MeansSet
<1>2. QED
  BY <1>1 DEF Scope, FrameSet

LEMMA NoNamesType == NoNames \in NamesSet
<1>1. NoNames \in [{} -> [kind : MeansSet, decl : Nat]]
  BY DEF NoNames
<1>2. {} \in SUBSET Names
  OBVIOUS
<1>3. QED
  BY <1>1, <1>2 DEF NamesSet

LEMMA DeclarationTypes ==
  ASSUME NEW stage \in StageSet, NEW means \in MeansSet
  PROVE  Declaration(stage, means) \in FrameSet /\ Declaration(stage, means).what = "decl"
<1>1. <<>> \in Seq(NamesSet) /\ "decl" \in WhatSet
  BY DEF WhatSet
<1>2. QED
  BY <1>1, NoNamesType DEF Declaration, FrameSet

LEMMA NoteTypes ==
  ASSUME NEW names \in NamesSet, NEW x \in Names, NEW kind \in MeansSet, decls \in Nat
  PROVE  Note(names, x, kind) \in NamesSet
<1>1. PICK X \in SUBSET Names : names \in [X -> [kind : MeansSet, decl : Nat]]
  BY DEF NamesSet
<1>2. X \cup {x} \in SUBSET Names
  BY <1>1
<1>3. Note(names, x, kind) \in [X \cup {x} -> [kind : MeansSet, decl : Nat]]
  BY <1>1 DEF Note
<1>4. QED
  BY <1>2, <1>3 DEF NamesSet

LEMMA HereTypes ==
  ASSUME Inv
  PROVE  /\ frames \in Seq(FrameSet) /\ Depth \in Nat \ {0} /\ Depth \in 1..Depth
         /\ \A i \in 1..Depth : frames[i] \in FrameSet /\ (frames[i].what = "file" <=> i = 1)
         /\ Here = frames[Depth] /\ Here \in FrameSet /\ (Here.what = "file" <=> Depth = 1)
         /\ st \in State /\ st.declaring \in Kinds /\ Good(st) /\ decls \in Nat
         /\ st.param_depth =< Len(st.scopes) - 1 /\ Settled(frames, st)
         /\ GoodAs(st, Len(st.scopes), st.param_depth)
<1>1. Settled(frames, st) /\ decls \in Nat
  BY DEF Inv
<1>2. st \in State /\ st.declaring \in Kinds
  BY <1>1, SettledTypes, StateFields DEF Good
<1>3. QED
  BY <1>1, <1>2, SettledTypes DEF Here, Depth

LEMMA FieldsChanged ==
  ASSUME NEW f \in FrameSet, NEW stage \in StageSet, NEW names \in NamesSet, NEW lists \in Seq(NamesSet),
         NEW nested \in BOOLEAN
  PROVE  LET g == [f EXCEPT !.stage = stage, !.names = names, !.lists = lists, !.nested = nested]
         IN  g \in FrameSet /\ g.what = f.what
BY DEF FrameSet

LEMMA FrameFields ==
  ASSUME NEW f \in FrameSet
  PROVE  /\ f.what \in WhatSet /\ f.names \in NamesSet /\ f.stage \in StageSet /\ f.means \in MeansSet
         /\ f.lists \in Seq(NamesSet) /\ f.nested \in BOOLEAN
BY DEF FrameSet
-----------------------------------------------------------------------------
(***************************************************************************)
(* Each action keeps the table in order and the frames nested in it.       *)
(***************************************************************************)
LEMMA InitSettled == Init => Inv
<1> SUFFICES ASSUME Init PROVE Inv
  OBVIOUS
<1> DEFINE names == [x \in Builtins |-> [kind |-> "typedef", decl |-> 0]]
           f == Scope("file", names)
           F == <<f>>
<1>1. names \in NamesSet
  <2>1. Builtins \in SUBSET Names
    BY BuiltinsAssumption DEF Builtins
  <2>2. [kind |-> "typedef", decl |-> 0] \in [kind : MeansSet, decl : Nat]
    BY DEF MeansSet
  <2>3. names \in [Builtins -> [kind : MeansSet, decl : Nat]]
    BY <2>2
  <2>4. QED
    BY <2>1, <2>3 DEF NamesSet
<1>2. f \in FrameSet /\ f.what = "file"
  <2> HIDE DEF names
  <2>1. "file" \in WhatSet
    BY DEF WhatSet
  <2>2. QED
    BY <1>1, <2>1, ScopeTypes
<1>3. frames = F /\ st = NewTable /\ decls = 0
  BY DEF Init
<1> HIDE DEF f
<1>4. F \in Seq(FrameSet) /\ Len(F) = 1 /\ F[1] = f
  BY <1>2
<1> HIDE DEF F
<1>5. Framed(F)
  <2>1. \A i \in 1..Len(F) : F[i].what = "file" <=> i = 1
    BY <1>2, <1>4
  <2>2. QED
    BY <2>1, <1>4 DEF Framed
<1>6. Nest(F, 1, 1, 0)
  BY <1>2, <1>4, NestNothing
<1>7. Settled(F, NewTable)
  BY <1>4, <1>5, <1>6, NewTableGood DEF Settled, GoodAs
<1>8. QED
  BY <1>3, <1>7 DEF Inv

LEMMA BeginDeclarationSettled ==
  ASSUME Inv, NEW means \in {"typedef", "variable"}, BeginDeclaration(means)
  PROVE  Inv'
<1> DEFINE F == IF Items THEN frames ELSE [frames EXCEPT ![Depth].stage = "declared"]
           f == Declaration("specifiers", means)
           r == IF means = "typedef" THEN TypedefSeen(st) ELSE st
<1>1. st' = r /\ frames' = Append(F, f) /\ decls' = decls
  BY DEF BeginDeclaration
<1>2. Settled(F, st)
  <2>1. CASE Items
    BY <2>1, HereTypes
  <2>2. CASE ~Items
    <3> DEFINE g == [Here EXCEPT !.stage = "declared"]
    <3>1. g \in FrameSet /\ g.what = Here.what
      <4>1. "declared" \in StageSet
        BY DEF StageSet
      <4>2. QED
        BY <4>1, HereTypes DEF FrameSet
    <3>2. F = [frames EXCEPT ![Depth] = g]
      BY <2>2, HereTypes
    <3> HIDE DEF g
    <3>3. QED
      BY <3>1, <3>2, HereTypes, FrameChanged DEF Depth
  <2>3. QED
    BY <2>1, <2>2
<1>3. GoodAs(r, Len(st.scopes), st.param_depth)
  BY HereTypes, LatchOpsGood
<1>4. f \in FrameSet /\ f.what = "decl"
  <2>1. "specifiers" \in StageSet /\ means \in MeansSet
    BY DEF StageSet, MeansSet
  <2>2. QED
    BY <2>1, DeclarationTypes
<1> HIDE DEF F, f, r
<1>5. f.what # "file" /\ f.what \notin Scoped \cup {"params"}
  BY <1>4 DEF Scoped
<1>6. Settled(Append(F, f), r)
  BY <1>2, <1>3, <1>4, <1>5, OpensSettled
<1>7. QED
  BY <1>1, <1>6, HereTypes DEF Inv

LEMMA MemberSettled ==
  ASSUME Inv, Member
  PROVE  Inv'
<1> DEFINE f == Declaration("named", "member")
<1>1. st' = DeclaratorNamed(st) /\ frames' = Append(frames, f) /\ decls' = decls
  BY DEF Member, Open
<1>2. f \in FrameSet /\ f.what = "decl"
  <2>1. "named" \in StageSet /\ "member" \in MeansSet
    BY DEF StageSet, MeansSet
  <2>2. QED
    BY <2>1, DeclarationTypes
<1> HIDE DEF f
<1>3. f.what # "file" /\ f.what \notin Scoped \cup {"params"}
  BY <1>2 DEF Scoped
<1>4. GoodAs(DeclaratorNamed(st), Len(st.scopes), st.param_depth)
  BY HereTypes, LatchOpsGood
<1>5. Settled(Append(frames, f), DeclaratorNamed(st))
  BY <1>2, <1>3, <1>4, HereTypes, OpensSettled
<1>6. QED
  BY <1>1, <1>5, HereTypes DEF Inv

LEMMA FirstDeclaratorSettled ==
  ASSUME Inv, FirstDeclarator
  PROVE  Inv'
<1> DEFINE q == SpecifiersDone(st)
           r == DeclaratorNamed(q)
           g == [Here EXCEPT !.stage = "named"]
<1>1. st' = r /\ frames' = [frames EXCEPT ![Depth] = g] /\ decls' = decls
  BY HereTypes DEF FirstDeclarator
<1>2. g \in FrameSet /\ g.what = Here.what
  <2>1. "named" \in StageSet
    BY DEF StageSet
  <2>2. QED
    BY <2>1, HereTypes DEF FrameSet
<1>3. GoodAs(q, Len(st.scopes), st.param_depth)
  BY HereTypes, LatchOpsGood
<1> HIDE DEF q, g
<1>4. GoodAs(r, Len(st.scopes), st.param_depth)
  BY <1>3, LatchOpsGood DEF GoodAs
<1> HIDE DEF r
<1>5. Settled([frames EXCEPT ![Depth] = g], r)
  BY <1>2, <1>4, HereTypes, FrameChanged DEF Depth
<1>6. QED
  BY <1>1, <1>5, HereTypes DEF Inv

LEMMA NothingDeclaredSettled ==
  ASSUME Inv, NothingDeclared
  PROVE  Inv'
<1>1. st' = SpecifiersReset(st) /\ frames' = Front(frames) /\ decls' = decls /\ Here.what = "decl"
  BY DEF NothingDeclared, Close, At
<1>2. GoodAs(SpecifiersReset(st), Len(st.scopes), st.param_depth)
  BY HereTypes, LatchOpsGood
<1>3. Settled(Front(frames), SpecifiersReset(st))
  BY <1>1, <1>2, HereTypes, ClosesSettled DEF Depth
<1>4. QED
  BY <1>1, <1>3, HereTypes DEF Inv

LEMMA NextDeclaratorSettled ==
  ASSUME Inv, NextDeclarator
  PROVE  Inv'
<1> DEFINE g == [Here EXCEPT !.stage = "named", !.lists = <<>>]
           r == DeclaratorNamed(st)
<1>1. st' = r /\ frames' = [frames EXCEPT ![Depth] = g] /\ decls' = decls
  BY HereTypes DEF NextDeclarator
<1>2. g \in FrameSet /\ g.what = Here.what
  <2>1. "named" \in StageSet /\ <<>> \in Seq(NamesSet)
    BY DEF StageSet
  <2>2. QED
    BY <2>1, HereTypes DEF FrameSet
<1>3. GoodAs(r, Len(st.scopes), st.param_depth)
  BY HereTypes, LatchOpsGood
<1> HIDE DEF r, g
<1>4. Settled([frames EXCEPT ![Depth] = g], r)
  BY <1>2, <1>3, HereTypes, FrameChanged DEF Depth
<1>5. QED
  BY <1>1, <1>4, HereTypes DEF Inv

LEMMA EndDeclarationSettled ==
  ASSUME Inv, EndDeclaration
  PROVE  Inv'
<1>1. st' = st /\ frames' = Front(frames) /\ decls' = decls /\ Here.what = "decl"
  BY DEF EndDeclaration, Close, At
<1>2. Settled(Front(frames), st)
  BY <1>1, HereTypes, ClosesSettled DEF Depth
<1>3. QED
  BY <1>1, <1>2, HereTypes DEF Inv

LEMMA OpenParamsSettled ==
  ASSUME Inv, OpenParams
  PROVE  Inv'
<1> DEFINE f == Scope("params", NoNames)
<1>1. st' = PushParams(st) /\ frames' = Append(frames, f) /\ decls' = decls
  BY DEF OpenParams, Open
<1>2. f \in FrameSet /\ f.what = "params"
  BY ScopeTypes, NoNamesType DEF WhatSet
<1> HIDE DEF f
<1>3. GoodAs(PushParams(st), Len(st.scopes) + 1, st.param_depth + 1)
  BY HereTypes, PushParamsGood
<1>4. Settled(Append(frames, f), PushParams(st))
  BY <1>2, <1>3, HereTypes, OpensSettled
<1>5. QED
  BY <1>1, <1>4, HereTypes DEF Inv

LEMMA NoParamsSettled ==
  ASSUME Inv, NoParams
  PROVE  Inv'
<1> DEFINE g == [Here EXCEPT !.lists = <<NoNames>>]
<1>1. st' = st /\ frames' = [frames EXCEPT ![Depth] = g] /\ decls' = decls
  BY HereTypes DEF NoParams
<1>2. g \in FrameSet /\ g.what = Here.what
  <2>1. <<NoNames>> \in Seq(NamesSet)
    BY NoNamesType
  <2>2. QED
    BY <2>1, HereTypes DEF FrameSet
<1> HIDE DEF g
<1>3. Settled([frames EXCEPT ![Depth] = g], st)
  BY <1>2, HereTypes, FrameChanged DEF Depth
<1>4. QED
  BY <1>1, <1>3, HereTypes DEF Inv

LEMMA ParamSettled ==
  ASSUME Inv, NEW x \in Names, Param(x)
  PROVE  Inv'
<1> DEFINE q == DeclaratorNamed(st)
           d == decls + 1
           r == Add(q, x, "variable", d)
           names == Note(Here.names, x, "variable")
           g == [Here EXCEPT !.names = names]
<1>1. st' = r /\ frames' = [frames EXCEPT ![Depth] = g] /\ decls' = d /\ d \in Nat
  <2>1. st' = r /\ decls' = d /\ d \in Nat
    BY HereTypes DEF Param
  <2>2. frames' = [frames EXCEPT ![Depth].names = Note(@, x, "variable")]
    BY DEF Param
  <2>3. frames' = [frames EXCEPT ![Depth].names = names]
    BY <2>2, HereTypes
  <2> HIDE DEF names
  <2>4. frames' = [frames EXCEPT ![Depth] = g]
    BY <2>3, HereTypes
  <2>5. QED
    BY <2>1, <2>4
<1>2. g \in FrameSet /\ g.what = Here.what
  <2>1. Here.names \in NamesSet /\ "variable" \in MeansSet
    BY HereTypes, FrameFields DEF MeansSet
  <2>2. Note(Here.names, x, "variable") \in NamesSet
    BY <2>1, HereTypes, NoteTypes
  <2>3. QED
    BY <2>2, HereTypes DEF FrameSet
<1>3. GoodAs(q, Len(st.scopes), st.param_depth)
  BY HereTypes, LatchOpsGood
<1> HIDE DEF q, g, d
<1>4. GoodAs(r, Len(st.scopes), st.param_depth)
  <2>1. "variable" \in Kinds
    BY DEF Kinds
  <2>2. GoodAs(r, Len(q.scopes), q.param_depth)
    BY <1>1, <1>3, <2>1, AddGood DEF GoodAs
  <2>3. QED
    BY <1>3, <2>2 DEF GoodAs
<1> HIDE DEF r
<1>5. Settled([frames EXCEPT ![Depth] = g], r)
  BY <1>2, <1>4, HereTypes, FrameChanged DEF Depth
<1>6. QED
  BY <1>1, <1>5 DEF Inv

LEMMA DeclareSettled ==
  ASSUME Inv, NEW x \in Names, Declare(x)
  PROVE  Inv'
<1> DEFINE d == decls + 1
           r == Add(st, x, st.declaring, d)
           g == [Here EXCEPT !.stage = "initializer"]
           names == Note(Under.names, x, Here.means)
           h == [Under EXCEPT !.names = names]
           F == [frames EXCEPT ![Depth] = g]
           k == Depth - 1
<1>1. st' = r /\ decls' = d /\ d \in Nat /\ Here.what = "decl"
  BY HereTypes DEF Declare, At
<1>2. k \in 1..Depth /\ k # Depth /\ Under = frames[k] /\ Under \in FrameSet /\ F[k] = Under
  <2>1. Depth # 1 /\ Depth \in Nat \ {0}
    BY <1>1, HereTypes
  <2>2. k \in 1..Depth /\ k # Depth
    BY <2>1
  <2>3. QED
    BY <2>2, HereTypes DEF Under, Depth
<1>3. frames' = [F EXCEPT ![k] = h]
  <2>1. frames' = [frames EXCEPT ![Depth].stage = "initializer", ![Depth - 1].names = Note(@, x, Here.means)]
    BY DEF Declare
  <2>2. frames' = [F EXCEPT ![k].names = Note(@, x, Here.means)]
    BY <2>1, HereTypes
  <2> HIDE DEF F, k
  <2>3. frames' = [F EXCEPT ![k].names = names]
    BY <2>2, <1>2
  <2> HIDE DEF names
  <2>4. QED
    BY <2>3, <1>2
<1>4. g \in FrameSet /\ g.what = Here.what
  <2>1. "initializer" \in StageSet
    BY DEF StageSet
  <2>2. QED
    BY <2>1, HereTypes DEF FrameSet
<1>5. h \in FrameSet /\ h.what = F[k].what
  <2>1. Under.names \in NamesSet /\ Here.means \in MeansSet
    BY <1>2, HereTypes, FrameFields
  <2>2. names \in NamesSet
    BY <2>1, HereTypes, NoteTypes
  <2> HIDE DEF names, F, k
  <2>3. QED
    BY <2>2, <1>2 DEF FrameSet
<1>6. GoodAs(r, Len(st.scopes), st.param_depth)
  <2>1. d \in Nat /\ Good(st) /\ st.declaring \in Kinds
    BY HereTypes
  <2> HIDE DEF d
  <2>2. QED
    BY <2>1, AddGood
<1>7. Len(F) = Len(frames)
  BY HereTypes
<1> HIDE DEF g, h
<1>8. Settled(F, st)
  BY <1>4, HereTypes, FrameChanged DEF Depth
<1> HIDE DEF F, k, r
<1>9. Settled([F EXCEPT ![k] = h], r)
  BY <1>2, <1>5, <1>6, <1>7, <1>8, FrameChanged DEF Depth
<1>10. QED
  BY <1>1, <1>3, <1>9 DEF Inv

\* The last frame is replaced.
LEMMA LastReplaced ==
  ASSUME NEW F \in Seq(FrameSet), NEW f \in FrameSet, Len(F) # 0
  PROVE  [F EXCEPT ![Len(F)] = f] = Append(Front(F), f)
<1> DEFINE d == Len(F)
           B == Front(F)
           E == [F EXCEPT ![d] = f]
           G == Append(B, f)
<1>1. d \in Nat \ {0} /\ B \in Seq(FrameSet) /\ Len(B) = d - 1 /\ \A i \in 1..(d - 1) : B[i] = F[i]
  BY FrontOf
<1>2. E \in Seq(FrameSet) /\ Len(E) = d /\ E[d] = f /\ \A i \in 1..(d - 1) : E[i] = F[i]
  BY <1>1
<1> HIDE DEF B
<1>3. /\ G \in Seq(FrameSet) /\ Len(G) = Len(B) + 1 /\ G[Len(B) + 1] = f
      /\ \A i \in 1..Len(B) : G[i] = B[i]
  BY <1>1
<1> HIDE DEF d, E, G
<1>4. Len(G) = d /\ G[d] = f /\ \A i \in 1..(d - 1) : G[i] = F[i]
  BY <1>1, <1>3
<1>5. ASSUME NEW i \in 1..d PROVE E[i] = G[i]
  <2>1. CASE i = d
    BY <2>1, <1>2, <1>4
  <2>2. CASE i # d
    <3>1. i \in 1..(d - 1)
      BY <2>2, <1>1
    <3>2. QED
      BY <3>1, <1>2, <1>4
  <2>3. QED
    BY <2>1, <2>2
<1>6. E = G
  BY <1>2, <1>3, <1>4, <1>5
<1>7. QED
  BY <1>6 DEF d, E, G, B

\* close_params takes the scope of the list off; what is left is the `)'.
LEMMA CloseParamsSettled ==
  ASSUME Inv, CloseParams
  PROVE  Inv'
<1> DEFINE g == [Here EXCEPT !.what = "closing"]
           F == Front(frames)
           G == Append(F, g)
           r == PopParams(st)
<1>1. st' = r /\ decls' = decls /\ Here.what = "params"
  BY DEF CloseParams
<1>2. g \in FrameSet /\ g.what = "closing" /\ g.what # "file" /\ g.what \notin Scoped \cup {"params"}
  BY HereTypes DEF FrameSet, WhatSet, Scoped
<1>3. GoodAs(r, Less(Len(st.scopes)), Before(st.param_depth))
  BY HereTypes, PopParamsGood DEF Less, Before
<1>4. frames' = G
  <2>1. frames' = [frames EXCEPT ![Depth] = g]
    BY HereTypes DEF CloseParams
  <2> HIDE DEF g
  <2>2. QED
    BY <2>1, <1>2, HereTypes, LastReplaced DEF Depth
<1> HIDE DEF g, F, r
<1>5. Settled(F, r)
  BY <1>1, <1>3, HereTypes, ClosesSettled DEF Depth, F
<1>6. GoodAs(r, Len(r.scopes), r.param_depth)
  BY <1>5, SettledTypes
<1>7. Settled(G, r)
  BY <1>2, <1>5, <1>6, OpensSettled
<1>8. QED
  BY <1>1, <1>4, <1>7, HereTypes DEF Inv

LEMMA RightParenSettled ==
  ASSUME Inv, RightParen
  PROVE  Inv'
<1> DEFINE F == Front(frames)
           k == Depth - 1
           lists == IF Under.what = "decl" /\ Under.stage = "named" THEN Append(Under.lists, Here.names) ELSE Under.lists
           h == [Under EXCEPT !.lists = lists]
<1>1. st' = st /\ decls' = decls /\ Here.what = "closing"
  BY DEF RightParen
<1>2. Settled(F, st)
  BY <1>1, HereTypes, ClosesSettled DEF Depth
<1>3. F \in Seq(FrameSet) /\ Len(F) = k /\ \A i \in 1..k : F[i] = frames[i]
  BY HereTypes, FrontOf DEF Depth
<1>4. k \in 1..k /\ Under = frames[k] /\ Under \in FrameSet /\ F[k] = Under
  <2>1. Depth # 1 /\ Depth \in Nat \ {0}
    BY <1>1, HereTypes
  <2>2. k \in 1..k /\ k \in 1..Depth
    BY <2>1
  <2>3. QED
    BY <2>2, <1>3, HereTypes DEF Under, Depth
<1>5. frames' = [F EXCEPT ![k] = h]
  <2>1. frames' = [F EXCEPT ![k].lists = IF Under.what = "decl" /\ Under.stage = "named"
                                         THEN Append(@, Here.names) ELSE @]
    BY DEF RightParen
  <2> HIDE DEF F, k
  <2>2. frames' = [F EXCEPT ![k].lists = lists]
    BY <2>1, <1>3, <1>4
  <2> HIDE DEF lists
  <2>3. QED
    BY <2>2, <1>3, <1>4
<1>6. h \in FrameSet /\ h.what = F[k].what
  <2>1. Under.lists \in Seq(NamesSet) /\ Here.names \in NamesSet
    BY <1>4, HereTypes, FrameFields
  <2>2. lists \in Seq(NamesSet)
    BY <2>1
  <2> HIDE DEF lists, F, k
  <2>3. QED
    BY <2>2, <1>4 DEF FrameSet
<1> HIDE DEF F, k, h
<1>7. k \in 1..Len(F)
  BY <1>3, <1>4
<1>8. Settled([F EXCEPT ![k] = h], st)
  BY <1>2, <1>6, <1>7, HereTypes, FrameChanged
<1>9. QED
  BY <1>1, <1>5, <1>8, HereTypes DEF Inv

\* The declarator gives way to the function's scope and that of its body.
LEMMA EnterFunctionSettled ==
  ASSUME Inv, EnterFunction
  PROVE  Inv'
<1> DEFINE F == Front(frames)
           f == Scope("function", Here.lists[1])
           G == Append(F, f)
           b == Scope("block", NoNames)
           q == ResumeParams(st)
           r == Push(q)
<1>1. st' = r /\ decls' = decls /\ Here.what = "decl" /\ Here.lists # <<>>
      /\ frames' = [frames EXCEPT ![Depth] = f] \o <<b>>
  BY DEF EnterFunction, At
<1>2. f \in FrameSet /\ f.what = "function" /\ b \in FrameSet /\ b.what = "block"
  <2>1. Here.lists \in Seq(NamesSet)
    BY HereTypes, FrameFields
  <2>2. Here.lists[1] \in NamesSet
    BY <2>1, <1>1
  <2>3. QED
    BY <2>2, NoNamesType, ScopeTypes DEF WhatSet
<1> HIDE DEF f, b
<1>3. F \in Seq(FrameSet) /\ Len(F) = Depth - 1 /\ \A i \in 1..(Depth - 1) : F[i] = frames[i]
  BY HereTypes, FrontOf DEF Depth
<1>4. Settled(F, st)
  BY <1>1, HereTypes, ClosesSettled DEF Depth
<1> HIDE DEF F
<1>5. [frames EXCEPT ![Depth] = f] = G
  BY <1>2, HereTypes, LastReplaced DEF Depth, F
<1>6. GoodAs(q, Len(st.scopes) + 1, st.param_depth)
  BY HereTypes, ResumeGood
<1> HIDE DEF q
<1>7. Settled(G, q)
  BY <1>2, <1>4, <1>6, OpensSettled DEF Scoped
<1>8. GoodAs(r, Len(q.scopes) + 1, q.param_depth)
  BY <1>6, PushGood DEF GoodAs
<1>9. G \in Seq(FrameSet)
  BY <1>2, <1>3
<1> HIDE DEF G, r
<1>10. Settled(Append(G, b), r)
  BY <1>2, <1>7, <1>8, OpensSettled DEF Scoped
<1>11. G \o <<b>> = Append(G, b)
  BY <1>2, <1>9
<1>12. QED
  BY <1>1, <1>5, <1>10, <1>11, HereTypes DEF Inv

LEMMA OpenBlockSettled ==
  ASSUME Inv, OpenBlock
  PROVE  Inv'
<1> DEFINE F == [i \in 1..Depth |-> [frames[i] EXCEPT !.nested = frames[i].what = "decl"]]
           b == Scope("block", NoNames)
<1>1. st' = Push(st) /\ decls' = decls /\ frames' = Append(F, b)
  BY DEF OpenBlock
<1>2. b \in FrameSet /\ b.what = "block"
  BY NoNamesType, ScopeTypes DEF WhatSet
<1>3. \A i \in 1..Depth : F[i] \in FrameSet /\ F[i].what = frames[i].what
  <2> SUFFICES ASSUME NEW i \in 1..Depth PROVE F[i] \in FrameSet /\ F[i].what = frames[i].what
    OBVIOUS
  <2> DEFINE f == frames[i]
             yes == (f.what = "decl")
  <2>1. f \in FrameSet /\ yes \in BOOLEAN /\ F[i] = [f EXCEPT !.nested = yes]
    BY HereTypes
  <2> HIDE DEF yes
  <2>2. F[i] \in FrameSet /\ F[i].what = f.what
    BY <2>1 DEF FrameSet
  <2>3. QED
    BY <2>2
<1>4. F \in Seq(FrameSet) /\ Len(F) = Len(frames)
  <2>1. Depth \in Nat /\ Depth = Len(frames) /\ DOMAIN F = 1..Depth
    BY HereTypes DEF Depth
  <2>2. F \in [1..Depth -> FrameSet]
    BY <1>3
  <2> HIDE DEF F
  <2>3. QED
    BY <2>1, <2>2
<1> HIDE DEF F, b
<1>5. Settled(F, st)
  BY <1>3, <1>4, HereTypes, StaysSettled DEF Depth
<1>6. GoodAs(Push(st), Len(st.scopes) + 1, st.param_depth)
  BY HereTypes, PushGood
<1>7. Settled(Append(F, b), Push(st))
  BY <1>2, <1>5, <1>6, OpensSettled DEF Scoped
<1>8. QED
  BY <1>1, <1>7, HereTypes DEF Inv

\* The scope on top goes with the innermost construct.
LEMMA PopSettled ==
  ASSUME NEW F, NEW s, Settled(F, s), F[Len(F)].what \in Scoped
  PROVE  Settled(Front(F), Pop(s))
<1>1. GoodAs(Pop(s), Less(Len(s.scopes)), s.param_depth)
  BY SettledTypes, PopGood DEF Less
<1>2. F[Len(F)].what # "file"
  BY DEF Scoped
<1>3. QED
  BY <1>1, <1>2, ClosesSettled

LEMMA CloseBlockSettled ==
  ASSUME Inv, CloseBlock
  PROVE  Inv'
<1>1. decls' = decls /\ Here.what = "block"
  BY DEF CloseBlock
<1>2. Settled(Front(frames), Pop(st))
  BY <1>1, HereTypes, PopSettled DEF Scoped, Depth
<1>3. CASE Under.what = "function"
  <2> DEFINE F == Front(frames)
             q == Pop(st)
  <2>1. F[Len(F)].what = "function"
    <3>1. Depth # 1
      BY <1>1, HereTypes
    <3>2. Len(F) = Depth - 1 /\ \A i \in 1..(Depth - 1) : F[i] = frames[i]
      BY HereTypes, FrontOf DEF Depth
    <3> HIDE DEF F
    <3>3. Depth - 1 \in 1..(Depth - 1)
      BY <3>1, HereTypes
    <3>4. QED
      BY <3>2, <3>3, <1>3 DEF Under, Depth
  <2>2. st' = Pop(q) /\ frames' = Front(F)
    BY <1>3 DEF CloseBlock
  <2> HIDE DEF F, q
  <2>3. Settled(F, q)
    BY <1>2 DEF F, q
  <2>4. Settled(Front(F), Pop(q))
    BY <2>1, <2>3, PopSettled DEF Scoped
  <2>5. QED
    BY <2>2, <2>4, <1>1, HereTypes DEF Inv
<1>4. CASE Under.what # "function"
  <2>1. st' = Pop(st) /\ frames' = Front(frames)
    BY <1>4 DEF CloseBlock, Close
  <2>2. QED
    BY <2>1, <1>1, <1>2, HereTypes DEF Inv
<1>5. QED
  BY <1>3, <1>4

LEMMA OpenForSettled ==
  ASSUME Inv, OpenFor
  PROVE  Inv'
<1> DEFINE f == Scope("for", NoNames)
<1>1. st' = Push(st) /\ decls' = decls /\ frames' = Append(frames, f)
  BY DEF OpenFor, Open
<1>2. f \in FrameSet /\ f.what = "for"
  BY NoNamesType, ScopeTypes DEF WhatSet
<1> HIDE DEF f
<1>3. GoodAs(Push(st), Len(st.scopes) + 1, st.param_depth)
  BY HereTypes, PushGood
<1>4. Settled(Append(frames, f), Push(st))
  BY <1>2, <1>3, HereTypes, OpensSettled DEF Scoped
<1>5. QED
  BY <1>1, <1>4, HereTypes DEF Inv

LEMMA CloseForSettled ==
  ASSUME Inv, CloseFor
  PROVE  Inv'
<1>1. st' = Pop(st) /\ decls' = decls /\ frames' = Front(frames) /\ Here.what = "for"
  BY DEF CloseFor, Close
<1>2. Settled(Front(frames), Pop(st))
  BY <1>1, HereTypes, PopSettled DEF Scoped, Depth
<1>3. QED
  BY <1>1, <1>2, HereTypes DEF Inv
-----------------------------------------------------------------------------
(***************************************************************************)
(* Errors: what is open inside of the innermost block is undone from the   *)
(* inside out, which the frames at each step follow.                       *)
(***************************************************************************)
\* u is what Error defines: the table after all frames past the i-th are undone.
UndoStep(u, F, s, b) ==
  u = [i \in b..Len(F) |-> IF i = Len(F) THEN s ELSE Undone(u[i + 1], F[i + 1])]

LEMMA UndoSteps ==
  ASSUME NEW F, NEW s, Len(F) \in Nat, NEW b \in Nat, b =< Len(F)
  PROVE  \E u : UndoStep(u, F, s, b)
<1> DEFINE d == Len(F)
           S == {k \in Nat : k =< d /\ ~\E u : UndoStep(u, F, s, d - k)}
<1>1. ASSUME d - b \in S PROVE FALSE
  <2>1. PICK k \in S : \A y \in S : k =< y
    <3>1. S \in SUBSET Nat /\ S # {}
      BY <1>1
    <3> HIDE DEF S
    <3>2. QED
      BY <3>1, LeastNatural
  <2>2. k # 0
    <3>1. ASSUME k = 0 PROVE FALSE
      <4> DEFINE u == [i \in d..d |-> s]
      <4>1. d - k = d /\ \A i \in d..d : i = d
        BY <3>1
      <4>2. u = [i \in d..d |-> IF i = d THEN s ELSE Undone(u[i + 1], F[i + 1])]
        BY <4>1
      <4>3. UndoStep(u, F, s, d - k)
        BY <4>1, <4>2 DEF UndoStep
      <4>4. QED
        BY <4>3, <2>1
    <3>2. QED
      BY <3>1
  <2> DEFINE a == d - k
  <2>3. k - 1 \in Nat /\ k - 1 \notin S /\ k - 1 =< d /\ d - (k - 1) = a + 1 /\ a \in Nat /\ a < d
    BY <2>1, <2>2
  <2>4. PICK w : UndoStep(w, F, s, a + 1)
    BY <2>3
  <2> DEFINE z == [i \in a..d |-> IF i = a THEN Undone(w[a + 1], F[a + 1]) ELSE w[i]]
  <2>5. \A i \in (a + 1)..d : w[i] = IF i = d THEN s ELSE Undone(w[i + 1], F[i + 1])
    BY <2>4 DEF UndoStep
  <2> HIDE DEF a, d
  <2>6. /\ \A i \in a..d : i # d => z[i + 1] = w[i + 1]
        /\ \A i \in a..d : i # a => i \in (a + 1)..d /\ z[i] = w[i]
        /\ z[a] = Undone(w[a + 1], F[a + 1])
    <3>0. d \in Nat
      BY DEF d
    <3>1. \A i \in a..d : i # d => i + 1 \in a..d /\ i + 1 # a
      BY <2>3, <3>0
    <3>2. \A i \in a..d : i # a => i \in (a + 1)..d
      BY <2>3, <3>0
    <3>3. a \in a..d
      BY <2>3, <3>0
    <3>4. QED
      BY <3>1, <3>2, <3>3
  <2>7. \A i \in a..d : z[i] = IF i = d THEN s ELSE Undone(z[i + 1], F[i + 1])
    <3> SUFFICES ASSUME NEW i \in a..d
                 PROVE  z[i] = IF i = d THEN s ELSE Undone(z[i + 1], F[i + 1])
      OBVIOUS
    <3>1. CASE i = a
      BY <3>1, <2>3, <2>6
    <3>2. CASE i # a
      BY <3>2, <2>5, <2>6
    <3>3. QED
      BY <3>1, <3>2
  <2>8. UndoStep(z, F, s, a)
    <3>1. z = [i \in a..d |-> z[i]]
      OBVIOUS
    <3> HIDE DEF z
    <3>2. QED
      BY <3>1, <2>7 DEF UndoStep, d
  <2>9. QED
    BY <2>1, <2>8 DEF a
<1>2. d - b \in Nat /\ d - b =< d /\ d - (d - b) = b
  OBVIOUS
<1>3. QED
  BY <1>1, <1>2

\* One frame is undone, as its destructor does.
LEMMA UndoneSettled ==
  ASSUME NEW F, NEW s, Settled(F, s), F[Len(F)].what \notin {"file", "block"}
  PROVE  Settled(Front(F), Undone(s, F[Len(F)]))
<1> DEFINE x == F[Len(F)].what
<1>1. Good(s) /\ GoodAs(s, Len(s.scopes), s.param_depth)
  BY SettledTypes
<1>2. CASE x \in {"params", "closing"}
  <2>1. Undone(s, F[Len(F)]) = AbandonParams(s)
    BY <1>2 DEF Undone
  <2>2. GoodAs(AbandonParams(s), Less(Len(s.scopes)), Before(s.param_depth))
    BY <1>1, AbandonGood DEF Less, Before
  <2>3. QED
    BY <2>1, <2>2, ClosesSettled
<1>3. CASE x = "for"
  <2>1. Undone(s, F[Len(F)]) = Pop(s)
    BY <1>3 DEF Undone
  <2>2. QED
    BY <2>1, <1>3, PopSettled DEF Scoped
<1>4. CASE x \notin {"params", "closing", "for"}
  <2>1. Undone(s, F[Len(F)]) = s
    BY <1>4 DEF Undone
  <2>2. QED
    BY <2>1, <1>1, <1>4, ClosesSettled
<1>5. QED
  BY <1>2, <1>3, <1>4

\* What is left of the frames, one fewer at a time.
Kept(F, i) == SubSeq(F, 1, i)

LEMMA KeptFrames ==
  ASSUME NEW F \in Seq(FrameSet), NEW i \in 1..Len(F)
  PROVE  /\ Kept(F, i) \in Seq(FrameSet) /\ Len(Kept(F, i)) = i
         /\ \A j \in 1..i : Kept(F, i)[j] = F[j]
         /\ i # 1 => Front(Kept(F, i)) = Kept(F, i - 1)
<1>1. /\ Kept(F, i) \in Seq(FrameSet) /\ Len(Kept(F, i)) = i
      /\ \A j \in 1..i : Kept(F, i)[j] = F[j]
  BY DEF Kept
<1>2. ASSUME i # 1 PROVE Front(Kept(F, i)) = Kept(F, i - 1)
  <2> DEFINE K == Kept(F, i)
             B == Front(K)
             C == Kept(F, i - 1)
  <2>1. i - 1 \in 1..Len(F) /\ i \in Nat /\ \A j \in 1..(i - 1) : j \in 1..i
    BY <1>2
  <2>2. C \in Seq(FrameSet) /\ Len(C) = i - 1 /\ \A j \in 1..(i - 1) : C[j] = F[j]
    BY <2>1 DEF Kept
  <2> HIDE DEF K
  <2>3. K \in Seq(FrameSet) /\ Len(K) = i /\ Len(K) # 0 /\ \A j \in 1..i : K[j] = F[j]
    BY <1>1, <2>1 DEF K
  <2>4. B \in Seq(FrameSet) /\ Len(B) = i - 1 /\ \A j \in 1..(i - 1) : B[j] = K[j]
    BY <2>3, FrontOf
  <2> HIDE DEF B, C
  <2>5. B = C
    BY <2>1, <2>2, <2>3, <2>4
  <2>6. QED
    BY <2>5 DEF B, C, K
<1>3. QED
  BY <1>1, <1>2

LEMMA UndoSettled ==
  ASSUME NEW F, NEW s, Settled(F, s), NEW b \in 1..Len(F),
         \A i \in (b + 1)..Len(F) : F[i].what \notin {"file", "block"},
         NEW u, UndoStep(u, F, s, b)
  PROVE  Settled(Kept(F, b), u[b])
<1> DEFINE d == Len(F)
           S == {k \in Nat : k =< d - b /\ ~Settled(Kept(F, d - k), u[d - k])}
<1>1. F \in Seq(FrameSet) /\ d \in Nat \ {0} /\ b \in Nat \ {0} /\ b =< d
  BY SettledTypes
<1>2. \A i \in b..d : u[i] = IF i = d THEN s ELSE Undone(u[i + 1], F[i + 1])
  BY DEF UndoStep
<1>3. ASSUME d - b \in S PROVE FALSE
  <2>1. PICK k \in S : \A y \in S : k =< y
    <3>1. S \in SUBSET Nat /\ S # {}
      BY <1>3
    <3> HIDE DEF S
    <3>2. QED
      BY <3>1, LeastNatural
  <2>2. k # 0
    <3>1. ASSUME k = 0 PROVE FALSE
      <4>1. d - k = d /\ d \in b..d /\ u[d] = s
        BY <3>1, <1>1, <1>2
      <4>2. Kept(F, d) = F
        <5>1. Kept(F, d) \in Seq(FrameSet) /\ Len(Kept(F, d)) = d /\ \A j \in 1..d : Kept(F, d)[j] = F[j]
          BY <1>1 DEF Kept
        <5> DEFINE K == Kept(F, d)
        <5> HIDE DEF K
        <5>2. K = F
          BY <5>1, <1>1 DEF K
        <5>3. QED
          BY <5>2 DEF K
      <4>3. QED
        BY <4>1, <4>2, <2>1
    <3>2. QED
      BY <3>1
  <2> DEFINE a == d - k
  <2>3. /\ k - 1 \in Nat /\ k - 1 \notin S /\ k - 1 =< d - b /\ d - (k - 1) = a + 1
        /\ a \in b..d /\ a # d /\ a + 1 \in 1..d /\ a + 1 \in (b + 1)..d /\ (a + 1) - 1 = a /\ a + 1 # 1
    <3>1. k \in Nat /\ k =< d - b
      BY <2>1
    <3>2. k - 1 \in Nat /\ k - 1 =< d - b /\ ~(k =< k - 1)
      BY <3>1, <2>2
    <3>3. k - 1 \notin S
      BY <2>1, <3>2
    <3> HIDE DEF S, d
    <3>4. QED
      BY <3>1, <3>2, <3>3, <1>1, <2>2
  <2>4. Settled(Kept(F, a + 1), u[a + 1])
    BY <2>3
  <2>5. u[a] = Undone(u[a + 1], F[a + 1])
    BY <1>2, <2>3
  <2>6. F[a + 1].what \notin {"file", "block"}
    BY <2>3
  <2> HIDE DEF a, d
  <2> DEFINE K == Kept(F, a + 1)
             w == u[a + 1]
  <2>7. Len(K) = a + 1 /\ K[a + 1] = F[a + 1] /\ Front(K) = Kept(F, a)
    <3> DEFINE m == a + 1
    <3>1. m \in 1..Len(F) /\ m - 1 = a /\ m # 1 /\ m \in 1..m
      BY <2>3 DEF d
    <3> HIDE DEF m
    <3>2. Len(Kept(F, m)) = m /\ Kept(F, m)[m] = F[m] /\ Front(Kept(F, m)) = Kept(F, m - 1)
      BY <3>1, <1>1, KeptFrames
    <3>3. QED
      BY <3>1, <3>2 DEF m
  <2> HIDE DEF K, w
  <2>8. Settled(K, w) /\ K[Len(K)].what \notin {"file", "block"}
    BY <2>4, <2>6, <2>7 DEF K, w
  <2>9. Settled(Front(K), Undone(w, K[Len(K)]))
    BY <2>8, UndoneSettled
  <2>10. Settled(Kept(F, a), u[a])
    BY <2>5, <2>7, <2>9 DEF w
  <2>11. QED
    BY <2>1, <2>10 DEF a
<1>4. d - b \in Nat /\ d - (d - b) = b
  BY <1>1
<1>5. QED
  BY <1>3, <1>4

\* The innermost block, or the file.
LEMMA BlockFound ==
  ASSUME Inv
  PROVE  /\ Block \in 1..Depth /\ frames[Block].what \in {"file", "block"}
         /\ \A i \in (Block + 1)..Depth : frames[i].what \notin {"file", "block"}
<1> DEFINE T == {i \in 1..Depth : frames[i].what \in {"file", "block"}}
           S == {k \in Nat : Depth - k \in T}
<1>1. Depth \in Nat \ {0} /\ 1 \in T
  BY HereTypes
<1>2. S \in SUBSET Nat /\ S # {}
  <2>1. Depth - 1 \in Nat /\ Depth - (Depth - 1) = 1
    BY <1>1
  <2>2. QED
    BY <1>1, <2>1
<1>3. PICK k \in S : \A y \in S : k =< y
  <2> HIDE DEF S
  <2>1. QED
    BY <1>2, LeastNatural
<1>4. \A i \in T : Depth - k >= i
  <2>1. ASSUME NEW i \in T PROVE Depth - k >= i
    <3>1. Depth - i \in Nat /\ Depth - (Depth - i) = i /\ i \in Nat
      BY <1>1
    <3>2. Depth - i \in S
      BY <3>1
    <3>3. k =< Depth - i /\ k \in Nat
      BY <3>2, <1>3
    <3>4. QED
      BY <3>1, <3>3, <1>1
  <2>2. QED
    BY <2>1
<1>5. Block \in T /\ \A i \in T : Block >= i
  <2>1. Block = CHOOSE x \in T : \A y \in T : x >= y
    BY DEF Block, Max
  <2>2. Depth - k \in T
    BY <1>3
  <2> HIDE DEF T
  <2>3. QED
    BY <1>4, <2>1, <2>2
<1>6. ASSUME NEW i \in (Block + 1)..Depth PROVE frames[i].what \notin {"file", "block"}
  <2>1. i \in 1..Depth /\ ~(Block >= i)
    BY <1>1, <1>5
  <2>2. QED
    BY <2>1, <1>5
<1>7. QED
  BY <1>5, <1>6

LEMMA ErrorSettled ==
  ASSUME Inv, NEW brace \in BOOLEAN, Error(brace)
  PROVE  Inv'
<1> DEFINE u == CHOOSE u : UndoStep(u, frames, st, Block)
           undone == u[Block]
           kept == Kept(frames, Block)
           ends == brace /\ frames[Block].what = "block"
<1>1. /\ decls' = decls
      /\ IF ends /\ frames[Block - 1].what = "function"
         THEN st' = Pop(ErrorRecovered(Pop(undone))) /\ frames' = Front(Front(kept))
         ELSE IF ends
         THEN st' = ErrorRecovered(Pop(undone)) /\ frames' = Front(kept)
         ELSE st' = ErrorRecovered(undone) /\ frames' = kept
  BY DEF Error, UndoStep, Kept, Depth
<1>2. Block \in 1..Depth /\ Block \in Nat /\ Block =< Len(frames)
  BY BlockFound, HereTypes DEF Depth
<1>3. UndoStep(u, frames, st, Block)
  <2>1. \E w : UndoStep(w, frames, st, Block)
    BY <1>2, HereTypes, UndoSteps DEF Depth
  <2>2. QED
    BY <2>1
<1> HIDE DEF u
<1>4. Settled(kept, undone)
  BY <1>2, <1>3, BlockFound, HereTypes, UndoSettled DEF Depth
<1>5. kept \in Seq(FrameSet) /\ Len(kept) = Block /\ \A j \in 1..Block : kept[j] = frames[j]
  BY <1>2, HereTypes, KeptFrames DEF Depth
<1>6. kept[Len(kept)] = frames[Block]
  BY <1>2, <1>5
<1>7. ASSUME NEW F, NEW s, Settled(F, s) PROVE Settled(F, ErrorRecovered(s))
  <2>1. Good(s) /\ F \in Seq(FrameSet)
    BY <1>7, SettledTypes
  <2>2. GoodAs(ErrorRecovered(s), Len(s.scopes), s.param_depth)
    BY <2>1, LatchOpsGood
  <2>3. QED
    BY <1>7, <2>1, <2>2, StaysSettled
<1> HIDE DEF undone, kept
<1>8. CASE ~ends
  <2>1. Settled(kept, ErrorRecovered(undone))
    BY <1>4, <1>7
  <2>2. QED
    BY <2>1, <1>1, <1>8, HereTypes DEF Inv
<1>9. CASE ends
  <2>1. Settled(Front(kept), Pop(undone))
    BY <1>4, <1>6, <1>9, PopSettled DEF Scoped
  <2>2. Settled(Front(kept), ErrorRecovered(Pop(undone)))
    BY <2>1, <1>7
  <2>3. CASE frames[Block - 1].what # "function"
    BY <2>2, <2>3, <1>1, <1>9, HereTypes DEF Inv
  <2>4. CASE frames[Block - 1].what = "function"
    <3> DEFINE F == Front(kept)
               q == ErrorRecovered(Pop(undone))
    <3>1. Len(F) = Block - 1 /\ F[Block - 1] = frames[Block - 1]
      <4>1. Block # 1
        BY <1>9, <1>2, HereTypes
      <4>2. Len(F) = Len(kept) - 1 /\ \A i \in 1..(Len(kept) - 1) : F[i] = kept[i]
        BY <1>2, <1>5, FrontOf
      <4> HIDE DEF F
      <4>3. Block - 1 \in 1..(Block - 1) /\ Block - 1 \in 1..Block
        BY <4>1, <1>2
      <4>4. QED
        BY <4>2, <4>3, <1>5
    <3> HIDE DEF F, q
    <3>2. Settled(F, q) /\ F[Len(F)].what = "function"
      BY <2>2, <2>4, <3>1 DEF F, q
    <3>3. Settled(Front(F), Pop(q))
      BY <3>2, PopSettled DEF Scoped
    <3>4. QED
      BY <3>3, <2>4, <1>1, <1>9, HereTypes DEF Inv, F, q
  <2>5. QED
    BY <2>3, <2>4
<1>10. QED
  BY <1>8, <1>9
-----------------------------------------------------------------------------
LEMMA StepSettled == Inv /\ [Next]_vars => Inv'
<1> SUFFICES ASSUME Inv, [Next]_vars PROVE Inv'
  OBVIOUS
<1>1. ASSUME NEW means \in {"typedef", "variable"}, BeginDeclaration(means) PROVE Inv'
  BY <1>1, BeginDeclarationSettled
<1>2. CASE Member
  BY <1>2, MemberSettled
<1>3. CASE FirstDeclarator
  BY <1>3, FirstDeclaratorSettled
<1>4. CASE NothingDeclared
  BY <1>4, NothingDeclaredSettled
<1>5. ASSUME NEW x \in Names, Declare(x) PROVE Inv'
  BY <1>5, DeclareSettled
<1>6. ASSUME NEW x \in Names, Param(x) PROVE Inv'
  BY <1>6, ParamSettled
<1>7. CASE NextDeclarator
  BY <1>7, NextDeclaratorSettled
<1>8. CASE EndDeclaration
  BY <1>8, EndDeclarationSettled
<1>9. CASE OpenParams
  BY <1>9, OpenParamsSettled
<1>10. CASE NoParams
  BY <1>10, NoParamsSettled
<1>11. CASE CloseParams
  BY <1>11, CloseParamsSettled
<1>12. CASE RightParen
  BY <1>12, RightParenSettled
<1>13. CASE EnterFunction
  BY <1>13, EnterFunctionSettled
<1>14. CASE OpenBlock
  BY <1>14, OpenBlockSettled
<1>15. CASE CloseBlock
  BY <1>15, CloseBlockSettled
<1>16. CASE OpenFor
  BY <1>16, OpenForSettled
<1>17. CASE CloseFor
  BY <1>17, CloseForSettled
<1>18. ASSUME NEW brace \in BOOLEAN, Error(brace) PROVE Inv'
  BY <1>18, ErrorSettled
<1>19. CASE UNCHANGED vars
  BY <1>19 DEF vars, Inv
<1>20. QED
  BY <1>1, <1>2, <1>3, <1>4, <1>5, <1>6, <1>7, <1>8, <1>9, <1>10, <1>11, <1>12, <1>13, <1>14, <1>15,
     <1>16, <1>17, <1>18, <1>19 DEF Next

\* Whatever a file holds, and whatever errors are in it, there is a scope for
\* the next name, and each table that scope.c made belongs to one scope, or to
\* the parameters kept for a body, or is once in the free list of its size: a
\* table is never given to two scopes, nor released twice, nor lost.
THEOREM TablesNeverShared == Spec => []TablesStayApart
<1>1. Init => Inv
  BY InitSettled
<1>2. Inv /\ [Next]_vars => Inv'
  BY StepSettled
<1>3. Inv => TablesStayApart
  <2> SUFFICES ASSUME Inv PROVE TablesStayApart
    OBVIOUS
  <2>1. Good(st)
    BY HereTypes
  <2>2. OneOwnerEach(st)
    BY <2>1, GoodIsApart
  <2>3. st.scopes # <<>>
    BY <2>1 DEF Good
  <2>4. QED
    BY <2>2, <2>3 DEF TablesStayApart
<1>4. QED
  BY <1>1, <1>2, <1>3, PTL DEF Spec
=============================================================================
