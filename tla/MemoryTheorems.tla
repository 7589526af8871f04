--------------------------- MODULE MemoryTheorems ---------------------------
(***************************************************************************)
(* What libb-amr keeps its memory with.                                    *)
(*                                                                         *)
(* The pool, for any number of objects, any sizes and any limits: it loses *)
(* no object and shares none, its variables keep their types, and it does  *)
(* what pool.h promises of an allocator.  The invariant is that the free   *)
(* lists are chains (NothingLostOrShared) and that what a later            *)
(* pool_alloc () hands out uncleared is zero: the objects not cut yet, and *)
(* all of a cold one but its link.                                         *)
(*                                                                         *)
(* The layers, for any number of axes and any sizes of table and page: a   *)
(* sparse array.  The invariant adds what mem_destroy () needs: on the way *)
(* to a node, and to each table, no pointer is null.                       *)
(*                                                                         *)
(* The blocks that the nodes keep for each scalar, for every dimension and *)
(* depth, any number of ids, any width of group, and pools of any size:    *)
(* what grid_scalar_check () looks for is never there.  The counts that it *)
(* compares say little of the slots.  What every change of the tree and of *)
(* the ids keeps is where each object lies (BlocksLaidOut): the objects    *)
(* out of the pool of the root are one to one with the ids, those out of   *)
(* the pool of families with the pairs of a node with children and an id,  *)
(* and the slots are filled from these two correspondences and from        *)
(* nothing else.  The counts follow, as there is a node for each child of  *)
(* a node with children, and the root.                                     *)
(***************************************************************************)
EXTENDS Pool, MemIndex, GridScalar, TreeIndexTheorems, FiniteSetTheorems, SequenceTheorems, TLAPS
-----------------------------------------------------------------------------
(***************************************************************************)
(* Chains of objects, of any n objects below m, through the words w.       *)
(***************************************************************************)
Chain(f, top, n, w, m) ==
  /\ f \in [1..n -> 1..m]
  /\ top = (IF n = 0 THEN Null ELSE f[1])
  /\ \A i \in 1..n : w[f[i]] = (IF i = n THEN Null ELSE f[i + 1])
  /\ \A i, j \in 1..n : f[i] = f[j] => i = j

On(f, n) == {f[i] : i \in 1..n}

PushedOn(f, n, o) == [i \in 1..(n + 1) |-> IF i = 1 THEN o ELSE f[i - 1]]
PoppedOff(f, n) == [i \in 1..(n - 1) |-> f[i + 1]]

\* A list counts no more objects than were cut.
LEMMA ChainLength ==
  ASSUME NEW n \in Nat, NEW m \in Nat, NEW f, NEW top, NEW w, Chain(f, top, n, w, m)
  PROVE  n =< m
<1>1. IsFiniteSet(1..n) /\ Cardinality(1..n) = n
  BY FS_Interval
<1>2. IsFiniteSet(1..m) /\ Cardinality(1..m) = m
  BY FS_Interval
<1>3. ASSUME m < n PROVE FALSE
  <2>1. Cardinality(1..m) < Cardinality(1..n)
    BY <1>1, <1>2, <1>3
  <2>2. f \in [1..n -> 1..m]
    BY DEF Chain
  <2>3. \E x, y \in 1..n : x # y /\ f[x] = f[y]
    BY <1>1, <1>2, <2>1, <2>2, FS_PigeonHole
  <2>4. QED
    BY <2>3 DEF Chain
<1>4. QED
  BY <1>3

LEMMA EmptyChain ==
  ASSUME NEW w, NEW m \in Nat
  PROVE  \E f : Chain(f, Null, 0, w, m) /\ On(f, 0) = {}
<1>1. Chain([i \in 1..0 |-> Null], Null, 0, w, m)
  BY DEF Chain
<1>2. On([i \in 1..0 |-> Null], 0) = {}
  BY DEF On
<1>3. QED
  BY <1>1, <1>2

\* push ()
LEMMA PushChain ==
  ASSUME NEW n \in Nat, NEW m \in Nat, NEW f, NEW top, NEW w, Chain(f, top, n, w, m),
         NEW o \in 1..m, o \notin On(f, n),
         NEW w2, w2[o] = top, \A p \in On(f, n) : w2[p] = w[p]
  PROVE  /\ Chain(PushedOn(f, n, o), o, n + 1, w2, m)
         /\ On(PushedOn(f, n, o), n + 1) = On(f, n) \cup {o}
<1> DEFINE g == PushedOn(f, n, o)
<1>1. f \in [1..n -> 1..m]
  BY DEF Chain
<1>2. /\ \A i \in 1..n : i + 1 \in 1..(n + 1)
      /\ \A i \in 1..(n + 1) : i = 1 \/ i - 1 \in 1..n
      /\ 1 \in 1..(n + 1)
  OBVIOUS
<1>3. g \in [1..(n + 1) -> 1..m]
  BY <1>1, <1>2 DEF PushedOn
<1>4. g[1] = o /\ \A i \in 1..n : g[i + 1] = f[i]
  BY <1>2 DEF PushedOn
<1>5. \A i \in 1..(n + 1) : w2[g[i]] = (IF i = n + 1 THEN Null ELSE g[i + 1])
  <2> SUFFICES ASSUME NEW i \in 1..(n + 1)
               PROVE  w2[g[i]] = (IF i = n + 1 THEN Null ELSE g[i + 1])
    OBVIOUS
  <2>1. CASE i = 1
    <3>1. CASE n = 0
      BY <2>1, <3>1, <1>4 DEF Chain
    <3>2. CASE n # 0
      <4>1. 1 \in 1..n /\ top = f[1] /\ g[2] = f[1]
        BY <3>2, <1>4 DEF Chain
      <4>2. QED
        BY <2>1, <3>2, <4>1, <1>4
    <3>3. QED
      BY <3>1, <3>2
  <2>2. CASE i # 1
    <3>1. PICK k \in 1..n : i = k + 1
      BY <2>2
    <3>2. g[i] = f[k] /\ w2[f[k]] = w[f[k]]
      BY <3>1, <1>4 DEF On
    <3>3. w[f[k]] = (IF k = n THEN Null ELSE f[k + 1])
      BY DEF Chain
    <3>4. k # n => k + 1 \in 1..n /\ g[(k + 1) + 1] = f[k + 1]
      BY <1>4
    <3>5. QED
      BY <3>1, <3>2, <3>3, <3>4
  <2>3. QED
    BY <2>1, <2>2
<1>6. \A i, j \in 1..(n + 1) : g[i] = g[j] => i = j
  <2> SUFFICES ASSUME NEW i \in 1..(n + 1), NEW j \in 1..(n + 1), g[i] = g[j]
               PROVE  i = j
    OBVIOUS
  <2>1. \A k \in 1..n : f[k] # o
    BY DEF On
  <2>2. CASE i = 1 \/ j = 1
    BY <2>1, <2>2, <1>2, <1>4 DEF PushedOn
  <2>3. CASE i # 1 /\ j # 1
    <3>1. f[i - 1] = f[j - 1] /\ i - 1 \in 1..n /\ j - 1 \in 1..n
      BY <2>3 DEF PushedOn
    <3>2. i - 1 = j - 1
      BY <3>1 DEF Chain
    <3>3. QED
      BY <3>2
  <2>4. QED
    BY <2>2, <2>3
<1>7. On(g, n + 1) = On(f, n) \cup {o}
  BY <1>2, <1>4 DEF On, PushedOn
<1>8. Chain(g, o, n + 1, w2, m)
  BY <1>3, <1>4, <1>5, <1>6 DEF Chain
<1>9. QED
  BY <1>7, <1>8

\* pop ()
LEMMA PopChain ==
  ASSUME NEW n \in Nat, n > 0, NEW m \in Nat, NEW f, NEW top, NEW w, Chain(f, top, n, w, m)
  PROVE  /\ Chain(PoppedOff(f, n), w[top], n - 1, w, m)
         /\ On(PoppedOff(f, n), n - 1) = On(f, n) \ {top}
         /\ top \in On(f, n) /\ top \in 1..m
<1> DEFINE g == PoppedOff(f, n)
<1>1. f \in [1..n -> 1..m] /\ 1 \in 1..n /\ top = f[1]
  BY DEF Chain
<1>2. \A i \in 1..(n - 1) : i \in 1..n /\ i + 1 \in 1..n /\ g[i] = f[i + 1]
  BY DEF PoppedOff
<1>3. g \in [1..(n - 1) -> 1..m]
  BY <1>1, <1>2 DEF PoppedOff
<1>4. w[top] = (IF n - 1 = 0 THEN Null ELSE g[1])
  BY <1>1, <1>2 DEF Chain
<1>5. \A i \in 1..(n - 1) : w[g[i]] = (IF i = n - 1 THEN Null ELSE g[i + 1])
  BY <1>2 DEF Chain
<1>6. \A i, j \in 1..(n - 1) : g[i] = g[j] => i = j
  <2> SUFFICES ASSUME NEW i \in 1..(n - 1), NEW j \in 1..(n - 1), g[i] = g[j]
               PROVE  i = j
    OBVIOUS
  <2>1. i + 1 = j + 1
    BY <1>2 DEF Chain
  <2>2. QED
    BY <2>1
<1>7. top \in On(f, n) /\ top \in 1..m
  BY <1>1 DEF On
<1>8. On(g, n - 1) = On(f, n) \ {top}
  <2>1. ASSUME NEW i \in 1..(n - 1) PROVE g[i] \in On(f, n) \ {top}
    <3>1. g[i] = f[i + 1] /\ i + 1 \in 1..n /\ i + 1 # 1
      BY <1>2
    <3>2. f[i + 1] # f[1]
      BY <3>1, <1>1 DEF Chain
    <3>3. QED
      BY <3>1, <3>2, <1>1 DEF On
  <2>2. ASSUME NEW i \in 1..n, f[i] # top PROVE f[i] \in On(g, n - 1)
    <3>1. i # 1 /\ i - 1 \in 1..(n - 1)
      BY <2>2, <1>1
    <3>2. g[i - 1] = f[i]
      BY <3>1, <1>2
    <3>3. QED
      BY <3>1, <3>2 DEF On
  <2>3. QED
    BY <2>1, <2>2 DEF On
<1>9. Chain(g, w[top], n - 1, w, m)
  BY <1>3, <1>4, <1>5, <1>6 DEF Chain
<1>10. QED
  BY <1>7, <1>8, <1>9

\* Words elsewhere may change, and more objects may be cut.
LEMMA KeepChain ==
  ASSUME NEW n \in Nat, NEW m \in Nat, NEW f, NEW top, NEW w, Chain(f, top, n, w, m),
         NEW m2 \in Nat, m =< m2, NEW w2, \A p \in On(f, n) : w2[p] = w[p]
  PROVE  Chain(f, top, n, w2, m2)
<1>1. \A i \in 1..n : w2[f[i]] = w[f[i]]
  BY DEF On
<1>2. f \in [1..n -> 1..m2]
  BY DEF Chain
<1>3. QED
  BY <1>1, <1>2 DEF Chain
-----------------------------------------------------------------------------
(***************************************************************************)
(* The invariant.                                                          *)
(***************************************************************************)
\* The hot list is the chain h, the cold list the chain c: apart, and of all the
\* objects that nobody holds.  A cold one is zero but for its link.
Chains(h, c) ==
  /\ Chain(h, hot.top, hot.n, word, made)
  /\ Chain(c, cold.top, cold.n, word, made)
  /\ On(h, hot.n) \cap On(c, cold.n) = {}
  /\ On(h, hot.n) \cup On(c, cold.n) = (1..made) \ held
  /\ held \subseteq 1..made
  /\ \A o \in On(c, cold.n) : rest[o] = "zero"

IsZero(o) == word[o] = Null /\ rest[o] = "zero"

PoolInv ==
  /\ TypeOK
  /\ \E h, c : Chains(h, c)
  /\ \A o \in Objects : o > made => IsZero(o)
  /\ \A o \in clean : IsZero(o)

LEMMA Facts ==
  /\ MaxObjects \in Nat /\ MaxObjects > 0
  /\ Null \notin Objects /\ Dirt \notin Objects /\ Null # Dirt
  /\ Objects \subseteq Nat
  /\ \A n \in HotLimits : n \in Nat /\ n # NotTrimming
BY MaxObjectsAssumption, HotLimitsAssumption DEF Objects, Null, Dirt, NotTrimming

\* A fresh object and the empty lists of a pool without objects.
LEMMA InitPoolInv == Init => PoolInv
<1> SUFFICES ASSUME Init PROVE PoolInv
  OBVIOUS
<1>1. TypeOK
  <2>1. large \in BOOLEAN
    BY DEF Init
  <2>2. perChunk \in Nat /\ mapped \in Nat /\ made \in 0..MaxObjects /\ hotMax \in Nat /\ used \in Int
    BY Facts DEF Init, HotAll
  <2>3. word \in [Objects -> Objects \cup {Null, Dirt}] /\ rest \in [Objects -> {"zero", "dirty"}]
    BY DEF Init
  <2>4. touched \in [Objects -> SUBSET Pages]
    BY DEF Init
  <2>5. Empty \in FreeList
    BY Facts DEF Empty, FreeList
  <2>6. QED
    BY <2>1, <2>2, <2>3, <2>4, <2>5 DEF Init, TypeOK
<1>2. \E h, c : Chains(h, c)
  <2>1. PICK f : Chain(f, Null, 0, word, 0) /\ On(f, 0) = {}
    BY EmptyChain
  <2>2. Chains(f, f)
    BY <2>1 DEF Init, Chains, Empty
  <2>3. QED
    BY <2>2
<1>3. QED
  BY <1>1, <1>2 DEF PoolInv, Init, IsZero

\* The invariant in the types of its parts, for the steps below.
LEMMA InvTypes ==
  ASSUME PoolInv
  PROVE  /\ made \in Nat /\ made =< MaxObjects /\ 1..made \subseteq Objects
         /\ hot.n \in Nat /\ cold.n \in Nat
         /\ hot = [top |-> hot.top, n |-> hot.n] /\ cold = [top |-> cold.top, n |-> cold.n]
         /\ held \subseteq Objects /\ clean \subseteq held
BY Facts DEF PoolInv, TypeOK, FreeList, Objects

\* What is in chains is of the right type.
LEMMA ChainTypes ==
  ASSUME NEW l, NEW f, NEW w, NEW m \in 0..MaxObjects, NEW n \in Nat, NEW top,
         Chain(f, top, n, w, m), l = [top |-> top, n |-> n]
  PROVE  l \in FreeList
<1>1. n =< m
  BY ChainLength
<1>2. n \in 0..MaxObjects
  BY <1>1, Facts
<1>3. top \in Objects \cup {Null}
  BY <1>2, Facts DEF Chain, Objects
<1>4. QED
  BY <1>2, <1>3 DEF FreeList

\* A step that leaves objects, lists and users alone.
LEMMA FramePoolInv ==
  ASSUME PoolInv, UNCHANGED <<made, memory, hot, cold, held, clean>>, TypeOK'
  PROVE  PoolInv'
<1>1. PICK h, c : Chains(h, c)
  BY DEF PoolInv
<1>2. Chains(h, c)'
  BY <1>1 DEF Chains, memory, Chain, On
<1>3. (\A o \in Objects : o > made => IsZero(o))' /\ (\A o \in clean : IsZero(o))'
  BY DEF PoolInv, IsZero, memory
<1>4. QED
  BY <1>2, <1>3 DEF PoolInv
-----------------------------------------------------------------------------
(***************************************************************************)
(* What a list gives and takes, with the words and the rest of all other   *)
(* objects as they were.                                                   *)
(***************************************************************************)
LEMMA TakeCold ==
  ASSUME PoolInv, NEW h, NEW c, Chains(h, c), cold.n > 0, NEW o, o = cold.top,
         cold' = Popped(cold), UNCHANGED <<hot, made>>, held' = held \cup {o},
         \A p \in Objects \ {o} : word'[p] = word[p] /\ rest'[p] = rest[p]
  PROVE  /\ o \in 1..made /\ o \notin held /\ rest[o] = "zero"
         /\ \E d : Chains(h, d)'
<1>1. PICK d : d = PoppedOff(c, cold.n)
  OBVIOUS
<1>2. /\ Chain(d, word[o], cold.n - 1, word, made)
      /\ On(d, cold.n - 1) = On(c, cold.n) \ {o}
      /\ o \in On(c, cold.n) /\ o \in 1..made
  BY <1>1, PopChain, InvTypes DEF Chains
<1>3. cold'.top = word[o] /\ cold'.n = cold.n - 1 /\ cold'.n \in Nat
  BY InvTypes DEF Popped
<1>4. \A p \in On(h, hot.n) \cup On(d, cold.n - 1) : word'[p] = word[p] /\ rest'[p] = rest[p]
  BY <1>2, InvTypes DEF Chains
<1>5. Chain(d, cold'.top, cold'.n, word', made)
  BY <1>2, <1>3, <1>4, KeepChain, InvTypes
<1>6. Chain(h, hot.top, hot.n, word', made)
  BY <1>4, KeepChain, InvTypes DEF Chains
<1>7. o \notin held /\ rest[o] = "zero"
  BY <1>2 DEF Chains
<1>8. /\ On(h, hot.n) \cap On(d, cold'.n) = {}
      /\ On(h, hot.n) \cup On(d, cold'.n) = (1..made) \ held'
      /\ held' \subseteq 1..made
      /\ \A p \in On(d, cold'.n) : rest'[p] = "zero"
  BY ZenonT(40), <1>2, <1>3, <1>4 DEF Chains
<1>9. Chains(h, d)'
  BY <1>5, <1>6, <1>8 DEF Chains
<1>10. QED
  BY <1>2, <1>7, <1>9

LEMMA TakeHot ==
  ASSUME PoolInv, NEW h, NEW c, Chains(h, c), hot.n > 0, NEW o, o = hot.top,
         hot' = Popped(hot), UNCHANGED <<cold, made>>, held' = held \cup {o},
         \A p \in Objects \ {o} : word'[p] = word[p] /\ rest'[p] = rest[p]
  PROVE  /\ o \in 1..made /\ o \notin held
         /\ \E d : Chains(d, c)'
<1>1. PICK d : d = PoppedOff(h, hot.n)
  OBVIOUS
<1>2. /\ Chain(d, word[o], hot.n - 1, word, made)
      /\ On(d, hot.n - 1) = On(h, hot.n) \ {o}
      /\ o \in On(h, hot.n) /\ o \in 1..made
  BY <1>1, PopChain, InvTypes DEF Chains
<1>3. hot'.top = word[o] /\ hot'.n = hot.n - 1 /\ hot'.n \in Nat
  BY InvTypes DEF Popped
<1>4. \A p \in On(c, cold.n) \cup On(d, hot.n - 1) : word'[p] = word[p] /\ rest'[p] = rest[p]
  BY <1>2, InvTypes DEF Chains
<1>5. Chain(d, hot'.top, hot'.n, word', made)
  BY <1>2, <1>3, <1>4, KeepChain, InvTypes
<1>6. Chain(c, cold.top, cold.n, word', made)
  BY <1>4, KeepChain, InvTypes DEF Chains
<1>7. o \notin held
  BY <1>2 DEF Chains
<1>8. /\ On(d, hot'.n) \cap On(c, cold.n) = {}
      /\ On(d, hot'.n) \cup On(c, cold.n) = (1..made) \ held'
      /\ held' \subseteq 1..made
      /\ \A p \in On(c, cold.n) : rest'[p] = "zero"
  BY ZenonT(40), <1>2, <1>3, <1>4 DEF Chains
<1>9. Chains(d, c)'
  BY <1>5, <1>6, <1>8 DEF Chains
<1>10. QED
  BY <1>2, <1>7, <1>9

LEMMA TakeFresh ==
  ASSUME PoolInv, NEW h, NEW c, Chains(h, c), NEW o, o = made + 1, o \in Objects,
         made' = o, UNCHANGED <<hot, cold, word, rest>>, held' = held \cup {o}
  PROVE  /\ o \in Objects /\ o \notin held /\ IsZero(o)
         /\ Chains(h, c)'
<1>1. made \in Nat /\ made' \in Nat /\ made =< made' /\ 1..made' = (1..made) \cup {o} /\ o \notin 1..made
  BY InvTypes DEF Objects
<1>2. Chain(h, hot.top, hot.n, word, made') /\ Chain(c, cold.top, cold.n, word, made')
  BY <1>1, KeepChain, InvTypes DEF Chains
<1>3. /\ On(h, hot.n) \cup On(c, cold.n) = (1..made') \ held'
      /\ held' \subseteq 1..made'
  BY <1>1 DEF Chains
<1>4. Chains(h, c)'
  BY <1>2, <1>3 DEF Chains
<1>5. IsZero(o)
  BY <1>1 DEF PoolInv
<1>6. QED
  BY <1>1, <1>4, <1>5 DEF Chains

LEMMA PutHot ==
  ASSUME PoolInv, NEW h, NEW c, Chains(h, c), NEW o \in held,
         MakeHot(o), UNCHANGED made, held' = held \ {o}
  PROVE  \E d : Chains(d, c)'
<1>1. PICK d : d = PushedOn(h, hot.n, o)
  OBVIOUS
<1>2. /\ o \in 1..made /\ o \notin On(h, hot.n) /\ o \notin On(c, cold.n)
      /\ word'[o] = hot.top
      /\ \A p \in On(h, hot.n) \cup On(c, cold.n) : word'[p] = word[p]
  BY InvTypes DEF Chains, PoolInv, TypeOK, MakeHot
<1>3. UNCHANGED <<rest, cold>> /\ hot'.top = o /\ hot'.n = hot.n + 1
  BY DEF Pushed, MakeHot
<1>4. /\ Chain(d, hot'.top, hot'.n, word', made)
      /\ On(d, hot'.n) = On(h, hot.n) \cup {o}
  BY <1>1, <1>2, <1>3, PushChain, InvTypes DEF Chains
<1>5. Chain(c, cold.top, cold.n, word', made)
  BY <1>2, KeepChain, InvTypes DEF Chains
<1>6. /\ On(d, hot'.n) \cap On(c, cold.n) = {}
      /\ On(d, hot'.n) \cup On(c, cold.n) = (1..made) \ held'
      /\ held' \subseteq 1..made
  BY <1>2, <1>4 DEF Chains
<1>7. Chains(d, c)'
  BY <1>3, <1>4, <1>5, <1>6 DEF Chains
<1>8. QED
  BY <1>7

LEMMA PutCold ==
  ASSUME PoolInv, NEW h, NEW c, Chains(h, c), NEW o \in held, NEW given \in BOOLEAN,
         MakeCold(o, given), UNCHANGED <<hot, made>>, held' = held \ {o}
  PROVE  \E d : Chains(h, d)'
<1>1. PICK d : d = PushedOn(c, cold.n, o)
  OBVIOUS
<1>2. /\ o \in 1..made /\ o \in Objects /\ o \notin On(h, hot.n) /\ o \notin On(c, cold.n)
      /\ word'[o] = cold.top /\ rest'[o] = "zero"
      /\ \A p \in On(h, hot.n) \cup On(c, cold.n) : word'[p] = word[p] /\ rest'[p] = rest[p]
  BY InvTypes DEF Chains, PoolInv, TypeOK, MakeCold
<1>3. cold'.top = o /\ cold'.n = cold.n + 1
  BY DEF Pushed, MakeCold
<1>4. /\ Chain(d, cold'.top, cold'.n, word', made)
      /\ On(d, cold'.n) = On(c, cold.n) \cup {o}
  BY <1>1, <1>2, <1>3, PushChain, InvTypes DEF Chains
<1>5. Chain(h, hot.top, hot.n, word', made)
  BY <1>2, KeepChain, InvTypes DEF Chains
<1>6. /\ On(h, hot.n) \cap On(d, cold'.n) = {}
      /\ On(h, hot.n) \cup On(d, cold'.n) = (1..made) \ held'
      /\ held' \subseteq 1..made
      /\ \A p \in On(d, cold'.n) : rest'[p] = "zero"
  BY <1>2, <1>4 DEF Chains
<1>7. Chains(h, d)'
  BY <1>4, <1>5, <1>6 DEF Chains
<1>8. QED
  BY <1>7

\* A step of pool_trim (): from the hot list to the cold one.
LEMMA HotToCold ==
  ASSUME PoolInv, NEW h, NEW c, Chains(h, c), hot.n > 0, NEW given \in BOOLEAN,
         hot' = Popped(hot), MakeCold(hot.top, given), UNCHANGED <<made, held>>
  PROVE  /\ hot.top \in 1..made /\ hot.top \notin held
         /\ \E g, d : Chains(g, d)'
<1>1. PICK g, d, o : /\ g = PoppedOff(h, hot.n) /\ o = hot.top /\ d = PushedOn(c, cold.n, o)
  OBVIOUS
<1>2. /\ Chain(g, word[o], hot.n - 1, word, made)
      /\ On(g, hot.n - 1) = On(h, hot.n) \ {o}
      /\ o \in On(h, hot.n) /\ o \in 1..made
  BY <1>1, PopChain, InvTypes DEF Chains
<1>3. hot'.top = word[o] /\ hot'.n = hot.n - 1 /\ hot'.n \in Nat
  BY <1>1, InvTypes DEF Popped
<1>4. /\ o \notin On(c, cold.n) /\ o \notin On(g, hot.n - 1) /\ o \notin held /\ o \in Objects
  BY <1>2, InvTypes DEF Chains
<1>5. /\ word'[o] = cold.top /\ rest'[o] = "zero"
      /\ \A p \in On(g, hot.n - 1) \cup On(c, cold.n) : word'[p] = word[p] /\ rest'[p] = rest[p]
  BY <1>1, <1>2, <1>4, InvTypes DEF Chains, PoolInv, TypeOK, MakeCold
<1>6. cold'.top = o /\ cold'.n = cold.n + 1
  BY <1>1 DEF Pushed, MakeCold
<1>7. /\ Chain(d, cold'.top, cold'.n, word', made)
      /\ On(d, cold'.n) = On(c, cold.n) \cup {o}
  BY <1>1, <1>2, <1>4, <1>5, <1>6, PushChain, InvTypes DEF Chains
<1>8. Chain(g, hot'.top, hot'.n, word', made)
  BY <1>2, <1>3, <1>5, KeepChain, InvTypes
<1>9. /\ On(g, hot'.n) \cap On(d, cold'.n) = {}
      /\ On(g, hot'.n) \cup On(d, cold'.n) = (1..made) \ held
      /\ \A p \in On(d, cold'.n) : rest'[p] = "zero"
  BY <1>2, <1>3, <1>4, <1>5, <1>7 DEF Chains
<1>10. Chains(g, d)'
  BY <1>7, <1>8, <1>9 DEF Chains
<1>11. QED
  BY <1>1, <1>2, <1>4, <1>10
-----------------------------------------------------------------------------
(***************************************************************************)
(* Every step keeps the invariant, and is one of an allocator.             *)
(***************************************************************************)
LEMMA PerChunkType ==
  ASSUME NEW size \in Nat \ {0}
  PROVE  ObjectsPerChunk(ObjectSize(size)) \in Nat
<1>1. \A n \in Nat, a \in Nat \ {0} : n \div a \in Nat
  OBVIOUS
<1>2. \A n \in Nat, a \in Nat \ {0} : RoundUp(n, a) \in Nat
  BY <1>1 DEF RoundUp
<1>3. ObjectSize(size) \in Nat \ {0}
  BY DEF ObjectSize, RoundUp, PoolLarge, Page
<1>4. PoolChunk \in Nat
  BY DEF PoolChunk
<1>5. DEFINE s == ObjectSize(size)
             n == PoolChunk \div s
             k == IF n = 0 THEN 1 ELSE n
<1>6. n \in Nat
  BY <1>1, <1>3, <1>4
<1>7. k \in Nat
  BY <1>6
<1>8. k * s \in Nat
  BY <1>3, <1>7
<1>9. RoundUp(k * s, Page) \in Nat
  BY <1>2, <1>8 DEF Page
<1>10. RoundUp(k * s, Page) \div s \in Nat
  BY <1>1, <1>3, <1>9
<1>11. QED
  BY <1>10 DEF ObjectsPerChunk

LEMMA ListTypes ==
  ASSUME NEW h, NEW c, Chains(h, c)', made' \in 0..MaxObjects,
         hot' \in {hot} \cup {Popped(hot)} \cup {Pushed(hot, o) : o \in Objects},
         cold' \in {cold} \cup {Popped(cold)} \cup {Pushed(cold, o) : o \in Objects},
         hot'.n \in Nat, cold'.n \in Nat, PoolInv
  PROVE  hot' \in FreeList /\ cold' \in FreeList
<1>1. hot' = [top |-> hot'.top, n |-> hot'.n] /\ cold' = [top |-> cold'.top, n |-> cold'.n]
  BY InvTypes DEF Popped, Pushed
<1>2. Chain(h, hot'.top, hot'.n, word', made') /\ Chain(c, cold'.top, cold'.n, word', made')
  BY DEF Chains
<1>3. QED
  BY <1>1, <1>2, ChainTypes

\* What the allocator sees: contents of the objects held.
ContentOf(o) == <<word[o], rest[o]>>

AllocatorStep == Allocator!Next \/ UNCHANGED <<held, clean, [o \in held |-> ContentOf(o)]>>

\* Held objects keep what they hold in every step but their owner's.
LEMMA SeenContents ==
  ASSUME NEW H, H \subseteq held, \A o \in H : word'[o] = word[o] /\ rest'[o] = rest[o]
  PROVE  \A o \in H : ContentOf(o)' = ContentOf(o)
BY DEF ContentOf

LEMMA NewPoolInv ==
  ASSUME PoolInv, NEW size \in Sizes, PoolNew(size)
  PROVE  PoolInv' /\ AllocatorStep
<1>1. perChunk' \in Nat
  BY PerChunkType, SizesAssumption DEF PoolNew
<1>2. large' \in BOOLEAN
  BY DEF PoolNew
<1>3. TypeOK'
  <2>1. hotMax' \in Nat
    BY Facts DEF PoolNew, HotAll
  <2>2. QED
    BY <1>1, <1>2, <2>1 DEF PoolNew, PoolInv, TypeOK, memory, users
<1>4. PoolInv'
  BY <1>3, FramePoolInv DEF PoolNew, users
<1>5. AllocatorStep
  BY DEF AllocatorStep, ContentOf, PoolNew, users, memory
<1>6. QED
  BY <1>4, <1>5

LEMMA TrimPoolInv ==
  ASSUME PoolInv, NEW n \in HotLimits, PoolTrim(n) \/ PoolSetHotMax(n)
  PROVE  PoolInv' /\ AllocatorStep
<1>1. trimming' \in HotLimits \cup {NotTrimming} /\ hotMax' \in Nat
  BY Facts DEF PoolTrim, PoolSetHotMax, StartTrim, PoolInv, TypeOK
<1>2. UNCHANGED <<chunks, memory, hot, cold, users>>
  BY DEF PoolTrim, PoolSetHotMax
<1>3. TypeOK'
  BY <1>1, <1>2 DEF PoolInv, TypeOK, chunks, memory, users
<1>4. PoolInv'
  BY <1>2, <1>3, FramePoolInv DEF chunks, users
<1>5. AllocatorStep
  BY <1>2 DEF AllocatorStep, ContentOf, users, memory
<1>6. QED
  BY <1>4, <1>5

LEMMA DestroyPoolInv ==
  ASSUME PoolInv, PoolDestroy
  PROVE  PoolInv' /\ AllocatorStep
<1>1. TypeOK'
  <2>1. Empty \in FreeList
    BY Facts DEF Empty, FreeList
  <2>2. perChunk' \in Nat /\ mapped' \in Nat /\ made' \in 0..MaxObjects /\ hotMax' \in Nat /\ used' \in Int
    BY Facts DEF PoolDestroy, HotAll
  <2>3. word' \in [Objects -> Objects \cup {Null, Dirt}] /\ rest' \in [Objects -> {"zero", "dirty"}]
    BY DEF PoolDestroy
  <2>4. touched' \in [Objects -> SUBSET Pages]
    BY DEF PoolDestroy
  <2>5. large' \in BOOLEAN
    BY DEF PoolDestroy
  <2>6. QED
    BY <2>1, <2>2, <2>3, <2>4, <2>5 DEF PoolDestroy, TypeOK
<1>2. \E h, c : Chains(h, c)'
  <2>1. PICK f : Chain(f, Null, 0, word', 0) /\ On(f, 0) = {}
    BY EmptyChain
  <2>2. Chains(f, f)'
    BY <2>1 DEF PoolDestroy, Chains, Empty
  <2>3. QED
    BY <2>2
<1>3. (\A o \in Objects : o > made => IsZero(o))' /\ (\A o \in clean : IsZero(o))'
  BY DEF PoolDestroy, IsZero
<1>4. Allocator!FreeAll
  BY DEF Allocator!FreeAll, PoolDestroy
<1>5. QED
  BY <1>1, <1>2, <1>3, <1>4 DEF PoolInv, AllocatorStep, Allocator!Next

\* Of the steps that hand out an object: what they do to the words, the rest and
\* the lists.
Taken(o) ==
  /\ Ready
  /\ \A p \in Objects \ {o} : word'[p] = word[p] /\ rest'[p] = rest[p]
  /\ word' \in [Objects -> Objects \cup {Null, Dirt}]
  /\ rest' \in [Objects -> {"zero", "dirty"}]
  /\ touched' \in [Objects -> SUBSET Pages]
  /\ HandOut(o)
  /\ clean \subseteq clean' /\ clean' \subseteq clean \cup {o}
  /\ UNCHANGED <<hotMax, trimming>>
  /\ \/ cold.n > 0 /\ o = cold.top /\ cold' = Popped(cold) /\ UNCHANGED <<chunks, hot>>
     \/ hot.n > 0 /\ o = hot.top /\ hot' = Popped(hot) /\ UNCHANGED <<chunks, cold>>
     \/ Fresh(o) /\ UNCHANGED <<word, rest>>

LEMMA TakenInv ==
  ASSUME PoolInv, NEW o \in Objects, Taken(o), o \in clean' => IsZero(o)'
  PROVE  PoolInv' /\ o \notin held
<1>1. PICK h, c : Chains(h, c)
  BY DEF PoolInv
<1>2. held' = held \cup {o} /\ used' = used + 1
  BY DEF Taken, HandOut
<1>3. /\ o \in Objects /\ o \notin held /\ made' \in 0..MaxObjects /\ made' >= made
      /\ \E g, d : Chains(g, d)'
      /\ large' \in BOOLEAN /\ perChunk' \in Nat /\ mapped' \in Nat
      /\ hot' \in {hot} \cup {Popped(hot)} \cup {Pushed(hot, p) : p \in Objects}
      /\ cold' \in {cold} \cup {Popped(cold)} \cup {Pushed(cold, p) : p \in Objects}
      /\ hot'.n \in Nat /\ cold'.n \in Nat
  <2>1. CASE cold.n > 0 /\ o = cold.top /\ cold' = Popped(cold) /\ UNCHANGED <<chunks, hot>>
    <3>1. UNCHANGED <<hot, made>>
      BY <2>1 DEF chunks
    <3>2. o \in 1..made /\ o \notin held /\ \E d : Chains(h, d)'
      BY <1>1, <1>2, <2>1, <3>1, TakeCold DEF Taken
    <3>3. cold'.n \in Nat
      BY <2>1, InvTypes DEF Popped
    <3>4. QED
      BY <2>1, <3>1, <3>2, <3>3, InvTypes DEF chunks, PoolInv, TypeOK
  <2>2. CASE hot.n > 0 /\ o = hot.top /\ hot' = Popped(hot) /\ UNCHANGED <<chunks, cold>>
    <3>1. UNCHANGED <<cold, made>>
      BY <2>2 DEF chunks
    <3>2. o \in 1..made /\ o \notin held /\ \E d : Chains(d, c)'
      BY <1>1, <1>2, <2>2, <3>1, TakeHot DEF Taken
    <3>3. hot'.n \in Nat
      BY <2>2, InvTypes DEF Popped
    <3>4. QED
      BY <2>2, <3>1, <3>2, <3>3, InvTypes DEF chunks, PoolInv, TypeOK
  <2>3. CASE Fresh(o) /\ UNCHANGED <<word, rest>>
    <3>1. /\ o = made + 1 /\ o \in Objects /\ made' = o
          /\ UNCHANGED <<large, perChunk, hot, cold, word, rest>>
      BY <2>3 DEF Fresh
    <3>2. o \notin held /\ Chains(h, c)'
      BY <1>1, <1>2, <3>1, TakeFresh
    <3>3. mapped' \in Nat
      BY <2>3 DEF Fresh, PoolInv, TypeOK
    <3>4. made' \in 0..MaxObjects /\ made' >= made
      BY <3>1, InvTypes DEF Objects
    <3>5. QED
      BY <3>1, <3>2, <3>3, <3>4, InvTypes DEF PoolInv, TypeOK
  <2>4. QED
    BY <2>1, <2>2, <2>3 DEF Taken
<1>4. hot' \in FreeList /\ cold' \in FreeList
  BY <1>3, ListTypes
<1>5. held' \subseteq Objects /\ clean' \subseteq held'
  BY <1>2, InvTypes DEF Taken
<1>6. TypeOK'
  BY <1>2, <1>3, <1>4, <1>5 DEF Taken, PoolInv, TypeOK
<1>7. ASSUME NEW p \in Objects, p > made' PROVE IsZero(p)'
  <2>1. p > made
    BY <1>3, <1>7, InvTypes DEF Objects
  <2>2. IsZero(p)
    BY <2>1 DEF PoolInv
  <2>3. CASE p # o
    BY <2>2, <2>3 DEF Taken, IsZero
  <2>4. CASE p = o
    <3>1. o \in held'
      BY <1>2
    <3>2. PICK g, d : Chains(g, d)'
      BY <1>3
    <3>3. o \in 1..made'
      BY <3>1, <3>2 DEF Chains
    <3>4. QED
      BY <2>4, <3>3, <1>7, <1>3
  <2>5. QED
    BY <2>3, <2>4
<1>8. ASSUME NEW p \in clean' PROVE IsZero(p)'
  <2>1. CASE p = o
    BY <2>1, <1>8
  <2>2. CASE p # o
    <3>1. p \in clean /\ p \in Objects
      BY <2>2, <1>8, InvTypes DEF Taken
    <3>2. QED
      BY <2>2, <3>1 DEF Taken, PoolInv, IsZero
  <2>3. QED
    BY <2>1, <2>2
<1>9. QED
  BY <1>3, <1>6, <1>7, <1>8 DEF PoolInv

LEMMA AllocPoolInv ==
  ASSUME PoolInv, NEW o \in Objects, PoolAlloc(o)
  PROVE  PoolInv' /\ AllocatorStep
<1>1. PICK h, c : Chains(h, c)
  BY DEF PoolInv
<1>2. word \in [Objects -> Objects \cup {Null, Dirt}] /\ rest \in [Objects -> {"zero", "dirty"}]
      /\ touched \in [Objects -> SUBSET Pages]
  BY DEF PoolInv, TypeOK
<1>3. held' = held \cup {o} /\ clean' = clean \cup {o}
  BY DEF PoolAlloc, HandOut
<1>4. Taken(o) /\ IsZero(o)'
  <2>1. CASE /\ cold.n > 0 /\ o = cold.top /\ cold' = Popped(cold)
             /\ word' = [word EXCEPT ![o] = Null]
             /\ touched' = [touched EXCEPT ![o] = @ \cup {"first"}]
             /\ UNCHANGED <<chunks, rest, hot>>
    <3>1. \A p \in Objects \ {o} : word'[p] = word[p] /\ rest'[p] = rest[p]
      BY <1>2, <2>1
    <3>2. rest[o] = "zero"
      <4>1. UNCHANGED <<hot, made>>
        BY <2>1 DEF chunks
      <4>2. QED
        BY <1>1, <1>3, <2>1, <3>1, <4>1, TakeCold
    <3>3. word'[o] = Null /\ rest'[o] = "zero"
      BY <1>2, <2>1, <3>2
    <3>4. /\ word' \in [Objects -> Objects \cup {Null, Dirt}]
          /\ rest' \in [Objects -> {"zero", "dirty"}]
          /\ touched' \in [Objects -> SUBSET Pages]
      BY <1>2, <2>1 DEF Pages
    <3>5. QED
      BY <2>1, <3>1, <3>3, <3>4, <1>3 DEF Taken, IsZero, PoolAlloc
  <2>2. CASE /\ hot.n > 0 /\ o = hot.top /\ hot' = Popped(hot)
             /\ word' = [word EXCEPT ![o] = Null]
             /\ rest' = [rest EXCEPT ![o] = "zero"]
             /\ touched' = [touched EXCEPT ![o] = Pages]
             /\ UNCHANGED <<chunks, cold>>
    <3>1. \A p \in Objects \ {o} : word'[p] = word[p] /\ rest'[p] = rest[p]
      BY <1>2, <2>2
    <3>2. word'[o] = Null /\ rest'[o] = "zero"
      BY <1>2, <2>2
    <3>3. /\ word' \in [Objects -> Objects \cup {Null, Dirt}]
          /\ rest' \in [Objects -> {"zero", "dirty"}]
          /\ touched' \in [Objects -> SUBSET Pages]
      BY <1>2, <2>2 DEF Pages
    <3>4. QED
      BY <2>2, <3>1, <3>2, <3>3, <1>3 DEF Taken, IsZero, PoolAlloc
  <2>3. CASE Fresh(o) /\ UNCHANGED memory
    <3>1. IsZero(o)
      BY <2>3, InvTypes DEF Fresh, PoolInv, Objects
    <3>2. UNCHANGED <<word, rest, touched>>
      BY <2>3 DEF memory
    <3>3. QED
      BY <2>3, <3>1, <3>2, <1>2, <1>3 DEF Taken, IsZero, PoolAlloc
  <2>4. QED
    BY <2>1, <2>2, <2>3 DEF PoolAlloc
<1>5. PoolInv' /\ o \notin held
  BY <1>4, TakenInv
<1>6. Allocator!Alloc(o)
  <2>1. ContentOf(o)' = <<Null, "zero">>
    BY <1>4 DEF IsZero, ContentOf
  <2>2. \A p \in held : ContentOf(p)' = ContentOf(p)
    BY <1>4, <1>5, InvTypes DEF Taken, ContentOf
  <2>3. QED
    BY <1>3, <1>5, <2>1, <2>2 DEF Allocator!Alloc, Allocator!HandOut, ContentOf
<1>7. QED
  BY <1>5, <1>6 DEF AllocatorStep, Allocator!Next

LEMMA AllocUninitPoolInv ==
  ASSUME PoolInv, NEW o \in Objects, PoolAllocUninit(o)
  PROVE  PoolInv' /\ AllocatorStep
<1>1. word \in [Objects -> Objects \cup {Null, Dirt}] /\ rest \in [Objects -> {"zero", "dirty"}]
      /\ touched \in [Objects -> SUBSET Pages]
  BY DEF PoolInv, TypeOK
<1>2. held' = held \cup {o} /\ clean' = clean /\ UNCHANGED <<word, rest, touched>>
  BY DEF PoolAllocUninit, HandOut, memory
<1>3. Taken(o)
  BY <1>1, <1>2 DEF Taken, PoolAllocUninit
<1>4. o \in clean' => IsZero(o)'
  BY <1>2 DEF PoolInv, IsZero
<1>5. PoolInv' /\ o \notin held
  BY <1>3, <1>4, TakenInv
<1>6. ContentOf(o) \in Content
  BY <1>1 DEF ContentOf, Content
<1>7. Allocator!AllocUninit(o, ContentOf(o))
  BY <1>2, <1>5 DEF Allocator!AllocUninit, Allocator!HandOut, ContentOf
<1>8. QED
  BY <1>5, <1>6, <1>7 DEF AllocatorStep, Allocator!Next

LEMMA FreePoolInv ==
  ASSUME PoolInv, NEW o \in Objects, PoolFree(o)
  PROVE  PoolInv' /\ AllocatorStep
<1>1. PICK h, c : Chains(h, c)
  BY DEF PoolInv
<1>2. /\ o \in held /\ held' = held \ {o} /\ clean' = clean \ {o} /\ used' = used - 1
      /\ UNCHANGED <<large, perChunk, mapped, made, hotMax, trimming>>
  BY DEF PoolFree, chunks
<1>3. /\ word \in [Objects -> Objects \cup {Null, Dirt}] /\ rest \in [Objects -> {"zero", "dirty"}]
      /\ touched \in [Objects -> SUBSET Pages]
      /\ hot.top \in Objects \cup {Null} /\ cold.top \in Objects \cup {Null}
  BY DEF PoolInv, TypeOK, FreeList
<1>4. /\ \E g, d : Chains(g, d)'
      /\ hot' \in {hot} \cup {Pushed(hot, p) : p \in Objects} /\ hot'.n \in Nat
      /\ cold' \in {cold} \cup {Pushed(cold, p) : p \in Objects} /\ cold'.n \in Nat
      /\ word' \in [Objects -> Objects \cup {Null, Dirt}]
      /\ rest' \in [Objects -> {"zero", "dirty"}]
      /\ touched' \in [Objects -> SUBSET Pages]
      /\ \A p \in Objects \ {o} : word'[p] = word[p] /\ rest'[p] = rest[p]
  <2>1. ASSUME NEW given \in BOOLEAN, MakeCold(o, given), UNCHANGED hot PROVE <1>4!:
    <3>1. \E d : Chains(h, d)'
      BY <1>1, <1>2, <2>1, PutCold
    <3>2. /\ word' \in [Objects -> Objects \cup {Null, Dirt}]
          /\ rest' \in [Objects -> {"zero", "dirty"}]
          /\ touched' \in [Objects -> SUBSET Pages]
          /\ \A p \in Objects \ {o} : word'[p] = word[p] /\ rest'[p] = rest[p]
      BY <1>3, <2>1 DEF MakeCold, Pages
    <3>3. cold' = Pushed(cold, o) /\ cold'.n \in Nat
      BY <2>1, InvTypes DEF MakeCold, Pushed
    <3>4. QED
      BY <2>1, <3>1, <3>2, <3>3, InvTypes
  <2>2. ASSUME MakeHot(o) PROVE <1>4!:
    <3>1. \E d : Chains(d, c)'
      BY <1>1, <1>2, <2>2, PutHot
    <3>2. /\ word' \in [Objects -> Objects \cup {Null, Dirt}]
          /\ rest' \in [Objects -> {"zero", "dirty"}]
          /\ touched' \in [Objects -> SUBSET Pages]
          /\ \A p \in Objects \ {o} : word'[p] = word[p] /\ rest'[p] = rest[p]
      BY <1>3, <2>2 DEF MakeHot, Pages
    <3>3. hot' = Pushed(hot, o) /\ hot'.n \in Nat /\ cold' = cold
      BY <2>2, InvTypes DEF MakeHot, Pushed
    <3>4. QED
      BY <3>1, <3>2, <3>3, InvTypes
  <2>3. QED
    BY <2>1, <2>2 DEF PoolFree
<1>5. TypeOK'
  <2>1. made' \in 0..MaxObjects
    BY <1>2 DEF PoolInv, TypeOK
  <2>2. hot' \in FreeList /\ cold' \in FreeList
    BY <1>4, <2>1, ListTypes
  <2>3. QED
    BY <1>2, <1>4, <2>1, <2>2 DEF PoolInv, TypeOK
<1>6. ASSUME NEW p \in Objects, p > made' PROVE IsZero(p)'
  <2>1. p # o
    BY <1>1, <1>2, <1>6, InvTypes DEF Chains
  <2>2. QED
    BY <1>2, <1>4, <1>6, <2>1 DEF PoolInv, IsZero
<1>7. ASSUME NEW p \in clean' PROVE IsZero(p)'
  BY <1>2, <1>4, <1>7, InvTypes DEF PoolInv, IsZero
<1>8. Allocator!Free(o)
  <2>1. \A p \in held' : ContentOf(p)' = ContentOf(p)
    BY <1>2, <1>4, InvTypes DEF ContentOf
  <2>2. QED
    BY <1>2, <2>1 DEF Allocator!Free, ContentOf
<1>9. QED
  BY <1>4, <1>5, <1>6, <1>7, <1>8 DEF PoolInv, AllocatorStep, Allocator!Next

LEMMA WritePoolInv ==
  ASSUME PoolInv, NEW o \in Objects, Write(o)
  PROVE  PoolInv' /\ AllocatorStep
<1>1. PICK h, c : Chains(h, c)
  BY DEF PoolInv
<1>2. /\ o \in held /\ clean' = clean \ {o}
      /\ UNCHANGED <<large, perChunk, mapped, made, hot, cold, hotMax, used, held, trimming>>
  BY DEF Write, chunks
<1>3. /\ word \in [Objects -> Objects \cup {Null, Dirt}] /\ rest \in [Objects -> {"zero", "dirty"}]
      /\ touched \in [Objects -> SUBSET Pages]
  BY DEF PoolInv, TypeOK
<1>4. /\ word' \in [Objects -> Objects \cup {Null, Dirt}]
      /\ rest' \in [Objects -> {"zero", "dirty"}]
      /\ touched' \in [Objects -> SUBSET Pages]
      /\ word'[o] = Dirt /\ rest'[o] = "dirty"
      /\ \A p \in Objects \ {o} : word'[p] = word[p] /\ rest'[p] = rest[p]
  BY <1>3 DEF Write, Pages
<1>5. TypeOK'
  BY <1>2, <1>4 DEF PoolInv, TypeOK
<1>6. Chains(h, c)'
  <2>1. \A p \in On(h, hot.n) \cup On(c, cold.n) : word'[p] = word[p] /\ rest'[p] = rest[p]
    BY <1>1, <1>2, <1>4, InvTypes DEF Chains
  <2>2. Chain(h, hot.top, hot.n, word', made) /\ Chain(c, cold.top, cold.n, word', made)
    BY <1>1, <2>1, KeepChain, InvTypes DEF Chains
  <2>3. QED
    BY <1>1, <1>2, <2>1, <2>2 DEF Chains
<1>7. ASSUME NEW p \in Objects, p > made' PROVE IsZero(p)'
  <2>1. p # o
    BY <1>1, <1>2, <1>7, InvTypes DEF Chains
  <2>2. QED
    BY <1>2, <1>4, <1>7, <2>1 DEF PoolInv, IsZero
<1>8. ASSUME NEW p \in clean' PROVE IsZero(p)'
  BY <1>2, <1>4, <1>8, InvTypes DEF PoolInv, IsZero
<1>9. Allocator!Write(o, <<Dirt, "dirty">>)
  <2>1. \A p \in held : ContentOf(p)' = IF p = o THEN <<Dirt, "dirty">> ELSE ContentOf(p)
    BY <1>2, <1>4, InvTypes DEF ContentOf
  <2>2. [p \in held |-> ContentOf(p)]' = [[p \in held |-> ContentOf(p)] EXCEPT ![o] = <<Dirt, "dirty">>]
    BY <1>2, <2>1
  <2>3. QED
    BY <1>2, <2>2 DEF Allocator!Write, ContentOf
<1>10. <<Dirt, "dirty">> \in Content
  BY DEF Content
<1>11. QED
  BY <1>5, <1>6, <1>7, <1>8, <1>9, <1>10 DEF PoolInv, AllocatorStep, Allocator!Next

LEMMA TrimStepPoolInv ==
  ASSUME PoolInv, TrimStep
  PROVE  PoolInv' /\ AllocatorStep
<1>1. PICK h, c : Chains(h, c)
  BY DEF PoolInv
<1>2. UNCHANGED <<large, perChunk, mapped, made, hotMax, used, held, clean>>
  BY DEF TrimStep, chunks, users
<1>3. CASE hot.n > trimming
  <2>1. PICK given \in BOOLEAN : MakeCold(hot.top, given)
    BY <1>3 DEF TrimStep
  <2>2. hot' = Popped(hot) /\ trimming' = trimming /\ hot.n > 0
    BY <1>3, Facts, InvTypes DEF TrimStep, PoolInv, TypeOK
  <2>3. hot.top \in 1..made /\ hot.top \notin held /\ \E g, d : Chains(g, d)'
    BY <1>1, <1>2, <2>1, <2>2, HotToCold
  <2>4. /\ word \in [Objects -> Objects \cup {Null, Dirt}] /\ rest \in [Objects -> {"zero", "dirty"}]
        /\ touched \in [Objects -> SUBSET Pages]
        /\ cold.top \in Objects \cup {Null} /\ hot.top \in Objects
    BY <2>3, InvTypes DEF PoolInv, TypeOK, FreeList
  <2>5. /\ word' \in [Objects -> Objects \cup {Null, Dirt}]
        /\ rest' \in [Objects -> {"zero", "dirty"}]
        /\ touched' \in [Objects -> SUBSET Pages]
        /\ \A p \in Objects \ {hot.top} : word'[p] = word[p] /\ rest'[p] = rest[p]
    BY <2>1, <2>4 DEF MakeCold, Pages
  <2>6. cold' = Pushed(cold, hot.top) /\ cold'.n \in Nat /\ hot'.n \in Nat
    BY <2>1, <2>2, InvTypes DEF MakeCold, Pushed, Popped
  <2>7. TypeOK'
    <3>1. made' \in 0..MaxObjects
      BY <1>2 DEF PoolInv, TypeOK
    <3>2. hot' \in FreeList /\ cold' \in FreeList
      BY <2>2, <2>3, <2>4, <2>6, <3>1, ListTypes
    <3>3. QED
      BY <1>2, <2>2, <2>5, <3>1, <3>2 DEF PoolInv, TypeOK
  <2>8. ASSUME NEW p \in Objects, p > made' PROVE IsZero(p)'
    <3>1. p # hot.top
      BY <1>2, <2>3, <2>8, InvTypes
    <3>2. QED
      BY <1>2, <2>5, <2>8, <3>1 DEF PoolInv, IsZero
  <2>9. \A p \in held : p \in Objects \ {hot.top}
    BY <2>3, InvTypes
  <2>10. ASSUME NEW p \in clean' PROVE IsZero(p)'
    BY <1>2, <2>5, <2>9, <2>10, InvTypes DEF PoolInv, IsZero
  <2>11. AllocatorStep
    BY <1>2, <2>5, <2>9 DEF AllocatorStep, ContentOf
  <2>12. QED
    BY <2>3, <2>7, <2>8, <2>10, <2>11 DEF PoolInv
<1>4. CASE ~(hot.n > trimming)
  <2>1. UNCHANGED <<memory, hot, cold>> /\ trimming' = NotTrimming
    BY <1>4 DEF TrimStep
  <2>2. TypeOK'
    BY <1>2, <2>1 DEF PoolInv, TypeOK, memory
  <2>3. PoolInv'
    BY <1>2, <2>1, <2>2, FramePoolInv
  <2>4. AllocatorStep
    BY <1>2, <2>1 DEF AllocatorStep, ContentOf, memory
  <2>5. QED
    BY <2>3, <2>4
<1>5. QED
  BY <1>3, <1>4

LEMMA NextPoolInv ==
  ASSUME PoolInv, [Next]_vars
  PROVE  PoolInv' /\ AllocatorStep
<1>1. CASE \E size \in Sizes : PoolNew(size)
  BY <1>1, NewPoolInv
<1>2. CASE PoolDestroy
  BY <1>2, DestroyPoolInv
<1>3. CASE \E o \in Objects : PoolAlloc(o)
  BY <1>3, AllocPoolInv
<1>4. CASE \E o \in Objects : PoolAllocUninit(o)
  BY <1>4, AllocUninitPoolInv
<1>5. CASE \E o \in Objects : PoolFree(o)
  BY <1>5, FreePoolInv
<1>6. CASE \E o \in Objects : Write(o)
  BY <1>6, WritePoolInv
<1>7. CASE \E n \in HotLimits : PoolSetHotMax(n) \/ PoolTrim(n)
  BY <1>7, TrimPoolInv
<1>8. CASE TrimStep
  BY <1>8, TrimStepPoolInv
<1>9. CASE UNCHANGED vars
  <2>1. /\ UNCHANGED <<large, perChunk, mapped, made, memory, hot, cold, hotMax, trimming>>
        /\ UNCHANGED <<used, held, clean>>
    BY <1>9 DEF vars, chunks, users
  <2>2. TypeOK'
    BY <2>1 DEF PoolInv, TypeOK, memory
  <2>3. PoolInv'
    BY <2>1, <2>2, FramePoolInv
  <2>4. AllocatorStep
    BY <2>1 DEF AllocatorStep, ContentOf, memory
  <2>5. QED
    BY <2>3, <2>4
<1>10. QED
  BY <1>1, <1>2, <1>3, <1>4, <1>5, <1>6, <1>7, <1>8, <1>9 DEF Next
-----------------------------------------------------------------------------
(***************************************************************************)
(* The theorems.                                                           *)
(***************************************************************************)
\* The free lists of pool.c stay the chains of the objects nobody holds, and what
\* pool_alloc () will hand out without clearing it is zero.
THEOREM PoolInvHolds == Spec => []PoolInv
<1>1. PoolInv /\ [Next]_vars => PoolInv'
  BY NextPoolInv
<1>2. QED
  BY InitPoolInv, <1>1, PTL DEF Spec

\* Every variable of the pool keeps its type: no count runs past the objects, and
\* a link leads to an object or nowhere.
THEOREM PoolTypeCorrect == Spec => []TypeOK
<1>1. PoolInv => TypeOK
  BY DEF PoolInv
<1>2. QED
  BY PoolInvHolds, <1>1, PTL

\* However allocations, frees and trims of pool.c alternate, no object is lost and
\* none is on two lists, or on a list while a user holds it.
THEOREM NothingLost == Spec => []NothingLostOrShared
<1>1. ASSUME PoolInv PROVE NothingLostOrShared
  <2>1. PICK h, c : Chains(h, c)
    BY <1>1 DEF PoolInv
  <2>2. Lists(h, hot) /\ Lists(c, cold)
    BY <2>1 DEF Chains, Chain, Lists
  <2>3. h \in [1..hot.n -> Objects] /\ c \in [1..cold.n -> Objects]
    BY <1>1, <2>1, InvTypes DEF Chains, Chain
  <2>4. QED
    BY <2>1, <2>2, <2>3 DEF Chains, On, NothingLostOrShared
<1>2. QED
  BY PoolInvHolds, <1>1, PTL

\* The pool is an allocator as pool.h describes one: what it hands out was nobody's,
\* reads as zero if pool_alloc () gave it, and keeps what its owner wrote.
THEOREM PoolIsAllocator == Spec => KeepsPromise
<1>1. Init => Allocator!Init
  BY DEF Init, Allocator!Init
<1>2. PoolInv /\ [Next]_vars => [Allocator!Next]_(Allocator!vars)
  <2>1. PoolInv /\ [Next]_vars => AllocatorStep
    BY NextPoolInv
  <2>2. AllocatorStep => [Allocator!Next]_(Allocator!vars)
    BY DEF AllocatorStep, ContentOf, Allocator!vars
  <2>3. QED
    BY <2>1, <2>2
<1>3. QED
  BY PoolInvHolds, <1>1, <1>2, PTL DEF Spec, KeepsPromise, Allocator!Spec
-----------------------------------------------------------------------------
(***************************************************************************)
(* The layers.                                                             *)
(***************************************************************************)
Filled == {p \in Pointers : at[p] # NoPointer}

LayerInv ==
  /\ at = [p \in Pointers |-> at[p]]
  /\ assigned = [p \in Places |-> assigned[p]]
  /\ \A p \in Places :
       /\ at[p] = assigned[p]
       /\ assigned[p] # NoPointer =>
            <<>> \in tables /\ \A n \in 1..NAxes : SubSeq(p, 1, n) \in Filled
  /\ inMemory = {PageOf(p) : p \in Filled}
  /\ tables \subseteq TablePaths
  /\ \A t \in tables : \A n \in 1..Len(t) : SubSeq(t, 1, n) \in Filled

\* The first n indices of a path.
LEMMA PartOfPath ==
  ASSUME NEW m \in Nat, NEW p \in PathsOf(m), NEW n \in 0..m
  PROVE  /\ SubSeq(p, 1, n) \in PathsOf(n)
         /\ Len(SubSeq(p, 1, n)) = n
         /\ \A i \in 1..n : SubSeq(p, 1, n)[i] = p[i]
         /\ n = m => SubSeq(p, 1, n) = p
<1>1. \A i \in 1..n : p[i] \in Coordinates
  BY DEF PathsOf
<1>2. /\ SubSeq(p, 1, n) \in Seq(Coordinates)
      /\ Len(SubSeq(p, 1, n)) = n
      /\ \A i \in 1..n : SubSeq(p, 1, n)[i] = p[i]
  <2>1. 1 \in Int /\ n \in Int /\ n - 1 + 1 = n /\ (1 =< n \/ n = 0)
    OBVIOUS
  <2>2. \A i \in 1..n : 1 + i - 1 = i
    OBVIOUS
  <2>3. /\ SubSeq(p, 1, n) \in Seq(Coordinates)
        /\ Len(SubSeq(p, 1, n)) = IF 1 =< n THEN n - 1 + 1 ELSE 0
        /\ \A i \in 1..(n - 1 + 1) : SubSeq(p, 1, n)[i] = p[1 + i - 1]
    BY <1>1, <2>1, SubSeqProperties
  <2>4. QED
    BY <2>1, <2>2, <2>3
<1>3. SubSeq(p, 1, n) \in [1..n -> Coordinates]
  BY <1>2, LenProperties
<1>4. n = m => SubSeq(p, 1, n) = p
  BY <1>2, <1>3 DEF PathsOf
<1>5. QED
  BY <1>2, <1>3, <1>4 DEF PathsOf

LEMMA LengthOfPath ==
  ASSUME NEW m \in Nat, NEW p \in PathsOf(m)
  PROVE  Len(p) = m
BY PartOfPath

\* The start of the start of a path.
LEMMA PartOfPart ==
  ASSUME NEW m \in Nat, NEW p \in PathsOf(m), NEW n \in 0..m, NEW k \in 0..n
  PROVE  SubSeq(SubSeq(p, 1, n), 1, k) = SubSeq(p, 1, k)
<1>1. SubSeq(p, 1, n) \in PathsOf(n) /\ \A i \in 1..n : SubSeq(p, 1, n)[i] = p[i]
  BY PartOfPath
<1>2. /\ SubSeq(SubSeq(p, 1, n), 1, k) \in PathsOf(k)
      /\ \A i \in 1..k : SubSeq(SubSeq(p, 1, n), 1, k)[i] = SubSeq(p, 1, n)[i]
  BY <1>1, PartOfPath
<1>3. /\ SubSeq(p, 1, k) \in PathsOf(k) /\ \A i \in 1..k : SubSeq(p, 1, k)[i] = p[i]
  BY PartOfPath
<1>4. \A i \in 1..k : SubSeq(SubSeq(p, 1, n), 1, k)[i] = SubSeq(p, 1, k)[i]
  BY <1>1, <1>2, <1>3
<1>5. QED
  BY <1>2, <1>3, <1>4 DEF PathsOf

\* The pages of two pointers are one if one is in the page of the other.
LEMMA SamePage ==
  ASSUME LayerConstants, NEW p \in Pointers, NEW q \in Pointers
  PROVE  q \in InPage(PageOf(p)) <=> PageOf(q) = PageOf(p)
<1>1. Last(p) \in Nat /\ Last(q) \in Nat /\ PageLength \in Nat \ {0}
  <2>1. ASSUME NEW r \in Pointers PROVE Last(r) \in Nat
    <3>1. PICK n \in 1..NAxes : r \in PathsOf(n)
      BY DEF Pointers
    <3>2. Len(r) = n /\ n \in 1..n
      BY <3>1, LengthOfPath
    <3>3. r[n] \in Coordinates
      BY <3>1, <3>2 DEF PathsOf
    <3>4. QED
      BY <3>2, <3>3 DEF Last, Coordinates, LayerConstants
  <2>2. QED
    BY <2>1 DEF LayerConstants
<1>2. \A x, y \in Nat, L \in Nat \ {0} :
        y \in ((x \div L) * L)..((x \div L) * L + L - 1) <=> (y \div L) * L = (x \div L) * L
  <2>1. SUFFICES ASSUME NEW x \in Nat, NEW y \in Nat, NEW L \in Nat \ {0}
                 PROVE  y \in ((x \div L) * L)..((x \div L) * L + L - 1) <=> (y \div L) * L = (x \div L) * L
    OBVIOUS
  <2>2. PICK i \in Int, j \in Int : i = x \div L /\ j = y \div L
    OBVIOUS
  <2>3. j * L =< y /\ y < j * L + L
    BY <2>2
  <2>4. ASSUME y \in (i * L)..(i * L + L - 1) PROVE j = i
    <3>1. i * L < (j + 1) * L /\ j * L < (i + 1) * L
      BY <2>3, <2>4
    <3>2. i < j + 1 /\ j < i + 1
      BY <3>1
    <3>3. QED
      BY <3>2
  <2>5. i * L \in Int /\ j * L \in Int
    OBVIOUS
  <2>6. j * L = i * L => y \in (i * L)..(i * L + L - 1)
    BY <2>3, <2>5
  <2>7. QED
    BY <2>2, <2>4, <2>6
<1>3. q \in InPage(PageOf(p)) <=>
        /\ Front(q) = Front(p)
        /\ Last(q) \in ((Last(p) \div PageLength) * PageLength)
                       ..((Last(p) \div PageLength) * PageLength + PageLength - 1)
  BY DEF InPage, PageOf
<1>4. PageOf(q) = PageOf(p) <=>
        /\ Front(q) = Front(p)
        /\ (Last(q) \div PageLength) * PageLength = (Last(p) \div PageLength) * PageLength
  BY DEF PageOf
<1>5. QED
  BY <1>1, <1>2, <1>3, <1>4

\* The pointers on the way to a position.
LEMMA PointersOnTheWay ==
  ASSUME LayerConstants, NEW p \in Places
  PROVE  /\ p \in Pointers
         /\ TablesTo(p) \subseteq Pointers /\ TablesTo(p) \subseteq TablePaths
         /\ \A n \in 1..NAxes : /\ SubSeq(p, 1, n) \in Pointers
                                /\ SubSeq(p, 1, n) = p <=> n = NAxes
                               /\ SubSeq(p, 1, n) \in TablesTo(p) \cup {p}
<1>1. p \in PathsOf(NAxes) /\ NAxes \in Nat \ {0}
  BY DEF Places, LayerConstants
<1>2. p \in Pointers
  BY <1>1 DEF Pointers
<1>3. \A n \in 1..NAxes : n \in 0..NAxes
  BY <1>1
<1>4. \A n \in 1..NAxes : SubSeq(p, 1, n) \in PathsOf(n) /\ Len(SubSeq(p, 1, n)) = n
  BY <1>1, <1>3, PartOfPath
<1>5. \A n \in 1..NAxes : SubSeq(p, 1, n) \in Pointers
  BY <1>4 DEF Pointers
<1>6. Len(p) = NAxes /\ SubSeq(p, 1, NAxes) = p
  <2>1. NAxes \in 0..NAxes
    BY <1>1
  <2>2. QED
    BY <1>1, <2>1, PartOfPath
<1>7. TablesTo(p) \subseteq TablePaths /\ TablesTo(p) \subseteq Pointers
  <2>1. \A n \in 1..(NAxes - 1) : n \in 1..NAxes /\ n \in 0..(NAxes - 1)
    BY <1>1
  <2>2. ASSUME NEW t \in TablesTo(p) PROVE t \in TablePaths /\ t \in Pointers
    <3>1. PICK n \in 1..(NAxes - 1) : t = SubSeq(p, 1, n)
      BY DEF TablesTo
    <3>2. t \in PathsOf(n) /\ t \in Pointers /\ n \in 0..(NAxes - 1)
      BY <1>4, <1>5, <2>1, <3>1
    <3>3. QED
      BY <3>2 DEF TablePaths
  <2>3. QED
    BY <2>2
<1>8. \A n \in 1..NAxes : n = NAxes \/ n \in 1..(NAxes - 1)
  BY <1>1
<1>9. \A n \in 1..NAxes : SubSeq(p, 1, n) \in TablesTo(p) \cup {p}
  BY <1>6, <1>8 DEF TablesTo
<1>10. QED
  BY <1>2, <1>4, <1>5, <1>6, <1>7, <1>9

LEMMA InitLayerInv == LayerConstants /\ LayerInit => LayerInv
<1> SUFFICES ASSUME LayerConstants, LayerInit PROVE LayerInv
  OBVIOUS
<1>1. \A p \in Places : p \in Pointers
  BY PointersOnTheWay
<1>2. Filled = {}
  BY DEF LayerInit, Filled
<1>3. \A p \in Places : at[p] = NoPointer /\ assigned[p] = NoPointer
  BY <1>1 DEF LayerInit
<1>4. at = [p \in Pointers |-> at[p]] /\ assigned = [p \in Places |-> assigned[p]]
  BY DEF LayerInit
<1>5. inMemory = {PageOf(p) : p \in Filled} /\ tables = {}
  BY <1>2 DEF LayerInit
<1>6. QED
  BY <1>3, <1>4, <1>5 DEF LayerInv

LEMMA AssignLayerInv ==
  ASSUME LayerConstants, LayerInv, NEW p \in Used, NEW b \in NodeIds, Assign(p, b)
  PROVE  LayerInv'
<1>1. /\ p \in Places /\ b # NoPointer /\ "table" # NoPointer /\ NAxes \in Nat \ {0}
  BY DEF LayerConstants
<1>2. /\ p \in Pointers
      /\ TablesTo(p) \subseteq Pointers /\ TablesTo(p) \subseteq TablePaths
      /\ \A n \in 1..NAxes : /\ SubSeq(p, 1, n) = p <=> n = NAxes
                             /\ SubSeq(p, 1, n) \in TablesTo(p) \cup {p}
  BY <1>1, PointersOnTheWay
<1>3. /\ tables' = tables \cup TablesTo(p) \cup {<<>>}
      /\ at' = [q \in Pointers |->
                  IF q = p THEN b ELSE IF q \in TablesTo(p) THEN "table" ELSE at[q]]
      /\ inMemory' = inMemory \cup {PageOf(q) : q \in {q \in TablesTo(p) : at[q] = NoPointer} \cup {p}}
      /\ assigned' = [assigned EXCEPT ![p] = b]
  BY DEF Assign
<1>4. Filled' = Filled \cup TablesTo(p) \cup {p}
  BY <1>1, <1>2, <1>3 DEF Filled
<1>5. /\ at' = [q \in Pointers |-> at'[q]] /\ assigned' = [q \in Places |-> assigned'[q]]
  BY <1>1, <1>3 DEF LayerInv
<1>6. ASSUME NEW q \in Places
      PROVE  /\ at'[q] = assigned'[q]
             /\ assigned'[q] # NoPointer =>
                  <<>> \in tables' /\ \A n \in 1..NAxes : SubSeq(q, 1, n) \in Filled'
  <2>1. CASE q = p
    <3>1. at'[q] = b /\ assigned'[q] = b
      BY <1>1, <1>2, <1>3, <2>1 DEF LayerInv
    <3>2. QED
      BY <1>2, <1>3, <1>4, <2>1, <3>1
  <2>2. CASE q # p
    <3>1. q \notin TablesTo(p)
      <4>1. ASSUME NEW n \in 1..(NAxes - 1) PROVE SubSeq(p, 1, n) # q
        <5>1. n \in 0..NAxes /\ n # NAxes /\ NAxes \in Nat
          BY <1>1
        <5>2. Len(SubSeq(p, 1, n)) = n
          BY <1>1, <5>1, PartOfPath DEF Places
        <5>3. Len(q) = NAxes
          BY <5>1, LengthOfPath DEF Places
        <5>4. QED
          BY <5>1, <5>2, <5>3
      <4>2. QED
        BY <4>1 DEF TablesTo
    <3>2. q \in Pointers
      BY PointersOnTheWay
    <3>3. at'[q] = at[q] /\ assigned'[q] = assigned[q]
      BY <1>3, <2>2, <3>1, <3>2 DEF LayerInv
    <3>4. QED
      BY <1>3, <1>4, <3>3 DEF LayerInv
  <2>3. QED
    BY <2>1, <2>2
<1>7. inMemory' = {PageOf(q) : q \in Filled'}
  <2>1. {PageOf(q) : q \in Filled'} = {PageOf(q) : q \in Filled} \cup {PageOf(q) : q \in TablesTo(p) \cup {p}}
    BY <1>4
  <2>2. \A q \in TablesTo(p) : at[q] # NoPointer => q \in Filled
    BY <1>2 DEF Filled
  <2>3. inMemory = {PageOf(q) : q \in Filled}
    BY DEF LayerInv
  <2>4. QED
    BY <1>3, <2>1, <2>2, <2>3
<1>8. tables' \subseteq TablePaths
  <2>1. <<>> \in TablePaths
    <3>1. 0 \in 0..(NAxes - 1)
      BY <1>1
    <3>2. <<>> \in [1..0 -> Coordinates]
      OBVIOUS
    <3>3. QED
      BY <3>1, <3>2 DEF TablePaths, PathsOf
  <2>2. QED
    BY <1>2, <1>3, <2>1 DEF LayerInv
<1>9. ASSUME NEW t \in tables', NEW n \in 1..Len(t)
      PROVE  SubSeq(t, 1, n) \in Filled'
  <2>1. CASE t \in tables
    BY <1>4, <2>1 DEF LayerInv
  <2>2. CASE t \in TablesTo(p)
    <3>1. PICK k \in 1..(NAxes - 1) : t = SubSeq(p, 1, k)
      BY <2>2 DEF TablesTo
    <3>2. k \in 0..NAxes
      BY <1>1
    <3>3. Len(t) = k
      BY <1>1, <3>1, <3>2, PartOfPath DEF Places
    <3>4. n \in 0..k /\ n \in 1..NAxes
      BY <1>1, <3>3
    <3>5. SubSeq(t, 1, n) = SubSeq(p, 1, n)
      BY <1>1, <3>1, <3>2, <3>4, PartOfPart DEF Places
    <3>6. QED
      BY <1>2, <1>4, <3>4, <3>5
  <2>3. CASE t = <<>>
    BY <2>3
  <2>4. QED
    BY <1>3, <2>1, <2>2, <2>3
<1>10. QED
  BY <1>5, <1>6, <1>7, <1>8, <1>9 DEF LayerInv

\* A page with the pointer to a table is never all null: what mem_free () gives
\* back is the page of the node, or nothing.
LEMMA FreeLayerInv ==
  ASSUME LayerConstants, LayerInv, NEW p \in Used, Free(p)
  PROVE  LayerInv'
<1> DEFINE freed == [at EXCEPT ![p] = NoPointer]
           Empties(n) == \A q \in Scanned(SubSeq(p, 1, n)) : freed[q] = NoPointer
           given == {SubSeq(p, 1, n) : n \in {n \in 1..NAxes : \A k \in n..NAxes : Empties(k)}}
           gone == UNION {InPage(PageOf(q)) : q \in given}
<1>1. p \in Places /\ NAxes \in Nat \ {0}
  BY DEF LayerConstants
<1>2. /\ p \in Pointers
      /\ \A n \in 1..NAxes : /\ SubSeq(p, 1, n) \in Pointers
                             /\ SubSeq(p, 1, n) = p <=> n = NAxes
  BY <1>1, PointersOnTheWay
<1>3. at = [q \in Pointers |-> at[q]]
  BY DEF LayerInv
<1>4. \A q \in Pointers : freed[q] = IF q = p THEN NoPointer ELSE at[q]
  BY <1>3
<1>5. /\ at' = [q \in Pointers |-> IF q \in gone THEN NoPointer ELSE freed[q]]
      /\ inMemory' = inMemory \ {PageOf(q) : q \in given}
      /\ assigned' = [assigned EXCEPT ![p] = NoPointer]
      /\ tables' = tables
  BY DEF Free
<1>6. \A n \in 1..NAxes : at[SubSeq(p, 1, n)] # NoPointer
  BY DEF Free, Allocated
<1>7. \A n \in 1..NAxes : Empties(n) => n = NAxes
  <2>1. SUFFICES ASSUME NEW n \in 1..NAxes, Empties(n), n # NAxes PROVE FALSE
    OBVIOUS
  <2>2. PICK q \in Pointers : q = SubSeq(p, 1, n)
    BY <1>2
  <2>3. q \in Scanned(SubSeq(p, 1, n))
    BY <2>2, SamePage DEF Scanned
  <2>4. freed[q] = NoPointer
    BY <2>1, <2>3
  <2>5. q # p
    BY <1>2, <2>1, <2>2
  <2>6. QED
    BY <1>4, <1>6, <2>2, <2>4, <2>5
<1>8. given = IF Empties(NAxes) THEN {p} ELSE {}
  <2>1. NAxes \in 1..NAxes /\ SubSeq(p, 1, NAxes) = p
    BY <1>1, <1>2
  <2>2. \A n \in 1..NAxes : n \in n..NAxes
    BY <1>1
  <2>3. \A k \in NAxes..NAxes : k = NAxes
    BY <1>1
  <2> HIDE DEF Empties
  <2>4. {n \in 1..NAxes : \A k \in n..NAxes : Empties(k)} = IF Empties(NAxes) THEN {NAxes} ELSE {}
    BY <1>7, <2>1, <2>2, <2>3
  <2>5. QED
    BY <2>1, <2>4
<1>9. Empties(NAxes) <=> \A q \in InPage(PageOf(p)) : freed[q] = NoPointer
  <2>1. SubSeq(p, 1, NAxes) = p
    BY <1>1, <1>2
  <2>2. QED
    BY <2>1 DEF Scanned
<1> HIDE DEF Empties, freed
<1>10. at' = [q \in Pointers |-> IF q = p THEN NoPointer ELSE at[q]]
  <2>1. \A q \in gone : freed[q] = NoPointer
    BY <1>8, <1>9
  <2> HIDE DEF gone
  <2>2. QED
    BY <1>4, <1>5, <2>1
<1>11. Filled' = Filled \ {p}
  BY <1>10 DEF Filled
<1>12. inMemory' = {PageOf(q) : q \in Filled'}
  <2>1. inMemory = {PageOf(q) : q \in Filled} /\ Filled \subseteq Pointers
    BY DEF LayerInv, Filled
  <2>2. \A q \in Pointers : freed[q] # NoPointer <=> q \in Filled \ {p}
    BY <1>4 DEF Filled
  <2>3. \A q \in Pointers : q \in InPage(PageOf(p)) <=> PageOf(q) = PageOf(p)
    BY <1>2, SamePage
  <2>4. CASE Empties(NAxes)
    <3>1. inMemory' = inMemory \ {PageOf(p)}
      BY <1>5, <1>8, <2>4
    <3>2. \A q \in Filled \ {p} : PageOf(q) # PageOf(p)
      BY <1>9, <2>1, <2>2, <2>3, <2>4
    <3>3. QED
      BY <1>11, <2>1, <3>1, <3>2
  <2>5. CASE ~Empties(NAxes)
    <3>1. inMemory' = inMemory
      BY <1>5, <1>8, <2>5
    <3>2. PICK q \in Filled \ {p} : PageOf(q) = PageOf(p)
      <4>1. PICK q \in InPage(PageOf(p)) : freed[q] # NoPointer
        BY <1>9, <2>5
      <4>2. q \in Pointers
        BY DEF InPage
      <4>3. QED
        BY <2>2, <2>3, <4>1, <4>2
    <3>3. QED
      BY <1>11, <2>1, <3>1, <3>2
  <2>6. QED
    BY <2>4, <2>5
<1>13. /\ at' = [q \in Pointers |-> at'[q]] /\ assigned' = [q \in Places |-> assigned'[q]]
  BY <1>1, <1>5, <1>10 DEF LayerInv
<1>14. ASSUME NEW q \in Places
       PROVE  /\ at'[q] = assigned'[q]
              /\ assigned'[q] # NoPointer =>
                   <<>> \in tables' /\ \A n \in 1..NAxes : SubSeq(q, 1, n) \in Filled'
  <2>1. q \in Pointers
    BY PointersOnTheWay
  <2>2. at'[q] = (IF q = p THEN NoPointer ELSE at[q]) /\ assigned'[q] = IF q = p THEN NoPointer ELSE assigned[q]
    BY <1>5, <1>10, <2>1 DEF LayerInv
  <2>3. ASSUME q # p, NEW n \in 1..NAxes PROVE SubSeq(q, 1, n) # p
    <3>1. n \in 0..NAxes /\ NAxes \in Nat
      BY <1>1
    <3>2. Len(SubSeq(q, 1, n)) = n /\ (n = NAxes => SubSeq(q, 1, n) = q)
      BY <3>1, PartOfPath DEF Places
    <3>3. Len(p) = NAxes
      BY <1>1, <3>1, LengthOfPath DEF Places
    <3>4. QED
      BY <2>3, <3>2, <3>3
  <2>4. QED
    BY <1>5, <1>11, <2>2, <2>3 DEF LayerInv
<1>15. ASSUME NEW t \in tables', NEW n \in 1..Len(t)
       PROVE  SubSeq(t, 1, n) \in Filled'
  <2>1. t \in tables /\ SubSeq(t, 1, n) \in Filled
    BY <1>5 DEF LayerInv
  <2>2. PICK k \in 0..(NAxes - 1) : t \in PathsOf(k)
    BY <2>1 DEF LayerInv, TablePaths
  <2>3. k \in Nat /\ k < NAxes /\ NAxes \in Nat
    BY <1>1
  <2>4. Len(t) = k
    BY <2>2, <2>3, LengthOfPath
  <2>5. n \in 0..k
    BY <2>3, <2>4
  <2>6. Len(SubSeq(t, 1, n)) = n
    BY <2>2, <2>3, <2>5, PartOfPath
  <2>7. Len(p) = NAxes
    BY <1>1, <2>3, LengthOfPath DEF Places
  <2>8. n # NAxes
    BY <2>3, <2>5
  <2>9. QED
    BY <1>11, <2>1, <2>6, <2>7, <2>8
<1>16. tables' \subseteq TablePaths
  BY <1>5 DEF LayerInv
<1>17. QED
  BY <1>12, <1>13, <1>14, <1>15, <1>16 DEF LayerInv

LEMMA DestroyLayerInv ==
  ASSUME LayerConstants, LayerInv, Destroy
  PROVE  LayerInv'
<1>1. \A p \in Places : p \in Pointers
  BY PointersOnTheWay
<1>2. tables \subseteq Reached
  BY DEF LayerInv, Reached, Filled
<1>3. /\ tables' = {} /\ at' = [p \in Pointers |-> NoPointer] /\ inMemory' = {}
      /\ assigned' = [p \in Places |-> NoPointer]
  BY <1>2 DEF Destroy
<1>4. Filled' = {}
  BY <1>3 DEF Filled
<1>5. QED
  BY <1>1, <1>3, <1>4 DEF LayerInv

LEMMA InvImpliesSparse == LayerConstants /\ LayerInv => SparseArray
<1> SUFFICES ASSUME LayerConstants, LayerInv PROVE SparseArray
  OBVIOUS
<1>1. ASSUME NEW p \in Places
      PROVE  IF Allocated(p) THEN Data(p) = assigned[p] ELSE assigned[p] = NoPointer
  <2>1. ASSUME assigned[p] # NoPointer PROVE Allocated(p)
    <3>1. <<>> \in tables /\ \A n \in 1..NAxes : at[SubSeq(p, 1, n)] # NoPointer
      BY <2>1 DEF LayerInv, Filled
    <3>2. \A n \in 1..NAxes : p[n] \in Coordinates
      BY DEF Places, PathsOf
    <3>3. QED
      BY <3>1, <3>2 DEF Allocated
  <2>2. QED
    BY <2>1 DEF LayerInv, Data
<1>2. inMemory = {PageOf(p) : p \in {p \in Pointers : at[p] # NoPointer}}
  BY DEF LayerInv, Filled
<1>3. tables \subseteq Reached
  BY DEF LayerInv, Reached, Filled
<1>4. QED
  BY <1>1, <1>2, <1>3 DEF SparseArray

\* memindex.c is a sparse array, whatever is assigned, freed and destroyed: it
\* finds what was assigned and not freed, keeps the pages that hold a pointer
\* and no others in memory, and can reach every table it has to unmap.
THEOREM LayersAreSparseArrays == LayerConstants /\ LayerSpec => []SparseArray
<1>1. LayerConstants /\ LayerInit => LayerConstants /\ LayerInv
  BY InitLayerInv
<1>2. LayerConstants /\ LayerInv /\ [LayerNext]_layerVars => (LayerConstants /\ LayerInv)'
  <2>1. SUFFICES ASSUME LayerConstants, LayerInv, [LayerNext]_layerVars PROVE LayerInv'
    BY DEF LayerConstants, Places, PathsOf, Coordinates
  <2>2. CASE UNCHANGED layerVars
    BY <2>1, <2>2 DEF layerVars, LayerInv, Filled
  <2>3. QED
    BY <2>1, <2>2, AssignLayerInv, FreeLayerInv, DestroyLayerInv DEF LayerNext
<1>3. LayerConstants /\ LayerInv => SparseArray
  BY InvImpliesSparse
<1>4. QED
  BY <1>1, <1>2, <1>3, PTL DEF LayerSpec

-----------------------------------------------------------------------------
(* The blocks of the scalars: the inductive invariant. *)

\* The ids that have a block at the root, the pairs that have one in a family.
RootIds == IF hooked THEN inUse ELSE {}
FamilyIds == parents \X inUse

\* The slots of the nodes N for the ids U, if r gives the objects of the root
\* and f those of the families.
LaidOut(N, U, r, f) ==
  [n \in Positions |-> [s \in Ids |->
     IF n \notin N \/ s \notin U THEN None
     ELSE IF n = Root THEN RootBlock(r[s])
     ELSE FamilyBlock(f[<<Parent(n), s>>], ChildNumber(n))]]

BlocksLaidOut ==
  \E r \in Bijection(RootIds, rootOut), f \in Bijection(FamilyIds, familyOut) :
    slot = LaidOut(Nodes, inUse, r, f)

Inner == {p \in Positions : p.level < MaxDepth}

TreeShape ==
  /\ hooked \in BOOLEAN
  /\ parents \subseteq Inner /\ IsFiniteSet(parents)
  /\ parents # {} => hooked

ObjectsOut ==
  /\ inUse \subseteq Ids
  /\ rootOut \subseteq BlockObjects /\ familyOut \subseteq BlockObjects

GroupsCounted ==
  /\ groups \in [Positions -> SUBSET Groups]
  /\ \A n \in Positions \ Nodes : groups[n] = {}
  /\ groupsOut = GroupCount(groups, Nodes)

TablesCounted ==
  tablesOut = IF hooked THEN NChildren * Cardinality(parents) + 1 ELSE 0

ScalarInv ==
  /\ TreeShape
  /\ ObjectsOut
  /\ GroupsCounted
  /\ TablesCounted
  /\ BlocksLaidOut

-----------------------------------------------------------------------------
(* Positions, and the children's place in the tree. *)

LEMMA PositionMeaning ==
  ASSUME NEW n
  PROVE  n \in Positions <=> n \in Index /\ n.level \in Levels /\ Inside(n)
<1>1. ASSUME n \in Positions
      PROVE  n \in Index /\ n.level \in Levels /\ Inside(n)
  <2>1. PICK l \in Levels : n \in [level : {l}, ijk : [Axes -> 0..(2^l - 1)]]
    BY <1>1 DEF Positions
  <2>2. 2^l \in Nat
    <3>1. l \in 0..30
      BY MaxDepthAssumption DEF Levels
    <3>2. QED
      BY <3>1, PowerPositive
  <2>3. n \in Index /\ n.level = l
    BY <2>1, <2>2, MaxDepthAssumption DEF Index, Levels
  <2>4. \A a \in Axes : n.ijk[a] \in 0..(2^l - 1)
    BY <2>1
  <2>5. QED
    BY <2>1, <2>2, <2>3, <2>4 DEF Inside
<1>2. ASSUME n \in Index, n.level \in Levels, Inside(n)
      PROVE  n \in Positions
  <2>1. 2^n.level \in Nat
    <3>1. n.level \in 0..30
      BY <1>2, MaxDepthAssumption DEF Levels
    <3>2. QED
      BY <3>1, PowerPositive
  <2>2. n.ijk \in [Axes -> 0..(2^n.level - 1)]
    BY <1>2, <2>1 DEF Index, Inside
  <2>3. n \in [level : {n.level}, ijk : [Axes -> 0..(2^n.level - 1)]]
    BY <1>2, <2>2 DEF Index
  <2>4. QED
    BY <1>2, <2>3 DEF Positions
<1>3. QED
  BY <1>1, <1>2

LEMMA ChildPosition ==
  ASSUME NEW p \in Inner, NEW q \in Children(p)
  PROVE  /\ q \in Positions /\ q # Root /\ Parent(q) = p
         /\ p \in Index
<1>1. p \in Index /\ p.level \in Levels /\ Inside(p) /\ p.level < MaxDepth
  BY PositionMeaning DEF Inner
<1>2. q \in Index /\ q.level = p.level + 1 /\ Parent(q) = p
  BY <1>1, ChildOfParent
<1>3. p.level =< 29 /\ q.level \in Levels /\ q.level # 0
  BY <1>1, <1>2, MaxDepthAssumption DEF Levels
<1>4. Inside(q)
  BY <1>1, <1>3, ChildInside
<1>5. QED
  BY <1>1, <1>2, <1>3, <1>4, PositionMeaning, OnlyRootAtTop

LEMMA RootPosition == Root \in Positions /\ Root \in Inner
<1>1. Root \in Index /\ Root.level = 0 /\ Inside(Root)
  BY OnlyRootAtTop
<1>2. QED
  BY <1>1, PositionMeaning, MaxDepthAssumption DEF Inner, Levels

\* A position is in the family of its parent, and the root in none.
LEMMA FamilyOfParent ==
  ASSUME NEW n \in Positions, Parent(n) \in Inner
  PROVE  n \in Children(Parent(n)) /\ n # Root
<1>1. n \in Index /\ n.level \in Levels
  BY PositionMeaning
<1>2. Parent(n).level \in Levels
  BY PositionMeaning DEF Inner
<1>3. n.level > 0
  BY <1>1, <1>2, MaxDepthAssumption DEF Parent, Levels
<1>4. n \in Children(Parent(n))
  BY <1>1, <1>3, ChildOfItsParent
<1>5. QED
  BY <1>4, ChildPosition

\* The nodes are the root and the children of the nodes with children.
LEMMA NodeMeaning ==
  ASSUME TreeShape
  PROVE  /\ Nodes \subseteq Positions
         /\ \A n \in Positions : n \in Nodes <=> hooked /\ (n = Root \/ Parent(n) \in parents)
<1>1. Nodes \subseteq Positions
  BY ChildPosition, RootPosition DEF Nodes, TreeShape
<1>2. ASSUME NEW n \in Positions, n \in Nodes
      PROVE  hooked /\ (n = Root \/ Parent(n) \in parents)
  BY <1>2, ChildPosition DEF Nodes, TreeShape
<1>3. ASSUME NEW n \in Positions, hooked, n = Root \/ Parent(n) \in parents
      PROVE  n \in Nodes
  BY <1>3, FamilyOfParent DEF Nodes, TreeShape
<1>4. QED
  BY <1>1, <1>2, <1>3

LEMMA ChildNumberMeaning ==
  ASSUME NEW p \in Inner
  PROVE  /\ \A c \in ChildNumbers : /\ IndexChild(p, c) \in Children(p)
                                    /\ ChildNumber(IndexChild(p, c)) = c
         /\ \A n \in Children(p) : /\ ChildNumber(n) \in ChildNumbers
                                   /\ IndexChild(p, ChildNumber(n)) = n
<1>1. p \in Index
  BY PositionMeaning DEF Inner
<1>2. \A n \in Children(p) : \E c \in ChildNumbers : IndexChild(p, c) = n
  BY DEF Children, ChildNumbers
<1>3. \A n \in Children(p) : Parent(n) = p
  BY <1>1, ChildOfParent
<1>4. \A n \in Children(p) : ChildNumber(n) \in ChildNumbers /\ IndexChild(p, ChildNumber(n)) = n
  <2>1. SUFFICES ASSUME NEW n \in Children(p)
                 PROVE  ChildNumber(n) \in ChildNumbers /\ IndexChild(p, ChildNumber(n)) = n
    OBVIOUS
  <2>2. ChildNumber(n) = CHOOSE c \in ChildNumbers : IndexChild(p, c) = n
    BY <1>3 DEF ChildNumber
  <2>3. \E c \in ChildNumbers : IndexChild(p, c) = n
    BY <1>2
  <2>4. QED
    BY <2>2, <2>3
<1>5. \A c \in ChildNumbers : IndexChild(p, c) \in Children(p)
  BY DEF Children, ChildNumbers
<1>6. \A c \in ChildNumbers : ChildNumber(IndexChild(p, c)) = c
  BY <1>1, <1>4, <1>5, ChildrenDiffer DEF ChildNumbers
<1>7. QED
  BY <1>4, <1>5, <1>6

\* How many nodes there are.
LEMMA NodeCount ==
  ASSUME TreeShape, hooked
  PROVE  /\ IsFiniteSet(Nodes)
         /\ Cardinality(Nodes) = NChildren * Cardinality(parents) + 1
         /\ Cardinality(parents) \in Nat
<1> DEFINE D == parents \X ChildNumbers
           C == Nodes \ {Root}
           f == [x \in D |-> IndexChild(x[1], x[2])]
<1>1. IsFiniteSet(ChildNumbers) /\ Cardinality(ChildNumbers) = NChildren
  BY NChildrenType, FS_Interval DEF ChildNumbers
<1>2. IsFiniteSet(parents) /\ Cardinality(parents) \in Nat
  BY FS_CardinalityType DEF TreeShape
<1>3. IsFiniteSet(D) /\ Cardinality(D) = Cardinality(parents) * NChildren
  BY <1>1, <1>2, FS_Product
<1>4. \A x \in D : /\ x[1] \in parents /\ x[1] \in Inner /\ x[2] \in ChildNumbers
                   /\ IndexChild(x[1], x[2]) \in Children(x[1])
                   /\ x = <<x[1], x[2]>>
  BY ChildNumberMeaning DEF TreeShape
<1>5. f \in [D -> C]
  BY <1>4, ChildPosition DEF Nodes
<1>6. ASSUME NEW x \in D, NEW y \in D, f[x] = f[y]
      PROVE  x = y
  <2>1. IndexChild(x[1], x[2]) = IndexChild(y[1], y[2])
    BY <1>6
  <2>2. x[1] = y[1]
    BY <1>4, <2>1, ChildPosition
  <2>3. x[2] = y[2]
    BY <1>4, <2>1, <2>2, ChildNumberMeaning
  <2>4. QED
    BY <1>4, <2>2, <2>3
<1>7. ASSUME NEW n \in C
      PROVE  \E x \in D : f[x] = n
  <2>1. Parent(n) \in parents /\ n \in Positions
    BY NodeMeaning
  <2>2. n \in Children(Parent(n)) /\ Parent(n) \in Inner
    BY <2>1, FamilyOfParent DEF TreeShape
  <2>3. ChildNumber(n) \in ChildNumbers /\ IndexChild(Parent(n), ChildNumber(n)) = n
    BY <2>2, ChildNumberMeaning
  <2>4. <<Parent(n), ChildNumber(n)>> \in D
    BY <2>1, <2>3
  <2>5. QED
    BY <2>3, <2>4
<1>8. ExistsBijection(D, C)
  <2>1. f \in Bijection(D, C)
    BY <1>5, <1>6, <1>7 DEF Bijection, Injection, Surjection, IsInjective
  <2>2. QED
    BY <2>1 DEF ExistsBijection
<1>9. IsFiniteSet(C) /\ Cardinality(C) = Cardinality(parents) * NChildren
  BY <1>3, <1>8, FS_Bijection
<1>10. Nodes = C \cup {Root} /\ Root \notin C
  BY DEF Nodes
<1>11. IsFiniteSet(C \cup {Root}) /\ Cardinality(C \cup {Root}) = Cardinality(C) + 1
  BY <1>9, <1>10, FS_AddElement
<1>12. NChildren \in Nat
  BY NChildrenType
<1>13. Cardinality(parents) * NChildren = NChildren * Cardinality(parents)
  BY <1>2, <1>12
<1>14. QED
  BY <1>2, <1>9, <1>10, <1>11, <1>12, <1>13, Zenon

-----------------------------------------------------------------------------
(* One to one. *)

LEMMA InjectionOntoRange ==
  ASSUME NEW S, NEW T, NEW f \in Injection(S, T)
  PROVE  f \in Bijection(S, Range(f)) /\ Range(f) \subseteq T
BY DEF Injection, Surjection, Bijection, IsInjective, Range

LEMMA BijectionMeaning ==
  ASSUME NEW S, NEW T, NEW f \in Bijection(S, T)
  PROVE  /\ f \in [S -> T]
         /\ \A x, y \in S : f[x] = f[y] => x = y
         /\ \A t \in T : \E x \in S : f[x] = t
BY DEF Injection, Surjection, Bijection, IsInjective

LEMMA BijectionFrom ==
  ASSUME NEW S, NEW T, NEW f \in [S -> T],
         \A x, y \in S : f[x] = f[y] => x = y,
         \A t \in T : \E x \in S : f[x] = t
  PROVE  f \in Bijection(S, T)
BY DEF Injection, Surjection, Bijection, IsInjective

LEMMA SameSize ==
  ASSUME NEW S, NEW T, NEW f \in Bijection(S, T), IsFiniteSet(S)
  PROVE  IsFiniteSet(T) /\ Cardinality(T) = Cardinality(S)
<1>1. ExistsBijection(S, T)
  BY DEF ExistsBijection
<1>2. QED
  BY <1>1, FS_Bijection

LEMMA Joined ==
  ASSUME NEW A, NEW B, NEW C, NEW D, NEW f \in Bijection(A, B), NEW g \in Bijection(C, D),
         A \cap C = {}, B \cap D = {}
  PROVE  [x \in A \cup C |-> IF x \in A THEN f[x] ELSE g[x]] \in Bijection(A \cup C, B \cup D)
<1> DEFINE h == [x \in A \cup C |-> IF x \in A THEN f[x] ELSE g[x]]
<1>1. /\ f \in [A -> B] /\ \A x, y \in A : f[x] = f[y] => x = y
      /\ \A t \in B : \E x \in A : f[x] = t
  BY BijectionMeaning
<1>2. /\ g \in [C -> D] /\ \A x, y \in C : g[x] = g[y] => x = y
      /\ \A t \in D : \E x \in C : g[x] = t
  BY BijectionMeaning
<1>3. h \in [A \cup C -> B \cup D]
  BY <1>1, <1>2
<1>4. \A x, y \in A \cup C : h[x] = h[y] => x = y
  BY <1>1, <1>2
<1>5. \A t \in B \cup D : \E x \in A \cup C : h[x] = t
  BY <1>1, <1>2
<1> HIDE DEF h
<1>6. h \in Bijection(A \cup C, B \cup D)
  BY <1>3, <1>4, <1>5, BijectionFrom
<1>7. QED
  BY <1>6 DEF h

LEMMA PartKept ==
  ASSUME NEW A, NEW B, NEW f \in Bijection(A, B), NEW C \in SUBSET A
  PROVE  [x \in C |-> f[x]] \in Bijection(C, B \ {f[x] : x \in A \ C})
<1> DEFINE h == [x \in C |-> f[x]]
<1>1. /\ f \in [A -> B] /\ \A x, y \in A : f[x] = f[y] => x = y
      /\ \A t \in B : \E x \in A : f[x] = t
  BY BijectionMeaning
<1>2. h \in [C -> B \ {f[x] : x \in A \ C}]
  BY <1>1
<1>3. \A x, y \in C : h[x] = h[y] => x = y
  BY <1>1
<1>4. \A t \in B \ {f[x] : x \in A \ C} : \E x \in C : h[x] = t
  BY <1>1
<1> HIDE DEF h
<1>5. h \in Bijection(C, B \ {f[x] : x \in A \ C})
  BY <1>2, <1>3, <1>4, BijectionFrom
<1>6. QED
  BY <1>5 DEF h

\* A pool that is large enough hands out objects of which none is out, one for
\* each: there are such functions for CHOOSE to find.
LEMMA PickMeaning ==
  ASSUME NEW S, IsFiniteSet(S), MaxBlocks \in Nat, NEW out \in SUBSET BlockObjects, CanPick(S, out)
  PROVE  /\ Pick(S, out) \in Bijection(S, Range(Pick(S, out)))
         /\ Range(Pick(S, out)) \subseteq BlockObjects \ out
<1> DEFINE T == BlockObjects \ out
<1>1. IsFiniteSet(BlockObjects)
  BY FS_Interval DEF BlockObjects
<1>2. IsFiniteSet(T)
  BY <1>1, FS_Difference
<1>3. Cardinality(S) \in Nat /\ Cardinality(T) \in Nat /\ Cardinality(S) =< Cardinality(T)
  BY <1>2, FS_CardinalityType DEF CanPick
<1>4. PICK f : f \in Bijection(1..Cardinality(S), S)
  BY FS_CardinalityType DEF ExistsBijection
<1>5. PICK g : g \in Bijection(1..Cardinality(T), T)
  BY <1>2, FS_CardinalityType DEF ExistsBijection
<1>6. /\ f \in [1..Cardinality(S) -> S]
      /\ \A t \in S : \E x \in 1..Cardinality(S) : f[x] = t
  <2>1. PICK A : A = 1..Cardinality(S)
    OBVIOUS
  <2>2. f \in Bijection(A, S)
    BY <1>4, <2>1
  <2>3. /\ f \in [A -> S] /\ \A x, y \in A : f[x] = f[y] => x = y
        /\ \A t \in S : \E x \in A : f[x] = t
    BY <2>2, BijectionMeaning
  <2>4. QED
    BY <2>1, <2>3
<1>7. /\ g \in [1..Cardinality(T) -> T]
      /\ \A x, y \in 1..Cardinality(T) : g[x] = g[y] => x = y
  <2>1. PICK A : A = 1..Cardinality(T)
    OBVIOUS
  <2>2. g \in Bijection(A, T)
    BY <1>5, <2>1
  <2>3. /\ g \in [A -> T] /\ \A x, y \in A : g[x] = g[y] => x = y
        /\ \A t \in T : \E x \in A : g[x] = t
    BY <2>2, BijectionMeaning
  <2>4. QED
    BY <2>1, <2>3
<1> DEFINE number(x) == CHOOSE i \in 1..Cardinality(S) : f[i] = x
           h == [x \in S |-> g[number(x)]]
<1>8. \A x \in S : number(x) \in 1..Cardinality(S) /\ f[number(x)] = x
  BY <1>6
<1>9. \A x \in S : number(x) \in 1..Cardinality(T)
  BY <1>3, <1>8
<1>10. \A x, y \in S : number(x) = number(y) => x = y
  BY <1>8
<1> HIDE DEF number
<1>11. h \in [S -> T]
  BY <1>7, <1>9
<1>12. \A x, y \in S : h[x] = h[y] => x = y
  BY <1>7, <1>9, <1>10
<1>13. h \in [S -> T] /\ IsInjective(h)
  BY <1>11, <1>12 DEF IsInjective
<1> HIDE DEF h
<1>14. Pick(S, out) \in [S -> T] /\ IsInjective(Pick(S, out))
  BY <1>13 DEF Pick
<1>15. Pick(S, out) \in Injection(S, T)
  BY <1>14 DEF Injection
<1>16. QED
  BY <1>15, InjectionOntoRange, Zenon
-----------------------------------------------------------------------------
(* The groups of a set of nodes. *)

PairsOf(g, S) == {x \in S \X Groups : x[2] \in g[x[1]]}

LEMMA GroupsFinite ==
  ASSUME ScalarConstants
  PROVE  IsFiniteSet(Ids) /\ IsFiniteSet(Groups)
<1>1. IsFiniteSet(Ids)
  BY FS_Interval DEF ScalarConstants, Ids
<1> DEFINE f == [s \in Ids |-> GroupOf(s)]
<1>2. f \in Surjection(Ids, Groups)
  BY DEF Surjection, Groups
<1>3. QED
  BY <1>1, <1>2, FS_Surjection

LEMMA PairsFinite ==
  ASSUME ScalarConstants, NEW S, IsFiniteSet(S), NEW g
  PROVE  IsFiniteSet(PairsOf(g, S)) /\ GroupCount(g, S) = Cardinality(PairsOf(g, S))
         /\ GroupCount(g, S) \in Nat
<1>1. IsFiniteSet(S \X Groups)
  BY GroupsFinite, FS_Product
<1>2. PairsOf(g, S) \subseteq S \X Groups
  BY DEF PairsOf
<1>3. IsFiniteSet(PairsOf(g, S))
  BY <1>1, <1>2, FS_Subset
<1>4. QED
  BY <1>3, FS_CardinalityType DEF GroupCount, PairsOf

LEMMA GroupsOfTwo ==
  ASSUME ScalarConstants, NEW S, NEW T, IsFiniteSet(S), IsFiniteSet(T), S \cap T = {}, NEW g
  PROVE  GroupCount(g, S \cup T) = GroupCount(g, S) + GroupCount(g, T)
<1>1. PairsOf(g, S \cup T) = PairsOf(g, S) \cup PairsOf(g, T)
  BY DEF PairsOf
<1>2. PairsOf(g, S) \cap PairsOf(g, T) = {}
  BY DEF PairsOf
<1>3. IsFiniteSet(S \cup T)
  BY DisjointUnion
<1>4. /\ IsFiniteSet(PairsOf(g, S)) /\ GroupCount(g, S) = Cardinality(PairsOf(g, S))
      /\ IsFiniteSet(PairsOf(g, T)) /\ GroupCount(g, T) = Cardinality(PairsOf(g, T))
      /\ GroupCount(g, S \cup T) = Cardinality(PairsOf(g, S \cup T))
  BY <1>3, PairsFinite
<1>5. QED
  BY <1>1, <1>2, <1>4, DisjointUnion

LEMMA GroupsAgree ==
  ASSUME NEW S, NEW g, NEW h, \A n \in S : g[n] = h[n]
  PROVE  GroupCount(g, S) = GroupCount(h, S)
<1>1. {x \in S \X Groups : x[2] \in g[x[1]]} = {x \in S \X Groups : x[2] \in h[x[1]]}
  OBVIOUS
<1>2. QED
  BY <1>1 DEF GroupCount

LEMMA GroupsAlike ==
  ASSUME ScalarConstants, NEW S, IsFiniteSet(S), NEW G \in SUBSET Groups, NEW g, \A n \in S : g[n] = G
  PROVE  GroupCount(g, S) = Cardinality(S) * Cardinality(G)
<1>1. {x \in S \X Groups : x[2] \in g[x[1]]} = S \X G
  OBVIOUS
<1>2. IsFiniteSet(G)
  BY GroupsFinite, FS_Subset
<1>3. Cardinality(S \X G) = Cardinality(S) * Cardinality(G)
  BY <1>2, FS_Product
<1>4. QED
  BY <1>1, <1>3 DEF GroupCount

\* One group more for the nodes of S that have none.
LEMMA GroupAdded ==
  ASSUME ScalarConstants, NEW S, IsFiniteSet(S), NEW k \in Groups, NEW g, NEW h,
         \A n \in S : h[n] = g[n] \cup {k}
  PROVE  GroupCount(h, S) = GroupCount(g, S) + Cardinality({n \in S : k \notin g[n]})
<1> DEFINE R == {n \in S : k \notin g[n]}
           Q == R \X {k}
<1>1. PairsOf(h, S) = PairsOf(g, S) \cup Q
  BY DEF PairsOf
<1>2. PairsOf(g, S) \cap Q = {}
  BY DEF PairsOf
<1>3. IsFiniteSet(R)
  BY FS_Subset
<1>4. IsFiniteSet({k}) /\ Cardinality({k}) = 1
  BY FS_Singleton
<1>5. IsFiniteSet(Q) /\ Cardinality(Q) = Cardinality(R) * Cardinality({k})
  BY <1>3, <1>4, FS_Product
<1>6. Cardinality(R) * 1 = Cardinality(R)
  BY <1>3, FS_CardinalityType
<1> HIDE DEF R, Q
<1>7. Cardinality(PairsOf(h, S)) = Cardinality(PairsOf(g, S)) + Cardinality(Q)
  BY <1>1, <1>2, <1>5, PairsFinite, DisjointUnion
<1>8. GroupCount(h, S) = GroupCount(g, S) + Cardinality(R)
  BY <1>4, <1>5, <1>6, <1>7, PairsFinite
<1>9. QED
  BY <1>8 DEF R

-----------------------------------------------------------------------------
(* One action at a time. *)

LEMMA InitScalarInv == ScalarConstants /\ ScalarsInit => ScalarInv
<1> SUFFICES ASSUME ScalarConstants, ScalarsInit PROVE ScalarInv
  OBVIOUS
<1>1. TreeShape /\ ObjectsOut /\ TablesCounted
  BY FS_EmptySet DEF ScalarsInit, TreeShape, ObjectsOut, TablesCounted
<1>2. Nodes = {}
  BY DEF ScalarsInit, Nodes
<1>3. GroupCount(groups, Nodes) = 0
  <2>1. {x \in {} \X Groups : x[2] \in groups[x[1]]} = {}
    OBVIOUS
  <2>2. QED
    BY <1>2, <2>1, FS_EmptySet DEF GroupCount
<1>4. GroupsCounted
  BY <1>3 DEF ScalarsInit, GroupsCounted
<1>5. BlocksLaidOut
  <2>1. RootIds = {} /\ FamilyIds = {}
    BY DEF ScalarsInit, RootIds, FamilyIds
  <2> DEFINE e == [x \in {} |-> x]
  <2>2. e \in Bijection({}, {})
    BY DEF Bijection, Injection, Surjection, IsInjective
  <2>3. slot = LaidOut(Nodes, inUse, e, e)
    BY <1>2 DEF ScalarsInit, LaidOut, NoSlots
  <2>4. rootOut = {} /\ familyOut = {}
    BY DEF ScalarsInit
  <2>5. QED
    BY <2>1, <2>2, <2>3, <2>4 DEF BlocksLaidOut
<1>6. QED
  BY <1>1, <1>4, <1>5 DEF ScalarInv

LEMMA DestroyScalarInv ==
  ASSUME ScalarConstants, ScalarInv, TreeDestroy
  PROVE  ScalarInv'
<1>1. TreeShape' /\ ObjectsOut' /\ TablesCounted'
  BY FS_EmptySet DEF TreeDestroy, ScalarInv, TreeShape, ObjectsOut, TablesCounted
<1>2. Nodes' = {}
  BY DEF TreeDestroy, Nodes
<1>3. GroupCount(groups', {}) = 0
  <2>1. {x \in {} \X Groups : x[2] \in groups'[x[1]]} = {}
    OBVIOUS
  <2>2. QED
    BY <2>1, FS_EmptySet DEF GroupCount
<1>4. GroupsCounted'
  BY <1>2, <1>3 DEF TreeDestroy, GroupsCounted
<1>5. BlocksLaidOut'
  <2>1. RootIds' = {} /\ FamilyIds' = {} /\ rootOut' = {} /\ familyOut' = {}
    BY DEF TreeDestroy, RootIds, FamilyIds
  <2> DEFINE e == [x \in {} |-> x]
  <2>2. e \in Bijection({}, {})
    BY DEF Bijection, Injection, Surjection, IsInjective
  <2>3. slot' = LaidOut(Nodes', inUse', e, e)
    BY <1>2 DEF TreeDestroy, LaidOut, NoSlots
  <2>4. QED
    BY <2>1, <2>2, <2>3 DEF BlocksLaidOut
<1>6. QED
  BY <1>1, <1>4, <1>5 DEF ScalarInv

\* Without a tree there are no objects.
LEMMA NothingOut ==
  ASSUME ScalarInv, ~hooked
  PROVE  parents = {} /\ Nodes = {} /\ rootOut = {} /\ familyOut = {}
<1>1. parents = {} /\ Nodes = {}
  BY DEF ScalarInv, TreeShape, Nodes
<1>2. PICK r \in Bijection(RootIds, rootOut), f \in Bijection(FamilyIds, familyOut) : TRUE
  BY DEF ScalarInv, BlocksLaidOut
<1>3. RootIds = {} /\ FamilyIds = {}
  BY <1>1 DEF RootIds, FamilyIds
<1>4. \A t \in rootOut : \E x \in RootIds : r[x] = t
  BY BijectionMeaning
<1>5. \A t \in familyOut : \E x \in FamilyIds : f[x] = t
  BY BijectionMeaning
<1>6. QED
  BY <1>1, <1>3, <1>4, <1>5

LEMMA UsedFinite ==
  ASSUME ScalarConstants, ObjectsOut
  PROVE  IsFiniteSet(inUse) /\ Cardinality(inUse) \in Nat
         /\ GroupsOf(inUse) \subseteq Groups
         /\ IsFiniteSet(GroupsOf(inUse)) /\ Cardinality(GroupsOf(inUse)) \in Nat
<1>1. IsFiniteSet(inUse)
  BY GroupsFinite, FS_Subset DEF ObjectsOut
<1>2. GroupsOf(inUse) \subseteq Groups
  BY DEF ObjectsOut, GroupsOf, Groups
<1>3. IsFiniteSet(GroupsOf(inUse))
  BY <1>2, GroupsFinite, FS_Subset
<1>4. QED
  BY <1>1, <1>2, <1>3, FS_CardinalityType

\* What a family gets: an object for each id, keyed by its parent and the id.
LEMMA FamilyKeys ==
  ASSUME NEW p, NEW U, NEW R, NEW g \in Bijection(U, R)
  PROVE  [x \in {p} \X U |-> g[x[2]]] \in Bijection({p} \X U, R)
<1> DEFINE h == [x \in {p} \X U |-> g[x[2]]]
<1>1. /\ g \in [U -> R] /\ \A x, y \in U : g[x] = g[y] => x = y
      /\ \A t \in R : \E x \in U : g[x] = t
  BY BijectionMeaning
<1>2. \A x \in {p} \X U : x[1] = p /\ x[2] \in U /\ x = <<x[1], x[2]>>
  OBVIOUS
<1>3. h \in [{p} \X U -> R]
  BY <1>1
<1>4. \A x, y \in {p} \X U : h[x] = h[y] => x = y
  BY <1>1, <1>2
<1>5. \A t \in R : \E x \in {p} \X U : h[x] = t
  <2>1. SUFFICES ASSUME NEW t \in R PROVE \E x \in {p} \X U : h[x] = t
    OBVIOUS
  <2>2. PICK u \in U : g[u] = t
    BY <1>1
  <2>3. <<p, u>> \in {p} \X U /\ h[<<p, u>>] = t
    BY <2>2
  <2>4. QED
    BY <2>3
<1> HIDE DEF h
<1>6. h \in Bijection({p} \X U, R)
  BY <1>3, <1>4, <1>5, BijectionFrom
<1>7. QED
  BY <1>6 DEF h

\* What an id gets: an object for each family.
LEMMA IdKeys ==
  ASSUME NEW P, NEW s, NEW R, NEW g \in Bijection(P, R)
  PROVE  [x \in P \X {s} |-> g[x[1]]] \in Bijection(P \X {s}, R)
<1> DEFINE h == [x \in P \X {s} |-> g[x[1]]]
<1>1. /\ g \in [P -> R] /\ \A x, y \in P : g[x] = g[y] => x = y
      /\ \A t \in R : \E x \in P : g[x] = t
  BY BijectionMeaning
<1>2. \A x \in P \X {s} : x[2] = s /\ x[1] \in P /\ x = <<x[1], x[2]>>
  OBVIOUS
<1>3. h \in [P \X {s} -> R]
  BY <1>1
<1>4. \A x, y \in P \X {s} : h[x] = h[y] => x = y
  BY <1>1, <1>2
<1>5. \A t \in R : \E x \in P \X {s} : h[x] = t
  <2>1. SUFFICES ASSUME NEW t \in R PROVE \E x \in P \X {s} : h[x] = t
    OBVIOUS
  <2>2. PICK u \in P : g[u] = t
    BY <1>1
  <2>3. <<u, s>> \in P \X {s} /\ h[<<u, s>>] = t
    BY <2>2
  <2>4. QED
    BY <2>3
<1> HIDE DEF h
<1>6. h \in Bijection(P \X {s}, R)
  BY <1>3, <1>4, <1>5, BijectionFrom
<1>7. QED
  BY <1>6 DEF h

LEMMA CreateScalarInv ==
  ASSUME ScalarConstants, ScalarInv, TreeCreate
  PROVE  ScalarInv'
<1>1. /\ ~hooked /\ hooked' = TRUE /\ parents' = {Root} /\ inUse' = inUse
      /\ parents = {} /\ rootOut = {} /\ familyOut = {}
  BY NothingOut DEF TreeCreate
<1>2. PICK r : r = Pick(inUse, {})
  OBVIOUS
<1>3. /\ rootOut' = Range(r) /\ familyOut' = Range(r)
      /\ slot' = [n \in Positions |->
                    IF n = Root
                    THEN [s \in Ids |-> IF s \in inUse THEN RootBlock(r[s]) ELSE None]
                    ELSE FamilySlots(Root, r, n)]
  BY <1>2 DEF TreeCreate
<1>4. r \in Bijection(inUse, Range(r)) /\ Range(r) \subseteq BlockObjects
  <2>1. CanPick(inUse, {}) /\ {} \in SUBSET BlockObjects /\ MaxBlocks \in Nat
    BY <1>1 DEF TreeCreate, ScalarConstants
  <2>2. IsFiniteSet(inUse)
    BY UsedFinite DEF ScalarInv
  <2>3. QED
    BY <1>2, <2>1, <2>2, PickMeaning
<1>5. TreeShape'
  BY <1>1, RootPosition, FS_Singleton DEF TreeShape
<1>6. ObjectsOut'
  BY <1>1, <1>3, <1>4 DEF ObjectsOut, ScalarInv
<1>7. Nodes' = {Root} \cup Children(Root)
  BY <1>1 DEF Nodes
<1>8. NChildren \in Nat /\ Cardinality({Root}) = 1
  BY NChildrenType, FS_Singleton
<1>9. TablesCounted'
  <2>1. tablesOut' = NChildren + 1
    BY DEF TreeCreate
  <2>2. NChildren * 1 = NChildren
    BY <1>8
  <2>3. QED
    BY <1>1, <1>8, <2>1, <2>2 DEF TablesCounted
<1>10. GroupsCounted'
  <2>1. groups' = [n \in Positions |-> IF n \in Nodes' THEN GroupsOf(inUse) ELSE {}]
    BY <1>7 DEF TreeCreate
  <2>2. IsFiniteSet(Nodes') /\ Cardinality(Nodes') = NChildren + 1 /\ Nodes' \subseteq Positions
    <3>1. Root \in Index /\ IsFiniteSet(Children(Root)) /\ Cardinality(Children(Root)) = NChildren
      BY OnlyRootAtTop, FamilySize
    <3>2. Root \notin Children(Root) /\ Children(Root) \subseteq Positions
      BY ChildPosition, RootPosition
    <3>3. Nodes' = Children(Root) \cup {Root}
      BY <1>7
    <3>4. QED
      BY <3>1, <3>2, <3>3, RootPosition, FS_AddElement
  <2>3. GroupCount(groups', Nodes') = (NChildren + 1) * Cardinality(GroupsOf(inUse))
    <3>1. \A n \in Nodes' : groups'[n] = GroupsOf(inUse)
      BY <2>1, <2>2
    <3>2. GroupsOf(inUse) \subseteq Groups
      BY UsedFinite DEF ScalarInv
    <3>3. PICK N, g : N = Nodes' /\ g = groups'
      OBVIOUS
    <3>4. GroupCount(g, N) = Cardinality(N) * Cardinality(GroupsOf(inUse))
      BY <2>2, <3>1, <3>2, <3>3, GroupsAlike
    <3>5. QED
      BY <2>2, <3>3, <3>4
  <2>4. groupsOut' = (NChildren + 1) * Cardinality(GroupsOf(inUse))
    BY DEF TreeCreate
  <2>5. GroupsOf(inUse) \subseteq Groups
    BY UsedFinite DEF ScalarInv
  <2>6. QED
    BY <2>1, <2>3, <2>4, <2>5 DEF GroupsCounted
<1>11. BlocksLaidOut'
  <2>1. RootIds' = inUse /\ FamilyIds' = {Root} \X inUse
    BY <1>1 DEF RootIds, FamilyIds
  <2> DEFINE f == [x \in {Root} \X inUse |-> r[x[2]]]
  <2>2. f \in Bijection({Root} \X inUse, Range(r))
    BY <1>4, FamilyKeys
  <2>3. slot' = LaidOut(Nodes', inUse, r, f)
    <3>1. \A n \in Positions : n # Root =>
            FamilySlots(Root, r, n) =
              [s \in Ids |-> IF n \notin Nodes' \/ s \notin inUse THEN None
                             ELSE FamilyBlock(f[<<Parent(n), s>>], ChildNumber(n))]
      <4>1. SUFFICES ASSUME NEW n \in Positions, n # Root
                     PROVE  FamilySlots(Root, r, n) =
                              [s \in Ids |-> IF n \notin Nodes' \/ s \notin inUse THEN None
                                ELSE FamilyBlock(f[<<Parent(n), s>>], ChildNumber(n))]
        OBVIOUS
      <4>2. CASE n \in Children(Root)
        <5>1. Parent(n) = Root /\ n \in Nodes'
          BY <1>7, <4>2, ChildPosition, RootPosition
        <5>2. \A s \in inUse : f[<<Parent(n), s>>] = r[s]
          BY <5>1
        <5>3. QED
          BY <4>2, <5>1, <5>2 DEF FamilySlots
      <4>3. CASE n \notin Children(Root)
        <5>1. n \notin Nodes'
          BY <1>7, <4>1, <4>3
        <5>2. slot[n] = NoSlots
          <6>1. Nodes = {}
            BY <1>1, NothingOut
          <6>2. QED
            BY <6>1 DEF ScalarInv, BlocksLaidOut, LaidOut, NoSlots
        <5>3. QED
          BY <4>3, <5>1, <5>2 DEF FamilySlots, NoSlots
      <4>4. QED
        BY <4>2, <4>3
    <3>2. Root \in Nodes'
      BY <1>7
    <3> HIDE DEF f
    <3>3. QED
      BY <1>3, <3>1, <3>2 DEF LaidOut
  <2> HIDE DEF f
  <2>4. QED
    BY <1>1, <1>3, <1>4, <2>1, <2>2, <2>3 DEF BlocksLaidOut
<1>12. QED
  BY <1>5, <1>6, <1>9, <1>10, <1>11 DEF ScalarInv

LEMMA FamilyNewScalarInv ==
  ASSUME ScalarConstants, ScalarInv, NEW p \in Positions, FamilyNew(p)
  PROVE  ScalarInv'
<1>1. /\ hooked /\ p \in Inner /\ p \in Nodes /\ p \notin parents
      /\ parents' = parents \cup {p} /\ inUse' = inUse /\ hooked' = hooked /\ rootOut' = rootOut
  BY DEF FamilyNew, Inner, Nodes
<1>2. PICK g : g = Pick(inUse, familyOut)
  OBVIOUS
<1>3. familyOut' = familyOut \cup Range(g) /\ slot' = [n \in Positions |-> FamilySlots(p, g, n)]
  BY <1>2 DEF FamilyNew
<1>4. g \in Bijection(inUse, Range(g)) /\ Range(g) \subseteq BlockObjects \ familyOut
  <2>1. CanPick(inUse, familyOut) /\ familyOut \in SUBSET BlockObjects /\ MaxBlocks \in Nat
    BY DEF FamilyNew, ScalarConstants, ScalarInv, ObjectsOut
  <2>2. IsFiniteSet(inUse)
    BY UsedFinite DEF ScalarInv
  <2>3. QED
    BY <1>2, <2>1, <2>2, PickMeaning
<1>5. IsFiniteSet(parents) /\ Cardinality(parents) \in Nat
  BY FS_CardinalityType DEF ScalarInv, TreeShape
<1>6. IsFiniteSet(parents') /\ Cardinality(parents') = Cardinality(parents) + 1
  BY <1>1, <1>5, FS_AddElement
<1>7. TreeShape'
  BY <1>1, <1>6 DEF ScalarInv, TreeShape
<1>8. ObjectsOut'
  BY <1>1, <1>3, <1>4 DEF ScalarInv, ObjectsOut
<1>9. Nodes' = Nodes \cup Children(p) /\ Nodes \cap Children(p) = {}
  <2>1. Nodes' = Nodes \cup Children(p)
    BY <1>1 DEF Nodes
  <2>2. \A n \in Children(p) : n \in Positions /\ n # Root /\ Parent(n) \notin parents
    BY <1>1, ChildPosition
  <2>3. \A n \in Children(p) : n \notin Nodes
    BY <2>2, NodeMeaning DEF ScalarInv
  <2>4. QED
    BY <2>1, <2>3
<1>10. /\ NChildren \in Nat
       /\ IsFiniteSet(Children(p)) /\ Cardinality(Children(p)) = NChildren
       /\ IsFiniteSet(Nodes)
  BY <1>1, NChildrenType, FamilySize, ChildPosition, PositionMeaning, NodeCount DEF Inner, ScalarInv
<1>11. TablesCounted'
  <2>1. tablesOut = NChildren * Cardinality(parents) + 1 /\ tablesOut' = tablesOut + NChildren
    BY <1>1 DEF FamilyNew, ScalarInv, TablesCounted
  <2>2. NChildren * (Cardinality(parents) + 1) + 1 = NChildren * Cardinality(parents) + 1 + NChildren
    BY <1>5, <1>10
  <2>3. QED
    BY <1>1, <1>6, <2>1, <2>2 DEF TablesCounted
<1>12. GroupsCounted'
  <2>1. GroupsOf(inUse) \subseteq Groups
    BY UsedFinite DEF ScalarInv
  <2>2. /\ groups' = [n \in Positions |-> IF n \in Children(p) THEN GroupsOf(inUse) ELSE groups[n]]
        /\ groupsOut' = groupsOut + NChildren * Cardinality(GroupsOf(inUse))
    BY DEF FamilyNew
  <2>3. PICK h : h = groups'
    OBVIOUS
  <2>4. Nodes \subseteq Positions /\ Children(p) \subseteq Positions
    BY <1>1, NodeMeaning, ChildPosition DEF ScalarInv
  <2>5. (\A n \in Children(p) : h[n] = GroupsOf(inUse)) /\ \A n \in Nodes : h[n] = groups[n]
    BY <1>9, <2>2, <2>3, <2>4
  <2>6. GroupCount(h, Children(p)) = NChildren * Cardinality(GroupsOf(inUse))
    BY <1>10, <2>1, <2>5, GroupsAlike
  <2>7. GroupCount(h, Nodes) = GroupCount(groups, Nodes)
    BY <2>5, GroupsAgree
  <2>8. GroupCount(h, Nodes \cup Children(p)) = GroupCount(h, Nodes) + GroupCount(h, Children(p))
    BY <1>9, <1>10, GroupsOfTwo
  <2>9. groupsOut' = GroupCount(groups', Nodes')
    BY <1>9, <2>2, <2>3, <2>6, <2>7, <2>8 DEF ScalarInv, GroupsCounted
  <2>10. groups' \in [Positions -> SUBSET Groups]
    BY <2>1, <2>2 DEF ScalarInv, GroupsCounted
  <2>11. \A n \in Positions \ Nodes' : groups'[n] = {}
    BY <1>9, <2>2 DEF ScalarInv, GroupsCounted
  <2>12. QED
    BY <2>9, <2>10, <2>11 DEF GroupsCounted
<1>13. BlocksLaidOut'
  <2>1. PICK r \in Bijection(RootIds, rootOut), f \in Bijection(FamilyIds, familyOut) :
          slot = LaidOut(Nodes, inUse, r, f)
    BY DEF ScalarInv, BlocksLaidOut
  <2> DEFINE k == [x \in {p} \X inUse |-> g[x[2]]]
             j == [x \in FamilyIds \cup ({p} \X inUse) |-> IF x \in FamilyIds THEN f[x] ELSE k[x]]
  <2>2. k \in Bijection({p} \X inUse, Range(g))
    BY <1>4, FamilyKeys
  <2>3. FamilyIds \cap ({p} \X inUse) = {}
    BY <1>1 DEF FamilyIds
  <2>4. familyOut \cap Range(g) = {}
    BY <1>4
  <2>5. FamilyIds' = FamilyIds \cup ({p} \X inUse)
    BY <1>1 DEF FamilyIds
  <2>6. \A s \in inUse : j[<<p, s>>] = g[s]
    BY <1>1 DEF FamilyIds
  <2>7. \A q \in parents, s \in inUse : j[<<q, s>>] = f[<<q, s>>]
    BY DEF FamilyIds
  <2> HIDE DEF k
  <2>8. j \in Bijection(FamilyIds \cup ({p} \X inUse), familyOut \cup Range(g))
    <3>1. PICK C : C = {p} \X inUse
      OBVIOUS
    <3>2. PICK D : D = Range(g)
      OBVIOUS
    <3>3. k \in Bijection(C, D) /\ FamilyIds \cap C = {} /\ familyOut \cap D = {}
      BY <2>2, <2>3, <2>4, <3>1, <3>2
    <3>4. [x \in FamilyIds \cup C |-> IF x \in FamilyIds THEN f[x] ELSE k[x]]
             \in Bijection(FamilyIds \cup C, familyOut \cup D)
      BY <2>1, <3>3, Joined, Z3
    <3>5. QED
      BY <3>1, <3>2, <3>4
  <2> HIDE DEF j
  <2>9. ASSUME NEW n \in Positions
        PROVE  FamilySlots(p, g, n) =
                 [s \in Ids |-> IF n \notin Nodes' \/ s \notin inUse THEN None
                                ELSE IF n = Root THEN RootBlock(r[s])
                                ELSE FamilyBlock(j[<<Parent(n), s>>], ChildNumber(n))]
    <3>1. CASE n \in Children(p)
      <4>1. Parent(n) = p /\ n \in Nodes' /\ n # Root
        BY <1>1, <1>9, <3>1, ChildPosition
      <4>2. \A s \in inUse : j[<<Parent(n), s>>] = g[s]
        BY <2>6, <4>1
      <4>3. QED
        BY <3>1, <4>1, <4>2 DEF FamilySlots
    <3>2. CASE n \notin Children(p)
      <4>1. n \in Nodes' <=> n \in Nodes
        BY <1>9, <3>2
      <4>2. n \in Nodes /\ n # Root => Parent(n) \in parents
        BY NodeMeaning DEF ScalarInv
      <4>3. n \in Nodes /\ n # Root => \A s \in inUse : j[<<Parent(n), s>>] = f[<<Parent(n), s>>]
        BY <2>7, <4>2
      <4>4. FamilySlots(p, g, n) = slot[n]
        BY <3>2 DEF FamilySlots
      <4>5. slot[n] = [s \in Ids |-> IF n \notin Nodes \/ s \notin inUse THEN None
                                     ELSE IF n = Root THEN RootBlock(r[s])
                                     ELSE FamilyBlock(f[<<Parent(n), s>>], ChildNumber(n))]
        BY <2>1 DEF LaidOut
      <4>6. QED
        BY <4>1, <4>3, <4>4, <4>5
    <3>3. QED
      BY <3>1, <3>2
  <2>10. slot' = LaidOut(Nodes', inUse', r, j)
    BY <1>1, <1>3, <2>9 DEF LaidOut
  <2>11. RootIds' = RootIds
    BY <1>1 DEF RootIds
  <2>12. QED
    BY <1>1, <1>3, <2>1, <2>5, <2>8, <2>10, <2>11 DEF BlocksLaidOut
<1>14. QED
  BY <1>7, <1>8, <1>11, <1>12, <1>13 DEF ScalarInv

\* The objects of id s in the families of S.
ObjectsIn(f, S, s) == {f[<<p, s>>] : p \in S}

\* Child 0 of each family leads to the object of the family.
LEMMA ObjectsOfFamilies ==
  ASSUME TreeShape, NEW r, NEW f, slot = LaidOut(Nodes, inUse, r, f), inUse \subseteq Ids,
         NEW S \in SUBSET parents, NEW s \in inUse
  PROVE  FamilyObjects(S, s) = ObjectsIn(f, S, s)
<1>1. 0 \in ChildNumbers
  BY DimensionAssumption DEF ChildNumbers, NChildren, BitWeight
<1>2. ASSUME NEW p \in S
      PROVE  slot[IndexChild(p, 0)][s] = FamilyBlock(f[<<p, s>>], 0)
  <2>1. IndexChild(p, 0) \in Children(p) /\ ChildNumber(IndexChild(p, 0)) = 0 /\ p \in Inner
    BY <1>1, ChildNumberMeaning DEF TreeShape
  <2>2. IndexChild(p, 0) \in Positions /\ IndexChild(p, 0) # Root /\ Parent(IndexChild(p, 0)) = p
    BY <2>1, ChildPosition
  <2>3. IndexChild(p, 0) \in Nodes
    BY <2>2, NodeMeaning DEF TreeShape
  <2>4. QED
    BY <2>1, <2>2, <2>3 DEF LaidOut
<1>3. \A p \in S : /\ slot[IndexChild(p, 0)][s] # None
                   /\ slot[IndexChild(p, 0)][s].object = f[<<p, s>>]
  <2>1. \A o, c : FamilyBlock(o, c) # None /\ FamilyBlock(o, c).object = o
    BY DEF FamilyBlock, None
  <2>2. QED
    BY <1>2, <2>1
<1>4. QED
  BY <1>3 DEF FamilyObjects, ObjectsIn

LEMMA FamilyFreeScalarInv ==
  ASSUME ScalarConstants, ScalarInv, NEW p \in Positions, FamilyFree(p)
  PROVE  ScalarInv'
<1>1. /\ p \in parents /\ hooked /\ p \in Inner
      /\ parents' = parents \ {p} /\ inUse' = inUse /\ hooked' = hooked /\ rootOut' = rootOut
  BY DEF FamilyFree, ScalarInv, TreeShape
<1>2. IsFiniteSet(parents) /\ Cardinality(parents) \in Nat
  BY FS_CardinalityType DEF ScalarInv, TreeShape
<1>3. IsFiniteSet(parents') /\ Cardinality(parents') = Cardinality(parents) - 1
  BY <1>1, <1>2, FS_RemoveElement
<1>4. TreeShape'
  BY <1>1, <1>3 DEF ScalarInv, TreeShape
<1>5. ObjectsOut'
  BY <1>1 DEF FamilyFree, ScalarInv, ObjectsOut
<1>6. Nodes = Nodes' \cup Children(p) /\ Nodes' \cap Children(p) = {}
  <2>1. Nodes = Nodes' \cup Children(p)
    BY <1>1 DEF Nodes
  <2>2. \A n \in Children(p) : n # Root /\ \A q \in parents' : n \notin Children(q)
    BY <1>1, ChildPosition DEF ScalarInv, TreeShape
  <2>3. \A n \in Children(p) : n \notin Nodes'
    BY <1>1, <2>2 DEF Nodes
  <2>4. QED
    BY <2>1, <2>3
<1>7. /\ NChildren \in Nat
      /\ IsFiniteSet(Children(p)) /\ Cardinality(Children(p)) = NChildren
      /\ IsFiniteSet(Nodes) /\ IsFiniteSet(Nodes')
  <2>1. p \in Index
    BY <1>1, PositionMeaning DEF Inner
  <2>2. IsFiniteSet(Nodes)
    BY <1>1, NodeCount DEF ScalarInv
  <2>3. QED
    BY <1>6, <2>1, <2>2, NChildrenType, FamilySize, FS_Subset
<1>8. TablesCounted'
  <2>1. tablesOut = NChildren * Cardinality(parents) + 1 /\ tablesOut' = tablesOut - NChildren
    BY <1>1 DEF FamilyFree, ScalarInv, TablesCounted
  <2>2. \A c \in Nat : NChildren * (c - 1) + 1 = (NChildren * c + 1) - NChildren
    BY <1>7
  <2>3. QED
    BY <1>1, <1>2, <1>3, <2>1, <2>2 DEF TablesCounted
<1>9. GroupsCounted'
  <2>1. /\ groups' = [n \in Positions |-> IF n \in Children(p) THEN {} ELSE groups[n]]
        /\ groupsOut' = groupsOut - GroupCount(groups, Children(p))
    BY DEF FamilyFree
  <2>2. PICK h, N : h = groups' /\ N = Nodes'
    OBVIOUS
  <2>3. N \subseteq Positions
    BY <1>6, <2>2, NodeMeaning DEF ScalarInv
  <2>4. \A n \in N : h[n] = groups[n]
    BY <1>6, <2>1, <2>2, <2>3
  <2>5. GroupCount(h, N) = GroupCount(groups, N)
    BY <2>4, GroupsAgree
  <2>6. GroupCount(groups, N \cup Children(p)) = GroupCount(groups, N) + GroupCount(groups, Children(p))
    BY <1>6, <1>7, <2>2, GroupsOfTwo
  <2>7. GroupCount(groups, N) \in Nat /\ GroupCount(groups, Children(p)) \in Nat
    BY <1>7, <2>2, PairsFinite
  <2>8. groupsOut' = GroupCount(groups', Nodes')
    <3>1. groupsOut = GroupCount(groups, N \cup Children(p))
      BY <1>6, <2>2 DEF ScalarInv, GroupsCounted
    <3>2. groupsOut' = GroupCount(groups, N)
      BY <2>1, <2>6, <2>7, <3>1
    <3>3. QED
      BY <2>2, <2>5, <3>2
  <2>9. groups' \in [Positions -> SUBSET Groups]
    BY <2>1 DEF ScalarInv, GroupsCounted
  <2>10. \A n \in Positions \ Nodes' : groups'[n] = {}
    BY <1>6, <2>1 DEF ScalarInv, GroupsCounted
  <2>11. QED
    BY <2>8, <2>9, <2>10 DEF GroupsCounted
<1>10. BlocksLaidOut'
  <2>1. PICK r \in Bijection(RootIds, rootOut), f \in Bijection(FamilyIds, familyOut) :
          slot = LaidOut(Nodes, inUse, r, f)
    BY DEF ScalarInv, BlocksLaidOut
  <2> DEFINE C == (parents \ {p}) \X inUse
             j == [x \in C |-> f[x]]
  <2>2. C \in SUBSET FamilyIds /\ FamilyIds' = C
    BY <1>1 DEF FamilyIds
  <2>3. j \in Bijection(C, familyOut \ {f[x] : x \in FamilyIds \ C})
    BY <2>2, PartKept
  <2>4. {f[x] : x \in FamilyIds \ C} = UNION {FamilyObjects({p}, s) : s \in inUse}
    <3>1. \A s \in inUse : FamilyObjects({p}, s) = {f[<<p, s>>]}
      <4>1. SUFFICES ASSUME NEW s \in inUse PROVE FamilyObjects({p}, s) = {f[<<p, s>>]}
        OBVIOUS
      <4>2. FamilyObjects({p}, s) = {f[<<q, s>>] : q \in {p}}
        <5>1. PICK S \in SUBSET parents : S = {p}
          BY <1>1
        <5>2. TreeShape /\ inUse \subseteq Ids
          BY DEF ScalarInv, ObjectsOut
        <5>3. FamilyObjects(S, s) = ObjectsIn(f, S, s)
          BY <2>1, <5>2, ObjectsOfFamilies
        <5>4. QED
          BY <5>1, <5>3 DEF ObjectsIn
      <4>3. QED
        BY <4>2
    <3>2. FamilyIds \ C = {p} \X inUse
      BY <1>1 DEF FamilyIds
    <3>3. {f[x] : x \in {p} \X inUse} = {f[<<p, s>>] : s \in inUse}
      <4>1. \A x \in {p} \X inUse : x = <<p, x[2]>> /\ x[2] \in inUse
        OBVIOUS
      <4>2. \A s \in inUse : <<p, s>> \in {p} \X inUse
        OBVIOUS
      <4>3. ASSUME NEW y, y \in {f[x] : x \in {p} \X inUse}
            PROVE  y \in {f[<<p, s>>] : s \in inUse}
        BY <4>1, <4>3
      <4>4. ASSUME NEW y, y \in {f[<<p, s>>] : s \in inUse}
            PROVE  y \in {f[x] : x \in {p} \X inUse}
        BY <4>2, <4>4
      <4>5. QED
        BY <4>3, <4>4
    <3>4. UNION {FamilyObjects({p}, s) : s \in inUse} = {f[<<p, s>>] : s \in inUse}
      <4>1. \A y : (\E s \in inUse : y \in FamilyObjects({p}, s)) <=> \E s \in inUse : y = f[<<p, s>>]
        BY <3>1
      <4>2. QED
        BY <4>1
    <3>5. QED
      BY <3>2, <3>3, <3>4
  <2>5. j \in Bijection(FamilyIds', familyOut')
    BY <2>2, <2>3, <2>4 DEF FamilyFree
  <2>6. \A q \in parents \ {p}, s \in inUse : j[<<q, s>>] = f[<<q, s>>]
    OBVIOUS
  <2> HIDE DEF j
  <2>7. ASSUME NEW n \in Positions
        PROVE  (IF n \in Children(p) THEN NoSlots ELSE slot[n]) =
                 [s \in Ids |-> IF n \notin Nodes' \/ s \notin inUse THEN None
                                ELSE IF n = Root THEN RootBlock(r[s])
                                ELSE FamilyBlock(j[<<Parent(n), s>>], ChildNumber(n))]
    <3>1. CASE n \in Children(p)
      BY <1>6, <3>1 DEF NoSlots
    <3>2. CASE n \notin Children(p)
      <4>1. n \in Nodes' <=> n \in Nodes
        BY <1>6, <3>2
      <4>2. n \in Nodes /\ n # Root => Parent(n) \in parents \ {p}
        <5>1. n \in Nodes /\ n # Root => Parent(n) \in parents
          BY NodeMeaning DEF ScalarInv
        <5>2. n \in Nodes /\ n # Root => n \in Children(Parent(n))
          BY <5>1, FamilyOfParent DEF ScalarInv, TreeShape
        <5>3. QED
          BY <3>2, <5>1, <5>2
      <4>3. n \in Nodes /\ n # Root => \A s \in inUse : j[<<Parent(n), s>>] = f[<<Parent(n), s>>]
        BY <2>6, <4>2
      <4>4. slot[n] = [s \in Ids |-> IF n \notin Nodes \/ s \notin inUse THEN None
                                     ELSE IF n = Root THEN RootBlock(r[s])
                                     ELSE FamilyBlock(f[<<Parent(n), s>>], ChildNumber(n))]
        BY <2>1 DEF LaidOut
      <4>5. QED
        BY <3>2, <4>1, <4>3, <4>4
    <3>3. QED
      BY <3>1, <3>2
  <2>8. slot' = [n \in Positions |-> IF n \in Children(p) THEN NoSlots ELSE slot[n]]
    BY DEF FamilyFree
  <2>9. slot' = LaidOut(Nodes', inUse', r, j)
    BY <1>1, <2>7, <2>8 DEF LaidOut
  <2>10. RootIds' = RootIds
    BY <1>1 DEF RootIds
  <2>11. QED
    BY <1>1, <2>1, <2>5, <2>9, <2>10 DEF BlocksLaidOut
<1>11. QED
  BY <1>4, <1>5, <1>8, <1>9, <1>10 DEF ScalarInv

\* The lowest free id is one that is free.
LEMMA LowestIsFree ==
  ASSUME ScalarConstants, ObjectsOut, inUse # Ids
  PROVE  LowestFree \in Ids \ inUse /\ GroupOf(LowestFree) \in Groups
<1>1. Ids \ inUse \in SUBSET Nat /\ Ids \ inUse # {}
  <2>1. Ids \subseteq Nat
    BY DEF ScalarConstants, Ids
  <2>2. inUse \subseteq Ids
    BY DEF ObjectsOut
  <2>3. QED
    BY <2>1, <2>2
<1>2. \E s \in Ids \ inUse : \A r \in Ids \ inUse : s =< r
  BY <1>1, LeastNatural
<1>3. LowestFree \in Ids \ inUse
  BY <1>2 DEF LowestFree
<1>4. QED
  BY <1>3 DEF Groups

\* An id that comes or goes while there is no tree.
LEMMA NoTreeNoSlots ==
  ASSUME ScalarInv, ~hooked, hooked' = hooked, parents' = parents, inUse' \subseteq Ids,
         UNCHANGED <<groups, slot, rootOut, familyOut, groupsOut, tablesOut>>
  PROVE  ScalarInv'
<1>1. parents = {} /\ Nodes = {} /\ rootOut = {} /\ familyOut = {}
  BY NothingOut
<1>2. TreeShape' /\ ObjectsOut' /\ TablesCounted'
  BY DEF ScalarInv, TreeShape, ObjectsOut, TablesCounted
<1>3. Nodes' = Nodes
  BY DEF Nodes
<1>4. GroupsCounted'
  BY <1>3 DEF ScalarInv, GroupsCounted
<1>5. BlocksLaidOut'
  <2>1. PICK r \in Bijection(RootIds, rootOut), f \in Bijection(FamilyIds, familyOut) :
          slot = LaidOut(Nodes, inUse, r, f)
    BY DEF ScalarInv, BlocksLaidOut
  <2>2. RootIds' = RootIds /\ FamilyIds' = FamilyIds
    BY <1>1 DEF RootIds, FamilyIds
  <2>3. slot' = LaidOut(Nodes', inUse', r, f)
    BY <1>1, <1>3, <2>1 DEF LaidOut
  <2>4. QED
    BY <2>1, <2>2, <2>3 DEF BlocksLaidOut
<1>6. QED
  BY <1>2, <1>4, <1>5 DEF ScalarInv

LEMMA ScalarNewScalarInv ==
  ASSUME ScalarConstants, ScalarInv, ScalarNew
  PROVE  ScalarInv'
<1>1. PICK s : s = LowestFree
  OBVIOUS
<1>2. /\ s \in Ids /\ s \notin inUse /\ GroupOf(s) \in Groups
      /\ inUse' = inUse \cup {s} /\ inUse' \subseteq Ids
      /\ hooked' = hooked /\ parents' = parents /\ tablesOut' = tablesOut
  BY <1>1, LowestIsFree DEF ScalarNew, ScalarInv, ObjectsOut
<1>3. CASE ~hooked
  BY <1>2, <1>3, NoTreeNoSlots DEF ScalarNew
<1>4. CASE hooked
  <2>1. PICK r \in Bijection(RootIds, rootOut), f \in Bijection(FamilyIds, familyOut) :
          slot = LaidOut(Nodes, inUse, r, f)
    BY DEF ScalarInv, BlocksLaidOut
  <2>2. PICK h, g : h = Pick({s}, rootOut) /\ g = Pick(parents, familyOut)
    OBVIOUS
  <2>3. slot[Root][s] = None
    BY <1>2, <2>1, RootPosition DEF LaidOut
  <2>4. h \in Bijection({s}, Range(h)) /\ Range(h) \subseteq BlockObjects \ rootOut
    <3>1. Cardinality({s}) = Cardinality({0}) /\ IsFiniteSet({s})
      BY FS_Singleton
    <3>2. CanPick({s}, rootOut) /\ rootOut \in SUBSET BlockObjects /\ MaxBlocks \in Nat
      BY <3>1 DEF ScalarNew, CanPick, ScalarConstants, ScalarInv, ObjectsOut
    <3>3. QED
      BY <2>2, <3>1, <3>2, PickMeaning
  <2>5. g \in Bijection(parents, Range(g)) /\ Range(g) \subseteq BlockObjects \ familyOut
    <3>1. IsFiniteSet(parents)
      BY DEF ScalarInv, TreeShape
    <3>2. CanPick(parents, familyOut) /\ familyOut \in SUBSET BlockObjects /\ MaxBlocks \in Nat
      BY DEF ScalarNew, ScalarConstants, ScalarInv, ObjectsOut
    <3>3. QED
      BY <2>2, <3>1, <3>2, PickMeaning
  <2>6. h \in [{s} -> Range(h)] /\ Range(h) = {h[s]}
    BY <2>4, BijectionMeaning DEF Range
  <2>7. (CHOOSE o \in Range(h) : TRUE) = h[s] /\ Range(h) # {}
    BY <2>6
  <2>8. /\ rootOut' = rootOut \cup Range(h)
        /\ familyOut' = familyOut \cup Range(g)
        /\ slot' = [n \in Positions |->
             IF n \notin Nodes THEN slot[n]
             ELSE [slot[n] EXCEPT ![s] =
               IF n # Root THEN FamilyBlock(g[Parent(n)], ChildNumber(n)) ELSE RootBlock(h[s])]]
        /\ groups' = [n \in Positions |->
                        IF n \in Nodes THEN groups[n] \cup {GroupOf(s)} ELSE {}]
        /\ groupsOut' = groupsOut + Cardinality({n \in Nodes : GroupOf(s) \notin groups[n]})
    <3>1. AllocBlocks(s)
      BY <1>1, <1>4 DEF ScalarNew
    <3>2. PICK R : R = Range(h)
      OBVIOUS
    <3>3. R = (IF slot[Root][s] # None THEN {} ELSE Range(Pick({s}, rootOut)))
      BY <2>2, <2>3, <3>2
    <3>4. R # {} /\ (CHOOSE o \in R : TRUE) = h[s]
      BY <2>7, <3>2
    <3>5. /\ rootOut' = rootOut \cup R
          /\ familyOut' = familyOut \cup Range(g)
          /\ slot' = [n \in Positions |->
               IF n \notin Nodes THEN slot[n]
               ELSE [slot[n] EXCEPT ![s] =
                 IF n # Root THEN FamilyBlock(g[Parent(n)], ChildNumber(n))
                 ELSE IF R = {} THEN @ ELSE RootBlock(CHOOSE o \in R : TRUE)]]
      BY <2>2, <3>1, <3>3 DEF AllocBlocks
    <3>6. /\ groups' = [n \in Positions |->
                          IF n \in Nodes THEN groups[n] \cup {GroupOf(s)} ELSE {}]
          /\ groupsOut' = groupsOut + Cardinality({n \in Nodes : GroupOf(s) \notin groups[n]})
      BY <3>1 DEF AllocBlocks
    <3>7. QED
      BY <3>2, <3>4, <3>5, <3>6
  <2>9. TreeShape' /\ ObjectsOut' /\ TablesCounted'
    BY <1>2, <2>4, <2>5, <2>8 DEF ScalarInv, TreeShape, ObjectsOut, TablesCounted
  <2>10. Nodes' = Nodes /\ Nodes \subseteq Positions /\ IsFiniteSet(Nodes)
    BY <1>2, <1>4, NodeMeaning, NodeCount DEF Nodes, ScalarInv
  <2>11. GroupsCounted'
    <3>1. PICK q, k : q = groups' /\ k = GroupOf(s)
      OBVIOUS
    <3>2. \A n \in Nodes : q[n] = groups[n] \cup {k}
      BY <2>8, <2>10, <3>1
    <3>3. GroupCount(q, Nodes) = GroupCount(groups, Nodes) + Cardinality({n \in Nodes : k \notin groups[n]})
      BY <1>2, <2>10, <3>1, <3>2, GroupAdded
    <3>4. groupsOut' = GroupCount(groups', Nodes')
      BY <2>8, <2>10, <3>1, <3>3 DEF ScalarInv, GroupsCounted
    <3>5. groups' \in [Positions -> SUBSET Groups]
      BY <1>2, <2>8 DEF ScalarInv, GroupsCounted
    <3>6. \A n \in Positions \ Nodes' : groups'[n] = {}
      BY <2>8, <2>10
    <3>7. QED
      BY <3>4, <3>5, <3>6 DEF GroupsCounted
  <2>12. BlocksLaidOut'
    <3> DEFINE r2 == [x \in inUse \cup {s} |-> IF x \in inUse THEN r[x] ELSE h[x]]
               k == [x \in parents \X {s} |-> g[x[1]]]
               f2 == [x \in FamilyIds \cup (parents \X {s}) |-> IF x \in FamilyIds THEN f[x] ELSE k[x]]
    <3>1. RootIds = inUse /\ RootIds' = inUse \cup {s} /\ FamilyIds' = FamilyIds \cup (parents \X {s})
      BY <1>2, <1>4 DEF RootIds, FamilyIds
    <3>2. r2 \in Bijection(inUse \cup {s}, rootOut \cup Range(h))
      <4>1. r \in Bijection(inUse, rootOut) /\ inUse \cap {s} = {} /\ rootOut \cap Range(h) = {}
        BY <1>2, <2>1, <2>4, <3>1
      <4>2. QED
        BY <2>4, <4>1, Joined
    <3>3. k \in Bijection(parents \X {s}, Range(g))
      BY <2>5, IdKeys
    <3>4. \A q \in parents : f2[<<q, s>>] = g[q]
      BY <1>2 DEF FamilyIds
    <3>5. \A q \in parents, t \in inUse : f2[<<q, t>>] = f[<<q, t>>]
      BY DEF FamilyIds
    <3>6. r2[s] = h[s] /\ \A t \in inUse : r2[t] = r[t]
      BY <1>2
    <3> HIDE DEF k
    <3>7. f2 \in Bijection(FamilyIds \cup (parents \X {s}), familyOut \cup Range(g))
      <4>1. FamilyIds \cap (parents \X {s}) = {} /\ familyOut \cap Range(g) = {}
        BY <1>2, <2>5 DEF FamilyIds
      <4>2. QED
        BY <2>1, <3>3, <4>1, Joined
    <3> HIDE DEF r2, f2
    <3>8. ASSUME NEW n \in Positions
          PROVE  slot'[n] =
                   [t \in Ids |-> IF n \notin Nodes \/ t \notin inUse \cup {s} THEN None
                                  ELSE IF n = Root THEN RootBlock(r2[t])
                                  ELSE FamilyBlock(f2[<<Parent(n), t>>], ChildNumber(n))]
      <4>1. slot[n] = [t \in Ids |-> IF n \notin Nodes \/ t \notin inUse THEN None
                                     ELSE IF n = Root THEN RootBlock(r[t])
                                     ELSE FamilyBlock(f[<<Parent(n), t>>], ChildNumber(n))]
        BY <2>1 DEF LaidOut
      <4>2. CASE n \notin Nodes
        BY <2>8, <4>1, <4>2
      <4>3. CASE n = Root /\ n \in Nodes
        <5>1. slot'[n] = [slot[n] EXCEPT ![s] = RootBlock(h[s])]
          BY <2>8, <4>3
        <5>2. slot[n] = [t \in Ids |-> IF t \notin inUse THEN None ELSE RootBlock(r[t])]
          BY <4>1, <4>3
        <5>3. slot'[n] = [t \in Ids |-> IF t \notin inUse \cup {s} THEN None ELSE RootBlock(r2[t])]
          BY <1>2, <3>6, <5>1, <5>2
        <5>4. QED
          BY <4>3, <5>3
      <4>4. CASE n # Root /\ n \in Nodes
        <5>1. slot'[n] = [slot[n] EXCEPT ![s] = FamilyBlock(g[Parent(n)], ChildNumber(n))]
          BY <2>8, <4>4
        <5>2. Parent(n) \in parents
          BY <4>4, NodeMeaning DEF ScalarInv
        <5>3. /\ f2[<<Parent(n), s>>] = g[Parent(n)]
              /\ \A t \in inUse : f2[<<Parent(n), t>>] = f[<<Parent(n), t>>]
          BY <3>4, <3>5, <5>2
        <5>4. slot[n] = [t \in Ids |-> IF t \notin inUse THEN None
                                       ELSE FamilyBlock(f[<<Parent(n), t>>], ChildNumber(n))]
          BY <4>1, <4>4
        <5>5. PICK q, c : q = Parent(n) /\ c = ChildNumber(n)
          OBVIOUS
        <5>6. slot'[n] = [t \in Ids |-> IF t \notin inUse \cup {s} THEN None
                                        ELSE FamilyBlock(f2[<<q, t>>], c)]
          <6>1. PICK b : b = FamilyBlock(g[q], c)
            OBVIOUS
          <6>2. b = FamilyBlock(f2[<<q, s>>], c)
            BY <5>3, <5>5, <6>1
          <6>3. slot'[n] = [t \in Ids |-> IF t = s THEN b ELSE slot[n][t]]
            BY <1>2, <5>1, <5>4, <5>5, <6>1
          <6>4. \A t \in inUse : f2[<<q, t>>] = f[<<q, t>>]
            BY <5>3, <5>5
          <6>5. \A t \in Ids : slot[n][t] = IF t \notin inUse THEN None ELSE FamilyBlock(f[<<q, t>>], c)
            BY <5>4, <5>5
          <6>6. \A t \in Ids : (IF t = s THEN b ELSE slot[n][t]) =
                  IF t \notin inUse \cup {s} THEN None ELSE FamilyBlock(f2[<<q, t>>], c)
            BY <1>2, <6>2, <6>4, <6>5
          <6>7. QED
            BY <6>3, <6>6
        <5>7. QED
          BY <4>4, <5>5, <5>6
      <4>5. QED
        BY <4>2, <4>3, <4>4
    <3>9. slot' = LaidOut(Nodes, inUse \cup {s}, r2, f2)
      <4>1. slot' = [n \in Positions |-> slot'[n]]
        BY <2>8
      <4>2. QED
        BY <3>8, <4>1 DEF LaidOut
    <3>10. QED
      BY <1>2, <2>8, <2>10, <3>1, <3>2, <3>7, <3>9 DEF BlocksLaidOut
  <2>13. QED
    BY <2>9, <2>11, <2>12 DEF ScalarInv
<1>5. QED
  BY <1>3, <1>4

LEMMA ScalarFreeScalarInv ==
  ASSUME ScalarConstants, ScalarInv, NEW s \in Ids, ScalarFree(s)
  PROVE  ScalarInv'
<1>1. /\ s \in inUse /\ inUse' = inUse \ {s} /\ inUse' \subseteq Ids
      /\ hooked' = hooked /\ parents' = parents
      /\ UNCHANGED <<groups, groupsOut, tablesOut>>
  BY DEF ScalarFree, ScalarInv, ObjectsOut
<1>2. CASE ~hooked
  BY <1>1, <1>2, NoTreeNoSlots DEF ScalarFree
<1>3. CASE hooked
  <2>1. PICK r \in Bijection(RootIds, rootOut), f \in Bijection(FamilyIds, familyOut) :
          slot = LaidOut(Nodes, inUse, r, f)
    BY DEF ScalarInv, BlocksLaidOut
  <2>2. /\ rootOut' = rootOut \ {slot[Root][s].object}
        /\ familyOut' = familyOut \ FamilyObjects(parents, s)
        /\ slot' = [n \in Positions |-> [slot[n] EXCEPT ![s] = None]]
    BY <1>3 DEF ScalarFree, FreeBlocks
  <2>3. Nodes' = Nodes /\ Root \in Nodes
    BY <1>1, <1>3 DEF Nodes
  <2>4. TreeShape' /\ ObjectsOut' /\ TablesCounted'
    BY <1>1, <2>2 DEF ScalarInv, TreeShape, ObjectsOut, TablesCounted
  <2>5. GroupsCounted'
    BY <1>1, <2>3 DEF ScalarInv, GroupsCounted
  <2>6. BlocksLaidOut'
    <3> DEFINE U == inUse \ {s}
               r2 == [x \in U |-> r[x]]
               C == parents \X U
               f2 == [x \in C |-> f[x]]
    <3>1. RootIds = inUse /\ RootIds' = U /\ FamilyIds' = C /\ U \in SUBSET inUse /\ C \in SUBSET FamilyIds
      BY <1>1, <1>3 DEF RootIds, FamilyIds
    <3>2. r2 \in Bijection(U, rootOut \ {r[x] : x \in inUse \ U})
      BY <2>1, <3>1, PartKept
    <3>3. f2 \in Bijection(C, familyOut \ {f[x] : x \in FamilyIds \ C})
      BY <2>1, <3>1, PartKept
    <3>4. rootOut' = rootOut \ {r[x] : x \in inUse \ U}
      <4>1. slot[Root][s] = RootBlock(r[s])
        BY <1>1, <2>1, <2>3, RootPosition DEF LaidOut
      <4>2. slot[Root][s].object = r[s]
        BY <4>1 DEF RootBlock
      <4>3. inUse \ U = {s}
        BY <1>1
      <4>4. {r[x] : x \in {s}} = {r[s]}
        OBVIOUS
      <4>5. QED
        BY <2>2, <4>2, <4>3, <4>4
    <3>5. familyOut' = familyOut \ {f[x] : x \in FamilyIds \ C}
      <4>1. TreeShape /\ inUse \subseteq Ids /\ parents \in SUBSET parents
        BY DEF ScalarInv, ObjectsOut
      <4>2. FamilyObjects(parents, s) = ObjectsIn(f, parents, s)
        BY <1>1, <2>1, <4>1, ObjectsOfFamilies
      <4>3. FamilyIds \ C = parents \X {s}
        BY <1>1 DEF FamilyIds
      <4>4. {f[x] : x \in parents \X {s}} = ObjectsIn(f, parents, s)
        <5>1. \A x \in parents \X {s} : x = <<x[1], s>> /\ x[1] \in parents
          OBVIOUS
        <5>2. \A p \in parents : <<p, s>> \in parents \X {s}
          OBVIOUS
        <5>3. ASSUME NEW y, y \in {f[x] : x \in parents \X {s}}
              PROVE  y \in ObjectsIn(f, parents, s)
          BY <5>1, <5>3 DEF ObjectsIn
        <5>4. ASSUME NEW y, y \in ObjectsIn(f, parents, s)
              PROVE  y \in {f[x] : x \in parents \X {s}}
          BY <5>2, <5>4 DEF ObjectsIn
        <5>5. QED
          BY <5>3, <5>4
      <4>5. QED
        BY <2>2, <4>2, <4>3, <4>4
    <3>6. \A q \in parents, t \in U : f2[<<q, t>>] = f[<<q, t>>]
      OBVIOUS
    <3>7. \A t \in U : r2[t] = r[t]
      OBVIOUS
    <3> HIDE DEF r2, f2
    <3>8. ASSUME NEW n \in Positions
          PROVE  [slot[n] EXCEPT ![s] = None] =
                   [t \in Ids |-> IF n \notin Nodes \/ t \notin U THEN None
                                  ELSE IF n = Root THEN RootBlock(r2[t])
                                  ELSE FamilyBlock(f2[<<Parent(n), t>>], ChildNumber(n))]
      <4>1. slot[n] = [t \in Ids |-> IF n \notin Nodes \/ t \notin inUse THEN None
                                     ELSE IF n = Root THEN RootBlock(r[t])
                                     ELSE FamilyBlock(f[<<Parent(n), t>>], ChildNumber(n))]
        BY <2>1 DEF LaidOut
      <4>2. n \in Nodes /\ n # Root => Parent(n) \in parents
        BY NodeMeaning DEF ScalarInv
      <4>3. n \in Nodes /\ n # Root => \A t \in U : f2[<<Parent(n), t>>] = f[<<Parent(n), t>>]
        BY <3>6, <4>2
      <4>4. QED
        BY <3>7, <4>1, <4>3
    <3>9. slot' = LaidOut(Nodes, U, r2, f2)
      BY <2>2, <3>8 DEF LaidOut
    <3>10. QED
      BY <1>1, <2>3, <3>1, <3>2, <3>3, <3>4, <3>5, <3>9 DEF BlocksLaidOut
  <2>7. QED
    BY <2>4, <2>5, <2>6 DEF ScalarInv
<1>4. QED
  BY <1>2, <1>3

LEMMA NextScalarInv == ScalarConstants /\ ScalarInv /\ [ScalarsNext]_scalarVars => ScalarInv'
<1> SUFFICES ASSUME ScalarConstants, ScalarInv, [ScalarsNext]_scalarVars PROVE ScalarInv'
  OBVIOUS
<1>1. CASE TreeCreate
  BY <1>1, CreateScalarInv
<1>2. CASE TreeDestroy
  BY <1>2, DestroyScalarInv
<1>3. ASSUME NEW p \in Positions, FamilyNew(p) PROVE ScalarInv'
  BY <1>3, FamilyNewScalarInv
<1>4. ASSUME NEW p \in Positions, FamilyFree(p) PROVE ScalarInv'
  BY <1>4, FamilyFreeScalarInv
<1>5. CASE ScalarNew
  BY <1>5, ScalarNewScalarInv
<1>6. ASSUME NEW s \in Ids, ScalarFree(s) PROVE ScalarInv'
  BY <1>6, ScalarFreeScalarInv
<1>7. CASE UNCHANGED scalarVars
  BY <1>7 DEF scalarVars, ScalarInv, TreeShape, ObjectsOut, GroupsCounted, TablesCounted, BlocksLaidOut,
              Nodes, RootIds, FamilyIds
<1>8. QED
  BY <1>1, <1>2, <1>3, <1>4, <1>5, <1>6, <1>7 DEF ScalarsNext

-----------------------------------------------------------------------------
(* What the invariant says of the check. *)

LEMMA WhatIsOccupied ==
  ASSUME ScalarInv, NEW r \in Bijection(RootIds, rootOut), NEW f \in Bijection(FamilyIds, familyOut),
         slot = LaidOut(Nodes, inUse, r, f)
  PROVE  /\ Occupied = Nodes \X inUse
         /\ \A n \in Nodes, s \in inUse :
              slot[n][s] = IF n = Root THEN RootBlock(r[s])
                           ELSE FamilyBlock(f[<<Parent(n), s>>], ChildNumber(n))
<1>1. Nodes \subseteq Positions /\ inUse \subseteq Ids
  BY NodeMeaning DEF ScalarInv, ObjectsOut
<1>2. \A n \in Nodes, s \in Ids :
        slot[n][s] = IF s \notin inUse THEN None
                     ELSE IF n = Root THEN RootBlock(r[s])
                     ELSE FamilyBlock(f[<<Parent(n), s>>], ChildNumber(n))
  BY <1>1 DEF LaidOut
<1>3. \A o, c : RootBlock(o) # None /\ FamilyBlock(o, c) # None
  BY DEF RootBlock, FamilyBlock, None
<1>4. ASSUME NEW n \in Nodes, NEW s \in Ids
      PROVE  slot[n][s] # None <=> s \in inUse
  <2>1. CASE s \notin inUse
    BY <1>2, <2>1
  <2>2. CASE s \in inUse /\ n = Root
    <3>1. slot[n][s] = RootBlock(r[s])
      BY <1>2, <2>2
    <3>2. QED
      BY <1>3, <2>2, <3>1
  <2>3. CASE s \in inUse /\ n # Root
    <3>1. slot[n][s] = FamilyBlock(f[<<Parent(n), s>>], ChildNumber(n))
      BY <1>2, <2>3
    <3>2. QED
      BY <1>3, <2>3, <3>1
  <2>4. QED
    BY <2>1, <2>2, <2>3
<1>5. Occupied = Nodes \X inUse
  BY <1>1, <1>4 DEF Occupied
<1>6. QED
  BY <1>1, <1>2, <1>5

LEMMA InvCountsOut == ScalarConstants /\ ScalarInv => ChecksOut
<1> SUFFICES ASSUME ScalarConstants, ScalarInv, hooked PROVE ChecksOut
  BY DEF ChecksOut
<1>1. PICK r \in Bijection(RootIds, rootOut), f \in Bijection(FamilyIds, familyOut) :
        slot = LaidOut(Nodes, inUse, r, f)
  BY DEF ScalarInv, BlocksLaidOut
<1>2. Occupied = Nodes \X inUse
  BY <1>1, WhatIsOccupied
<1>3. /\ IsFiniteSet(Nodes) /\ Cardinality(Nodes) = NChildren * Cardinality(parents) + 1
      /\ IsFiniteSet(inUse) /\ IsFiniteSet(parents)
      /\ Cardinality(parents) \in Nat /\ Cardinality(inUse) \in Nat /\ NChildren \in Nat
  BY NodeCount, UsedFinite, NChildrenType DEF ScalarInv, TreeShape
<1>4. Cardinality(Nodes \X inUse) = (NChildren * Cardinality(parents) + 1) * Cardinality(inUse)
  BY <1>3, FS_Product
<1>5. Cardinality(rootOut) = Cardinality(inUse)
  <2>1. r \in Bijection(inUse, rootOut)
    BY <1>1 DEF RootIds
  <2>2. QED
    BY <1>3, <2>1, SameSize
<1>6. Cardinality(familyOut) = Cardinality(parents) * Cardinality(inUse)
  <2>1. IsFiniteSet(FamilyIds) /\ Cardinality(FamilyIds) = Cardinality(parents) * Cardinality(inUse)
    BY <1>3, FS_Product DEF FamilyIds
  <2>2. QED
    BY <1>1, <2>1, SameSize
<1>7. \A n, p, u \in Nat : u + n * (p * u) = (n * p + 1) * u
  OBVIOUS
<1>8. BlocksAttached = BlocksOut
  <2>1. Occupied \cap (Nodes \X inUse) = Nodes \X inUse
    BY <1>2
  <2>2. PICK p, u \in Nat : p = Cardinality(parents) /\ u = Cardinality(inUse)
    BY <1>3
  <2>3. u + NChildren * (p * u) = (NChildren * p + 1) * u
    BY <1>3, <1>7, <2>2
  <2>4. BlocksAttached = (NChildren * p + 1) * u
    BY <1>4, <2>1, <2>2 DEF BlocksAttached
  <2>5. BlocksOut = u + NChildren * (p * u)
    BY <1>5, <1>6, <2>2 DEF BlocksOut
  <2>6. QED
    BY <2>3, <2>4, <2>5
<1>9. BlocksMissing = 0 /\ SlotsFilled = BlocksAttached
  <2>1. (Nodes \X inUse) \ Occupied = {} /\ Occupied \cap (Nodes \X inUse) = Occupied
    BY <1>2
  <2>2. QED
    BY <2>1, FS_EmptySet DEF BlocksMissing, SlotsFilled, BlocksAttached
<1>10. tablesOut = Cardinality(Nodes) /\ groupsOut = GroupCount(groups, Nodes)
  BY <1>3 DEF ScalarInv, TablesCounted, GroupsCounted
<1>11. QED
  BY <1>8, <1>9, <1>10 DEF ChecksOut

\* No block is in two slots, and no slot has a block whose object is not out.
LEMMA InvKeepsApart ==
  ASSUME ScalarConstants, ScalarInv
  PROVE  /\ \A x, y \in Occupied : slot[x[1]][x[2]] = slot[y[1]][y[2]] => x = y
         /\ \A x \in Occupied :
              LET b == slot[x[1]][x[2]] IN
              b.object \in (IF b.of = "root" THEN rootOut ELSE familyOut)
<1>1. PICK r \in Bijection(RootIds, rootOut), f \in Bijection(FamilyIds, familyOut) :
        slot = LaidOut(Nodes, inUse, r, f)
  BY DEF ScalarInv, BlocksLaidOut
<1>2. /\ Occupied = Nodes \X inUse
      /\ \A n \in Nodes, s \in inUse :
           slot[n][s] = IF n = Root THEN RootBlock(r[s])
                        ELSE FamilyBlock(f[<<Parent(n), s>>], ChildNumber(n))
  BY <1>1, WhatIsOccupied
<1>3. /\ r \in [RootIds -> rootOut] /\ \A s, t \in RootIds : r[s] = r[t] => s = t
      /\ f \in [FamilyIds -> familyOut] /\ \A x, y \in FamilyIds : f[x] = f[y] => x = y
  BY <1>1, BijectionMeaning
<1>4. Nodes # {} => RootIds = inUse
  BY DEF Nodes, RootIds
<1>5. ASSUME NEW n \in Nodes, NEW s \in inUse, n # Root
      PROVE  /\ <<Parent(n), s>> \in FamilyIds
             /\ n = IndexChild(Parent(n), ChildNumber(n))
  <2>1. n \in Positions /\ Parent(n) \in parents /\ Parent(n) \in Inner
    BY <1>5, NodeMeaning DEF ScalarInv, TreeShape
  <2>2. n \in Children(Parent(n))
    BY <2>1, FamilyOfParent
  <2>3. QED
    BY <2>1, <2>2, ChildNumberMeaning DEF FamilyIds
<1>6. \A o, c, u, v : /\ RootBlock(o) # FamilyBlock(u, v)
                      /\ RootBlock(o) = RootBlock(u) => o = u
                      /\ FamilyBlock(o, c) = FamilyBlock(u, v) => o = u /\ c = v
                      /\ RootBlock(o).object = o /\ RootBlock(o).of = "root"
                      /\ FamilyBlock(o, c).object = o /\ FamilyBlock(o, c).of # "root"
  BY DEF RootBlock, FamilyBlock
<1>7. ASSUME NEW m \in Nodes, NEW s \in inUse, NEW n \in Nodes, NEW t \in inUse,
             slot[m][s] = slot[n][t]
      PROVE  m = n /\ s = t
  <2>1. CASE m = Root /\ n = Root
    <3>1. RootBlock(r[s]) = RootBlock(r[t])
      BY <1>2, <1>7, <2>1
    <3>2. r[s] = r[t]
      BY <1>6, <3>1
    <3>3. s \in RootIds /\ t \in RootIds
      BY <1>4
    <3>4. QED
      BY <1>3, <2>1, <3>2, <3>3
  <2>2. CASE m = Root /\ n # Root
    <3>1. RootBlock(r[s]) = FamilyBlock(f[<<Parent(n), t>>], ChildNumber(n))
      BY <1>2, <1>7, <2>2
    <3>2. QED
      BY <1>6, <3>1
  <2>3. CASE m # Root /\ n = Root
    <3>1. RootBlock(r[t]) = FamilyBlock(f[<<Parent(m), s>>], ChildNumber(m))
      BY <1>2, <1>7, <2>3
    <3>2. QED
      BY <1>6, <3>1
  <2>4. CASE m # Root /\ n # Root
    <3>1. FamilyBlock(f[<<Parent(m), s>>], ChildNumber(m)) = FamilyBlock(f[<<Parent(n), t>>], ChildNumber(n))
      BY <1>2, <1>7, <2>4
    <3>2. f[<<Parent(m), s>>] = f[<<Parent(n), t>>] /\ ChildNumber(m) = ChildNumber(n)
      BY <1>6, <3>1
    <3>3. <<Parent(m), s>> = <<Parent(n), t>>
      BY <1>3, <1>5, <2>4, <3>2
    <3>4. QED
      BY <1>5, <2>4, <3>2, <3>3
  <2>5. QED
    BY <2>1, <2>2, <2>3, <2>4
<1>8. ASSUME NEW n \in Nodes, NEW s \in inUse
      PROVE  slot[n][s].object \in (IF slot[n][s].of = "root" THEN rootOut ELSE familyOut)
  <2>1. CASE n = Root
    <3>1. slot[n][s] = RootBlock(r[s])
      BY <1>2, <2>1
    <3>2. slot[n][s].object = r[s] /\ slot[n][s].of = "root"
      BY <1>6, <3>1
    <3>3. r[s] \in rootOut
      BY <1>3, <1>4
    <3>4. QED
      BY <3>2, <3>3
  <2>2. CASE n # Root
    <3>1. slot[n][s] = FamilyBlock(f[<<Parent(n), s>>], ChildNumber(n))
      BY <1>2, <2>2
    <3>2. slot[n][s].object = f[<<Parent(n), s>>] /\ slot[n][s].of # "root"
      BY <1>6, <3>1
    <3>3. f[<<Parent(n), s>>] \in familyOut
      BY <1>3, <1>5, <2>2
    <3>4. QED
      BY <3>2, <3>3
  <2>3. QED
    BY <2>1, <2>2
<1>9. \A x \in Occupied : x = <<x[1], x[2]>> /\ x[1] \in Nodes /\ x[2] \in inUse
  BY <1>2
<1>10. QED
  BY <1>7, <1>8, <1>9

\* grid_scalar_check () finds nothing, whatever ids come and go while the tree
\* grows and loses families, and no two scalars or nodes share a block.
THEOREM ScalarsCheckOut == ScalarConstants /\ ScalarsSpec => []GridScalarCheck
<1>1. ScalarConstants /\ ScalarsInit => ScalarConstants /\ ScalarInv
  BY InitScalarInv
<1>2. ScalarConstants /\ ScalarInv /\ [ScalarsNext]_scalarVars => (ScalarConstants /\ ScalarInv)'
  BY NextScalarInv DEF ScalarConstants
<1>3. ScalarConstants /\ ScalarInv => GridScalarCheck
  BY InvCountsOut, InvKeepsApart DEF GridScalarCheck
<1>4. QED
  BY <1>1, <1>2, <1>3, PTL DEF ScalarsSpec
=============================================================================
