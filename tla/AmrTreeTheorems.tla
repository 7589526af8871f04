-------------------------- MODULE AmrTreeTheorems --------------------------
(***************************************************************************)
(* AmrTree keeps its tree whole and 2:1 balanced, for every dimension,     *)
(* every depth an int has room for, and any number of blocks.              *)
(*                                                                         *)
(* Balance is not inductive.  What is, is that every index beside a node   *)
(* with children holds a node (ParentsSurrounded), together with the shape *)
(* of the tree and what the callers on the stack rely on.                  *)
(*                                                                         *)
(* The counters beside the nodes are what a recount would give, because    *)
(* the family of a leaf is never there yet and that of a merged node is    *)
(* all leaves; update_depth () and update_depthmin () find their levels    *)
(* among the counts of leaves because a deepest node is a leaf.            *)
(*                                                                         *)
(* And the tree implements the promise of tree.h (BalancedTree), for the   *)
(* call stack remembers why each node was divided.                         *)
(*                                                                         *)
(* All of it holds under adapt_wavelet () too, for every field and all     *)
(* bounds, and what the call itself promises: it moves a leaf by one level *)
(* at most, and its order of merging leaves no family behind that could be *)
(* merged.  While it refines, no node newer than the call is divided,      *)
(* whatever the cascades of the balance do (GrownFrom).  While it merges,  *)
(* the families left are families of leaves the call began with.  The      *)
(* leaves the call began with do not cover one another, which turns both   *)
(* into levels.                                                            *)
(*                                                                         *)
(* block_gather () copies the ghost cells that block-ghosts.h names, for   *)
(* every tree that tree.c makes, in every dimension, and for blocks of any *)
(* size.  Along an axis the code goes from a ghost cell to the block it is *)
(* in and a place inside of that; the documentation goes by positions in   *)
(* the domain.  Both reach one index, hence one holder, and there is one   *)
(* because the root covers all that is inside of the domain.               *)
(*                                                                         *)
(* And the values: the mean of what a division writes is the block that    *)
(* was there, because over a family the slopes cancel, and a node weighs   *)
(* what a family of that mean does.  Hence refining and coarsening keep    *)
(* the integral of the leaves, and the parents stay means once they are.   *)
(* Then what block_wavelet () finds around a divided block is what its     *)
(* parent's own level held, from which the block was predicted.            *)
(***************************************************************************)
EXTENDS Adapt, MCBlockGhosts, BlockValues, TreeIndexTheorems, WellFoundedInduction,
        SequenceTheorems, FiniteSetTheorems

\* The inductive invariant.
TreeInv ==
  /\ TypeOK
  /\ WholeTree
  /\ ParentsSurrounded
  /\ CallersUndisturbed
  /\ DescendsOneLevel

-----------------------------------------------------------------------------
(* The levels of the counters. *)

\* update_depthmin () finds a level, none beyond depth and none without leaves
\* but that; there are no leaves before it.
LEMMA CoarsestLevelMeaning ==
  ASSUME NEW n \in [Levels -> Int], NEW d \in Levels
  PROVE  LET x == CoarsestLevel(n, d) IN
         /\ x \in 0..d
         /\ x = d \/ n[x] # 0
         /\ \A k \in 0..(x - 1) : n[k] = 0
<1> DEFINE S == {l \in 0..d : l = d \/ n[l] # 0}
<1>1. S \in SUBSET Nat /\ d \in S /\ S \subseteq 0..d
  BY DEF Levels
<1>2. PICK x \in S : \A y \in S : x =< y
  BY <1>1, LeastNatural
<1>3. \A k \in 0..(x - 1) : n[k] = 0
  BY <1>1, <1>2 DEF Levels
<1>4. QED
  BY <1>2, <1>3 DEF CoarsestLevel

\* update_depth () finds a level, none beyond depth and none without leaves but 0;
\* there are no leaves after it.
LEMMA DeepestLevelMeaning ==
  ASSUME NEW n \in [Levels -> Int], NEW d \in Levels
  PROVE  LET x == DeepestLevel(n, d) IN
         /\ x \in 0..d
         /\ x = 0 \/ n[x] # 0
         /\ \A k \in (x + 1)..d : n[k] = 0
<1> DEFINE P(l) == l = 0 \/ n[l] # 0
           S == {k \in 0..d : P(d - k)}
<1>1. S \in SUBSET Nat /\ d \in S /\ S \subseteq 0..d
  BY DEF Levels
<1>2. PICK x \in S : \A y \in S : x =< y
  BY <1>1, LeastNatural
<1>3. \A k \in (d - x + 1)..d : n[k] = 0
  <2>1. SUFFICES ASSUME NEW k \in (d - x + 1)..d
                 PROVE  n[k] = 0
    OBVIOUS
  <2>2. d \in Nat /\ x \in 0..d /\ k \in 1..d /\ d - k \in 0..d /\ d - k < x
    BY <1>1 DEF Levels
  <2>3. d - k \notin S
    BY <1>2, <2>2, <1>1
  <2>4. d - (d - k) = k
    BY <2>2
  <2>5. QED
    BY <2>2, <2>3, <2>4
<1>4. d - x \in 0..d /\ P(d - x)
  BY <1>1 DEF Levels
<1>5. QED
  BY <1>3, <1>4 DEF DeepestLevel

-----------------------------------------------------------------------------
(* Dividing a leaf and merging a family. *)

\* add_children () asserts that no index of the new family holds a node.
LEMMA LeafHasNoChildren ==
  ASSUME TypeOK, WholeTree, NEW p \in leaf
  PROVE  p \in Index /\ p \notin hasChildren /\ Children(p) \cap nodes = {}
<1>1. Exists /\ p \in nodes /\ p \in Index /\ p \notin hasChildren
  BY DEF TypeOK, WholeTree, Exists
<1>2. ASSUME NEW q \in Children(p), q \in nodes
      PROVE  FALSE
  <2>1. q \in Index /\ q.level > 0 /\ Parent(q) = p
    BY <1>1, ChildOfParent DEF Index
  <2>2. QED
    BY <1>1, <1>2, <2>1 DEF WholeTree
<1>3. QED
  BY <1>1, <1>2

\* Dividing a leaf whose box has no gap keeps the tree whole and surrounded.
LEMMA DivideKeepsTree ==
  ASSUME TypeOK, WholeTree, ParentsSurrounded,
         NEW p, Refinable(p),
         \A q \in Neighbors(p) : Inside(q) => q \in nodes,
         DivideLeaf(p)
  PROVE  /\ nodes' \subseteq Index /\ leaf' \subseteq nodes'
         /\ hasChildren' \subseteq nodes'
         /\ nodes \subseteq nodes' /\ leaf \ {p} \subseteq leaf'
         /\ (depthmax' = depthmax => WholeTree')
         /\ ParentsSurrounded'
<1>1. /\ Exists /\ p \in leaf /\ p \in nodes /\ p \in Index
      /\ p \notin hasChildren /\ Children(p) \cap nodes = {}
      /\ p.level < depthmax
  BY LeafHasNoChildren DEF Refinable, TypeOK, Exists
<1>2. /\ nodes' = nodes \cup Children(p)
      /\ hasChildren' = hasChildren \cup {p}
      /\ leaf' = (leaf \ {p}) \cup Children(p)
  BY DEF DivideLeaf
<1>3. \A q \in Children(p) : q \in Index /\ q.level = p.level + 1 /\ Parent(q) = p
  BY <1>1, ChildOfParent
<1>4. p \notin Children(p)
  BY <1>3 DEF Index
<1>5. /\ nodes' \subseteq Index /\ leaf' \subseteq nodes'
      /\ hasChildren' \subseteq nodes' /\ nodes \subseteq nodes'
      /\ leaf \ {p} \subseteq leaf'
  BY <1>1, <1>2, <1>3 DEF TypeOK
<1>6. ASSUME depthmax' = depthmax
      PROVE  WholeTree'
  <2>1. Root \in nodes' /\ leaf' = nodes' \ hasChildren'
    BY <1>1, <1>2, <1>4 DEF WholeTree, TypeOK
  <2>2. \A r \in hasChildren' : Children(r) \subseteq nodes'
    BY <1>1, <1>2 DEF WholeTree
  <2>3. \A q \in nodes' : q.level > 0 => Parent(q) \in hasChildren'
    BY <1>1, <1>2, <1>3 DEF WholeTree
  <2>4. \A q \in Children(p) : Inside(q)
    <3>1. p.level =< 29 /\ Inside(p)
      BY <1>1, MaxDepthAssumption DEF TypeOK, Index, WholeTree
    <3>2. QED
      BY <1>1, <3>1, ChildInside
  <2>5. \A q \in Children(p) : q.level =< depthmax
    BY <1>1, <1>3 DEF TypeOK, Index
  <2>6. \A q \in nodes' : Inside(q) /\ q.level =< depthmax'
    BY <1>1, <1>2, <1>6, <2>4, <2>5 DEF WholeTree
  <2>7. QED
    BY <2>1, <2>2, <2>3, <2>6 DEF WholeTree
<1>7. ParentsSurrounded'
  BY <1>2 DEF ParentsSurrounded
<1>8. QED
  BY <1>5, <1>6, <1>7

\* Merging a family that tree_coarsen () accepts keeps the tree whole and
\* surrounded: an index beside a node with children is never in that family.
LEMMA MergeKeepsTree ==
  ASSUME TypeOK, WholeTree, ParentsSurrounded,
         NEW p, CanCoarsen(p), RemoveChildren(p), depthmax' = depthmax
  PROVE  /\ nodes' \subseteq Index /\ leaf' \subseteq nodes'
         /\ hasChildren' \subseteq nodes'
         /\ WholeTree'
         /\ ParentsSurrounded'
<1>1. /\ Exists /\ p \in hasChildren /\ p \in nodes /\ p \in Index
      /\ Children(p) \subseteq nodes
      /\ Children(p) \cap hasChildren = {}
  BY DEF CanCoarsen, Grandchildless, TypeOK, WholeTree, Exists
<1>2. /\ nodes' = nodes \ Children(p)
      /\ hasChildren' = hasChildren \ {p}
      /\ leaf' = (leaf \ Children(p)) \cup {p}
  BY DEF RemoveChildren
<1>3. \A q \in Children(p) : q \in Index /\ q.level = p.level + 1 /\ Parent(q) = p
  BY <1>1, ChildOfParent
<1>4. p \notin Children(p) /\ Root \notin Children(p)
  BY <1>1, <1>3, OnlyRootAtTop DEF Index
<1>5. /\ nodes' \subseteq Index /\ leaf' \subseteq nodes'
      /\ hasChildren' \subseteq nodes'
  BY <1>1, <1>2, <1>4 DEF TypeOK
<1>6. WholeTree'
  <2>1. Root \in nodes' /\ leaf' = nodes' \ hasChildren'
    BY <1>1, <1>2, <1>4 DEF WholeTree
  <2>2. ASSUME NEW r \in hasChildren'
        PROVE  Children(r) \subseteq nodes'
    <3>1. r \in hasChildren /\ r # p /\ r \in Index /\ Children(r) \subseteq nodes
      BY <1>1, <1>2, <2>2 DEF WholeTree, TypeOK
    <3>2. \A q \in Children(r) : Parent(q) = r
      BY <3>1, ChildOfParent
    <3>3. Children(r) \cap Children(p) = {}
      BY <1>3, <3>1, <3>2
    <3>4. QED
      BY <1>2, <3>1, <3>3
  <2>3. \A q \in nodes' : q.level > 0 => Parent(q) \in hasChildren'
    <3>1. SUFFICES ASSUME NEW q \in nodes', q.level > 0
                   PROVE  Parent(q) \in hasChildren'
      OBVIOUS
    <3>2. q \in nodes /\ q \notin Children(p) /\ q \in Index
      BY <1>2, <3>1 DEF TypeOK
    <3>3. Parent(q) \in hasChildren
      BY <1>1, <3>1, <3>2 DEF WholeTree
    <3>4. Parent(q) # p
      BY <1>1, <3>1, <3>2, ChildrenAreThoseOfParent
    <3>5. QED
      BY <1>2, <3>3, <3>4
  <2>4. \A q \in nodes' : Inside(q) /\ q.level =< depthmax'
    BY <1>1, <1>2 DEF WholeTree
  <2>5. QED
    BY <2>1, <2>2, <2>3, <2>4 DEF WholeTree
<1>7. ASSUME NEW r \in hasChildren', NEW q \in Neighbors(r), Inside(q)
      PROVE  q \in nodes'
  <2>1. r \in hasChildren /\ r # p /\ r \in nodes /\ r \in Index
    BY <1>2, <1>7 DEF TypeOK
  <2>2. q \in nodes
    BY <1>7, <2>1 DEF ParentsSurrounded
  <2>3. SUFFICES ASSUME q \in Children(p)
                 PROVE  FALSE
    BY <1>2, <2>2
  <2>4. q \in Index /\ q.level = p.level + 1 /\ Parent(q) = p
    BY <1>3, <2>3
  <2>5. r \in Neighbors(q) /\ r.level = q.level
    BY <1>7, <2>1, NeighborSymmetric, NeighborMeaning
  <2>6. q.level > 0 /\ r.level > 0
    BY <1>1, <2>4, <2>5 DEF Index
  <2>7. Parent(r) = p \/ Parent(r) \in Neighbors(p)
    BY <2>4, <2>5, <2>6, ParentsOfNeighbors
  <2>8. Parent(r) \in hasChildren /\ r \in Children(Parent(r))
    BY <1>1, <2>1, <2>6, ChildOfItsParent DEF WholeTree
  <2>9. ~Grandchildless(Parent(r))
    BY <2>1, <2>8 DEF Grandchildless
  <2>10. QED
    BY <2>7, <2>8, <2>9 DEF CanCoarsen
<1>8. ParentsSurrounded'
  BY <1>7 DEF ParentsSurrounded
<1>9. QED
  BY <1>5, <1>6, <1>8

\* The counters stay integers, and the levels stay levels.
CounterTypes ==
  /\ nb \in Int /\ nlb \in Int
  /\ nleaves \in [Levels -> Int]
  /\ depth \in Levels
  /\ depthmin \in Levels

LEMMA DivideCounterTypes ==
  ASSUME TypeOK, NEW p \in Index, p.level < depthmax, DivideLeaf(p)
  PROVE  CounterTypes'
<1> DEFINE n == [nleaves EXCEPT ![p.level] = @ - 1,
                                ![p.level + 1] = @ + NChildren]
           d == IF p.level = depth THEN depth + 1 ELSE depth
<1>1. p.level \in Levels /\ p.level + 1 \in Levels /\ NChildren \in Int
  BY NChildrenType, MaxDepthAssumption DEF TypeOK, Index, Levels
<1>2. n \in [Levels -> Int]
  BY <1>1 DEF TypeOK
<1>3. d \in Levels
  BY <1>1 DEF TypeOK, Levels
<1>4. CoarsestLevel(n, d) \in Levels
  <2> HIDE DEF n, d
  <2>1. CoarsestLevel(n, d) \in 0..d
    BY <1>2, <1>3, CoarsestLevelMeaning
  <2>2. QED
    BY <1>3, <2>1, MaxDepthAssumption DEF Levels
<1>5. nb' \in Int /\ nlb' \in Int
  BY <1>1 DEF TypeOK, DivideLeaf
<1>6. nleaves' = n /\ depth' = d /\ depthmin' = CoarsestLevel(n, d)
  BY DEF DivideLeaf
<1>7. QED
  BY <1>2, <1>3, <1>4, <1>5, <1>6 DEF CounterTypes

LEMMA MergeCounterTypes ==
  ASSUME TypeOK, NEW p \in Index, p.level < depthmax, RemoveChildren(p)
  PROVE  CounterTypes'
<1> DEFINE n == [nleaves EXCEPT ![p.level + 1] = @ - NChildren,
                                ![p.level] = @ + 1]
           d == DeepestLevel(n, depth)
<1>1. p.level \in Levels /\ p.level + 1 \in Levels /\ NChildren \in Int
  BY NChildrenType, MaxDepthAssumption DEF TypeOK, Index, Levels
<1>2. n \in [Levels -> Int]
  BY <1>1 DEF TypeOK
<1>3. d \in Levels
  <2> HIDE DEF n
  <2>1. d \in 0..depth
    BY <1>2, DeepestLevelMeaning DEF TypeOK
  <2>2. QED
    BY <2>1, MaxDepthAssumption DEF TypeOK, Levels
<1>4. CoarsestLevel(n, d) \in Levels
  <2> HIDE DEF n, d
  <2>1. CoarsestLevel(n, d) \in 0..d
    BY <1>2, <1>3, CoarsestLevelMeaning
  <2>2. QED
    BY <1>3, <2>1, MaxDepthAssumption DEF Levels
<1>5. nb' \in Int /\ nlb' \in Int
  BY <1>1 DEF TypeOK, RemoveChildren
<1>6. nleaves' = n /\ depth' = d /\ depthmin' = CoarsestLevel(n, d)
  BY DEF RemoveChildren
<1>7. QED
  BY <1>2, <1>3, <1>4, <1>5, <1>6 DEF CounterTypes

-----------------------------------------------------------------------------
(* Gaps in the box of a leaf. *)

\* The last frame of a running refinement.
LEMMA TopFrame ==
  ASSUME TypeOK, WholeTree, CallersUndisturbed, ~Idle
  PROVE  /\ Len(stack) \in Nat \ {0} /\ Top \in Frame
         /\ Top.p \in Index /\ Top.m \in 0..BoxSize /\ Refinable(Top.p)
         /\ \A m \in 0..(Top.m - 1) : ~IsGap(Top.p, m)
<1>1. Len(stack) \in Nat /\ Len(stack) # 0
  BY DEF TypeOK, Idle
<1>2. Top \in Frame /\ Top = stack[Len(stack)] /\ Len(stack) \in 1..Len(stack)
  BY <1>1 DEF TypeOK, Top
<1>3. QED
  BY <1>1, <1>2 DEF CallersUndisturbed, Frame

\* What CallersUndisturbed says of one frame, for given leaves, nodes and depth.
Undisturbed(f, leaves, known, limit) ==
  /\ f.p \in leaves /\ f.p.level < limit
  /\ \A m \in 0..(f.m - 1) :
       ~(/\ m \in NeighborSlots
         /\ Inside(IndexInBox(f.p, m))
         /\ IndexInBox(f.p, m) \notin known)

LEMMA CallersByFrame ==
  /\ CallersUndisturbed <=>
       \A i \in 1..Len(stack) : Undisturbed(stack[i], leaf, nodes, depthmax)
  /\ CallersUndisturbed' <=>
       \A i \in 1..Len(stack') : Undisturbed(stack'[i], leaf', nodes', depthmax')
BY DEF CallersUndisturbed, Undisturbed, Refinable, IsGap

\* When the loop finds no gap ahead, the whole box is full.
LEMMA BoxFull ==
  ASSUME TypeOK, WholeTree, CallersUndisturbed, ~Idle, GapsAhead = {}
  PROVE  \A q \in Neighbors(Top.p) : Inside(q) => q \in nodes
<1>1. SUFFICES ASSUME NEW m \in NeighborSlots, Inside(IndexInBox(Top.p, m))
               PROVE  IndexInBox(Top.p, m) \in nodes
  BY DEF Neighbors
<1>2. m \in 0..(BoxSize - 1) /\ BoxSize \in Nat
  BY DimensionAssumption DEF NeighborSlots, BoxSize, BoxWeight
<1>3. ~IsGap(Top.p, m)
  <2>1. CASE m < Top.m
    BY <1>2, <2>1, TopFrame
  <2>2. CASE m >= Top.m
    BY <1>2, <2>2, TopFrame DEF GapsAhead
  <2>3. QED
    BY <1>2, <2>1, <2>2, TopFrame
<1>4. QED
  BY <1>1, <1>3 DEF IsGap

\* covering () halves a gap once: its parent holds a node, and is a leaf.
LEMMA CoveringIsParent ==
  ASSUME TypeOK, WholeTree, ParentsSurrounded, CallersUndisturbed, ~Idle,
         NEW m \in GapsAhead
  PROVE  LET q == IndexInBox(Top.p, m)
         IN  /\ Covering(q) = Parent(q)
             /\ Parent(q) \in leaf
             /\ Parent(q).level = Top.p.level - 1
             /\ Parent(q).level < depthmax
<1> DEFINE p == Top.p
           q == IndexInBox(p, m)
<1>1. /\ p \in Index /\ p \in nodes /\ p.level < depthmax /\ Exists
      /\ IsGap(p, m)
  BY TopFrame DEF Refinable, TypeOK, Exists, GapsAhead
<1>2. /\ q \in Neighbors(p) /\ Inside(q) /\ q \notin nodes
      /\ q \in Index /\ q.level = p.level
  BY <1>1, NeighborMeaning DEF IsGap, Neighbors
<1>3. p.level \in Nat /\ p.level > 0 /\ q.level > 0
  <2>1. Root \in nodes
    BY <1>1 DEF WholeTree
  <2>2. QED
    BY <1>1, <1>2, <2>1, OnlyRootAtTop DEF Index
<1>4. /\ Parent(p) \in hasChildren /\ Parent(p) \in Index
      /\ Parent(q) \in Index /\ Parent(q).level = q.level - 1
  BY <1>1, <1>2, <1>3, ParentIndex DEF WholeTree
<1>5. Inside(Parent(q))
  <2>1. q.level \in 1..30
    <3> HIDE DEF p, q
    <3>1. depthmax \in 1..30
      BY MaxDepthAssumption DEF TypeOK
    <3>2. QED
      BY <1>1, <1>2, <1>3, <3>1
  <2>2. QED
    BY <1>2, <2>1, ParentInside
<1>6. Parent(q) \in nodes
  <2>1. Parent(q) = Parent(p) \/ Parent(q) \in Neighbors(Parent(p))
    BY <1>1, <1>2, <1>3, ParentsOfNeighbors
  <2>2. QED
    BY <1>4, <1>5, <2>1 DEF ParentsSurrounded, TypeOK
<1>7. Parent(q) \in leaf
  BY <1>1, <1>2, <1>3, <1>6, ChildOfItsParent DEF WholeTree
<1>8. Covers(Parent(q), q)
  <2> HIDE DEF p, q
  <2>1. q.level - Parent(q).level = 1 /\ 2^1 = 2
    BY <1>2, <1>4 DEF Index
  <2>2. 2^(q.level - Parent(q).level) = 2
    BY <2>1
  <2>3. \A x \in Axes : Parent(q).ijk[x] = q.ijk[x] \div 2
    BY <1>2, <1>3, ParentIndex
  <2>4. Parent(q).level =< q.level
    BY <1>2, <1>4 DEF Index
  <2>5. QED
    BY <2>2, <2>3, <2>4 DEF Covers
<1> HIDE DEF p, q
<1>9. ASSUME NEW a \in nodes, Covers(a, q), a.level >= Parent(q).level
      PROVE  a = Parent(q)
  <2>1. a \in Index /\ a.level =< q.level /\ a.level \in Nat
    BY <1>9 DEF Covers, TypeOK, Index
  <2>2. CASE a.level = q.level
    <3>1. q.level - a.level = 0 /\ 2^0 = 1
      BY <1>2, <2>1, <2>2 DEF Index
    <3>2. 2^(q.level - a.level) = 1
      BY <3>1
    <3>3. \A x \in Axes : q.ijk[x] \in Int /\ a.ijk[x] = q.ijk[x] \div 1
      BY <1>2, <1>9, <3>2 DEF Covers, Index
    <3>4. \A x \in Axes : a.ijk[x] = q.ijk[x]
      BY <3>3
    <3>5. QED
      BY <1>2, <2>1, <2>2, <3>4, IndexEquality
  <2>3. CASE a.level = Parent(q).level
    <3>1. q.level - a.level = 1 /\ 2^1 = 2
      BY <1>2, <1>4, <2>3 DEF Index
    <3>2. 2^(q.level - a.level) = 2
      BY <3>1
    <3>3. \A x \in Axes : a.ijk[x] = Parent(q).ijk[x]
      BY <1>2, <1>3, <1>9, <3>2, ParentIndex DEF Covers
    <3>4. QED
      BY <1>4, <2>1, <2>3, <3>3, IndexEquality
  <2>4. QED
    BY <1>2, <1>4, <1>9, <2>1, <2>2, <2>3 DEF Index
<1>10. Covering(q) = Parent(q)
  <2>1. \A b \in nodes : Covers(b, q) => b.level =< Parent(q).level
    <3>1. SUFFICES ASSUME NEW b \in nodes, Covers(b, q), ~(b.level =< Parent(q).level)
                   PROVE  FALSE
      OBVIOUS
    <3>2. b.level \in Nat /\ Parent(q).level \in Nat
      BY <1>4 DEF TypeOK, Index
    <3>3. QED
      BY <1>9, <3>1, <3>2
  <2>2. \A a \in nodes :
          Covers(a, q) /\ (\A b \in nodes : Covers(b, q) => b.level =< a.level)
            => a = Parent(q)
    BY <1>4, <1>6, <1>8, <1>9 DEF TypeOK, Index
  <2>3. QED
    BY <1>6, <1>8, <2>1, <2>2 DEF Covering
<1>11. QED
  BY <1>1, <1>2, <1>3, <1>4, <1>7, <1>10 DEF Index, TypeOK, p, q

-----------------------------------------------------------------------------
(* The invariant is inductive. *)

\* Before tree () is called there is nothing to keep.
LEMMA InitTreeInv == Init => TreeInv
<1> SUFFICES ASSUME Init PROVE TreeInv
  OBVIOUS
<1>1. TypeOK
  BY MaxDepthAssumption DEF Init, TypeOK, Levels, Frame
<1>2. WholeTree /\ ParentsSurrounded
  BY DEF Init, WholeTree, Exists, ParentsSurrounded
<1>3. CallersUndisturbed /\ DescendsOneLevel
  BY DEF Init, CallersUndisturbed, DescendsOneLevel
<1>4. QED
  BY <1>1, <1>2, <1>3 DEF TreeInv

\* A call can only be active in a tree.
LEMMA NoTreeNoCall ==
  ASSUME TreeInv, ~Exists
  PROVE  stack = <<>> /\ leaf = {} /\ hasChildren = {}
<1>1. leaf = {} /\ hasChildren = {} /\ stack \in Seq(Frame)
  BY DEF TreeInv, TypeOK, Exists
<1>2. ASSUME stack # <<>>
      PROVE  FALSE
  <2>1. 1 \in 1..Len(stack)
    BY <1>1, <1>2
  <2>2. QED
    BY <1>1, <2>1 DEF TreeInv, CallersUndisturbed, Refinable
<1>3. QED
  BY <1>1, <1>2

LEMMA CreateTreeInv ==
  ASSUME TreeInv, NEW d \in Int, Create(d)
  PROVE  TreeInv'
<1>1. stack = <<>> /\ stack' = <<>> /\ before' = before
  BY NoTreeNoCall DEF Create
<1>2. /\ nodes' = {Root} \cup Children(Root)
      /\ hasChildren' = {Root}
      /\ leaf' = Children(Root)
      /\ depthmax' \in 1..MaxDepth
  BY MaxDepthAssumption DEF Create, ClampDepth
<1>3. Root \in Index /\ Root.level = 0 /\ Inside(Root)
  BY OnlyRootAtTop
<1>4. \A q \in Children(Root) :
        q \in Index /\ q.level = 1 /\ Parent(q) = Root /\ Inside(q)
  BY <1>3, ChildOfParent, ChildInside
<1>5. TypeOK'
  <2>1. CounterTypes'
    BY NChildrenType, MaxDepthAssumption DEF Create, CounterTypes, Levels
  <2>2. QED
    BY <1>1, <1>2, <1>3, <1>4, <2>1 DEF TypeOK, TreeInv, CounterTypes
<1>6. WholeTree'
  BY <1>2, <1>3, <1>4 DEF WholeTree
<1>7. ParentsSurrounded'
  <2>1. SUFFICES ASSUME NEW q \in Neighbors(Root), Inside(q)
                 PROVE  q \in nodes'
    BY <1>2 DEF ParentsSurrounded
  <2>2. q \in Index /\ q.level = 0 /\ q # Root
    BY <1>3, NeighborMeaning
  <2>3. QED
    BY <2>1, <2>2, OnlyRootAtTop
<1>8. CallersUndisturbed' /\ DescendsOneLevel'
  BY <1>1 DEF CallersUndisturbed, DescendsOneLevel
<1>9. QED
  BY <1>5, <1>6, <1>7, <1>8 DEF TreeInv

LEMMA DestroyTreeInv ==
  ASSUME TreeInv, Destroy
  PROVE  TreeInv'
<1>1. TypeOK'
  BY MaxDepthAssumption DEF Destroy, TypeOK, TreeInv, Levels
<1>2. WholeTree' /\ ParentsSurrounded'
  BY DEF Destroy, WholeTree, Exists, ParentsSurrounded
<1>3. CallersUndisturbed' /\ DescendsOneLevel'
  BY DEF Destroy, Idle, CallersUndisturbed, DescendsOneLevel
<1>4. QED
  BY <1>1, <1>2, <1>3 DEF TreeInv

LEMMA CallTreeInv ==
  ASSUME TreeInv, NEW p \in leaf, RefineCall(p)
  PROVE  TreeInv'
<1> DEFINE f == [p |-> p, m |-> 0, count |-> 0]
<1>1. /\ stack' = <<f>> /\ before' = nodes
      /\ UNCHANGED <<nodes, leaf, hasChildren, counters, depthmax>>
  BY DEF RefineCall
<1>2. f \in Frame
  BY DimensionAssumption DEF TreeInv, TypeOK, Frame, BoxSize, BoxWeight
<1>3. TypeOK'
  BY <1>1, <1>2 DEF TreeInv, TypeOK, counters
<1>4. WholeTree' /\ ParentsSurrounded'
  BY <1>1 DEF TreeInv, WholeTree, Exists, ParentsSurrounded
<1>5. CallersUndisturbed'
  BY <1>1 DEF RefineCall, Refinable, CallersUndisturbed
<1>6. DescendsOneLevel'
  BY <1>1 DEF DescendsOneLevel, TreeInv, TypeOK, Index
<1>7. QED
  BY <1>3, <1>4, <1>5, <1>6 DEF TreeInv

\* What a call that goes down does to the stack: the leaf that covers the first
\* gap ahead is its new top.
LEMMA DescendMoves ==
  ASSUME TreeInv, ~Idle, RefineDescend
  PROVE  \E m \in GapsAhead :
           LET n == Len(stack)
               a == Covering(IndexInBox(Top.p, m))
           IN  /\ \A k \in GapsAhead : m =< k
               /\ Refinable(a) /\ a \in Index /\ a.level = Top.p.level - 1
               /\ stack' \in Seq(Frame) /\ Len(stack') = n + 1
               /\ \A i \in 1..(n - 1) : stack'[i] = stack[i]
               /\ stack'[n] = [Top EXCEPT !.m = m]
               /\ stack'[n + 1] = [p |-> a, m |-> 0, count |-> 0]
               /\ UNCHANGED <<nodes, leaf, hasChildren, counters, depthmax, before>>
<1> DEFINE n == Len(stack)
<1>1. PICK m \in GapsAhead :
        /\ \A k \in GapsAhead : m =< k
        /\ Refinable(Covering(IndexInBox(Top.p, m)))
        /\ stack' = Append([stack EXCEPT ![n].m = m],
                           [p |-> Covering(IndexInBox(Top.p, m)),
                            m |-> 0, count |-> 0])
        /\ UNCHANGED <<nodes, leaf, hasChildren, counters, depthmax, before>>
  BY DEF RefineDescend
<1> DEFINE a == Covering(IndexInBox(Top.p, m))
           f == [p |-> a, m |-> 0, count |-> 0]
           g == [Top EXCEPT !.m = m]
<1>2. /\ n \in Nat \ {0} /\ stack \in Seq(Frame) /\ Top = stack[n]
      /\ Top \in Frame /\ Top.m \in 0..BoxSize /\ BoxSize \in Nat
      /\ \A k \in 0..(Top.m - 1) : ~IsGap(Top.p, k)
      /\ Refinable(Top.p)
  BY TopFrame, DimensionAssumption DEF TreeInv, TypeOK, Top, BoxSize, BoxWeight
<1>3. m \in Top.m..(BoxSize - 1) /\ m \in 0..BoxSize
  BY <1>1, <1>2 DEF GapsAhead
<1>4. Refinable(a) /\ a \in Index /\ a.level = Top.p.level - 1
  BY <1>1, CoveringIsParent DEF TreeInv, TypeOK, Refinable
<1>5. f \in Frame /\ g \in Frame /\ g.p = Top.p /\ g.m = m
  BY <1>2, <1>3, <1>4 DEF Frame
<1> DEFINE s == [stack EXCEPT ![n] = g]
<1>a. stack' = Append(s, f)
  BY <1>1, <1>2
<1> HIDE DEF a, f, g, n
<1>b. /\ s \in Seq(Frame) /\ Len(s) = n /\ s[n] = g
      /\ \A i \in 1..(n - 1) : s[i] = stack[i]
  BY <1>2, <1>5 DEF n
<1> HIDE DEF s
<1>6. /\ Len(stack') = n + 1
      /\ \A i \in 1..(n - 1) : stack'[i] = stack[i]
      /\ stack'[n] = g
      /\ stack'[n + 1] = f
      /\ stack' \in Seq(Frame)
  BY <1>2, <1>5, <1>a, <1>b
<1>7. QED
  BY <1>1, <1>4, <1>6 DEF a, f, g, n

LEMMA DescendTreeInv ==
  ASSUME TreeInv, ~Idle, RefineDescend
  PROVE  TreeInv'
<1> DEFINE n == Len(stack)
<1>1. PICK m \in GapsAhead :
        LET a == Covering(IndexInBox(Top.p, m))
        IN  /\ \A k \in GapsAhead : m =< k
            /\ Refinable(a) /\ a \in Index /\ a.level = Top.p.level - 1
            /\ stack' \in Seq(Frame) /\ Len(stack') = n + 1
            /\ \A i \in 1..(n - 1) : stack'[i] = stack[i]
            /\ stack'[n] = [Top EXCEPT !.m = m]
            /\ stack'[n + 1] = [p |-> a, m |-> 0, count |-> 0]
            /\ UNCHANGED <<nodes, leaf, hasChildren, counters, depthmax, before>>
  BY DescendMoves
<1> DEFINE a == Covering(IndexInBox(Top.p, m))
           f == [p |-> a, m |-> 0, count |-> 0]
           g == [Top EXCEPT !.m = m]
<1>2. /\ n \in Nat \ {0} /\ stack \in Seq(Frame) /\ Top = stack[n]
      /\ Top \in Frame /\ Top.m \in 0..BoxSize /\ BoxSize \in Nat
      /\ \A k \in 0..(Top.m - 1) : ~IsGap(Top.p, k)
      /\ Refinable(Top.p)
  BY TopFrame, DimensionAssumption DEF TreeInv, TypeOK, Top, BoxSize, BoxWeight
<1>3. m \in Top.m..(BoxSize - 1) /\ m \in 0..BoxSize
  BY <1>1, <1>2 DEF GapsAhead
<1>4. Refinable(a) /\ a \in Index /\ a.level = Top.p.level - 1
  BY <1>1
<1>5. g.p = Top.p /\ g.m = m
  BY <1>2, <1>3 DEF Frame
<1> HIDE DEF a, f, g, n
<1>6. /\ Len(stack') = n + 1
      /\ \A i \in 1..(n - 1) : stack'[i] = stack[i]
      /\ stack'[n] = g
      /\ stack'[n + 1] = f
      /\ stack' \in Seq(Frame)
  BY <1>1 DEF a, f, g, n
<1>7. TypeOK'
  BY <1>1, <1>6 DEF TreeInv, TypeOK, counters
<1>8. WholeTree' /\ ParentsSurrounded'
  BY <1>1 DEF TreeInv, WholeTree, Exists, ParentsSurrounded
<1>9. CallersUndisturbed'
  <2>1. SUFFICES ASSUME NEW i \in 1..(n + 1)
                 PROVE  Undisturbed(stack'[i], leaf, nodes, depthmax)
    BY <1>1, <1>6, CallersByFrame
  <2>2. CASE i \in 1..(n - 1)
    BY <1>2, <1>6, <2>2, CallersByFrame DEF TreeInv, n
  <2>3. CASE i = n
    <3>1. \A k \in 0..(m - 1) : ~IsGap(Top.p, k)
      <4>1. \A k \in Top.m..(m - 1) : k \notin GapsAhead
        BY <1>1, <1>2, <1>3
      <4>2. QED
        BY <1>2, <1>3, <4>1 DEF GapsAhead
    <3>2. stack'[i].p = Top.p /\ stack'[i].m = m
      BY <1>5, <1>6, <2>3
    <3>3. QED
      BY <1>2, <3>1, <3>2 DEF Undisturbed, Refinable, IsGap
  <2>4. CASE i = n + 1
    BY <1>2, <1>4, <1>6, <2>4 DEF f, Undisturbed, Refinable
  <2>5. QED
    BY <1>2, <2>2, <2>3, <2>4
<1>10. DescendsOneLevel'
  <2>1. \A i \in 1..n : stack'[i].p = stack[i].p
    BY <1>2, <1>5, <1>6
  <2>2. \A i \in 1..n : stack[i].p.level = stack[1].p.level - (i - 1)
    BY DEF TreeInv, DescendsOneLevel, n
  <2>3. stack'[n + 1].p.level = stack[1].p.level - n
    <3>1. stack[1] \in Frame /\ Top.p.level = stack[1].p.level - (n - 1)
      BY <1>2, <2>2 DEF n
    <3>2. stack[1].p.level \in Int /\ stack'[n + 1].p.level = Top.p.level - 1
      BY <1>4, <1>6, <3>1 DEF f, Frame, Index
    <3>3. \A x, y \in Int : (x - (y - 1)) - 1 = x - y
      OBVIOUS
    <3>4. n \in Int
      BY <1>2
    <3>5. Top.p.level - 1 = stack[1].p.level - n
      BY <3>1, <3>2, <3>3, <3>4
    <3>6. QED
      BY <3>2, <3>5
  <2>4. \A i \in 1..(n + 1) :
          stack'[i].p.level = stack[1].p.level - (i - 1)
    <3>1. ASSUME NEW i \in 1..(n + 1), i # n + 1
          PROVE  i \in 1..n
      BY <1>2, <3>1
    <3>2. stack[1].p.level - n = stack[1].p.level - ((n + 1) - 1)
      BY <1>2
    <3>3. QED
      BY <2>1, <2>2, <2>3, <3>1, <3>2
  <2>5. stack'[1].p.level = stack[1].p.level
    BY <1>2, <2>1
  <2>6. QED
    BY <1>6, <2>4, <2>5 DEF DescendsOneLevel
<1>11. QED
  BY <1>7, <1>8, <1>9, <1>10 DEF TreeInv

\* A call that divides its leaf returns: its frame is gone, and its caller's
\* frame has another count only.
LEMMA DivideMoves ==
  ASSUME TreeInv, ~Idle, RefineDivide
  PROVE  LET n == Len(stack) IN
         /\ n \in Nat \ {0} /\ Top = stack[n]
         /\ nodes' \subseteq Index /\ leaf' \subseteq nodes'
         /\ hasChildren' \subseteq nodes'
         /\ nodes \subseteq nodes' /\ leaf \ {Top.p} \subseteq leaf'
         /\ WholeTree' /\ ParentsSurrounded'
         /\ stack' \in Seq(Frame) /\ Len(stack') = n - 1
         /\ \A i \in 1..(n - 1) : stack'[i].p = stack[i].p /\ stack'[i].m = stack[i].m
<1> DEFINE n == Len(stack)
           rest == SubSeq(stack, 1, n - 1)
           g == [rest[n - 1] EXCEPT !.count = @ + Top.count + 1]
<1>1. /\ GapsAhead = {} /\ DivideLeaf(Top.p) /\ depthmax' = depthmax
      /\ stack' = IF rest = <<>> THEN <<>>
                  ELSE [rest EXCEPT ![Len(rest)].count = @ + Top.count + 1]
      /\ before' = IF n = 1 THEN {} ELSE before
  BY DEF RefineDivide
<1>2. /\ n \in Nat \ {0} /\ stack \in Seq(Frame) /\ Top = stack[n]
      /\ Top \in Frame /\ Refinable(Top.p) /\ Top.p \in Index
  BY TopFrame DEF TreeInv, TypeOK, Top
<1>3. /\ nodes' \subseteq Index /\ leaf' \subseteq nodes'
      /\ hasChildren' \subseteq nodes'
      /\ nodes \subseteq nodes' /\ leaf \ {Top.p} \subseteq leaf'
      /\ WholeTree' /\ ParentsSurrounded'
  <2>1. \A q \in Neighbors(Top.p) : Inside(q) => q \in nodes
    BY <1>1, BoxFull DEF TreeInv
  <2>2. QED
    BY <1>1, <1>2, <2>1, DivideKeepsTree DEF TreeInv
<1>4. rest \in Seq(Frame) /\ Len(rest) = n - 1
      /\ \A i \in 1..(n - 1) : rest[i] = stack[i] /\ stack[i] \in Frame
  <2>1. \A i \in 1..(n - 1) : stack[i] \in Frame
    BY <1>2
  <2>2. n - 1 \in Int /\ (1 =< n - 1 => (n - 1) - 1 + 1 = n - 1)
        /\ (~(1 =< n - 1) => 0 = n - 1) /\ (n - 1) - 1 + 1 = n - 1
        /\ \A i \in 1..(n - 1) : 1 + i - 1 = i
    BY <1>2
  <2> HIDE DEF n
  <2>3. /\ rest \in Seq(Frame)
        /\ Len(rest) = IF 1 =< n - 1 THEN (n - 1) - 1 + 1 ELSE 0
        /\ \A i \in 1..((n - 1) - 1 + 1) : rest[i] = stack[1 + i - 1]
    BY <2>1, <2>2, SubSeqProperties
  <2>4. QED
    BY <2>1, <2>2, <2>3
<1>5. n > 1 => g \in Frame /\ g.p = stack[n - 1].p /\ g.m = stack[n - 1].m
  <2> HIDE DEF n, rest, g
  <2>1. SUFFICES ASSUME n > 1
                 PROVE  g \in Frame /\ g.p = stack[n - 1].p /\ g.m = stack[n - 1].m
    OBVIOUS
  <2>2. rest[n - 1] = stack[n - 1] /\ stack[n - 1] \in Frame
    BY <1>2, <1>4, <2>1
  <2>3. g = [stack[n - 1] EXCEPT !.count = stack[n - 1].count + Top.count + 1]
    BY <2>2 DEF g
  <2>4. stack[n - 1].count + Top.count + 1 \in Nat
    BY SMTT(30), <1>2, <2>2 DEF Frame
  <2>5. QED
    BY <2>2, <2>3, <2>4 DEF Frame
<1>6. /\ stack' \in Seq(Frame) /\ Len(stack') = n - 1
      /\ \A i \in 1..(n - 1) : /\ stack'[i].p = stack[i].p
                              /\ stack'[i].m = stack[i].m
  <2>1. CASE n = 1
    BY <1>1, <1>4, <2>1
  <2>2. CASE n > 1
    <3>1. rest # <<>>
      BY <1>4, <2>2
    <3>2. stack' = [rest EXCEPT ![n - 1] = g]
      BY <1>1, <1>4, <3>1
    <3> HIDE DEF g, rest, n
    <3>3. n - 1 \in 1..Len(rest) /\ n \in Nat
      BY <1>2, <1>4, <2>2
    <3>4. /\ stack' \in Seq(Frame) /\ Len(stack') = Len(rest)
          /\ \A i \in 1..Len(rest) :
               stack'[i] = IF i = n - 1 THEN g ELSE rest[i]
      BY <1>4, <1>5, <2>2, <3>2, <3>3, ExceptSeq
    <3>5. QED
      BY <1>4, <1>5, <2>2, <3>3, <3>4
  <2> HIDE DEF g, rest, n
  <2>3. n = 1 \/ n > 1
    BY <1>2
  <2>4. QED
    BY <2>1, <2>2, <2>3
<1>7. QED
  BY <1>2, <1>3, <1>6

LEMMA DivideTreeInv ==
  ASSUME TreeInv, ~Idle, RefineDivide
  PROVE  TreeInv'
<1> DEFINE n == Len(stack)
<1>1. /\ DivideLeaf(Top.p) /\ depthmax' = depthmax
      /\ before' = IF n = 1 THEN {} ELSE before
  BY DEF RefineDivide
<1>2. /\ n \in Nat \ {0} /\ stack \in Seq(Frame) /\ Top = stack[n]
      /\ Top \in Frame /\ Refinable(Top.p) /\ Top.p \in Index
  BY TopFrame DEF TreeInv, TypeOK, Top
<1>3. /\ nodes' \subseteq Index /\ leaf' \subseteq nodes'
      /\ hasChildren' \subseteq nodes'
      /\ nodes \subseteq nodes' /\ leaf \ {Top.p} \subseteq leaf'
      /\ WholeTree' /\ ParentsSurrounded'
  BY DivideMoves
<1>6. /\ stack' \in Seq(Frame) /\ Len(stack') = n - 1
      /\ \A i \in 1..(n - 1) : /\ stack'[i].p = stack[i].p
                              /\ stack'[i].m = stack[i].m
  BY DivideMoves
<1>7. TypeOK'
  <2>1. CounterTypes'
    BY <1>1, <1>2, DivideCounterTypes DEF TreeInv, Refinable
  <2>2. before' \subseteq Index
    BY <1>1 DEF TreeInv, TypeOK
  <2>3. QED
    BY <1>1, <1>3, <1>6, <2>1, <2>2 DEF TreeInv, TypeOK, CounterTypes
<1> HIDE DEF n
<1>8. \A i \in 1..(n - 1) : stack[i].p # Top.p
  <2>1. \A i \in 1..n : stack[i].p.level = stack[1].p.level - (i - 1)
    BY DEF TreeInv, DescendsOneLevel, n
  <2>2. stack[1].p.level \in Int
    <3>1. stack[1] \in Frame
      BY <1>2 DEF n
    <3>2. QED
      BY <3>1 DEF Frame, Index
  <2>3. \A i \in 1..(n - 1) : stack[i].p.level # stack[n].p.level
    <3>1. SUFFICES ASSUME NEW i \in 1..(n - 1) PROVE stack[i].p.level # stack[n].p.level
      OBVIOUS
    <3>2. PICK l \in Int : l = stack[1].p.level
      BY <2>2
    <3>3. i \in 1..n /\ n \in 1..n /\ i \in Int /\ n \in Int /\ i # n
      BY <1>2
    <3>4. stack[i].p.level = l - (i - 1) /\ stack[n].p.level = l - (n - 1)
      BY <2>1, <3>2, <3>3
    <3>5. l - (i - 1) # l - (n - 1)
      BY <3>3
    <3>6. QED
      BY <3>4, <3>5
  <2>4. QED
    BY <1>2, <2>3
<1>9. CallersUndisturbed'
  <2>1. SUFFICES ASSUME NEW i \in 1..(n - 1)
                 PROVE  Undisturbed(stack'[i], leaf', nodes', depthmax)
    BY <1>1, <1>6, CallersByFrame
  <2>2. Undisturbed(stack[i], leaf, nodes, depthmax)
    BY <1>2, CallersByFrame DEF TreeInv, n
  <2>3. stack[i].p \in leaf'
    BY <1>3, <1>8, <2>2 DEF Undisturbed
  <2>4. QED
    BY <1>3, <1>6, <2>2, <2>3 DEF Undisturbed
<1>10. DescendsOneLevel'
  <2>1. \A i \in 1..(n - 1) : stack[i].p.level = stack[1].p.level - (i - 1)
    BY <1>2 DEF TreeInv, DescendsOneLevel, n
  <2>2. \A i \in 1..(n - 1) : stack'[i].p.level = stack'[1].p.level - (i - 1)
    <3>1. ASSUME NEW i \in 1..(n - 1)
          PROVE  1 \in 1..(n - 1)
      BY <1>2, <3>1
    <3>2. QED
      BY <1>6, <2>1, <3>1
  <2>3. QED
    BY <1>6, <2>2 DEF DescendsOneLevel
<1>11. QED
  BY <1>3, <1>7, <1>9, <1>10 DEF TreeInv

LEMMA CoarsenTreeInv ==
  ASSUME TreeInv, NEW p \in hasChildren, Coarsen(p)
  PROVE  TreeInv'
<1>1. /\ stack = <<>> /\ stack' = stack /\ before' = before
      /\ depthmax' = depthmax /\ CanCoarsen(p) /\ RemoveChildren(p)
  BY DEF Coarsen, Idle
<1>2. /\ nodes' \subseteq Index /\ leaf' \subseteq nodes'
      /\ hasChildren' \subseteq nodes'
      /\ WholeTree' /\ ParentsSurrounded'
  BY <1>1, MergeKeepsTree DEF TreeInv
<1>3. p \in Index /\ p.level < depthmax
  <2>1. p \in Index /\ p \in nodes /\ Children(p) \subseteq nodes
    BY DEF TreeInv, TypeOK, WholeTree, Exists
  <2>2. IndexChild(p, 0) \in Children(p)
    BY DimensionAssumption DEF Children, NChildren, BitWeight
  <2>3. IndexChild(p, 0).level =< depthmax
    BY <2>1, <2>2 DEF TreeInv, WholeTree, Exists
  <2>4. IndexChild(p, 0).level = p.level + 1
    BY DEF IndexChild
  <2>5. QED
    BY <2>1, <2>3, <2>4 DEF TreeInv, TypeOK, Index
<1>4. CounterTypes'
  BY <1>1, <1>3, MergeCounterTypes DEF TreeInv
<1>5. TypeOK'
  BY <1>1, <1>2, <1>4 DEF TreeInv, TypeOK, CounterTypes
<1>6. CallersUndisturbed' /\ DescendsOneLevel'
  BY <1>1 DEF CallersUndisturbed, DescendsOneLevel
<1>7. QED
  BY <1>2, <1>5, <1>6 DEF TreeInv

\* Every step of the program keeps the invariant.
LEMMA NextTreeInv == TreeInv /\ [Next]_vars => TreeInv'
<1> SUFFICES ASSUME TreeInv, [Next]_vars PROVE TreeInv'
  OBVIOUS
<1>1. ASSUME NEW d \in -1..(MaxDepth + 1), Create(d)
      PROVE  TreeInv'
  BY <1>1, MaxDepthAssumption, CreateTreeInv
<1>2. CASE Destroy
  BY <1>2, DestroyTreeInv
<1>3. ASSUME NEW p \in leaf, RefineCall(p)
      PROVE  TreeInv'
  BY <1>3, CallTreeInv
<1>4. CASE RefineStep
  BY <1>4, DescendTreeInv, DivideTreeInv DEF RefineStep
<1>5. ASSUME NEW p \in hasChildren, Coarsen(p)
      PROVE  TreeInv'
  BY <1>5, CoarsenTreeInv
<1>6. CASE UNCHANGED vars
  <2>1. TypeOK'
    BY <1>6 DEF vars, counters, TreeInv, TypeOK
  <2>2. WholeTree' /\ ParentsSurrounded'
    BY <1>6 DEF vars, TreeInv, WholeTree, Exists, ParentsSurrounded
  <2>3. CallersUndisturbed' /\ DescendsOneLevel'
    BY <1>6, CallersByFrame DEF vars, TreeInv, DescendsOneLevel
  <2>4. QED
    BY <2>1, <2>2, <2>3 DEF TreeInv
<1>7. QED
  BY <1>1, <1>2, <1>3, <1>4, <1>5, <1>6 DEF Next

-----------------------------------------------------------------------------
(* Theorems. *)

\* Whatever calls are made, and between any two divisions of a running one,
\* the invariant above holds.
THEOREM TreeInvHolds == Spec => []TreeInv
<1>1. QED
  BY InitTreeInv, NextTreeInv, PTL DEF Spec

\* The state keeps its types: no node leaves the layers, no level leaves the
\* array of leaf counts.
THEOREM TypeCorrect == Spec => []TypeOK
<1>1. TreeInv => TypeOK
  BY DEF TreeInv
<1>2. QED
  BY <1>1, TreeInvHolds, PTL

\* Flags and allocated nodes describe one whole tree at all times.
THEOREM TreeStaysWhole == Spec => []WholeTree
<1>1. TreeInv => WholeTree
  BY DEF TreeInv
<1>2. QED
  BY <1>1, TreeInvHolds, PTL

\* balanced () of test_adapt.c follows from the invariant: the parent of a leaf
\* is surrounded, and halving keeps neighbours neighbours.
LEMMA InvImpliesBalanced == TreeInv => Balanced
<1>1. SUFFICES ASSUME TreeInv, NEW p \in leaf, NEW q \in Neighbors(p), Inside(q),
                      q \notin nodes
               PROVE  Parent(q) \in nodes
  BY DEF Balanced
<1>2. Exists /\ p \in nodes /\ p \in Index /\ p.level =< depthmax /\ p.level \in Nat
  BY <1>1 DEF TreeInv, TypeOK, WholeTree, Exists, Index
<1>3. q \in Index /\ q.level = p.level
  BY <1>1, <1>2, NeighborMeaning
<1>4. p.level > 0
  BY <1>1, <1>2, <1>3, OnlyRootAtTop DEF TreeInv, WholeTree
<1>5. Parent(p) \in hasChildren /\ Parent(p) \in nodes
  BY <1>1, <1>2, <1>4 DEF TreeInv, WholeTree, TypeOK
<1>6. Parent(q) = Parent(p) \/ Parent(q) \in Neighbors(Parent(p))
  BY <1>1, <1>2, <1>4, ParentsOfNeighbors
<1>7. Inside(Parent(q))
  <2>1. q.level \in 1..30
    <3>1. depthmax \in 1..30
      BY <1>1, MaxDepthAssumption DEF TreeInv, TypeOK
    <3>2. QED
      BY <1>2, <1>3, <1>4, <3>1
  <2>2. QED
    BY <1>1, <1>3, <2>1, ParentInside
<1>8. QED
  BY <1>1, <1>5, <1>6, <1>7 DEF TreeInv, ParentsSurrounded

\* The tree is 2:1 balanced, between any two divisions too.
THEOREM TreeStaysBalanced == Spec => []Balanced
<1>1. QED
  BY InvImpliesBalanced, TreeInvHolds, PTL

\* No call disturbs its callers: their leaves stay leaves, and the slots they
\* have visited stay full.
THEOREM CallersStayUndisturbed == Spec => []CallersUndisturbed
<1>1. TreeInv => CallersUndisturbed
  BY DEF TreeInv
<1>2. QED
  BY <1>1, TreeInvHolds, PTL

\* Calls descend one level at a time, so they nest no deeper than the tree.
THEOREM CallsDescendOneLevel == Spec => []DescendsOneLevel
<1>1. TreeInv => DescendsOneLevel
  BY DEF TreeInv
<1>2. QED
  BY <1>1, TreeInvHolds, PTL

\* The recursive call of tree_refine () always divides a leaf: its assertion
\* never fails, and its loop never repeats a gap in vain.
THEOREM CalleeAlwaysDivides == Spec => []CalleeDivides
<1>1. ASSUME TreeInv, ~Idle, NEW m \in GapsAhead
      PROVE  Refinable(Covering(IndexInBox(Top.p, m)))
  BY <1>1, CoveringIsParent DEF TreeInv, Refinable
<1>2. TreeInv => CalleeDivides
  BY <1>1 DEF CalleeDivides
<1>3. QED
  BY <1>2, TreeInvHolds, PTL

-----------------------------------------------------------------------------
(* Balance in space. *)

\* The ancestors of a node are nodes with children: going up from a node never
\* leaves the tree.
LEMMA AncestorsHaveChildren ==
  ASSUME TypeOK, WholeTree, NEW p \in nodes, NEW d \in 1..29, d =< p.level
  PROVE  Ancestor(p, d) \in hasChildren
<1> DEFINE Astray == {k \in 1..d : Ancestor(p, k) \notin hasChildren}
<1>1. Exists /\ p \in Index /\ p.level \in Nat /\ hasChildren \subseteq nodes
  BY DEF TypeOK, Exists, Index
<1>2. SUFFICES ASSUME Astray # {} PROVE FALSE
  BY <1>2
<1>3. PICK k \in Astray : \A x \in Astray : k =< x
  <2>1. Astray \subseteq Nat
    OBVIOUS
  <2>2. QED
    BY <1>2, <2>1, LeastNatural
<1>4. k \in 1..d /\ k - 1 \in 0..29 /\ k - 1 \in 0..30 /\ k - 1 < p.level /\ (k - 1) + 1 = k
  BY <1>1
<1>5. Ancestor(p, k - 1) \in nodes
  <2>1. CASE k = 1
    <3>1. Ancestor(p, 0) = p
      BY <1>1, <1>4, AncestorsByParents
    <3>2. QED
      BY <2>1, <3>1
  <2>2. CASE k # 1
    <3>1. k - 1 \in 1..d /\ ~(k =< k - 1)
      BY <1>4, <2>2
    <3>2. k - 1 \notin Astray
      BY <1>3, <3>1
    <3>3. QED
      BY <1>1, <3>1, <3>2
  <2>3. QED
    BY <2>1, <2>2
<1>6. Ancestor(p, k - 1).level > 0
  <2>1. Ancestor(p, k - 1).level = p.level - (k - 1)
    BY DEF Ancestor
  <2>2. QED
    BY <1>1, <1>4, <2>1
<1>7. Parent(Ancestor(p, k - 1)) = Ancestor(p, k)
  BY <1>1, <1>4, AncestorsByParents
<1>8. Ancestor(p, k) \in hasChildren
  BY <1>1, <1>5, <1>6, <1>7 DEF WholeTree
<1>9. QED
  BY <1>3, <1>8

\* Two leaves that touch differ by one level at most.  Were the smaller one two
\* levels deeper or more, its ancestor half as wide as the larger would have
\* children, so all around it there would be nodes; one of them is a child of
\* the larger leaf.
LEMMA InvImpliesTouchingBalanced == TreeInv => TouchingLeavesBalanced
<1>1. SUFFICES ASSUME TreeInv, NEW p \in leaf, NEW q \in leaf, p.level > q.level + 1,
                      Touch(p, q)
               PROVE  FALSE
  BY DEF TouchingLeavesBalanced
<1>2. /\ TypeOK /\ WholeTree /\ ParentsSurrounded /\ Exists
      /\ p \in nodes /\ q \in nodes /\ q \notin hasChildren
      /\ p \in Index /\ q \in Index /\ p.level \in Nat /\ q.level \in Nat
      /\ Inside(q) /\ p.level =< depthmax /\ depthmax \in 1..30
  BY <1>1, MaxDepthAssumption DEF TreeInv, TypeOK, WholeTree, Exists, Index
<1>3. PICK d \in 1..29 : p.level = q.level + 1 + d
  <2>1. p.level - q.level - 1 \in 1..29
    BY <1>1, <1>2
  <2>2. p.level = q.level + 1 + (p.level - q.level - 1)
    BY <1>2
  <2>3. QED
    BY <2>1, <2>2
<1>4. Ancestor(p, d) \in hasChildren /\ Ancestor(p, d) \in nodes
  <2>1. d =< p.level
    BY <1>2, <1>3
  <2>2. QED
    BY <1>2, <2>1, AncestorsHaveChildren DEF TypeOK
<1>5. PICK r \in Children(q) : r = Ancestor(p, d) \/ r \in Neighbors(Ancestor(p, d))
  BY <1>1, <1>2, <1>3, TouchedChild
<1>6. r \in Index /\ r.level = q.level + 1 /\ Parent(r) = q
  BY <1>2, ChildOfParent
<1>7. Inside(r)
  <2>1. q.level =< 29
    BY <1>1, <1>2
  <2>2. QED
    BY <1>2, <2>1, ChildInside
<1>8. r \in nodes
  BY <1>2, <1>4, <1>5, <1>7 DEF ParentsSurrounded
<1>9. q \in hasChildren
  <2>1. r.level > 0
    BY <1>2, <1>6
  <2>2. QED
    BY <1>2, <1>6, <1>8, <2>1 DEF WholeTree
<1>10. QED
  BY <1>2, <1>9

\* Two leaves that touch, by a face, an edge or a corner, differ by at most one
\* level, after every single division and merge: what tree.h promises.
THEOREM TouchingLeavesStayBalanced == Spec => []TouchingLeavesBalanced
<1>1. QED
  BY InvImpliesTouchingBalanced, TreeInvHolds, PTL

-----------------------------------------------------------------------------
(* Counting any finite tree: its nodes N, its leaves L, the nodes H with       *)
(* children.                                                                   *)

LeavesAt(L, l) == {p \in L : p.level = l}

Shape(N, L, H) ==
  /\ N \subseteq Index
  /\ L = N \ H
  /\ \A p \in H : Children(p) \subseteq N

Counted(N, L, n, b, bl) ==
  /\ IsFiniteSet(N) /\ L \subseteq N
  /\ b = Cardinality(N)
  /\ bl = Cardinality(L)
  /\ \A l \in Levels : n[l] = Cardinality(LeavesAt(L, l))

DeepestExact(N, d) ==
  /\ \A p \in N : p.level =< d
  /\ N # {} => \E p \in N : p.level = d

CoarsestExact(N, L, dm) ==
  /\ \A p \in L : dm =< p.level
  /\ N # {} => \E p \in L : p.level = dm

CountInv ==
  /\ Counted(nodes, leaf, nleaves, nb, nlb)
  /\ DeepestExact(nodes, depth)
  /\ CoarsestExact(nodes, leaf, depthmin)

LEMMA FiniteLeaves ==
  ASSUME NEW N, NEW L, IsFiniteSet(N), L \subseteq N, NEW l
  PROVE  /\ IsFiniteSet(L) /\ IsFiniteSet(LeavesAt(L, l))
         /\ Cardinality(L) \in Nat /\ Cardinality(LeavesAt(L, l)) \in Nat
         /\ Cardinality(LeavesAt(L, l)) = 0 <=> \A p \in L : p.level # l
<1>1. IsFiniteSet(L)
  BY FS_Subset
<1>2. LeavesAt(L, l) \subseteq L
  BY DEF LeavesAt
<1>3. IsFiniteSet(LeavesAt(L, l))
  BY <1>1, <1>2, FS_Subset
<1>4. Cardinality(L) \in Nat /\ Cardinality(LeavesAt(L, l)) \in Nat
  BY <1>1, <1>3, FS_CardinalityType
<1>5. Cardinality(LeavesAt(L, l)) = 0 <=> LeavesAt(L, l) = {}
  BY <1>3, FS_EmptySet
<1>6. LeavesAt(L, l) = {} <=> \A p \in L : p.level # l
  BY DEF LeavesAt
<1>7. QED
  BY <1>1, <1>3, <1>4, <1>5, <1>6

LEMMA DeepestNodeIsLeaf ==
  ASSUME NEW N, NEW L, NEW H, Shape(N, L, H),
         NEW p \in N, \A q \in N : q.level =< p.level
  PROVE  p \in L
<1>1. ASSUME p \in H PROVE FALSE
  <2>1. IndexChild(p, 0) \in Children(p)
    BY DimensionAssumption DEF Children, NChildren, BitWeight
  <2>2. IndexChild(p, 0) \in N /\ p \in Index
    BY <1>1, <2>1 DEF Shape
  <2>3. IndexChild(p, 0).level = p.level + 1 /\ p.level \in Nat
    BY <2>2 DEF IndexChild, Index
  <2>4. QED
    BY <2>2, <2>3
<1>2. QED
  BY <1>1 DEF Shape

LEMMA DeepestNode ==
  ASSUME NEW N, N \subseteq Index, N # {}, NEW d \in Levels, \A p \in N : p.level =< d
  PROVE  \E p \in N : \A q \in N : q.level =< p.level
<1> DEFINE S == {d - p.level : p \in N}
<1>1. S \in SUBSET Nat /\ S # {}
  BY DEF Index, Levels
<1>2. PICK x \in S : \A y \in S : x =< y
  BY <1>1, LeastNatural
<1>3. PICK p \in N : x = d - p.level
  BY <1>2
<1>4. ASSUME NEW q \in N PROVE q.level =< p.level
  <2>1. d - q.level \in S
    OBVIOUS
  <2>2. d - p.level =< d - q.level
    BY <1>2, <1>3, <2>1
  <2>3. p.level \in Nat /\ q.level \in Nat /\ d \in Nat
    BY DEF Index, Levels
  <2>4. QED
    BY <2>2, <2>3
<1>5. QED
  BY <1>4

\* update_depthmin ()
LEMMA CoarsestFound ==
  ASSUME NEW N, NEW L, NEW H, Shape(N, L, H), NEW n \in [Levels -> Int], NEW b, NEW bl,
         Counted(N, L, n, b, bl), NEW d \in Levels, DeepestExact(N, d), N # {}
  PROVE  CoarsestExact(N, L, CoarsestLevel(n, d))
<1> DEFINE x == CoarsestLevel(n, d)
<1>1. x \in 0..d /\ (x = d \/ n[x] # 0) /\ \A k \in 0..(x - 1) : n[k] = 0
  BY CoarsestLevelMeaning
<1> HIDE DEF x
<1>2. d \in Nat /\ x \in Levels /\ 0..d \subseteq Levels
  BY <1>1, MaxDepthAssumption DEF Levels
<1>3. L \subseteq N /\ \A p \in N : p.level \in Nat /\ p.level =< d /\ p.level \in Levels
  BY <1>2 DEF Shape, Index, DeepestExact
<1>4. \A l \in Levels : n[l] = 0 <=> \A p \in L : p.level # l
  BY FiniteLeaves DEF Counted
<1>5. ASSUME NEW p \in L PROVE x =< p.level
  <2>1. n[p.level] # 0 /\ p.level \in Nat
    BY <1>3, <1>4
  <2>2. QED
    BY <1>1, <1>2, <2>1
<1>6. \E p \in L : p.level = x
  <2>1. CASE n[x] # 0
    BY <1>2, <1>4, <2>1
  <2>2. CASE x = d
    <3>1. PICK p \in N : p.level = d
      BY DEF DeepestExact
    <3>2. p \in L
      BY <1>3, <3>1, DeepestNodeIsLeaf
    <3>3. QED
      BY <2>2, <3>1, <3>2
  <2>3. QED
    BY <1>1, <2>1, <2>2
<1>7. QED
  BY <1>5, <1>6 DEF CoarsestExact, x

\* update_depth ()
LEMMA DeepestFound ==
  ASSUME NEW N, NEW L, NEW H, Shape(N, L, H), NEW n \in [Levels -> Int], NEW b, NEW bl,
         Counted(N, L, n, b, bl), NEW d \in Levels, \A p \in N : p.level =< d, N # {}
  PROVE  DeepestExact(N, DeepestLevel(n, d))
<1> DEFINE x == DeepestLevel(n, d)
<1>1. x \in 0..d /\ (x = 0 \/ n[x] # 0) /\ \A k \in (x + 1)..d : n[k] = 0
  BY DeepestLevelMeaning
<1> HIDE DEF x
<1>2. d \in Nat /\ x \in Levels /\ 0..d \subseteq Levels
  BY <1>1, MaxDepthAssumption DEF Levels
<1>3. L \subseteq N /\ \A p \in N : p.level \in Nat /\ p.level \in Levels
  BY <1>2 DEF Shape, Index
<1>4. \A l \in Levels : n[l] = 0 <=> \A p \in L : p.level # l
  BY FiniteLeaves DEF Counted
<1>5. PICK p \in N : \A q \in N : q.level =< p.level
  BY DeepestNode DEF Shape
<1>6. p \in L /\ n[p.level] # 0
  BY <1>3, <1>4, <1>5, DeepestNodeIsLeaf
<1>7. p.level =< x
  BY <1>1, <1>2, <1>3, <1>6
<1>8. \A q \in N : q.level =< x
  BY <1>2, <1>3, <1>5, <1>7
<1>9. \E q \in N : q.level = x
  <2>1. CASE x = 0
    BY <1>3, <1>7, <2>1
  <2>2. CASE n[x] # 0
    BY <1>2, <1>3, <1>4, <2>2
  <2>3. QED
    BY <1>1, <2>1, <2>2
<1>10. QED
  BY <1>8, <1>9 DEF DeepestExact, x
-----------------------------------------------------------------------------
(* A family more, a family less.                                               *)

LEMMA TreeShape ==
  ASSUME TreeInv
  PROVE  /\ leaf \subseteq nodes /\ nodes \subseteq Index
         /\ nleaves \in [Levels -> Int] /\ depth \in Levels
         /\ Shape(nodes, leaf, hasChildren)
BY DEF TreeInv, TypeOK, WholeTree, Exists, Shape

LEMMA FamilyAdded ==
  ASSUME TreeInv, CountInv, NEW p, p \in leaf, p.level < depthmax, DivideLeaf(p)
  PROVE  Counted(nodes', leaf', nleaves', nb', nlb')
<1>1. /\ p \in nodes /\ p \in Index /\ Children(p) \cap nodes = {}
      /\ p.level \in Levels /\ p.level + 1 \in Levels /\ p.level \in Nat
  BY SMTT(30), LeafHasNoChildren, MaxDepthAssumption DEF TreeInv, TypeOK, WholeTree, Exists, Index, Levels
<1>2. /\ nodes' = nodes \cup Children(p)
      /\ leaf' = (leaf \ {p}) \cup Children(p)
      /\ nb' = nb + NChildren
      /\ nlb' = nlb + NChildren - 1
      /\ nleaves' = [nleaves EXCEPT ![p.level] = @ - 1, ![p.level + 1] = @ + NChildren]
  BY DEF DivideLeaf
<1>3. /\ IsFiniteSet(nodes) /\ leaf \subseteq nodes /\ nb = Cardinality(nodes) /\ nlb = Cardinality(leaf)
      /\ \A l \in Levels : nleaves[l] = Cardinality(LeavesAt(leaf, l))
  BY DEF CountInv, Counted
<1>4. IsFiniteSet(Children(p)) /\ Cardinality(Children(p)) = NChildren /\ NChildren \in Nat
  BY <1>1, FamilySize, NChildrenType
<1>5. Cardinality({}) = 0
  BY FS_EmptySet
<1>6. IsFiniteSet(nodes') /\ Cardinality(nodes') = nb + NChildren
  <2>1. nodes \cap Children(p) = {}
    BY <1>1
  <2>2. Cardinality(nodes) \in Nat
    BY <1>3, FS_CardinalityType
  <2>3. QED
    BY <1>2, <1>3, <1>4, <1>5, <2>1, <2>2, DisjointUnion
<1>7. Cardinality(leaf') = nlb + NChildren - 1
  <2>1. IsFiniteSet(leaf) /\ Cardinality(leaf) \in Nat
    BY <1>3, FiniteLeaves
  <2>2. IsFiniteSet(leaf \ {p}) /\ Cardinality(leaf \ {p}) = nlb - 1
    BY <1>3, <2>1, FS_RemoveElement
  <2>3. (leaf \ {p}) \cap Children(p) = {}
    BY <1>1, <1>3
  <2>4. Cardinality(leaf') = (nlb - 1) + NChildren
    BY <1>2, <1>4, <2>2, <2>3, DisjointUnion
  <2>5. QED
    BY <1>3, <1>4, <2>1, <2>4
<1>8. ASSUME NEW l \in Levels PROVE nleaves'[l] = Cardinality(LeavesAt(leaf', l))
  <2>1. \A q \in Children(p) : q.level = p.level + 1
    BY <1>1, ChildOfParent
  <2>2. IsFiniteSet(LeavesAt(leaf, l)) /\ Cardinality(LeavesAt(leaf, l)) \in Nat
    BY <1>3, FiniteLeaves
  <2>3. CASE l = p.level
    <3>1. LeavesAt(leaf', l) = LeavesAt(leaf, l) \ {p} /\ p \in LeavesAt(leaf, l)
      BY <1>1, <1>2, <2>1, <2>3 DEF LeavesAt
    <3>2. nleaves'[l] = nleaves[l] - 1
      BY <1>1, <1>2, <2>3, TreeShape
    <3>3. QED
      BY <1>3, <2>2, <3>1, <3>2, FS_RemoveElement
  <2>4. CASE l = p.level + 1
    <3>1. LeavesAt(leaf', l) = LeavesAt(leaf, l) \cup Children(p)
      BY <1>1, <1>2, <2>1, <2>4 DEF LeavesAt
    <3>2. LeavesAt(leaf, l) \cap Children(p) = {}
      BY <1>1, <1>3 DEF LeavesAt
    <3>3. nleaves'[l] = nleaves[l] + NChildren
      BY <1>1, <1>2, <2>4, TreeShape
    <3>4. QED
      BY <1>3, <1>4, <1>5, <2>2, <3>1, <3>2, <3>3, DisjointUnion
  <2>5. CASE l # p.level /\ l # p.level + 1
    <3>1. LeavesAt(leaf', l) = LeavesAt(leaf, l)
      BY <1>2, <2>1, <2>5 DEF LeavesAt
    <3>2. nleaves'[l] = nleaves[l]
      BY <1>2, <2>5, TreeShape
    <3>3. QED
      BY <1>3, <3>1, <3>2
  <2>6. QED
    BY <2>3, <2>4, <2>5
<1>9. leaf' \subseteq nodes'
  BY <1>2, <1>3
<1>10. QED
  BY <1>2, <1>6, <1>7, <1>8, <1>9 DEF Counted

LEMMA FamilyRemoved ==
  ASSUME TreeInv, CountInv, NEW p, CanCoarsen(p), RemoveChildren(p)
  PROVE  Counted(nodes', leaf', nleaves', nb', nlb')
<1>1. /\ p \in hasChildren /\ p \in Index /\ p \in nodes /\ p \notin leaf
      /\ Children(p) \subseteq leaf /\ Children(p) \subseteq nodes
  BY DEF CanCoarsen, Grandchildless, TreeInv, TypeOK, WholeTree, Exists
<1>2. \A q \in Children(p) : q.level = p.level + 1
  BY <1>1, ChildOfParent
<1>3. p.level \in Nat /\ p.level \in Levels /\ p.level + 1 \in Levels /\ p \notin Children(p)
  <2>1. IndexChild(p, 0) \in Children(p)
    BY DimensionAssumption DEF Children, NChildren, BitWeight
  <2>2. p.level + 1 =< depthmax /\ p.level \in Nat
    BY <1>1, <1>2, <2>1 DEF TreeInv, WholeTree, Exists, Index
  <2>3. depthmax \in 1..MaxDepth
    BY DEF TreeInv, TypeOK
  <2>4. p \notin Children(p)
    BY <1>2, <2>2
  <2>5. QED
    BY <2>2, <2>3, <2>4, MaxDepthAssumption DEF Levels
<1>4. /\ nodes' = nodes \ Children(p)
      /\ leaf' = (leaf \ Children(p)) \cup {p}
      /\ nb' = nb - NChildren
      /\ nlb' = nlb - (NChildren - 1)
      /\ nleaves' = [nleaves EXCEPT ![p.level + 1] = @ - NChildren, ![p.level] = @ + 1]
  BY DEF RemoveChildren
<1>5. /\ IsFiniteSet(nodes) /\ leaf \subseteq nodes /\ nb = Cardinality(nodes) /\ nlb = Cardinality(leaf)
      /\ \A l \in Levels : nleaves[l] = Cardinality(LeavesAt(leaf, l))
  BY DEF CountInv, Counted
<1>6. IsFiniteSet(Children(p)) /\ Cardinality(Children(p)) = NChildren /\ NChildren \in Nat
  BY <1>1, FamilySize, NChildrenType
<1>7. IsFiniteSet(nodes') /\ Cardinality(nodes') = nb - NChildren
  BY <1>1, <1>4, <1>5, <1>6, PartRemoved
<1>8. Cardinality(leaf') = nlb - (NChildren - 1)
  <2>1. IsFiniteSet(leaf) /\ Cardinality(leaf) \in Nat
    BY <1>5, FiniteLeaves
  <2>2. IsFiniteSet(leaf \ Children(p)) /\ Cardinality(leaf \ Children(p)) = nlb - NChildren
    BY <1>1, <1>5, <1>6, <2>1, PartRemoved
  <2>3. p \notin leaf \ Children(p)
    BY <1>1
  <2>4. Cardinality(leaf') = (nlb - NChildren) + 1
    BY <1>4, <2>2, <2>3, FS_AddElement
  <2>5. QED
    BY <1>5, <1>6, <2>1, <2>4
<1>9. ASSUME NEW l \in Levels PROVE nleaves'[l] = Cardinality(LeavesAt(leaf', l))
  <2>1. IsFiniteSet(LeavesAt(leaf, l)) /\ Cardinality(LeavesAt(leaf, l)) \in Nat
    BY <1>5, FiniteLeaves
  <2>2. CASE l = p.level
    <3>1. LeavesAt(leaf', l) = LeavesAt(leaf, l) \cup {p} /\ p \notin LeavesAt(leaf, l)
      BY <1>1, <1>2, <1>3, <1>4, <2>2 DEF LeavesAt
    <3>2. nleaves'[l] = nleaves[l] + 1
      BY <1>3, <1>4, <2>2, TreeShape
    <3>3. QED
      BY <1>5, <2>1, <3>1, <3>2, FS_AddElement
  <2>3. CASE l = p.level + 1
    <3>1. LeavesAt(leaf', l) = LeavesAt(leaf, l) \ Children(p)
      BY <1>2, <1>3, <1>4, <2>3 DEF LeavesAt
    <3>2. Children(p) \subseteq LeavesAt(leaf, l)
      BY <1>1, <1>2, <2>3 DEF LeavesAt
    <3>3. nleaves'[l] = nleaves[l] - NChildren
      BY <1>3, <1>4, <2>3, TreeShape
    <3>4. QED
      BY <1>5, <1>6, <2>1, <3>1, <3>2, <3>3, PartRemoved
  <2>4. CASE l # p.level /\ l # p.level + 1
    <3>1. LeavesAt(leaf', l) = LeavesAt(leaf, l)
      BY <1>2, <1>4, <2>4 DEF LeavesAt
    <3>2. nleaves'[l] = nleaves[l]
      BY <1>4, <2>4, TreeShape
    <3>3. QED
      BY <1>5, <3>1, <3>2
  <2>5. QED
    BY <2>2, <2>3, <2>4
<1>10. leaf' \subseteq nodes'
  BY <1>1, <1>3, <1>4, <1>5
<1>11. QED
  BY <1>4, <1>7, <1>8, <1>9, <1>10 DEF Counted

\* A division may open a level; a merge may leave the deepest one empty.
LEMMA DivideCounts ==
  ASSUME TreeInv, TreeInv', CountInv, NEW p, Refinable(p), DivideLeaf(p)
  PROVE  CountInv'
<1> DEFINE d == IF p.level = depth THEN depth + 1 ELSE depth
<1>1. Counted(nodes', leaf', nleaves', nb', nlb')
  BY FamilyAdded DEF Refinable
<1>2. /\ Shape(nodes', leaf', hasChildren') /\ nleaves' \in [Levels -> Int] /\ depth' \in Levels
      /\ nodes' \subseteq Index
  BY DEF TreeInv, TypeOK, WholeTree, Exists, Shape
<1>3. /\ p \in nodes /\ p \in Index /\ p.level \in Nat /\ depth \in Nat
      /\ \A q \in Children(p) : q.level = p.level + 1
  BY LeafHasNoChildren, ChildOfParent DEF Refinable, TreeInv, TypeOK, Levels, Index
<1>4. nodes' = nodes \cup Children(p) /\ depth' = d /\ depthmin' = CoarsestLevel(nleaves', depth')
  BY DEF DivideLeaf
<1>5. DeepestExact(nodes', depth')
  <2>1. \A q \in nodes : q.level =< depth /\ q.level \in Nat
    BY TreeShape DEF CountInv, DeepestExact, Index
  <2>2. \A q \in nodes' : q.level =< d
    BY <1>3, <1>4, <2>1
  <2>3. \E q \in nodes' : q.level = d
    <3>1. CASE p.level = depth
      <4>1. IndexChild(p, 0) \in Children(p)
        BY DimensionAssumption DEF Children, NChildren, BitWeight
      <4>2. QED
        BY <1>3, <1>4, <3>1, <4>1
    <3>2. CASE p.level # depth
      <4>1. \E q \in nodes : q.level = depth
        BY <1>3 DEF CountInv, DeepestExact
      <4>2. QED
        BY <1>4, <3>2, <4>1
    <3>3. QED
      BY <3>1, <3>2
  <2>4. QED
    BY <1>4, <2>2, <2>3 DEF DeepestExact
<1>6. CoarsestExact(nodes', leaf', depthmin')
  <2>1. nodes' # {}
    BY <1>3, <1>4
  <2>2. QED
    BY <1>1, <1>2, <1>4, <1>5, <2>1, CoarsestFound
<1>7. QED
  BY <1>1, <1>5, <1>6 DEF CountInv

LEMMA MergeCounts ==
  ASSUME TreeInv, TreeInv', CountInv, NEW p, CanCoarsen(p), RemoveChildren(p)
  PROVE  CountInv'
<1>1. Counted(nodes', leaf', nleaves', nb', nlb')
  BY FamilyRemoved
<1>2. /\ Shape(nodes', leaf', hasChildren') /\ nleaves' \in [Levels -> Int] /\ depth' \in Levels
      /\ nodes' \subseteq Index
  BY DEF TreeInv, TypeOK, WholeTree, Exists, Shape
<1>3. /\ nodes' = nodes \ Children(p)
      /\ depth' = DeepestLevel(nleaves', depth) /\ depthmin' = CoarsestLevel(nleaves', depth')
  BY DEF RemoveChildren
<1>4. nodes' # {}
  <2>1. p \in nodes /\ p \in Index
    BY DEF CanCoarsen, TreeInv, TypeOK
  <2>2. p \notin Children(p)
    BY <2>1, ChildOfParent DEF Index
  <2>3. QED
    BY <1>3, <2>1, <2>2
<1>5. depth \in Levels /\ \A q \in nodes' : q.level =< depth
  BY <1>3, TreeShape DEF CountInv, DeepestExact
<1>6. DeepestExact(nodes', depth')
  BY <1>1, <1>2, <1>3, <1>4, <1>5, DeepestFound
<1>7. CoarsestExact(nodes', leaf', depthmin')
  BY <1>1, <1>2, <1>3, <1>4, <1>6, CoarsestFound
<1>8. QED
  BY <1>1, <1>6, <1>7 DEF CountInv

LEMMA EmptyCounts ==
  ASSUME NEW n, NEW N, NEW L, n = [l \in Levels |-> 0], N = {}, L = {}
  PROVE  /\ Counted(N, L, n, 0, 0)
         /\ DeepestExact(N, 0) /\ CoarsestExact(N, L, 0)
<1>1. IsFiniteSet({}) /\ Cardinality({}) = 0
  BY FS_EmptySet
<1>2. \A l \in Levels : LeavesAt({}, l) = {}
  BY DEF LeavesAt
<1>3. QED
  BY <1>1, <1>2 DEF Counted, DeepestExact, CoarsestExact

LEMMA CreateCounts ==
  ASSUME TreeInv, NEW d \in Int, Create(d)
  PROVE  CountInv'
<1>1. /\ nodes' = {Root} \cup Children(Root) /\ leaf' = Children(Root)
      /\ nb' = NChildren + 1 /\ nlb' = NChildren
      /\ nleaves' = [l \in Levels |-> IF l = 1 THEN NChildren ELSE 0]
      /\ depth' = 1 /\ depthmin' = 1
  BY DEF Create
<1>2. /\ Root \in Index /\ Root.level = 0
      /\ \A q \in Children(Root) : q \in Index /\ q.level = 1
  BY OnlyRootAtTop, ChildOfParent
<1>3. IsFiniteSet(Children(Root)) /\ Cardinality(Children(Root)) = NChildren /\ NChildren \in Nat
  BY <1>2, FamilySize, NChildrenType
<1>4. IsFiniteSet(nodes') /\ Cardinality(nodes') = NChildren + 1
  <2>1. Root \notin Children(Root)
    BY <1>2
  <2>2. nodes' = Children(Root) \cup {Root}
    BY <1>1
  <2>3. QED
    BY <1>3, <2>1, <2>2, FS_AddElement
<1>5. ASSUME NEW l \in Levels PROVE nleaves'[l] = Cardinality(LeavesAt(leaf', l))
  <2>1. CASE l = 1
    <3>1. LeavesAt(leaf', l) = Children(Root)
      BY <1>1, <1>2, <2>1 DEF LeavesAt
    <3>2. QED
      BY <1>1, <1>3, <2>1, <3>1
  <2>2. CASE l # 1
    <3>1. LeavesAt(leaf', l) = {}
      BY <1>1, <1>2, <2>2 DEF LeavesAt
    <3>2. Cardinality({}) = 0
      BY FS_EmptySet
    <3>3. QED
      BY <1>1, <2>2, <3>1, <3>2
  <2>3. QED
    BY <2>1, <2>2
<1>6. Counted(nodes', leaf', nleaves', nb', nlb')
  BY <1>1, <1>3, <1>4, <1>5 DEF Counted
<1>7. IndexChild(Root, 0) \in Children(Root)
  BY DimensionAssumption DEF Children, NChildren, BitWeight
<1>8. DeepestExact(nodes', depth') /\ CoarsestExact(nodes', leaf', depthmin')
  BY <1>1, <1>2, <1>7 DEF DeepestExact, CoarsestExact
<1>9. QED
  BY <1>6, <1>8 DEF CountInv

LEMMA NextCounts == TreeInv /\ TreeInv' /\ CountInv /\ [Next]_vars => CountInv'
<1> SUFFICES ASSUME TreeInv, TreeInv', CountInv, [Next]_vars PROVE CountInv'
  OBVIOUS
<1>1. ASSUME NEW d \in -1..(MaxDepth + 1), Create(d)
      PROVE  CountInv'
  BY <1>1, MaxDepthAssumption, CreateCounts
<1>2. CASE Destroy
  <2>1. /\ nodes' = {} /\ leaf' = {} /\ nb' = 0 /\ nlb' = 0 /\ depth' = 0 /\ depthmin' = 0
        /\ nleaves' = [l \in Levels |-> 0]
    BY <1>2 DEF Destroy
  <2>2. QED
    BY <2>1, EmptyCounts DEF CountInv
<1>3. ASSUME UNCHANGED <<nodes, leaf, counters>> PROVE CountInv'
  BY <1>3 DEF counters, CountInv
<1>4. ASSUME NEW p \in leaf, RefineCall(p)
      PROVE  CountInv'
  BY <1>3, <1>4 DEF RefineCall
<1>5. CASE ~Idle /\ RefineDescend
  BY <1>3, <1>5 DEF RefineDescend
<1>6. CASE ~Idle /\ RefineDivide
  <2>1. Refinable(Top.p)
    BY <1>6, TopFrame DEF TreeInv
  <2>2. DivideLeaf(Top.p)
    BY <1>6 DEF RefineDivide
  <2>3. QED
    BY <2>1, <2>2, DivideCounts
<1>7. ASSUME NEW p \in hasChildren, Coarsen(p)
      PROVE  CountInv'
  BY <1>7, MergeCounts DEF Coarsen
<1>8. CASE UNCHANGED vars
  BY <1>3, <1>8 DEF vars
<1>9. QED
  BY <1>1, <1>2, <1>4, <1>5, <1>6, <1>7, <1>8 DEF Next, RefineStep

\* The numbers of nodes, of leaves and of leaves per level, the deepest level and
\* the coarsest level of a leaf, which tree.c keeps by increments, are those of
\* the tree.
THEOREM CountersStayExact == Spec => []CountersExact
<1>1. Init => CountInv
  <2>1. Init => /\ nodes = {} /\ leaf = {} /\ nb = 0 /\ nlb = 0 /\ depth = 0 /\ depthmin = 0
                /\ nleaves = [l \in Levels |-> 0]
    BY DEF Init
  <2>2. QED
    BY <2>1, EmptyCounts DEF CountInv
<1>2. CountInv => CountersExact
  BY DEF CountInv, Counted, DeepestExact, CoarsestExact, CountersExact, LeavesAt, Exists
<1>3. QED
  BY <1>1, <1>2, NextCounts, TreeInvHolds, PTL DEF Spec

-----------------------------------------------------------------------------
(* What a running refinement has grown its tree from. *)

\* B is a whole tree, with the parents of all that lies beside a cell of it.
WholeBase(B) ==
  /\ Root \in B
  /\ \A q \in B : q.level > 0 => Parent(q) \in B /\ Children(Parent(q)) \subseteq B
  /\ \A p \in B : \A q \in Neighbors(p) :
       Inside(q) /\ q.level > 0 => Parent(q) \in B

\* q is an index beside r that B has no node at: what makes tree_refine (r)
\* divide the parent of q first.
Lacking(B, r, q) == q \in Neighbors(r) /\ Inside(q) /\ q \notin B

\* The tree has grown from B: no node newer than B has children, no active call
\* works on such a node, and each active call but the first was made for an
\* index that B lacks beside the leaf of its caller.
GrownFrom(B) ==
  /\ B \subseteq nodes
  /\ hasChildren \subseteq B
  /\ \A i \in 1..Len(stack) : stack[i].p \in B
  /\ \A i \in 2..Len(stack) :
       \E q : Lacking(B, stack[i - 1].p, q) /\ Parent(q) = stack[i].p

\* Each node divided since B was divided for an index that B lacks beside a leaf
\* of B, itself divided since or about to be.
DividedForAReason(B) ==
  \A a \in hasChildren :
    Children(a) \cap B = {} =>
      \E r \in B : \E q :
        /\ Lacking(B, r, q) /\ Parent(q) = a
        /\ Children(r) \cap B = {}
        /\ r \in hasChildren \/ \E i \in 1..Len(stack) : stack[i].p = r

\* The history variable of a running refinement: what its tree has grown from.
HistoryInv ==
  ~Idle => WholeBase(before) /\ GrownFrom(before) /\ DividedForAReason(before)

LEMMA TreeIsWholeBase ==
  ASSUME TreeInv, Exists
  PROVE  WholeBase(nodes)
<1>1. Root \in nodes
  BY DEF TreeInv, WholeTree
<1>2. \A q \in nodes : q.level > 0 => Parent(q) \in nodes /\ Children(Parent(q)) \subseteq nodes
  BY DEF TreeInv, TypeOK, WholeTree
<1>3. ASSUME NEW p \in nodes, NEW q \in Neighbors(p), Inside(q), q.level > 0
      PROVE  Parent(q) \in nodes
  <2>1. p \in Index /\ p.level =< depthmax /\ depthmax \in 1..30 /\ p.level \in Nat
    BY MaxDepthAssumption DEF TreeInv, TypeOK, WholeTree, Index
  <2>2. q \in Index /\ q.level = p.level
    BY <2>1, NeighborMeaning
  <2>3. Parent(p) \in hasChildren /\ Parent(p) \in nodes
    BY <1>3, <2>2 DEF TreeInv, TypeOK, WholeTree
  <2>4. Parent(q) = Parent(p) \/ Parent(q) \in Neighbors(Parent(p))
    BY <1>3, <2>1, <2>2, ParentsOfNeighbors
  <2>5. Inside(Parent(q))
    <3>1. q.level \in 1..30
      BY <1>3, <2>1, <2>2
    <3>2. QED
      BY <1>3, <2>2, <3>1, ParentInside
  <2>6. QED
    BY <2>3, <2>4, <2>5 DEF TreeInv, ParentsSurrounded
<1>4. QED
  BY <1>1, <1>2, <1>3 DEF WholeBase

\* The first gap ahead of a running call, and the leaf that covers it.
LEMMA DescendGrown ==
  ASSUME TreeInv, ~Idle, RefineDescend, NEW B \in SUBSET Index,
         WholeBase(B), GrownFrom(B)
  PROVE  GrownFrom(B)'
<1> DEFINE n == Len(stack)
<1>1. PICK m \in GapsAhead :
        LET a == Covering(IndexInBox(Top.p, m))
        IN  /\ stack' \in Seq(Frame) /\ Len(stack') = n + 1
            /\ \A i \in 1..(n - 1) : stack'[i] = stack[i]
            /\ stack'[n] = [Top EXCEPT !.m = m]
            /\ stack'[n + 1] = [p |-> a, m |-> 0, count |-> 0]
            /\ UNCHANGED <<nodes, leaf, hasChildren, counters, depthmax, before>>
  BY DescendMoves
<1> DEFINE q == IndexInBox(Top.p, m)
<1>2. n \in Nat \ {0} /\ Top = stack[n] /\ Top.p \in Index /\ Top \in Frame
      /\ Refinable(Top.p)
  BY TopFrame DEF TreeInv, Top
<1>3. Covering(q) = Parent(q) /\ Parent(q).level = Top.p.level - 1 /\ Parent(q) \in leaf
  BY CoveringIsParent DEF TreeInv
<1>4. Lacking(B, Top.p, q) /\ q.level > 0
  <2>1. IsGap(Top.p, m)
    BY DEF GapsAhead
  <2>2. q.level = Top.p.level
    BY DEF IndexInBox
  <2>3. Parent(q).level \in Nat
    BY <1>3 DEF TreeInv, TypeOK, Index
  <2>4. q \in Neighbors(Top.p) /\ Inside(q) /\ q \notin B
    BY <2>1 DEF IsGap, Neighbors, GrownFrom
  <2>5. Top.p.level \in Nat
    BY <1>2 DEF Index
  <2> HIDE DEF q
  <2>6. QED
    BY <1>3, <2>2, <2>3, <2>4, <2>5 DEF Lacking
<1>5. Top.p \in B
  BY <1>2 DEF GrownFrom
<1>6. Parent(q) \in B
  BY <1>4, <1>5 DEF WholeBase, Lacking
<1>7. /\ Len(stack') = n + 1 /\ stack'[n + 1].p = Parent(q)
      /\ nodes' = nodes /\ hasChildren' = hasChildren
  BY <1>1, <1>3
<1>8. \A i \in 1..n : stack'[i].p = stack[i].p
  <2>1. stack'[n].p = Top.p
    BY <1>1, <1>2 DEF Frame
  <2>2. \A i \in 1..(n - 1) : stack'[i].p = stack[i].p
    BY <1>1
  <2> HIDE DEF n
  <2>3. QED
    BY <1>2, <2>1, <2>2
<1> HIDE DEF n, q
<1>9. \A i \in 1..(n + 1) : stack'[i].p \in B
  <2>1. \A i \in 1..n : stack[i].p \in B
    BY DEF GrownFrom, n
  <2>2. QED
    BY <1>2, <1>6, <1>7, <1>8, <2>1
<1>10. ASSUME NEW i \in 2..(n + 1)
       PROVE  \E x : Lacking(B, stack'[i - 1].p, x) /\ Parent(x) = stack'[i].p
  <2>1. CASE i = n + 1
    <3>1. i - 1 = n /\ stack'[i - 1].p = Top.p
      BY <1>2, <1>8, <2>1
    <3>2. QED
      BY <1>4, <1>7, <2>1, <3>1
  <2>2. CASE i # n + 1
    <3>1. i \in 2..n /\ i \in 1..n /\ i - 1 \in 1..n
      BY <1>2, <2>2
    <3>2. QED
      BY <1>8, <3>1 DEF GrownFrom, n
  <2>3. QED
    BY <2>1, <2>2
<1>11. QED
  BY <1>7, <1>9, <1>10 DEF GrownFrom

LEMMA DivideGrown ==
  ASSUME TreeInv, ~Idle, RefineDivide, NEW B \in SUBSET Index,
         WholeBase(B), GrownFrom(B)
  PROVE  GrownFrom(B)'
<1> DEFINE n == Len(stack)
<1>1. /\ n \in Nat \ {0} /\ Top = stack[n] /\ nodes \subseteq nodes'
      /\ Len(stack') = n - 1
      /\ \A i \in 1..(n - 1) : stack'[i].p = stack[i].p
  BY DivideMoves
<1>2. hasChildren' = hasChildren \cup {Top.p}
  BY DEF RefineDivide, DivideLeaf
<1>3. Top.p \in B
  BY <1>1 DEF GrownFrom
<1>4. B \subseteq nodes' /\ hasChildren' \subseteq B
  BY <1>1, <1>2, <1>3 DEF GrownFrom
<1>5. \A i \in 1..n : stack[i].p \in B
  BY DEF GrownFrom
<1>6. \A i \in 2..n : \E q : Lacking(B, stack[i - 1].p, q) /\ Parent(q) = stack[i].p
  BY DEF GrownFrom
<1> HIDE DEF n
<1>7. \A i \in 1..(n - 1) : stack'[i].p \in B
  BY <1>1, <1>5
<1>8. ASSUME NEW i \in 2..(n - 1)
      PROVE  \E q : Lacking(B, stack'[i - 1].p, q) /\ Parent(q) = stack'[i].p
  <2>1. i \in 1..(n - 1) /\ i - 1 \in 1..(n - 1) /\ i \in 2..n
    BY <1>1
  <2>2. QED
    BY <1>1, <1>6, <2>1
<1>9. QED
  BY <1>1, <1>4, <1>7, <1>8 DEF GrownFrom

-----------------------------------------------------------------------------
(* The history of a running refinement. *)

LEMMA CallHistory ==
  ASSUME TreeInv, NEW p \in leaf, RefineCall(p)
  PROVE  HistoryInv'
<1>1. /\ before' = nodes /\ nodes' = nodes /\ hasChildren' = hasChildren
      /\ Len(stack') = 1 /\ stack'[1].p = p
  BY DEF RefineCall
<1>2. p \in nodes /\ hasChildren \subseteq nodes
  BY DEF TreeInv, TypeOK
<1>3. WholeBase(nodes)
  BY <1>2, TreeIsWholeBase DEF Exists
<1>4. GrownFrom(before)'
  BY <1>1, <1>2 DEF GrownFrom
<1>5. DividedForAReason(before)'
  <2>1. ASSUME NEW a \in hasChildren
        PROVE  Children(a) \cap nodes # {}
    <3>1. Children(a) \subseteq nodes
      BY <1>2 DEF TreeInv, WholeTree, Exists
    <3>2. IndexChild(a, 0) \in Children(a)
      BY DimensionAssumption DEF Children, NChildren, BitWeight
    <3>3. QED
      BY <3>1, <3>2
  <2>2. QED
    BY <1>1, <2>1 DEF DividedForAReason
<1>6. QED
  BY <1>1, <1>3, <1>4, <1>5 DEF HistoryInv

LEMMA DescendHistory ==
  ASSUME TreeInv, HistoryInv, ~Idle, RefineDescend
  PROVE  HistoryInv'
<1> DEFINE n == Len(stack)
<1>1. /\ before' = before /\ hasChildren' = hasChildren
      /\ n \in Nat /\ Len(stack') = n + 1
      /\ \A i \in 1..n : stack'[i].p = stack[i].p
  <2>1. PICK m \in GapsAhead :
          /\ stack' \in Seq(Frame) /\ Len(stack') = n + 1
          /\ \A i \in 1..(n - 1) : stack'[i] = stack[i]
          /\ stack'[n] = [Top EXCEPT !.m = m]
          /\ UNCHANGED <<nodes, leaf, hasChildren, counters, depthmax, before>>
    BY DescendMoves
  <2>2. n \in Nat \ {0} /\ Top = stack[n] /\ Top \in Frame
    BY TopFrame DEF TreeInv, Top
  <2>3. stack'[n].p = stack[n].p
    BY <2>1, <2>2 DEF Frame
  <2>4. /\ before' = before /\ hasChildren' = hasChildren /\ Len(stack') = n + 1
        /\ \A i \in 1..(n - 1) : stack'[i].p = stack[i].p
    BY <2>1
  <2> HIDE DEF n
  <2>5. QED
    BY <2>2, <2>3, <2>4
<1>2. WholeBase(before) /\ GrownFrom(before) /\ DividedForAReason(before)
      /\ before \in SUBSET Index
  BY DEF HistoryInv, TreeInv, TypeOK
<1>3. GrownFrom(before)'
  <2>1. ASSUME NEW B \in SUBSET Index, B = before
        PROVE  GrownFrom(B)'
    BY <1>2, <2>1, DescendGrown
  <2>2. QED
    BY <1>1, <1>2, <2>1 DEF GrownFrom
<1>4. DividedForAReason(before)'
  <2>1. \A r : (\E i \in 1..n : stack[i].p = r) => \E i \in 1..(n + 1) : stack'[i].p = r
    BY <1>1
  <2>2. QED
    BY <1>1, <1>2, <2>1 DEF DividedForAReason
<1>5. QED
  BY <1>1, <1>2, <1>3, <1>4 DEF HistoryInv

LEMMA DivideHistory ==
  ASSUME TreeInv, HistoryInv, ~Idle, RefineDivide
  PROVE  HistoryInv'
<1> DEFINE n == Len(stack)
<1>1. /\ n \in Nat \ {0} /\ Top = stack[n]
      /\ Len(stack') = n - 1
      /\ \A i \in 1..(n - 1) : stack'[i].p = stack[i].p
  BY DivideMoves
<1>2. CASE n = 1
  <2>1. stack' = <<>>
    BY <1>1, <1>2, DivideMoves
  <2>2. QED
    BY <2>1 DEF HistoryInv, Idle
<1>3. CASE n # 1
  <2>1. before' = before /\ hasChildren' = hasChildren \cup {Top.p}
    BY <1>3 DEF RefineDivide, DivideLeaf
  <2>2. WholeBase(before) /\ GrownFrom(before) /\ DividedForAReason(before)
        /\ before \in SUBSET Index
    BY DEF HistoryInv, TreeInv, TypeOK
  <2>3. GrownFrom(before)'
    <3>1. ASSUME NEW B \in SUBSET Index, B = before
          PROVE  GrownFrom(B)'
      BY <2>2, <3>1, DivideGrown
    <3>2. QED
      BY <2>1, <2>2, <3>1 DEF GrownFrom
  <2> DEFINE r == stack[n - 1].p
  <2>4. PICK q : Lacking(before, r, q) /\ Parent(q) = Top.p
    BY <1>1, <1>3, <2>2 DEF GrownFrom
  <2>5. r \in before /\ Children(r) \cap before = {} /\ n - 1 \in 1..(n - 1)
    <3>1. n - 1 \in 1..(n - 1) /\ n - 1 \in 1..n
      BY <1>1, <1>3
    <3>2. r \in leaf
      BY <3>1 DEF TreeInv, CallersUndisturbed, Refinable
    <3>3. Children(r) \cap nodes = {}
      BY <3>2, LeafHasNoChildren DEF TreeInv
    <3>4. QED
      BY <2>2, <3>1, <3>3 DEF GrownFrom
  <2>6. \A x : (\E i \in 1..n : stack[i].p = x) =>
                 x = Top.p \/ \E i \in 1..(n - 1) : stack'[i].p = x
    BY <1>1
  <2>7. DividedForAReason(before)'
    <3>1. SUFFICES ASSUME NEW a \in hasChildren', Children(a) \cap before = {}
                   PROVE  \E x \in before : \E y :
                            /\ Lacking(before, x, y) /\ Parent(y) = a
                            /\ Children(x) \cap before = {}
                            /\ x \in hasChildren' \/ \E i \in 1..(n - 1) : stack'[i].p = x
      BY ZenonT(40), <1>1, <2>1 DEF DividedForAReason
    <3>2. CASE a = Top.p
      <4>1. \E i \in 1..(n - 1) : stack'[i].p = r
        BY <1>1, <2>5
      <4>2. QED
        BY <2>4, <2>5, <3>2, <4>1
    <3>3. CASE a \in hasChildren
      <4>1. PICK x, y :
              /\ x \in before
              /\ Lacking(before, x, y) /\ Parent(y) = a
              /\ Children(x) \cap before = {}
              /\ x \in hasChildren \/ \E i \in 1..n : stack[i].p = x
        BY <2>2, <3>1, <3>3 DEF DividedForAReason
      <4>2. x \in hasChildren' \/ \E i \in 1..(n - 1) : stack'[i].p = x
        BY <2>1, <2>6, <4>1
      <4>3. QED
        BY <4>1, <4>2
    <3>4. QED
      BY <2>1, <3>1, <3>2, <3>3
  <2>8. QED
    BY <2>1, <2>2, <2>3, <2>7 DEF HistoryInv
<1>4. QED
  BY <1>2, <1>3

LEMMA NextHistory == TreeInv /\ HistoryInv /\ [Next]_vars => HistoryInv'
<1> SUFFICES ASSUME TreeInv, HistoryInv, [Next]_vars PROVE HistoryInv'
  OBVIOUS
<1>1. ASSUME stack' = <<>> PROVE HistoryInv'
  BY <1>1 DEF HistoryInv, Idle
<1>2. ASSUME NEW d \in -1..(MaxDepth + 1), Create(d)
      PROVE  HistoryInv'
  BY <1>1, <1>2, NoTreeNoCall DEF Create
<1>3. CASE Destroy
  BY <1>1, <1>3 DEF Destroy, Idle
<1>4. ASSUME NEW p \in leaf, RefineCall(p)
      PROVE  HistoryInv'
  BY <1>4, CallHistory
<1>5. CASE RefineStep
  BY <1>5, DescendHistory, DivideHistory DEF RefineStep
<1>6. ASSUME NEW p \in hasChildren, Coarsen(p)
      PROVE  HistoryInv'
  BY <1>1, <1>6 DEF Coarsen, Idle
<1>7. CASE UNCHANGED vars
  <2>1. /\ nodes' = nodes /\ hasChildren' = hasChildren /\ stack' = stack
        /\ before' = before
    BY <1>7 DEF vars
  <2>2. QED
    BY <2>1 DEF HistoryInv, Idle, GrownFrom, DividedForAReason
<1>8. QED
  BY <1>2, <1>3, <1>4, <1>5, <1>6, <1>7 DEF Next

-----------------------------------------------------------------------------
(* The tree implements the promise of tree.h. *)

\* Neighbours r and q: a child of r touches the parent of q.
LEMMA ChildTouchesParentOfNeighbor ==
  ASSUME NEW r \in Index, NEW q \in Neighbors(r), q.level > 0
  PROVE  \E c \in Children(r) : c.level = Parent(q).level + 2 /\ Touch(c, Parent(q))
<1> DEFINE a == Parent(q)
<1>1. /\ q \in Index /\ q.level = r.level /\ \A x \in Axes : q.ijk[x] - r.ijk[x] \in -1..1
      /\ r.level \in Nat /\ \A x \in Axes : q.ijk[x] \in Int /\ r.ijk[x] \in Int
  BY NeighborMeaning DEF Index
<1>2. /\ a \in Index /\ a.level = r.level - 1
      /\ \A x \in Axes : a.ijk[x] = q.ijk[x] \div 2
  BY <1>1, ParentIndex
<1>3. PICK b \in [Axes -> 0..1] :
        \A x \in Axes : b[x] = IF q.ijk[x] < r.ijk[x] THEN 0 ELSE 1
  <2>1. [x \in Axes |-> IF q.ijk[x] < r.ijk[x] THEN 0 ELSE 1] \in [Axes -> 0..1]
    OBVIOUS
  <2>2. QED
    BY <2>1
<1>4. PICK k \in 0..(NChildren - 1) : \A x \in Axes : (k \div BitWeight(x)) % 2 = b[x]
  BY BitsOfChild
<1> DEFINE c == IndexChild(r, k)
<1>5. /\ c \in Children(r) /\ c.level = r.level + 1
      /\ \A x \in Axes : c.ijk[x] = 2 * r.ijk[x] + b[x]
  BY <1>4 DEF Children, IndexChild
<1>6. c \in Index
  BY <1>5, ChildOfParent
<1> HIDE DEF a, c
<1>7. Scale(c, c.level) = 1 /\ Scale(a, c.level) = 4
  <2>1. c.level - c.level = 0 /\ c.level - a.level = 2 /\ 2^0 = 1 /\ 2^2 = 4
    BY <1>1, <1>2, <1>5
  <2>2. QED
    BY <2>1 DEF Scale
<1>8. ASSUME NEW x \in Axes
      PROVE  /\ c.ijk[x] * 1 =< (a.ijk[x] + 1) * 4
             /\ a.ijk[x] * 4 =< (c.ijk[x] + 1) * 1
  <2>1. PICK u \in Int, v \in Int, w \in Int :
          u = q.ijk[x] /\ v = r.ijk[x] /\ w = u \div 2
    BY <1>1
  <2>2. u - v \in -1..1 /\ c.ijk[x] = 2 * v + (IF u < v THEN 0 ELSE 1) /\ a.ijk[x] = w
    BY <1>1, <1>2, <1>3, <1>5, <2>1
  <2>3. 2 * w =< u /\ u =< 2 * w + 1
    BY <2>1
  <2>4. QED
    BY <2>2, <2>3
<1>9. c.level > a.level /\ c.level = a.level + 2
  BY <1>1, <1>2, <1>5
<1>10. Touch(c, a)
  BY <1>7, <1>8, <1>9 DEF Touch
<1>11. QED
  BY <1>5, <1>9, <1>10 DEF a

\* The indices of the promise are those of the tree.
LEMMA SameIndices ==
  /\ Promise!Root = Root
  /\ \A p : Promise!Parent(p) = Parent(p)
  /\ \A p : Promise!Children(p) = Children(p)
  /\ \A p, q : Promise!Touch(p, q) <=> Touch(p, q)
<1>1. Promise!Root = Root /\ \A p : Promise!Parent(p) = Parent(p)
  BY DEF Promise!Root, Root, Promise!Parent, Parent, Promise!Axes, Axes
<1>2. \A p : Promise!Children(p) = Children(p)
  BY DEF Promise!Children, Children, Promise!IndexChild, IndexChild, Promise!NChildren,
         NChildren, Promise!BitWeight, BitWeight, Promise!Axes, Axes
<1>3. \A p, q : Promise!Touch(p, q) <=> Touch(p, q)
  BY DEF Promise!Touch, Touch, Promise!Scale, Scale, Promise!Axes, Axes
<1>4. QED
  BY <1>1, <1>2, <1>3

\* The operators of the promise, with the indices of the tree.
LEMMA PromiseInTheTree ==
  ASSUME NEW S
  PROVE  /\ Promise!LeavesOf(S) = {p \in S : Children(p) \cap S = {}}
         /\ Promise!TwoToOne(S) <=>
              \A p, q \in Promise!LeavesOf(S) : p.level > q.level + 1 => ~Touch(p, q)
         /\ Promise!IsTree(S) <=>
              /\ Root \in S
              /\ \A q \in S \ {Root} :
                   /\ q.level > 0
                   /\ Parent(q) \in S
                   /\ Children(Parent(q)) \subseteq S
         /\ \A R : Promise!NewFamilies(R, S) = {Parent(q) : q \in S \ R}
         /\ \A F : Promise!Without(S, F) = S \ UNION {Children(p) : p \in F}
<1>1. Promise!LeavesOf(S) = {p \in S : Children(p) \cap S = {}}
  BY SameIndices DEF Promise!LeavesOf, Promise!IsLeafOf
<1>2. Promise!TwoToOne(S) <=>
        \A p, q \in Promise!LeavesOf(S) : p.level > q.level + 1 => ~Touch(p, q)
  BY SameIndices DEF Promise!TwoToOne
<1>3. Promise!IsTree(S) <=>
        /\ Root \in S
        /\ \A q \in S \ {Root} :
             /\ q.level > 0
             /\ Parent(q) \in S
             /\ Children(Parent(q)) \subseteq S
  BY SameIndices DEF Promise!IsTree
<1>4. \A R : Promise!NewFamilies(R, S) = {Parent(q) : q \in S \ R}
  BY SameIndices DEF Promise!NewFamilies
<1>5. \A F : Promise!Without(S, F) = S \ UNION {Children(p) : p \in F}
  BY SameIndices DEF Promise!Without
<1>6. QED
  BY <1>1, <1>2, <1>3, <1>4, <1>5

\* The leaves by their flag are the leaves by their lack of children.
LEMMA LeavesByFlag ==
  ASSUME TypeOK, WholeTree
  PROVE  leaf = Promise!LeavesOf(nodes)
<1>1. ASSUME NEW p \in nodes
      PROVE  p \in leaf <=> Children(p) \cap nodes = {}
  <2>1. CASE p \in leaf
    BY <2>1, LeafHasNoChildren
  <2>2. CASE p \notin leaf
    <3>1. Children(p) \subseteq nodes
      BY <1>1, <2>2 DEF WholeTree, Exists
    <3>2. IndexChild(p, 0) \in Children(p)
      BY DimensionAssumption DEF Children, NChildren, BitWeight
    <3>3. QED
      BY <2>2, <3>1, <3>2
  <2>3. QED
    BY <2>1, <2>2
<1>2. QED
  BY <1>1, PromiseInTheTree DEF TypeOK

LEMMA BalancedTreeOfInv ==
  ASSUME TreeInv, Exists
  PROVE  Promise!IsBalancedTree(nodes)
<1>1. TypeOK /\ WholeTree /\ TouchingLeavesBalanced
  BY InvImpliesTouchingBalanced DEF TreeInv
<1>2. Promise!TwoToOne(nodes)
  BY <1>1, LeavesByFlag, PromiseInTheTree DEF TouchingLeavesBalanced
<1>3. ASSUME NEW q \in nodes, q # Root
      PROVE  q.level > 0 /\ Parent(q) \in nodes /\ Children(Parent(q)) \subseteq nodes
  <2>1. q \in Index /\ Inside(q) /\ q.level \in Nat
    BY <1>1 DEF TypeOK, WholeTree, Index
  <2>2. q.level > 0
    BY <1>3, <2>1, OnlyRootAtTop
  <2>3. QED
    BY <1>1, <2>2 DEF WholeTree, TypeOK
<1>4. QED
  BY <1>1, <1>2, <1>3, PromiseInTheTree DEF WholeTree, Promise!IsBalancedTree

\* A family that a refinement made cannot be taken back, whichever others are:
\* of the divided nodes of F take one at the deepest level.  It was divided for
\* the sake of a leaf one level deeper, not in F, whose new children stay; one
\* of them touches it.
LEMMA NothingDividedInVain ==
  ASSUME TreeInv, TreeInv', HistoryInv, ~Idle, RefineDivide, Len(stack) = 1,
         NEW F \in SUBSET Promise!NewFamilies(before \cup Children(Top.p), nodes'),
         F # {}
  PROVE  ~Promise!TwoToOne(Promise!Without(nodes', F))
<1> DEFINE B == before
           W == Promise!Without(nodes', F)
<1>0. /\ \A a \in F : \E q \in nodes' \ (B \cup Children(Top.p)) : a = Parent(q)
      /\ \A x : x \in Promise!LeavesOf(W) <=>
           /\ x \in nodes' /\ \A b \in F : x \notin Children(b)
           /\ \A y \in Children(x) : ~(y \in nodes' /\ \A b \in F : y \notin Children(b))
  <2>1. F \subseteq {Parent(q) : q \in nodes' \ (B \cup Children(Top.p))}
    BY PromiseInTheTree
  <2>2. W = nodes' \ UNION {Children(p) : p \in F}
    BY PromiseInTheTree
  <2>3. \A x : x \in W <=> x \in nodes' /\ \A b \in F : x \notin Children(b)
    BY <2>2
  <2> HIDE DEF W
  <2>4. Promise!LeavesOf(W) = {p \in W : Children(p) \cap W = {}}
    BY PromiseInTheTree
  <2>5. QED
    BY <2>1, <2>3, <2>4
<1>1. /\ WholeBase(B) /\ GrownFrom(B) /\ DividedForAReason(B) /\ B \subseteq Index
      /\ hasChildren' = hasChildren \cup {Top.p}
      /\ Top = stack[1] /\ Top.p \in B
      /\ nodes' \subseteq Index /\ hasChildren' \subseteq nodes' /\ nodes \subseteq nodes'
      /\ WholeTree' /\ Exists'
  <2>1. hasChildren' = hasChildren \cup {Top.p}
    BY DEF RefineDivide, DivideLeaf
  <2>2. Top = stack[1] /\ WholeTree' /\ nodes' \subseteq Index /\ hasChildren' \subseteq nodes'
        /\ nodes \subseteq nodes'
    BY DivideMoves
  <2>3. WholeBase(B) /\ GrownFrom(B) /\ DividedForAReason(B) /\ B \subseteq Index
    BY DEF HistoryInv, TreeInv, TypeOK
  <2>4. Top.p \in B
    BY <2>2, <2>3 DEF GrownFrom
  <2>5. QED
    BY <2>1, <2>2, <2>3, <2>4 DEF Exists
<1>2. ASSUME NEW a \in F
      PROVE  /\ a \in hasChildren /\ a \in Index /\ a.level \in 0..30
             /\ a \in B /\ Children(a) \cap B = {}
  <2>1. PICK q \in nodes' : q \notin B \cup Children(Top.p) /\ a = Parent(q)
    BY <1>0
  <2>2. q \in Index /\ q.level > 0
    <3>1. q # Root /\ q \in Index /\ Inside(q) /\ q.level \in Nat
      BY <1>1, <2>1 DEF WholeBase, WholeTree, Index
    <3>2. QED
      BY <3>1, OnlyRootAtTop
  <2>3. a \in hasChildren' /\ q \in Children(a)
    BY <1>1, <2>1, <2>2, ChildOfItsParent DEF WholeTree
  <2>4. a \in hasChildren
    BY <1>1, <2>1, <2>3
  <2>5. Children(a) \cap B = {}
    <3>1. ASSUME NEW c \in Children(a), c \in B
          PROVE  FALSE
      <4>1. a \in Index
        BY <1>1, <2>3
      <4>2. c.level > 0 /\ Parent(c) = a
        BY <3>1, <4>1, ChildOfParent DEF Index
      <4>3. q \in B
        BY <1>1, <2>3, <3>1, <4>2 DEF WholeBase
      <4>4. QED
        BY <2>1, <4>3
    <3>2. QED
      BY <3>1
  <2>6. a.level \in 0..30
    <3>1. a \in nodes /\ a \in Index /\ depthmax \in 1..30
      BY <2>4, MaxDepthAssumption DEF TreeInv, TypeOK
    <3>2. a.level =< depthmax
      BY <3>1 DEF TreeInv, WholeTree, Exists
    <3>3. QED
      BY <3>1, <3>2 DEF Index
  <2>7. QED
    BY <1>1, <2>3, <2>4, <2>5, <2>6 DEF GrownFrom
<1>3. PICK a \in F : \A b \in F : b.level =< a.level
  <2> DEFINE Heights == {30 - b.level : b \in F}
  <2>1. Heights \in SUBSET Nat /\ Heights # {}
    BY <1>2
  <2>2. PICK h \in Heights : \A x \in Heights : h =< x
    BY <2>1, LeastNatural
  <2>3. PICK a \in F : h = 30 - a.level
    OBVIOUS
  <2>4. \A b \in F : 30 - a.level =< 30 - b.level
    BY <2>2, <2>3
  <2>5. \A b \in F : b.level =< a.level
    BY <1>2, <2>4
  <2>6. QED
    BY <2>5
<1>4. PICK r, q :
        /\ r \in B
        /\ Lacking(B, r, q) /\ Parent(q) = a
        /\ Children(r) \cap B = {}
        /\ r \in hasChildren'
  <2>1. PICK r, q :
          /\ r \in B
          /\ Lacking(B, r, q) /\ Parent(q) = a
          /\ Children(r) \cap B = {}
          /\ r \in hasChildren \/ \E i \in 1..Len(stack) : stack[i].p = r
    BY <1>1, <1>2 DEF DividedForAReason
  <2>2. r \in hasChildren'
    BY <1>1, <2>1
  <2>3. QED
    BY <2>1, <2>2
<1>5. /\ r \in Index /\ q \in Neighbors(r) /\ q \in Index /\ q.level = r.level
      /\ q.level > 0 /\ a.level = r.level - 1
  <2>1. r \in Index /\ q \in Neighbors(r) /\ q \in Index /\ q.level = r.level /\ q.level \in Nat
    BY <1>1, <1>4, NeighborMeaning DEF Lacking, Index
  <2>2. q.level > 0
    BY <1>1, <1>4, <2>1, OnlyRootAtTop DEF Lacking, WholeBase
  <2>3. QED
    BY <1>4, <2>1, <2>2, ParentIndex
<1>6. PICK c \in Children(r) : c.level = a.level + 2 /\ Touch(c, a)
  BY <1>4, <1>5, ChildTouchesParentOfNeighbor
<1>7. c \in Index /\ Parent(c) = r
  BY <1>5, ChildOfParent
<1>8. r \notin F
  BY <1>2, <1>3, <1>5 DEF Index
<1>9. \A b \in F : \A x \in Children(b) : Parent(x) = b /\ x \in Index /\ x.level > 0
  BY <1>2, ChildOfParent DEF Index
<1>10. a \in Promise!LeavesOf(W)
  <2>1. a \in nodes'
    BY <1>1, <1>2
  <2>2. \A b \in F : a \notin Children(b)
    BY <1>2
  <2>3. QED
    BY <1>0, <2>1, <2>2
<1>11. c \in Promise!LeavesOf(W)
  <2>1. c \in nodes'
    BY <1>1, <1>4 DEF WholeTree
  <2>2. \A b \in F : c \notin Children(b)
    BY <1>7, <1>8, <1>9
  <2>3. c \notin hasChildren'
    BY <1>1, <1>4 DEF GrownFrom
  <2>4. \A x \in Children(c) : x \notin nodes'
    <3>1. \A x \in Children(c) : x.level > 0 /\ Parent(x) = c
      BY <1>7, ChildOfParent DEF Index
    <3>2. QED
      BY <1>1, <2>3, <3>1 DEF WholeTree
  <2>5. QED
    BY <1>0, <2>1, <2>2, <2>4
<1>12. c.level > a.level + 1
  BY <1>2, <1>6
<1>13. QED
  BY <1>6, <1>10, <1>11, <1>12, PromiseInTheTree

\* The last division of a call is one step of the promise.
LEMMA DivideIsPromised ==
  ASSUME TreeInv, TreeInv', HistoryInv, ~Idle, RefineDivide, Len(stack) = 1
  PROVE  /\ before \subseteq Index /\ Top.p \in before
         /\ Promise!IsLeafOf(Top.p, before) /\ Top.p.level < depthmax
         /\ Promise!Children(Top.p) \subseteq nodes'
         /\ Promise!IsLeastBalanced(before \cup Promise!Children(Top.p), nodes')
<1>1. /\ Top = stack[1] /\ nodes \subseteq nodes'
      /\ nodes' = nodes \cup Children(Top.p)
  BY DivideMoves DEF RefineDivide, DivideLeaf
<1>2. /\ GrownFrom(before) /\ before \subseteq Index /\ Top.p \in before
      /\ before \subseteq nodes
  BY <1>1 DEF HistoryInv, TreeInv, TypeOK, GrownFrom
<1>3. Refinable(Top.p)
  BY TopFrame DEF TreeInv
<1>4. Promise!IsLeafOf(Top.p, before)
  <2>1. Children(Top.p) \cap nodes = {}
    BY <1>3, LeafHasNoChildren DEF TreeInv, Refinable
  <2>2. QED
    BY <1>2, <2>1, SameIndices DEF Promise!IsLeafOf
<1>5. before \cup Children(Top.p) \subseteq nodes'
  BY <1>1, <1>2
<1>6. Promise!IsBalancedTree(nodes')
  <2>1. Exists'
    BY <1>1, <1>2 DEF Exists
  <2>2. (TreeInv /\ Exists => Promise!IsBalancedTree(nodes))'
    BY BalancedTreeOfInv, PTL
  <2>3. QED
    BY <2>1, <2>2
<1>7. \A F \in SUBSET Promise!NewFamilies(before \cup Children(Top.p), nodes') :
        F # {} => ~Promise!IsBalancedTree(Promise!Without(nodes', F))
  BY NothingDividedInVain DEF Promise!IsBalancedTree
<1>8. QED
  BY <1>2, <1>3, <1>4, <1>5, <1>6, <1>7, SameIndices
  DEF Promise!IsLeastBalanced, Refinable

\* A merge is one step of the promise.
LEMMA CoarsenIsPromised ==
  ASSUME TreeInv, TreeInv', NEW p \in hasChildren, Coarsen(p)
  PROVE  /\ p \in nodes /\ Promise!Coarsen(p)
<1>1. /\ Idle /\ Idle' /\ CanCoarsen(p) /\ depthmax' = depthmax
      /\ nodes' = nodes \ Children(p) /\ p \in leaf'
  BY DEF Coarsen, RemoveChildren, Idle
<1>2. p \in nodes /\ Children(p) \subseteq leaf /\ Exists
  BY <1>1 DEF TreeInv, TypeOK, WholeTree, Exists, CanCoarsen, Grandchildless
<1>3. Promise!Children(p) \subseteq Promise!LeavesOf(nodes)
  BY <1>2, SameIndices, LeavesByFlag DEF TreeInv
<1>4. Promise!TwoToOne(nodes')
  <2>1. Exists'
    BY <1>1 DEF TreeInv, TypeOK, Exists
  <2>2. (TreeInv /\ Exists => Promise!IsBalancedTree(nodes))'
    BY BalancedTreeOfInv, PTL
  <2>3. QED
    BY <2>1, <2>2 DEF Promise!IsBalancedTree
<1>5. QED
  BY <1>1, <1>2, <1>3, <1>4, SameIndices DEF Promise!Coarsen

\* Each step of the program is a step of the promise or changes nothing of it.
LEMMA NextIsPromised ==
  TreeInv /\ TreeInv' /\ HistoryInv /\ [Next]_vars => [Promise!Next]_(Promise!vars)
<1> DEFINE seen == IF Idle THEN nodes ELSE before
<1> SUFFICES ASSUME TreeInv, TreeInv', HistoryInv, [Next]_vars
             PROVE  [Promise!Next]_(Promise!vars)
  OBVIOUS
<1>1. ASSUME seen' = seen, depthmax' = depthmax
      PROVE  UNCHANGED Promise!vars
  BY <1>1 DEF Promise!vars
<1>2. ASSUME NEW d \in -1..(MaxDepth + 1), Create(d)
      PROVE  Promise!Create
  <2>1. Idle /\ Idle' /\ nodes = {}
    BY <1>2, NoTreeNoCall DEF Create, Exists, Idle
  <2>2. nodes' = {Root} \cup Children(Root) /\ depthmax' \in 1..MaxDepth
    BY <1>2, MaxDepthAssumption DEF Create, ClampDepth
  <2>3. QED
    BY <2>1, <2>2, SameIndices DEF Promise!Create
<1>3. CASE Destroy
  <2>1. Idle /\ Idle' /\ nodes # {} /\ nodes' = {} /\ depthmax' = 1
    BY <1>3 DEF Destroy, Idle, Exists
  <2>2. Promise!Destroy
    BY <2>1 DEF Promise!Destroy
  <2>3. QED
    BY <2>2 DEF Promise!Next
<1>4. ASSUME NEW p \in leaf, RefineCall(p)
      PROVE  UNCHANGED Promise!vars
  <2>1. Idle /\ ~Idle' /\ before' = nodes /\ depthmax' = depthmax
    BY <1>4 DEF RefineCall, Idle
  <2>2. QED
    BY <1>1, <2>1
<1>5. CASE ~Idle /\ RefineDescend
  <2>1. PICK m \in GapsAhead :
          /\ Len(stack') = Len(stack) + 1
          /\ before' = before /\ depthmax' = depthmax
    BY <1>5, DescendMoves
  <2>2. Len(stack) \in Nat
    BY DEF TreeInv, TypeOK
  <2>3. ~Idle'
    BY <2>1, <2>2 DEF Idle
  <2>4. QED
    BY <1>1, <1>5, <2>1, <2>3
<1>6. CASE ~Idle /\ RefineDivide /\ Len(stack) # 1
  <2>1. before' = before /\ depthmax' = depthmax
    BY <1>6 DEF RefineDivide
  <2>2. Len(stack) \in Nat \ {0} /\ Len(stack') = Len(stack) - 1
    BY <1>6, DivideMoves
  <2>3. ~Idle'
    BY <1>6, <2>2 DEF Idle
  <2>4. QED
    BY <1>1, <1>6, <2>1, <2>3
<1>7. CASE ~Idle /\ RefineDivide /\ Len(stack) = 1
  <2>1. Idle' /\ depthmax' = depthmax
    <3>1. stack' \in Seq(Frame) /\ Len(stack') = 0
      BY <1>7, DivideMoves
    <3>2. QED
      BY <1>7, <3>1 DEF Idle, RefineDivide
  <2>2. /\ Top.p \in before
        /\ Promise!IsLeafOf(Top.p, before) /\ Top.p.level < depthmax
        /\ Promise!Children(Top.p) \subseteq nodes'
        /\ Promise!IsLeastBalanced(before \cup Promise!Children(Top.p), nodes')
    BY <1>7, DivideIsPromised
  <2>3. Promise!Refine(Top.p)
    BY <1>7, <2>1, <2>2 DEF Promise!Refine
  <2>4. QED
    BY <1>7, <2>2, <2>3 DEF Promise!Next
<1>8. ASSUME NEW p \in hasChildren, Coarsen(p)
      PROVE  Promise!Next
  BY <1>8, CoarsenIsPromised DEF Promise!Next, Coarsen
<1>9. CASE UNCHANGED vars
  BY <1>1, <1>9 DEF vars, Idle
<1>10. QED
  BY <1>2, <1>3, <1>4, <1>5, <1>6, <1>7, <1>8, <1>9 DEF Next, RefineStep, Promise!Next

\* The tree keeps the promise of tree.h: a refinement divides the leaf it was
\* asked to and, beyond that, no family that could be taken back with the tree
\* left balanced; a coarsening merges one family; both leave a whole 2:1 tree.
THEOREM TreeImplementsPromise == Spec => ImplementsPromise
<1>1. Init => HistoryInv
  BY DEF Init, HistoryInv, Idle
<1>2. Init => Promise!Init
  BY DEF Init, Promise!Init, Idle
<1>3. Spec => []HistoryInv
  BY <1>1, NextHistory, TreeInvHolds, PTL DEF Spec
<1>4. QED
  BY <1>2, <1>3, NextIsPromised, TreeInvHolds, PTL
  DEF Spec, ImplementsPromise, Promise!Spec


-----------------------------------------------------------------------------
(* The tree under adapt_wavelet () is the tree of AmrTree. *)

LEMMA AdaptStepsTheTree == [AdaptNext]_allVars => [Next]_vars
<1> SUFFICES ASSUME [AdaptNext]_allVars PROVE [Next]_vars
  OBVIOUS
<1>1. CASE Create(MaxDepth)
  BY <1>1, MaxDepthAssumption DEF Next
<1>2. CASE Calls
  BY <1>2 DEF Calls, Begin
<1>3. ASSUME NEW p \in toRefine, RefineNext(p)
      PROVE  [Next]_vars
  BY <1>3 DEF RefineNext, Refinable, Next
<1>4. CASE RefineRuns
  BY <1>4 DEF RefineRuns, Next
<1>5. CASE Collect
  BY <1>5 DEF Collect
<1>6. ASSUME NEW p \in toMerge, MergeNext(p)
      PROVE  [Next]_vars
  BY <1>6 DEF MergeNext, CanCoarsen, Next
<1>7. CASE Return
  BY <1>7 DEF Return
<1>8. CASE UNCHANGED allVars
  BY <1>8 DEF allVars
<1>9. QED
  BY <1>1, <1>2, <1>3, <1>4, <1>5, <1>6, <1>7, <1>8 DEF AdaptNext, AdaptStep

\* Everything proved of the tree holds between any two steps of adapt_wavelet ().
THEOREM TreeInvUnderAdapt == AdaptSpec => []TreeInv
<1>1. AdaptInit => TreeInv
  BY InitTreeInv DEF AdaptInit
<1>2. QED
  BY <1>1, NextTreeInv, AdaptStepsTheTree, PTL DEF AdaptSpec

\* adapt_wavelet () never leaves the promise of tree.h: every one of its calls
\* of tree_refine () and tree_coarsen () is one step of it.
THEOREM AdaptKeepsPromise == AdaptSpec => ImplementsPromise
<1>1. AdaptInit => HistoryInv /\ Promise!Init
  BY DEF AdaptInit, Init, HistoryInv, Idle, Promise!Init
<1>2. AdaptSpec => []HistoryInv
  BY <1>1, NextHistory, AdaptStepsTheTree, TreeInvUnderAdapt, PTL DEF AdaptSpec
<1>3. QED
  BY <1>1, <1>2, NextIsPromised, AdaptStepsTheTree, TreeInvUnderAdapt, PTL
  DEF AdaptSpec, ImplementsPromise, Promise!Spec

-----------------------------------------------------------------------------
(* How far a leaf is from one the call began with. *)

\* The leaves of the tree when the call began.
OldLeaves == {q \in started : Children(q) \cap started = {}}

\* p is one of them, or has just been divided or merged out of them.
NearOldLeaf(p) ==
  \/ p \in OldLeaves
  \/ p.level > 0 /\ Parent(p) \in OldLeaves
  \/ Children(p) \subseteq OldLeaves

\* What holds as long as a call runs.
CallInv ==
  /\ phase \in {"idle", "refine", "merge"}
  /\ phase # "refine" => Idle
  /\ phase # "idle" =>
       /\ Exists
       /\ WholeBase(started)
       /\ \A q \in started : q \in Index /\ q.level =< MaxDepth
  /\ phase = "refine" =>
       /\ GrownFrom(started)
       /\ toRefine \subseteq started
       /\ coarsenable \subseteq OldLeaves
  /\ phase = "merge" =>
       /\ \A p \in toMerge : Children(p) \subseteq OldLeaves
       /\ \A p \in leaf : NearOldLeaf(p)

\* While the call refines, a leaf is an old one or the child of an old one.
LEMMA GrownLeaves ==
  ASSUME TreeInv, Exists, WholeBase(started), GrownFrom(started), NEW p \in leaf
  PROVE  p \in OldLeaves \/ (p.level > 0 /\ Parent(p) \in OldLeaves)
<1>1. p \in nodes /\ p \in Index /\ Inside(p) /\ Children(p) \cap nodes = {}
  BY LeafHasNoChildren DEF TreeInv, TypeOK, WholeTree
<1>2. CASE p \in started
  BY <1>1, <1>2 DEF GrownFrom, OldLeaves
<1>3. CASE p \notin started
  <2>1. p.level > 0
    BY <1>1, <1>3, OnlyRootAtTop DEF WholeBase, Index
  <2>2. Parent(p) \in hasChildren /\ Parent(p) \in started
    BY <1>1, <2>1 DEF TreeInv, WholeTree, GrownFrom
  <2>3. ASSUME NEW c \in Children(Parent(p)), c \in started
        PROVE  FALSE
    <3>1. Parent(p) \in Index
      BY <1>1, <2>1, ParentIndex
    <3>2. c.level > 0 /\ Parent(c) = Parent(p)
      BY <3>1, ChildOfParent DEF Index
    <3>3. p \in Children(Parent(p))
      BY <1>1, <2>1, ChildOfItsParent
    <3>4. QED
      BY <1>3, <2>3, <3>2, <3>3 DEF WholeBase
  <2>4. QED
    BY <2>1, <2>2, <2>3 DEF OldLeaves
<1>4. QED
  BY <1>2, <1>3

LEMMA BeginCallInv ==
  ASSUME TreeInv, CallInv, NEW f, NEW b, Begin(f, b)
  PROVE  CallInv'
<1>1. /\ Exists /\ phase' = "refine" /\ started' = nodes
      /\ stack = <<>> /\ UNCHANGED vars
      /\ toRefine' \subseteq leaf /\ coarsenable' \subseteq leaf
  BY DEF Begin, FlaggedToRefine, FlaggedToCoarsen, Idle
<1>2. WholeBase(nodes)
  BY <1>1, TreeIsWholeBase
<1>3. \A q \in nodes : q \in Index /\ q.level =< MaxDepth
  BY <1>1, MaxDepthAssumption DEF TreeInv, TypeOK, WholeTree, Index
<1>4. GrownFrom(started)'
  <2>1. Len(stack) = 0 /\ hasChildren \subseteq nodes
    BY <1>1 DEF TreeInv, TypeOK
  <2>2. QED
    BY <1>1, <2>1 DEF GrownFrom, vars
<1>5. leaf \subseteq nodes /\ \A p \in leaf : Children(p) \cap nodes = {}
  BY LeafHasNoChildren DEF TreeInv, TypeOK
<1>6. coarsenable' \subseteq OldLeaves' /\ toRefine' \subseteq started'
  BY <1>1, <1>5 DEF OldLeaves
<1>7. Exists'
  BY <1>1 DEF Exists, vars
<1>8. QED
  BY <1>1, <1>2, <1>3, <1>4, <1>6, <1>7 DEF CallInv

LEMMA RefineCallInv ==
  ASSUME TreeInv, CallInv, NEW p \in toRefine, RefineNext(p)
  PROVE  CallInv'
<1>1. /\ phase = "refine" /\ phase' = phase /\ Idle
      /\ toRefine' = toRefine \ {p} /\ UNCHANGED <<started, coarsenable>>
      /\ nodes' = nodes /\ hasChildren' = hasChildren
      /\ stack' = stack \/ stack' = <<[p |-> p, m |-> 0, count |-> 0]>>
  BY DEF RefineNext, RefineCall, vars
<1>2. GrownFrom(started) /\ p \in started
  BY <1>1 DEF CallInv
<1>3. GrownFrom(started)'
  <2>1. CASE stack' = stack
    BY <1>1, <1>2, <2>1 DEF GrownFrom
  <2>2. CASE stack' = <<[p |-> p, m |-> 0, count |-> 0]>>
    <3>1. Len(stack') = 1 /\ stack'[1].p = p
      BY <2>2
    <3>2. QED
      BY <1>1, <1>2, <3>1 DEF GrownFrom
  <2>3. QED
    BY <1>1, <2>1, <2>2
<1>4. QED
  BY <1>1, <1>3 DEF CallInv, Exists, OldLeaves

LEMMA RefineRunsCallInv ==
  ASSUME TreeInv, CallInv, RefineRuns
  PROVE  CallInv'
<1>1. /\ ~Idle /\ (RefineDescend \/ RefineDivide)
      /\ UNCHANGED <<phase, toRefine, coarsenable, started>>
  BY DEF RefineRuns, RefineStep
<1>2. /\ phase = "refine" /\ Exists /\ WholeBase(started) /\ GrownFrom(started)
      /\ started \in SUBSET Index
  BY <1>1 DEF CallInv
<1>3. GrownFrom(started)'
  <2>1. ASSUME NEW B \in SUBSET Index, B = started
        PROVE  GrownFrom(B)'
    BY <1>1, <1>2, <2>1, DescendGrown, DivideGrown
  <2>2. QED
    BY <1>1, <1>2, <2>1 DEF GrownFrom
<1>4. Exists'
  BY <1>1, <1>2, <1>3 DEF Exists, GrownFrom, WholeBase
<1>5. QED
  BY <1>1, <1>2, <1>3, <1>4 DEF CallInv, OldLeaves

LEMMA CollectCallInv ==
  ASSUME TreeInv, CallInv, Collect
  PROVE  CallInv'
<1>1. /\ phase = "refine" /\ phase' = "merge" /\ Idle
      /\ UNCHANGED <<nodes, leaf, stack, started>>
      /\ \A p \in toMerge' : Children(p) \subseteq coarsenable
  BY DEF Collect, Mergeable, vars
<1>2. /\ Exists /\ WholeBase(started) /\ GrownFrom(started) /\ coarsenable \subseteq OldLeaves
      /\ \A q \in started : q \in Index /\ q.level =< MaxDepth
  BY <1>1 DEF CallInv
<1>3. OldLeaves' = OldLeaves
  BY <1>1 DEF OldLeaves
<1>4. \A p \in leaf : NearOldLeaf(p)
  BY <1>2, GrownLeaves DEF NearOldLeaf
<1>5. \A p \in leaf' : NearOldLeaf(p)'
  BY <1>1, <1>3, <1>4 DEF NearOldLeaf
<1>6. Idle' /\ Exists'
  BY <1>1, <1>2 DEF Idle, Exists
<1>7. \A p \in toMerge' : Children(p) \subseteq OldLeaves'
  BY <1>1, <1>2, <1>3
<1>8. QED
  BY <1>1, <1>2, <1>5, <1>6, <1>7 DEF CallInv

LEMMA MergeCallInv ==
  ASSUME TreeInv, CallInv, NEW p \in toMerge, MergeNext(p)
  PROVE  CallInv'
<1>1. /\ phase = "merge" /\ phase' = phase /\ UNCHANGED started
      /\ toMerge' = toMerge \ {p}
      /\ UNCHANGED vars \/ (Coarsen(p) /\ CanCoarsen(p))
  BY DEF MergeNext
<1>2. /\ Idle /\ Exists /\ WholeBase(started)
      /\ \A q \in started : q \in Index /\ q.level =< MaxDepth
      /\ \A r \in toMerge : Children(r) \subseteq OldLeaves
      /\ \A r \in leaf : NearOldLeaf(r)
  BY <1>1 DEF CallInv
<1>3. /\ Idle' /\ leaf' \subseteq leaf \cup {p} /\ Exists'
  <2>1. CASE UNCHANGED vars
    BY <1>2, <2>1 DEF vars, Idle, Exists
  <2>2. CASE Coarsen(p) /\ CanCoarsen(p)
    <3>1. /\ Idle' /\ nodes' = nodes \ Children(p)
          /\ leaf' = (leaf \ Children(p)) \cup {p}
      BY <2>2 DEF Coarsen, RemoveChildren, Idle
    <3>2. p \in nodes /\ p \in Index
      BY <2>2 DEF CanCoarsen, TreeInv, TypeOK
    <3>3. p \notin Children(p)
      BY <3>2, ChildOfParent DEF Index
    <3>4. QED
      BY <3>1, <3>2, <3>3 DEF Exists
  <2>3. QED
    BY <1>1, <2>1, <2>2
<1>4. OldLeaves' = OldLeaves
  BY <1>1 DEF OldLeaves
<1>5. \A r \in leaf' : NearOldLeaf(r)'
  BY <1>2, <1>3, <1>4 DEF NearOldLeaf
<1>6. \A r \in toMerge' : Children(r) \subseteq OldLeaves'
  BY <1>1, <1>2, <1>4
<1>7. QED
  BY <1>1, <1>2, <1>3, <1>5, <1>6 DEF CallInv

LEMMA NextCallInv == TreeInv /\ CallInv /\ [AdaptNext]_allVars => CallInv'
<1> SUFFICES ASSUME TreeInv, CallInv, [AdaptNext]_allVars PROVE CallInv'
  OBVIOUS
<1>1. CASE Create(MaxDepth) /\ UNCHANGED call
  <2>1. phase = "idle" /\ phase' = phase
    BY <1>1 DEF Create, call, CallInv
  <2>2. Idle'
    BY <1>1, <2>1 DEF Create, Idle, CallInv
  <2>3. QED
    BY <2>1, <2>2 DEF CallInv
<1>2. CASE Calls
  BY <1>2, BeginCallInv DEF Calls
<1>3. ASSUME NEW p \in toRefine, RefineNext(p)
      PROVE  CallInv'
  BY <1>3, RefineCallInv
<1>4. CASE RefineRuns
  BY <1>4, RefineRunsCallInv
<1>5. CASE Collect
  BY <1>5, CollectCallInv
<1>6. ASSUME NEW p \in toMerge, MergeNext(p)
      PROVE  CallInv'
  BY <1>6, MergeCallInv
<1>7. CASE Return
  BY <1>7 DEF Return, vars, CallInv, Idle
<1>8. CASE UNCHANGED allVars
  BY <1>8 DEF allVars, vars, call, CallInv, Idle, Exists, GrownFrom, NearOldLeaf, OldLeaves
<1>9. QED
  BY <1>1, <1>2, <1>3, <1>4, <1>5, <1>6, <1>7, <1>8 DEF AdaptNext, AdaptStep

LEMMA CallInvHolds == AdaptSpec => []CallInv
<1>1. AdaptInit => CallInv
  BY DEF AdaptInit, Init, CallInv, Idle
<1>2. QED
  BY <1>1, NextCallInv, TreeInvUnderAdapt, PTL DEF AdaptSpec

\* A leaf the call began with covers no other cell the call began with.
LEMMA OldLeafCoversItself ==
  ASSUME CallInv, phase # "idle", NEW a \in OldLeaves, NEW q \in started, Covers(a, q)
  PROVE  a = q
<1>1. /\ WholeBase(started) /\ a \in Index /\ q \in Index /\ q.level =< 30
      /\ Children(a) \cap started = {}
  BY MaxDepthAssumption DEF CallInv, OldLeaves, Index
<1>2. SUFFICES ASSUME NEW d \in 0..29, d < q.level, Ancestor(q, d) \in Children(a)
               PROVE  FALSE
  BY <1>1, CoveredFromAChild
<1>3. Ancestor(q, d) \in started
  <2>1. \A x \in started : x.level > 0 => Parent(x) \in started
    BY <1>1 DEF WholeBase
  <2>2. d \in 0..30 /\ d =< q.level /\ 0 \in 0..d
    BY <1>1, <1>2 DEF Index
  <2>3. Ancestor(q, 0) \in started
    BY <1>1, OwnAncestor
  <2>4. QED
    BY <1>1, <2>1, <2>2, <2>3, AncestorsInside
<1>4. QED
  BY <1>1, <1>2, <1>3

-----------------------------------------------------------------------------
(* Merging, finest first. *)

\* While a call merges, the families it has dealt with are no coarser than those
\* to come, and one that is still there is one tree_coarsen () refuses.
MergeInv ==
  phase = "merge" =>
    /\ chosen \subseteq Index /\ toMerge \subseteq chosen
    /\ \A p \in chosen \ toMerge :
         /\ \A q \in toMerge : p.level >= q.level
         /\ p \in hasChildren => ~CanCoarsen(p)

\* A merge of a family no finer does not open the way for a refused one: what
\* stands in its way is one level deeper.
LEMMA RefusedStaysRefused ==
  ASSUME TreeInv, NEW p0 \in Index, CanCoarsen(p0), hasChildren' = hasChildren \ {p0},
         NEW p \in Index, p.level >= p0.level, p \in hasChildren', ~CanCoarsen(p)
  PROVE  ~CanCoarsen(p)'
<1>1. p \in hasChildren
  OBVIOUS
<1>2. PICK q \in hasChildren : (q = p \/ q \in Neighbors(p)) /\ ~Grandchildless(q)
  BY <1>1 DEF CanCoarsen
<1>3. PICK c \in Children(q) : c \in hasChildren
  BY <1>2 DEF Grandchildless
<1>4. q \in Index /\ q.level = p.level /\ c.level = q.level + 1
  BY <1>2, <1>3, NeighborMeaning, ChildOfParent
<1>5. q # p0
  BY <1>2 DEF CanCoarsen
<1>6. c # p0
  BY <1>4 DEF Index
<1>7. q \in hasChildren' /\ ~Grandchildless(q)'
  BY <1>2, <1>3, <1>5, <1>6 DEF Grandchildless
<1>8. QED
  BY <1>2, <1>7 DEF CanCoarsen

\* One family is dealt with.
LEMMA MergeNextMergeInv ==
  ASSUME TreeInv, MergeInv, NEW p \in toMerge, MergeNext(p)
  PROVE  MergeInv'
<1>1. /\ phase = "merge" /\ phase' = phase /\ chosen' = chosen
      /\ toMerge' = toMerge \ {p} /\ \A q \in toMerge : p.level >= q.level
      /\ IF CanCoarsen(p) THEN Coarsen(p) ELSE UNCHANGED vars
  BY DEF MergeNext
<1>2. chosen \subseteq Index /\ toMerge \subseteq chosen /\ p \in Index
  BY <1>1 DEF MergeInv
<1>3. hasChildren' = IF CanCoarsen(p) THEN hasChildren \ {p} ELSE hasChildren
  BY <1>1 DEF Coarsen, RemoveChildren, vars
<1>4. ASSUME ~CanCoarsen(p), NEW r
      PROVE  CanCoarsen(r)' = CanCoarsen(r)
  BY <1>3, <1>4 DEF CanCoarsen, Grandchildless
<1>5. ASSUME NEW r \in chosen \ (toMerge \ {p})
      PROVE  /\ \A q \in toMerge \ {p} : r.level >= q.level
             /\ r \in hasChildren' => ~CanCoarsen(r)'
  <2>1. CASE r = p
    <3>1. p \in hasChildren' => ~CanCoarsen(p) /\ ~CanCoarsen(p)'
      BY <1>3, <1>4
    <3>2. QED
      BY <1>1, <2>1, <3>1
  <2>2. CASE r \in chosen \ toMerge
    <3>1. /\ \A q \in toMerge : r.level >= q.level
          /\ r \in hasChildren => ~CanCoarsen(r)
      BY <1>1, <2>2 DEF MergeInv
    <3>2. r \in Index /\ r.level >= p.level
      BY <1>2, <2>2, <3>1
    <3>3. CASE CanCoarsen(p)
      BY <1>2, <1>3, <3>1, <3>2, <3>3, RefusedStaysRefused
    <3>4. CASE ~CanCoarsen(p)
      BY <1>3, <1>4, <3>1, <3>4
    <3>5. QED
      BY <3>1, <3>3, <3>4
  <2>3. QED
    BY <1>5, <2>1, <2>2
<1>6. QED
  BY <1>1, <1>2, <1>3, <1>5 DEF MergeInv

LEMMA NextMergeInv ==
  TreeInv /\ CallInv /\ MergeInv /\ [AdaptNext]_allVars => MergeInv'
<1> SUFFICES ASSUME TreeInv, CallInv, MergeInv, [AdaptNext]_allVars PROVE MergeInv'
  OBVIOUS
<1>1. ASSUME phase' # "merge" PROVE MergeInv'
  BY <1>1 DEF MergeInv
<1>2. ASSUME UNCHANGED <<phase, hasChildren, chosen, toMerge>>
      PROVE  MergeInv'
  BY <1>2 DEF MergeInv, CanCoarsen, Grandchildless
<1>3. CASE Create(MaxDepth) /\ UNCHANGED call
  BY <1>1, <1>3 DEF Create, call, CallInv
<1>4. CASE Calls
  BY <1>1, <1>4 DEF Calls, Begin
<1>5. ASSUME NEW p \in toRefine, RefineNext(p)
      PROVE  MergeInv'
  BY <1>1, <1>5 DEF RefineNext
<1>6. CASE RefineRuns
  BY <1>1, <1>6 DEF RefineRuns, RefineStep, CallInv
<1>7. CASE Collect
  BY <1>7 DEF Collect, MergeInv, TreeInv, TypeOK
<1>8. ASSUME NEW p \in toMerge, MergeNext(p)
      PROVE  MergeInv'
  BY <1>8, MergeNextMergeInv
<1>9. CASE Return
  BY <1>1, <1>9 DEF Return
<1>10. CASE UNCHANGED allVars
  BY <1>2, <1>10 DEF allVars, vars, call
<1>11. QED
  BY <1>3, <1>4, <1>5, <1>6, <1>7, <1>8, <1>9, <1>10 DEF AdaptNext, AdaptStep

\* When a call of adapt_wavelet () ends, no family that it chose to merge is left
\* that tree_coarsen () would still merge: going from the finest to the coarsest,
\* a family that is refused once is refused for good.
THEOREM MergesAreExhausted == AdaptSpec => []MergesExhausted
<1>1. AdaptInit => MergeInv
  BY DEF AdaptInit, MergeInv
<1>2. AdaptSpec => []MergeInv
  BY <1>1, NextMergeInv, CallInvHolds, TreeInvUnderAdapt, PTL DEF AdaptSpec
<1>3. MergeInv => MergesExhausted
  BY DEF MergeInv, MergesExhausted
<1>4. QED
  BY <1>2, <1>3, PTL

-----------------------------------------------------------------------------
(* One level at most. *)

LEMMA InvImpliesOneLevel == TreeInv /\ CallInv => OneLevelPerCall
<1> SUFFICES ASSUME TreeInv, CallInv, phase # "idle", NEW p \in leaf, NEW q \in OldLeaves,
                    Covers(p, q) \/ Covers(q, p)
             PROVE  p.level - q.level \in {-1, 0, 1}
  BY DEF OneLevelPerCall, OldLeaves
<1>1. /\ Exists /\ WholeBase(started) /\ p \in nodes /\ p \in Index /\ p.level =< 30
      /\ q \in started /\ q \in Index /\ q.level =< 30 /\ Children(q) \cap started = {}
      /\ p.level \in Nat /\ q.level \in Nat
  <2>1. Exists /\ WholeBase(started) /\ q \in started /\ q \in Index /\ q.level =< 30
        /\ Children(q) \cap started = {} /\ q.level \in Nat
    <3>1. Exists /\ WholeBase(started) /\ q \in started /\ Children(q) \cap started = {}
      BY DEF CallInv, OldLeaves
    <3>2. q \in Index /\ q.level =< MaxDepth
      BY <3>1 DEF CallInv
    <3>3. QED
      BY <3>1, <3>2, MaxDepthAssumption DEF Index
  <2>2. p \in nodes /\ p \in Index /\ p.level =< 30 /\ p.level \in Nat
    <3>1. p \in nodes /\ p \in Index /\ depthmax \in 1..30
      BY MaxDepthAssumption DEF TreeInv, TypeOK
    <3>2. p.level =< depthmax
      BY <2>1, <3>1 DEF TreeInv, WholeTree
    <3>3. QED
      BY <3>1, <3>2 DEF Index
  <2>3. QED
    BY <2>1, <2>2
<1>2. NearOldLeaf(p)
  <2>1. CASE phase = "merge"
    BY <2>1 DEF CallInv
  <2>2. CASE phase # "merge"
    <3>1. phase = "refine"
      BY <2>2 DEF CallInv
    <3>2. QED
      BY <1>1, <3>1, GrownLeaves DEF CallInv, NearOldLeaf
  <2>3. QED
    BY <2>1, <2>2
<1>3. \A a \in OldLeaves, x \in started : Covers(a, x) => a = x
  BY OldLeafCoversItself
<1>4. CASE p \in OldLeaves
  BY <1>1, <1>3, <1>4 DEF OldLeaves
<1>5. CASE p.level > 0 /\ Parent(p) \in OldLeaves
  <2>1. p \in Children(Parent(p)) /\ Parent(p).level = p.level - 1 /\ Parent(p) \in started
        /\ Parent(p) \in Index
    BY <1>1, <1>5, ChildOfItsParent, ParentIndex DEF OldLeaves
  <2>2. CASE Covers(p, q)
    <3>1. SUFFICES ASSUME q # p PROVE FALSE
      BY <1>1
    <3>2. PICK d \in 0..29 : d < q.level /\ Ancestor(q, d) \in Children(p)
      BY <1>1, <2>2, <3>1, CoveredFromAChild
    <3>3. d \in 0..30 /\ d =< q.level /\ 0 \in 0..d /\ Ancestor(q, 0) \in started
      BY <1>1, <3>2, OwnAncestor
    <3>4. Ancestor(q, d) \in started
      BY <1>1, <3>3, AncestorsInside DEF WholeBase
    <3>5. Parent(Ancestor(q, d)) = p /\ Ancestor(q, d).level > 0
      BY <1>1, <3>2, ChildOfParent
    <3>6. p \in started
      BY <1>1, <3>4, <3>5 DEF WholeBase
    <3>7. QED
      BY <1>5, <2>1, <3>6 DEF OldLeaves
  <2>3. CASE Covers(q, p)
    <3>1. SUFFICES ASSUME q # p PROVE p.level - q.level \in {-1, 0, 1}
      BY <1>1
    <3>2. PICK d \in 0..29 : /\ d < p.level /\ p.level - d = q.level + 1
                             /\ Ancestor(p, d) \in Children(q)
      BY <1>1, <2>3, <3>1, CoveredFromAChild
    <3>3. CASE d = 0
      BY <1>1, <3>2, <3>3
    <3>4. CASE d # 0
      <4>1. Ancestor(p, 1) = Parent(p)
        <5>1. 0 \in 0..29 /\ 0 < p.level /\ 0 + 1 = 1
          BY <1>5
        <5>2. QED
          BY <1>1, <5>1, AncestorsByParents
      <4>2. d \in 0..30 /\ d =< p.level /\ 1 \in 0..d
        BY <1>1, <3>2, <3>4
      <4>3. Ancestor(p, d) \in started
        <5>1. 1 \in 0..d /\ Ancestor(p, 1) \in started
          BY <2>1, <4>1, <4>2
        <5>2. \A x \in started : x.level > 0 => Parent(x) \in started
          BY <1>1 DEF WholeBase
        <5>3. QED
          BY <1>1, <4>2, <5>1, <5>2, AncestorsInside
      <4>4. QED
        BY <1>1, <3>2, <4>3
    <3>5. QED
      BY <3>3, <3>4
  <2>4. QED
    BY <2>2, <2>3
<1>6. CASE Children(p) \subseteq OldLeaves
  <2>1. p \in started
    <3>1. IndexChild(p, 0) \in Children(p)
      BY DimensionAssumption DEF Children, NChildren, BitWeight
    <3>2. /\ IndexChild(p, 0) \in started /\ Parent(IndexChild(p, 0)) = p
          /\ IndexChild(p, 0).level > 0
      BY <1>1, <1>6, <3>1, ChildOfParent DEF OldLeaves
    <3>3. QED
      BY <1>1, <3>2 DEF WholeBase
  <2>2. CASE Covers(q, p)
    BY <1>1, <1>3, <2>1, <2>2
  <2>3. CASE Covers(p, q) /\ q # p
    <3>1. PICK d \in 0..29 : /\ d < q.level /\ q.level - d = p.level + 1
                             /\ Ancestor(q, d) \in Children(p)
                             /\ Covers(Ancestor(q, d), q)
      BY <1>1, <2>3, CoveredFromAChild
    <3>2. Ancestor(q, d) = q
      BY <1>1, <1>3, <1>6, <3>1
    <3>3. q.level = p.level + 1
      BY <1>1, <3>1, <3>2, ChildOfParent
    <3>4. QED
      BY <1>1, <3>3
  <2>4. QED
    BY <1>1, <2>2, <2>3
<1>7. QED
  BY <1>2, <1>4, <1>5, <1>6 DEF NearOldLeaf

\* One call of adapt_wavelet () moves a leaf by one level at most (adapt.h): no leaf
\* lies more than one level below or above a leaf the call began with.
THEOREM OneLevelAtMost == AdaptSpec => []OneLevelPerCall
<1>1. QED
  BY InvImpliesOneLevel, CallInvHolds, TreeInvUnderAdapt, PTL

-----------------------------------------------------------------------------
(* Along one axis: block i of n, M cells a block, cell x of the scratch.   *)

\* The direction of a cell, the block in that direction and the cell of it.
AxisDir(x) == IF x < 0 THEN -1 ELSE IF x < BlockM THEN 0 ELSE 1
AxisOut(i, n, x) == i + AxisDir(x) \notin 0..(n - 1)
AxisBlock(i, n, x) == IF AxisOut(i, n, x) THEN i ELSE i + AxisDir(x)
AxisCell(i, n, x) ==
  IF ~AxisOut(i, n, x) THEN x - AxisDir(x) * BlockM
  ELSE IF AxisDir(x) < 0 THEN -1 - x ELSE 2 * BlockM - 1 - x
AxisReflected(P, N) == IF P < 0 THEN -1 - P ELSE IF P >= N THEN 2 * N - 1 - P ELSE P

\* Products of a block's number with the size of a block, one step up or down.
LEMMA Steps ==
  ASSUME NEW M \in Nat \ {0}, NEW i \in Int
  PROVE  /\ i * M \in Int
         /\ (i + 1) * M = i * M + M
         /\ (i - 1) * M = i * M - M
OBVIOUS

\* The blocks before block i, and i itself, fit among n.
LEMMA BlocksFit ==
  ASSUME NEW M \in Nat \ {0}, NEW n \in Nat \ {0}, NEW i \in 0..(n - 1)
  PROVE  /\ 0 =< i * M /\ i * M + M =< n * M /\ n * M \in Int
         /\ i = n - 1 => n * M = i * M + M
         /\ i < n - 1 => i * M + 2 * M =< n * M
         /\ i > 0 => M =< i * M
OBVIOUS

\* A reflected ghost cell is in the block that the code looks in, where it looks.
LEMMA AxisAgrees ==
  ASSUME NEW n \in Nat \ {0}, NEW i \in 0..(n - 1), NEW g \in 1..BlockM,
         NEW x \in -g..(BlockM + g - 1)
  PROVE  /\ AxisBlock(i, n, x) \in 0..(n - 1)
         /\ AxisCell(i, n, x) \in 0..(BlockM - 1)
         /\ AxisReflected(i * BlockM + x, BlockM * n)
              = AxisBlock(i, n, x) * BlockM + AxisCell(i, n, x)
<1> DEFINE M == BlockM
<1>1. M \in Nat \ {0}
  BY BlockMAssumption
<1>2. PICK im \in Int, nm \in Int :
        /\ im = i * M /\ nm = n * M /\ nm = M * n
        /\ (i + 1) * M = im + M /\ (i - 1) * M = im - M
        /\ 0 =< im /\ im + M =< nm
        /\ i = n - 1 => nm = im + M
        /\ i < n - 1 => im + 2 * M =< nm
        /\ i > 0 => M =< im
  <2>1. i \in Int
    OBVIOUS
  <2>2. n * M = M * n
    BY <1>1
  <2> HIDE DEF M
  <2>3. QED
    BY <1>1, <2>1, <2>2, Steps, BlocksFit
<1>3. M = BlockM
  OBVIOUS
<1> HIDE DEF M
<1>4. CASE x < 0
  <2>1. AxisDir(x) = -1
    BY <1>4 DEF AxisDir
  <2>2. CASE i = 0
    <3>1. AxisOut(i, n, x)
      BY <2>1, <2>2 DEF AxisOut
    <3>2. AxisBlock(i, n, x) = i /\ AxisCell(i, n, x) = -1 - x
      BY <2>1, <3>1 DEF AxisBlock, AxisCell
    <3>3. im = 0
      BY <1>1, <1>2, <2>2
    <3>4. QED
      BY <1>1, <1>2, <1>3, <1>4, <2>2, <3>2, <3>3 DEF AxisReflected
  <2>3. CASE i > 0
    <3>1. ~AxisOut(i, n, x)
      BY <2>1, <2>3 DEF AxisOut
    <3>2. AxisBlock(i, n, x) = i - 1 /\ AxisCell(i, n, x) = x + M
      BY <1>1, <1>3, <2>1, <3>1 DEF AxisBlock, AxisCell
    <3>3. AxisReflected(im + x, nm) = (im - M) + (x + M)
      BY <1>1, <1>2, <1>3, <1>4, <2>3 DEF AxisReflected
    <3>4. QED
      BY <1>1, <1>2, <1>3, <1>4, <2>3, <3>2, <3>3
  <2>4. QED
    BY <2>2, <2>3
<1>5. CASE x >= 0 /\ x < M
  <2>1. AxisDir(x) = 0
    BY <1>3, <1>5 DEF AxisDir
  <2>2. ~AxisOut(i, n, x)
    BY <2>1 DEF AxisOut
  <2>3. AxisBlock(i, n, x) = i /\ AxisCell(i, n, x) = x
    BY <1>1, <1>3, <2>1, <2>2 DEF AxisBlock, AxisCell
  <2>4. AxisReflected(im + x, nm) = im + x
    BY <1>1, <1>2, <1>5 DEF AxisReflected
  <2>5. QED
    BY <1>1, <1>2, <1>3, <1>5, <2>3, <2>4
<1>6. CASE x >= M
  <2>1. AxisDir(x) = 1
    BY <1>1, <1>3, <1>6 DEF AxisDir
  <2>2. CASE i = n - 1
    <3>1. AxisOut(i, n, x)
      BY <2>1, <2>2 DEF AxisOut
    <3>2. AxisBlock(i, n, x) = i /\ AxisCell(i, n, x) = 2 * M - 1 - x
      BY <1>3, <2>1, <3>1 DEF AxisBlock, AxisCell
    <3>3. AxisReflected(im + x, nm) = im + (2 * M - 1 - x)
      BY <1>1, <1>2, <1>3, <1>6, <2>2 DEF AxisReflected
    <3>4. QED
      BY <1>1, <1>2, <1>3, <1>6, <3>2, <3>3
  <2>3. CASE i < n - 1
    <3>1. ~AxisOut(i, n, x)
      BY <2>1, <2>3 DEF AxisOut
    <3>2. AxisBlock(i, n, x) = i + 1 /\ AxisCell(i, n, x) = x - M
      BY <1>1, <1>3, <2>1, <3>1 DEF AxisBlock, AxisCell
    <3>3. AxisReflected(im + x, nm) = (im + M) + (x - M)
      BY <1>1, <1>2, <1>3, <1>6, <2>3 DEF AxisReflected
    <3>4. QED
      BY <1>1, <1>2, <1>3, <1>6, <2>3, <3>2, <3>3
  <2>4. QED
    BY <2>2, <2>3
<1>7. QED
  BY <1>1, <1>4, <1>5, <1>6

\* The cell of block B, whose cells are y times as wide, that cell c of block q
\* is in: by the code's offset, and by the position.
AxisByOffset(M, q, c, B, y) == ((q * M - B * M * y) + c) \div y
AxisByPosition(M, q, c, B, y) == (q * M + c) \div y - B * M

LEMMA AxisSource ==
  ASSUME NEW M \in Nat \ {0}, NEW q \in Int, NEW c \in Int, NEW B \in Int, NEW y \in Nat \ {0}
  PROVE  AxisByOffset(M, q, c, B, y) = AxisByPosition(M, q, c, B, y)
<1>1. PICK X \in Int, z \in Int : X = q * M + c /\ z = B * M
  OBVIOUS
<1>2. (q * M - B * M * y) + c = X - z * y
  BY <1>1
<1>3. (X - z * y) \div y = X \div y - z
  <2>1. PICK h \in Int : h = X \div y /\ y * h =< X /\ X < y * h + y
    BY QuotientMeaning
  <2>2. X - z * y \in Int /\ y * (h - z) = y * h - z * y /\ h - z \in Int
    OBVIOUS
  <2>3. PICK yh \in Int, zy \in Int, yd \in Int :
          yh = y * h /\ zy = z * y /\ yd = y * (h - z)
    OBVIOUS
  <2>4. yd =< X - zy /\ X - zy < yd + y
    BY <2>1, <2>2, <2>3
  <2>5. X - z * y = X - zy /\ y * (h - z) = yd
    BY <2>3
  <2>6. QED
    BY <2>1, <2>2, <2>4, <2>5, QuotientUnique
<1>4. QED
  BY <1>1, <1>2, <1>3 DEF AxisByOffset, AxisByPosition

\* The cell of a position that is already in block q.
LEMMA AxisCellOfBlock ==
  ASSUME NEW q \in Int, NEW c \in 0..(BlockM - 1)
  PROVE  (q * BlockM + c) \div BlockM = q
<1>1. BlockM \in Nat \ {0}
  BY BlockMAssumption
<1>2. q * BlockM + c \in Int /\ BlockM * q = q * BlockM
  BY <1>1
<1>3. BlockM * q =< q * BlockM + c /\ q * BlockM + c < BlockM * q + BlockM
  BY <1>1, <1>2
<1>4. QED
  BY <1>1, <1>2, <1>3, QuotientUnique

-----------------------------------------------------------------------------
(* In the tree. *)

\* Every index inside of the domain has a holder, for the root covers it.
LEMMA HolderFound ==
  ASSUME TreeInv, nodes # {}, NEW q \in Index, Inside(q), q.level =< 30
  PROVE  /\ Holder(nodes, q) \in nodes
         /\ Covers(Holder(nodes, q), q)
         /\ \A b \in nodes : Covers(b, q) => b.level =< Holder(nodes, q).level
<1>1. q.level \in Nat /\ 2^q.level \in Nat \ {0} /\ nodes \subseteq Index /\ Root \in nodes
  <2>1. q.level \in 0..30 /\ q.level \in Nat
    BY DEF Index
  <2>2. nodes \subseteq Index /\ Root \in nodes
    BY DEF TreeInv, TypeOK, WholeTree, Exists
  <2>3. QED
    BY <2>1, <2>2, PowerPositive
<1>2. Covers(Root, q)
  <2>1. \A a \in Axes : q.ijk[a] \in Int /\ 0 =< q.ijk[a] /\ q.ijk[a] < 2^q.level
    BY DEF Index, Inside
  <2>2. PICK y \in Nat \ {0} : y = 2^q.level
    BY <1>1
  <2>3. ASSUME NEW a \in Axes PROVE q.ijk[a] \div y = 0
    <3>1. y * 0 = 0 /\ q.ijk[a] \in Int /\ 0 =< q.ijk[a] /\ q.ijk[a] < y
      BY <2>1, <2>2
    <3>2. y * 0 =< q.ijk[a] /\ q.ijk[a] < y * 0 + y
      BY <3>1
    <3>3. QED
      BY <3>1, <3>2, QuotientUnique
  <2>4. Root.level = 0 /\ q.level - 0 = q.level /\ \A a \in Axes : Root.ijk[a] = 0
    BY <1>1 DEF Root
  <2>5. QED
    BY <1>1, <2>2, <2>3, <2>4 DEF Covers
<1> DEFINE S == {q.level - a.level : a \in {b \in nodes : Covers(b, q)}}
<1>3. \A a \in nodes : a.level \in Nat /\ (Covers(a, q) => q.level - a.level \in Nat)
  BY <1>1 DEF Index, Covers
<1>4. S \in SUBSET Nat /\ S # {}
  BY <1>1, <1>2, <1>3
<1>5. PICK x \in S : \A y \in S : x =< y
  BY <1>4, LeastNatural
<1>6. PICK a \in nodes : Covers(a, q) /\ x = q.level - a.level
  BY <1>5
<1>7. \A b \in nodes : Covers(b, q) => b.level =< a.level
  <2>1. \A b \in nodes : Covers(b, q) => q.level - a.level =< q.level - b.level
    BY <1>5, <1>6
  <2>2. QED
    BY <1>1, <1>3, <2>1
<1>8. QED
  BY <1>6, <1>7 DEF Holder

\* Every node is one of the tree's, inside of the domain.
LEMMA NodesInside ==
  ASSUME TreeInv, NEW p \in nodes
  PROVE  /\ p \in Index /\ Inside(p) /\ p.level =< 30 /\ p.level \in Nat
         /\ nodes # {} /\ nodes \subseteq Index
<1>1. p \in Index /\ nodes \subseteq Index /\ Inside(p) /\ p.level =< depthmax
  BY DEF TreeInv, TypeOK, WholeTree, Exists
<1>2. p.level \in Nat /\ depthmax \in 1..MaxDepth /\ MaxDepth \in 1..30
  BY <1>1, MaxDepthAssumption DEF TreeInv, TypeOK, Index
<1>3. QED
  BY <1>1, <1>2

\* A node holds itself.
LEMMA HolderOfNode ==
  ASSUME TreeInv, NEW p \in nodes
  PROVE  Holder(nodes, p) = p
<1>1. p \in Index /\ p.level =< 30 /\ p.level \in Nat /\ nodes # {} /\ Inside(p)
      /\ nodes \subseteq Index
  BY NodesInside
<1> DEFINE b == Holder(nodes, p)
<1>2. Covers(p, p)
  BY <1>1, CoversItself
<1>3. b \in nodes /\ Covers(b, p) /\ p.level =< b.level
  BY <1>1, <1>2, HolderFound
<1>4. b \in Index /\ b.level \in Nat /\ b.level =< p.level
  BY <1>1, <1>3 DEF Index, Covers
<1> HIDE DEF b
<1>5. b.level = p.level /\ p.level - b.level = 0
  BY <1>1, <1>3, <1>4
<1>6. \E e \in 0..30 : e = p.level - b.level /\ b = Ancestor(p, e)
  BY <1>1, <1>3, <1>4, CoveringIsAncestor
<1>7. b = p
  BY <1>1, <1>5, <1>6, OwnAncestor
<1>8. QED
  BY <1>7 DEF b

\* The index that the code looks at, by the block of each axis.
LEMMA InDirectionOf ==
  ASSUME NEW p \in Index, Inside(p), p.level =< 30, NEW G \in 1..BlockM, NEW x \in Scratch(G)
  PROVE  LET q == InDirection(p, Dir(x))
             n == 2^p.level
         IN  /\ q \in Index /\ q.level = p.level /\ Inside(q)
             /\ n \in Nat \ {0}
             /\ \A a \in Axes :
                  /\ p.ijk[a] \in 0..(n - 1) /\ x[a] \in -G..(BlockM + G - 1)
                  /\ Dir(x)[a] = AxisDir(x[a])
                  /\ Mirrored(p, Dir(x))[a] = AxisOut(p.ijk[a], n, x[a])
                  /\ q.ijk[a] = AxisBlock(p.ijk[a], n, x[a])
                  /\ q.ijk[a] \in 0..(n - 1)
<1> DEFINE n == 2^p.level
           f == [a \in Axes |-> AxisBlock(p.ijk[a], n, x[a])]
<1>1. n \in Nat \ {0}
  <2>1. p.level \in 0..30
    BY DEF Index
  <2>2. QED
    BY <2>1, PowerPositive
<1>2. p.level \in Nat /\ p.ijk \in [Axes -> Int] /\ p = [level |-> p.level, ijk |-> p.ijk]
  BY DEF Index
<1>3. \A a \in Axes : p.ijk[a] \in Int /\ p.ijk[a] >= 0 /\ p.ijk[a] < n
  BY <1>2 DEF Inside
<1>4. \A a \in Axes : x[a] \in -G..(BlockM + G - 1)
  BY DEF Scratch
<1> HIDE DEF n
<1>5. \A a \in Axes : p.ijk[a] \in 0..(n - 1)
  BY <1>1, <1>3
<1>6. \A a \in Axes : Dir(x)[a] = AxisDir(x[a])
  BY DEF Dir, AxisDir
<1>7. \A a \in Axes : Mirrored(p, Dir(x))[a] = AxisOut(p.ijk[a], n, x[a])
  BY <1>6 DEF Mirrored, AxisOut, n
<1>8. InDirection(p, Dir(x)) = [level |-> p.level, ijk |-> f]
  <2>1. InDirection(p, Dir(x))
          = [level |-> p.level,
             ijk |-> [a \in Axes |-> IF Mirrored(p, Dir(x))[a] THEN p.ijk[a]
                                     ELSE p.ijk[a] + Dir(x)[a]]]
    BY <1>2 DEF InDirection
  <2>2. [a \in Axes |-> IF Mirrored(p, Dir(x))[a] THEN p.ijk[a] ELSE p.ijk[a] + Dir(x)[a]] = f
    BY <1>6, <1>7 DEF AxisBlock
  <2>3. QED
    BY <2>1, <2>2
<1>9. \A a \in Axes : f[a] = AxisBlock(p.ijk[a], n, x[a]) /\ f[a] \in 0..(n - 1)
  BY <1>1, <1>4, <1>5, AxisAgrees
<1> DEFINE q == [level |-> p.level, ijk |-> f]
<1>10. \A a \in Axes : f[a] \in Int /\ f[a] >= 0 /\ f[a] < n
  BY <1>1, <1>9
<1>11. q.level = p.level /\ q.ijk = f /\ q \in Index
  <2>1. f \in [Axes -> Int]
    BY <1>10
  <2> HIDE DEF f
  <2>2. QED
    BY <1>2, <2>1 DEF Index
<1> HIDE DEF f, q
<1>12. Inside(q)
  BY <1>10, <1>11 DEF Inside, n
<1>13. InDirection(p, Dir(x)) = q
  BY <1>8 DEF q
<1>14. QED
  BY <1>1, <1>4, <1>5, <1>6, <1>7, <1>9, <1>11, <1>12, <1>13 DEF n

\* The reflected position of a cell: in the index that the code looks at, in
\* the cell that the code looks at.
LEMMA ReflectedInBlock ==
  ASSUME NEW p \in Index, Inside(p), p.level =< 30, NEW G \in 1..BlockM, NEW x \in Scratch(G)
  PROVE  LET q == InDirection(p, Dir(x))
             n == 2^p.level
             X == Reflected(Position(p, x), p.level)
         IN  /\ [level |-> p.level, ijk |-> [a \in Axes |-> X[a] \div BlockM]] = q
             /\ \A a \in Axes :
                  /\ X[a] = q.ijk[a] * BlockM + AxisCell(p.ijk[a], n, x[a])
                  /\ AxisCell(p.ijk[a], n, x[a]) \in 0..(BlockM - 1)
<1> DEFINE q == InDirection(p, Dir(x))
           n == 2^p.level
           X == Reflected(Position(p, x), p.level)
           c(a) == AxisCell(p.ijk[a], n, x[a])
<1>1. /\ q \in Index /\ q.level = p.level /\ n \in Nat \ {0}
      /\ \A a \in Axes :
           /\ p.ijk[a] \in 0..(n - 1) /\ x[a] \in -G..(BlockM + G - 1)
           /\ q.ijk[a] = AxisBlock(p.ijk[a], n, x[a])
           /\ q.ijk[a] \in 0..(n - 1)
  BY InDirectionOf
<1>2. \A a \in Axes : X[a] = AxisReflected(p.ijk[a] * BlockM + x[a], BlockM * n)
  BY DEF Reflected, Position, AxisReflected
<1> HIDE DEF q, n, X
<1>3. ASSUME NEW a \in Axes
      PROVE  /\ X[a] = q.ijk[a] * BlockM + c(a)
             /\ c(a) \in 0..(BlockM - 1)
             /\ X[a] \div BlockM = q.ijk[a]
  <2>1. c(a) \in 0..(BlockM - 1) /\ X[a] = q.ijk[a] * BlockM + c(a)
    <3>1. PICK i, y, g : i = p.ijk[a] /\ y = x[a] /\ g = G
      OBVIOUS
    <3>2. n \in Nat \ {0} /\ i \in 0..(n - 1) /\ g \in 1..BlockM /\ y \in -g..(BlockM + g - 1)
      BY <1>1, <3>1
    <3>3. /\ AxisReflected(i * BlockM + y, BlockM * n) = AxisBlock(i, n, y) * BlockM + AxisCell(i, n, y)
          /\ AxisCell(i, n, y) \in 0..(BlockM - 1)
      BY <3>2, AxisAgrees
    <3>4. X[a] = AxisReflected(i * BlockM + y, BlockM * n) /\ q.ijk[a] = AxisBlock(i, n, y)
      BY <1>1, <1>2, <3>1
    <3>5. QED
      BY <3>1, <3>3, <3>4
  <2>2. q.ijk[a] \in Int
    BY <1>1 DEF Index
  <2>3. (q.ijk[a] * BlockM + c(a)) \div BlockM = q.ijk[a]
    BY <2>1, <2>2, AxisCellOfBlock
  <2>4. QED
    BY <2>1, <2>3
<1> HIDE DEF c
<1>4. [a \in Axes |-> X[a] \div BlockM] = q.ijk
  <2>1. q.ijk \in [Axes -> Int]
    BY <1>1 DEF Index
  <2>2. QED
    BY <1>3, <2>1
<1>5. q = [level |-> p.level, ijk |-> q.ijk]
  BY <1>1 DEF Index
<1>6. QED
  BY <1>3, <1>4, <1>5 DEF q, n, X, c

\* One scratch cell of one node.
LEMMA GhostAsDocumented ==
  ASSUME TreeInv, NEW p \in nodes, NEW G \in 1..BlockM, NEW x \in Scratch(G)
  PROVE  GatherCell(nodes, p, x) = GhostCell(nodes, p, x)
<1> DEFINE d == Dir(x)
           q == InDirection(p, d)
           b == Holder(nodes, q)
           sh == q.level - b.level
           n == 2^p.level
           X == Reflected(Position(p, x), p.level)
           c(a) == AxisCell(p.ijk[a], n, x[a])
<1>1. p \in Index /\ Inside(p) /\ p.level =< 30 /\ nodes # {} /\ nodes \subseteq Index
  BY NodesInside
<1>2. /\ q \in Index /\ q.level = p.level /\ Inside(q) /\ n \in Nat \ {0}
      /\ \A a \in Axes :
           /\ p.ijk[a] \in 0..(n - 1)
           /\ d[a] = AxisDir(x[a])
           /\ Mirrored(p, d)[a] = AxisOut(p.ijk[a], n, x[a])
           /\ q.ijk[a] = AxisBlock(p.ijk[a], n, x[a])
           /\ q.ijk[a] \in Int /\ x[a] \in Int
  <2>1. G \in Int /\ BlockM \in Int
    BY BlockMAssumption
  <2>2. QED
    BY <1>1, <2>1, InDirectionOf DEF Index
<1>3. /\ [level |-> p.level, ijk |-> [a \in Axes |-> X[a] \div BlockM]] = q
      /\ \A a \in Axes : X[a] = q.ijk[a] * BlockM + c(a) /\ c(a) \in 0..(BlockM - 1)
  BY <1>1, ReflectedInBlock
<1>4. /\ b \in nodes /\ Covers(b, q) /\ b \in Index
      /\ b.level \in Nat /\ b.level =< q.level /\ sh \in 0..30 /\ 2^sh \in Nat \ {0}
      /\ \A a \in Axes : b.ijk[a] = q.ijk[a] \div 2^sh /\ b.ijk[a] \in Int
  <2>1. b \in nodes /\ Covers(b, q) /\ b \in Index
    BY <1>1, <1>2, HolderFound
  <2>2. b.level \in Nat /\ b.level =< q.level /\ q.level \in 0..30
    BY <1>1, <1>2, <2>1 DEF Index, Covers
  <2>3. sh \in 0..30
    BY <2>2
  <2>4. 2^sh \in Nat \ {0}
    BY <2>3, PowerPositive
  <2>5. \A a \in Axes : b.ijk[a] = q.ijk[a] \div 2^sh /\ b.ijk[a] \in Int
    BY <2>1 DEF Covers, Index
  <2>6. QED
    BY <2>1, <2>2, <2>3, <2>4, <2>5
<1>5. GhostCell(nodes, p, x)
        = [node |-> b, cell |-> [a \in Axes |-> X[a] \div 2^sh - b.ijk[a] * BlockM]]
  BY <1>2, <1>3 DEF GhostCell
<1>6. BlockM \in Nat \ {0}
  BY BlockMAssumption
<1>7. \A a \in Axes : c(a) \in Int
  BY <1>3, <1>6
<1> HIDE DEF q, b, sh, n, X, c, d
<1>8. CASE \A a \in Axes : d[a] = 0
  <2>1. \A a \in Axes : ~AxisOut(p.ijk[a], n, x[a]) /\ AxisDir(x[a]) = 0
    <3>1. \A a \in Axes : AxisDir(x[a]) = 0
      BY <1>2, <1>8
    <3>2. QED
      BY <1>2, <3>1 DEF AxisOut
  <2>2. \A a \in Axes : q.ijk[a] = p.ijk[a] /\ c(a) = x[a]
    BY <1>2, <1>6, <2>1 DEF AxisBlock, AxisCell, c
  <2>3. q = p
    BY <1>1, <1>2, <2>2, IndexEquality
  <2>4. b = p
    BY <2>3, HolderOfNode DEF b
  <2>5. sh = 0 /\ 2^sh = 1
    <3>1. p.level \in Nat
      BY <1>1 DEF Index
    <3>2. sh = 0
      BY <2>3, <2>4, <3>1 DEF sh
    <3>3. 2^0 = 1
      OBVIOUS
    <3>4. QED
      BY <3>2, <3>3
  <2>6. ASSUME NEW a \in Axes
        PROVE  X[a] \div 2^sh - b.ijk[a] * BlockM = x[a]
    <3>1. X[a] = p.ijk[a] * BlockM + x[a] /\ p.ijk[a] \in Int /\ x[a] \in Int
      BY <1>2, <1>3, <2>2
    <3>2. X[a] \in Int /\ X[a] \div 1 = X[a]
      BY <1>6, <3>1
    <3>3. QED
      BY <1>6, <2>4, <2>5, <3>1, <3>2
  <2>7. x = [a \in Axes |-> x[a]]
    BY DEF Scratch
  <2>8. [a \in Axes |-> X[a] \div 2^sh - b.ijk[a] * BlockM] = x
    BY <2>6, <2>7
  <2>9. GatherCell(nodes, p, x) = [node |-> p, cell |-> x]
    BY <1>8 DEF GatherCell, d
  <2>10. QED
    BY <1>5, <2>4, <2>8, <2>9
<1>9. CASE ~(\A a \in Axes : d[a] = 0)
  <2> DEFINE run == ~Mirrored(p, d)[1] /\ sh = 0
             cell(a) == IF a = 1 /\ run THEN x[a] - d[a] * BlockM
                        ELSE SourceCell(x[a], d[a], Mirrored(p, d)[a], Offset(q, b)[a], sh)
  <2>1. GatherCell(nodes, p, x) = [node |-> b, cell |-> [a \in Axes |-> cell(a)]]
    BY <1>9 DEF GatherCell, d, q, b, sh
  <2>2. ASSUME NEW a \in Axes
        PROVE  SourceCell(x[a], d[a], Mirrored(p, d)[a], Offset(q, b)[a], sh)
                 = X[a] \div 2^sh - b.ijk[a] * BlockM
    <3>1. SourceCell(x[a], d[a], Mirrored(p, d)[a], Offset(q, b)[a], sh)
            = (Offset(q, b)[a] + c(a)) \div 2^sh
      BY <1>2 DEF SourceCell, AxisCell, c
    <3>2. Offset(q, b)[a] = q.ijk[a] * BlockM - b.ijk[a] * BlockM * 2^sh
      <4>1. Offset(q, b)[a] = q.ijk[a] * BlockM - (q.ijk[a] \div 2^sh) * BlockM * 2^sh
        BY DEF Offset, sh
      <4>2. QED
        BY <1>4, <4>1
    <3>3. PICK y \in Nat \ {0} : y = 2^sh
      BY <1>4
    <3>4. ((q.ijk[a] * BlockM - b.ijk[a] * BlockM * y) + c(a)) \div y
            = (q.ijk[a] * BlockM + c(a)) \div y - b.ijk[a] * BlockM
      <4>1. /\ q.ijk[a] \in Int /\ c(a) \in Int /\ b.ijk[a] \in Int /\ BlockM \in Nat \ {0}
        BY <1>2, <1>4, <1>6, <1>7
      <4>2. AxisByOffset(BlockM, q.ijk[a], c(a), b.ijk[a], y)
              = AxisByPosition(BlockM, q.ijk[a], c(a), b.ijk[a], y)
        <5>1. PICK k \in Int, j \in Int, h \in Int : k = q.ijk[a] /\ j = c(a) /\ h = b.ijk[a]
          BY <4>1
        <5>2. AxisByOffset(BlockM, k, j, h, y) = AxisByPosition(BlockM, k, j, h, y)
          BY ZenonT(40), <1>6, AxisSource
        <5>3. QED
          BY <5>1, <5>2
      <4>3. QED
        BY <4>2 DEF AxisByOffset, AxisByPosition
    <3>5. QED
      BY <1>3, <3>1, <3>2, <3>3, <3>4
  <2>3. ASSUME NEW a \in Axes, a = 1, run
        PROVE  cell(a) = X[a] \div 2^sh - b.ijk[a] * BlockM
    <3>1. ~AxisOut(p.ijk[a], n, x[a]) /\ cell(a) = x[a] - d[a] * BlockM
      BY <1>2, <2>3
    <3>2. cell(a) = c(a)
      BY <1>2, <3>1 DEF AxisCell, c
    <3>3. 2^sh = 1
      <4>1. 2^0 = 1
        OBVIOUS
      <4>2. QED
        BY <2>3, <4>1
    <3>4. q.ijk[a] \div 1 = q.ijk[a] /\ b.ijk[a] = q.ijk[a]
      BY <1>2, <1>4, <3>3
    <3>5. X[a] = q.ijk[a] * BlockM + c(a) /\ X[a] \in Int /\ X[a] \div 1 = X[a]
      <4>1. \A k, j \in Int : k * BlockM + j \in Int
        BY <1>6
      <4>2. X[a] = q.ijk[a] * BlockM + c(a) /\ X[a] \in Int
        BY <1>2, <1>3, <1>7, <4>1
      <4>3. \A k \in Int : k \div 1 = k
        OBVIOUS
      <4>4. QED
        BY <4>2, <4>3
    <3>6. QED
      BY <1>2, <1>6, <1>7, <3>2, <3>3, <3>4, <3>5
  <2>4. \A a \in Axes : cell(a) = X[a] \div 2^sh - b.ijk[a] * BlockM
    BY <2>2, <2>3
  <2> HIDE DEF cell
  <2>5. QED
    BY <1>5, <2>1, <2>4
<1>10. QED
  BY <1>8, <1>9

\* "A ghost cell's value": whatever tree_refine () and tree_coarsen () have
\* made of the tree, block_gather () copies into each scratch cell, across
\* level jumps, along walls and into corners, the cell that block-ghosts.h
\* names.
THEOREM GatherIsDocumented == Spec => []GhostsAsDocumented
<1>1. TreeInv => GhostsAsDocumented
  BY GhostAsDocumented, LayersAssumption DEF GhostsAsDocumented
<1>2. QED
  BY <1>1, TreeInvHolds, PTL

-----------------------------------------------------------------------------
(* Sums along the axes. *)

\* A sum along the axes.
LEMMA AxisSum ==
  ASSUME NEW f \in [Axes -> Int]
  PROVE  /\ SumFunction(f) \in Int
         /\ SumFunction(f) = f[1] + (IF Dimension > 1 THEN f[2] ELSE 0)
                                  + (IF Dimension > 2 THEN f[3] ELSE 0)
<1>1. IsFiniteSet(Axes) /\ Part(f, Axes) = f
  BY DimensionAssumption, FS_Interval DEF Axes, Part
<1>2. SumFunction(f) \in Int
  BY <1>1, SumFacts
<1> DEFINE sum(T) == SumFunction(Part(f, T))
<1>3. ASSUME NEW T \in SUBSET Axes, NEW x \in T
      PROVE  sum(T) = f[x] + sum(T \ {x}) /\ sum(T \ {x}) \in Int
  <2>1. sum(T) = f[x] + sum(T \ {x})
    BY <1>1, SumPlusOne
  <2>2. sum(T \ {x}) \in Int
    BY <1>1, SumPlusOne
  <2>3. QED
    BY <2>1, <2>2
<1>4. sum({}) = 0
  BY SumOfEmptyPart
<1>5. sum(Axes) = SumFunction(f)
  BY <1>1
<1> HIDE DEF sum
<1>6. ASSUME NEW x \in Axes PROVE sum({x}) = f[x]
  <2>1. {x} \ {x} = {} /\ {x} \in SUBSET Axes /\ x \in {x}
    OBVIOUS
  <2>2. sum({x}) = f[x] + sum({})
    BY <1>3, <2>1
  <2>3. f[x] \in Int
    OBVIOUS
  <2>4. QED
    BY <1>4, <2>2, <2>3
<1>7. CASE Dimension = 1
  <2>1. Axes = {1}
    BY <1>7 DEF Axes
  <2>2. f[1] \in Int
    BY <2>1
  <2>3. QED
    BY <1>2, <1>5, <1>6, <1>7, <2>1, <2>2
<1>8. CASE Dimension = 2
  <2>1. Axes = {1, 2} /\ Axes \ {2} = {1}
    BY <1>8 DEF Axes
  <2>2. sum(Axes) = f[2] + sum({1}) /\ sum({1}) = f[1]
    BY <1>3, <1>6, <2>1
  <2>3. f[1] \in Int /\ f[2] \in Int
    BY <2>1
  <2>4. QED
    BY <1>2, <1>5, <1>8, <2>2, <2>3
<1>9. CASE Dimension = 3
  <2>1. Axes = {1, 2, 3} /\ Axes \ {3} = {1, 2} /\ {1, 2} \ {2} = {1} /\ {1, 2} \in SUBSET Axes
    BY <1>9 DEF Axes
  <2>2. sum(Axes) = f[3] + sum({1, 2}) /\ sum({1, 2}) = f[2] + sum({1}) /\ sum({1}) = f[1]
    BY <1>3, <1>6, <2>1
  <2>3. f[1] \in Int /\ f[2] \in Int /\ f[3] \in Int
    BY <2>1
  <2>4. QED
    BY <1>2, <1>5, <1>9, <2>2, <2>3
<1>10. QED
  BY <1>7, <1>8, <1>9, DimensionAssumption

-----------------------------------------------------------------------------
(* Halves and eighths: 2, 4 and 8 have inverses modulo an odd number. *)

Halvings == {2, 4, 8}

\* What ValuesAssumption says of the modulus, as the proofs below use it.
LEMMA ModulusFacts == Modulus \in Nat \ {0} /\ Modulus \in Nat /\ Modulus > 2 /\ Numbers = 0..(Modulus - 1)
                      /\ 0 \in Numbers /\ 1 \in Numbers /\ Numbers \in SUBSET Int
<1>1. Modulus \in Nat /\ Modulus > 2
  BY ValuesAssumption
<1>2. QED
  BY <1>1 DEF Numbers

\* Every power of 2 that divides here has an inverse.
LEMMA InverseExists ==
  ASSUME NEW k \in Halvings
  PROVE  \E i \in Numbers : (i * k) % Modulus = 1
<1> DEFINE Undoes(j) == j \in Int /\ Congruent(Modulus, j * k, 1)
<1>1. Modulus \in Nat \ {0} /\ Modulus \in Nat /\ Modulus > 2 /\ Modulus % 2 # 0
  <2>1. 2 \in 2..(Modulus - 1)
    BY ModulusFacts
  <2>2. QED
    BY <2>1, ModulusFacts, ValuesAssumption
<1>2. PICK h \in Int : Modulus = 2 * h - 1
  <2>1. PICK z \in Int : z = Modulus \div 2
    BY <1>1
  <2>2. Modulus = 2 * z + 1
    BY <1>1, <2>1
  <2>3. z + 1 \in Int /\ Modulus = 2 * (z + 1) - 1
    BY <2>2
  <2>4. QED
    BY <2>3
<1>3. Congruent(Modulus, 2 * h, 1)
  <2>1. 2 * h = 1 + Modulus * 1
    BY <1>2
  <2>2. QED
    BY <2>1 DEF Congruent
<1>4. ASSUME NEW t \in Int, Congruent(Modulus, t, 1)
      PROVE  (2 * h) * t \in Int /\ Congruent(Modulus, (2 * h) * t, 1)
  <2>1. PICK u \in Int : u = 2 * h
    OBVIOUS
  <2>2. Congruent(Modulus, u * t, u) /\ u * t \in Int
    BY <1>1, <1>4, CongruentTimesOne
  <2>3. Congruent(Modulus, u * t, 1)
    BY <1>1, <1>3, <2>1, <2>2, CongruentOn
  <2>4. QED
    BY <2>1, <2>2, <2>3
<1>5. Congruent(Modulus, 4 * (h * h), 1) /\ h * h \in Int
  <2>1. 2 * h \in Int /\ (2 * h) * (2 * h) = 4 * (h * h) /\ h * h \in Int
    OBVIOUS
  <2>2. PICK t \in Int : t = 2 * h
    BY <2>1
  <2>3. Congruent(Modulus, (2 * h) * t, 1)
    BY <1>3, <1>4, <2>2
  <2>4. QED
    BY <2>1, <2>2, <2>3
<1>6. Congruent(Modulus, 8 * (h * (h * h)), 1) /\ h * (h * h) \in Int
  <2>1. PICK g \in Int : g = h * h
    BY <1>5
  <2>2. 4 * g \in Int /\ (2 * h) * (4 * g) = 8 * (h * g) /\ h * g \in Int
    OBVIOUS
  <2>3. PICK t \in Int : t = 4 * g
    BY <2>2
  <2>4. Congruent(Modulus, (2 * h) * t, 1)
    BY <1>4, <1>5, <2>1, <2>3
  <2>5. QED
    BY <2>1, <2>2, <2>3, <2>4
<1>7. PICK j \in Int : Congruent(Modulus, k * j, 1)
  <2>1. CASE k = 2
    BY <1>3, <2>1
  <2>2. CASE k = 4
    BY <1>5, <2>2
  <2>3. CASE k = 8
    <3>1. PICK g \in Int : g = h * (h * h)
      BY <1>6
    <3>2. Congruent(Modulus, 8 * g, 1)
      BY <1>6, <3>1
    <3>3. QED
      BY <2>3, <3>2
  <2>4. QED
    BY <2>1, <2>2, <2>3 DEF Halvings
<1> DEFINE i == j % Modulus
<1>8. i \in Numbers /\ Congruent(Modulus, i, j)
  BY <1>1, CongruentRest DEF Numbers
<1>9. i \in Int /\ k \in Int
  BY <1>8, ModulusFacts DEF Halvings
<1> HIDE DEF i
<1>10. Congruent(Modulus, k * i, k * j) /\ k * i \in Int /\ k * j \in Int
  BY <1>1, <1>8, <1>9, CongruentTimes
<1>11. Congruent(Modulus, k * i, 1)
  BY <1>1, <1>7, <1>10, CongruentOn
<1>12. Congruent(Modulus, (k * i) % Modulus, k * i) /\ (k * i) % Modulus \in 0..(Modulus - 1)
  BY <1>1, <1>10, CongruentRest
<1>13. (k * i) % Modulus = 1
  <2>1. PICK r \in 0..(Modulus - 1) : r = (k * i) % Modulus
    BY <1>12
  <2>2. r \in Int
    BY <1>1
  <2>3. Congruent(Modulus, r, 1)
    BY <1>1, <1>10, <1>11, <1>12, <2>1, <2>2, CongruentOn
  <2>4. 1 \in 0..(Modulus - 1)
    BY <1>1
  <2>5. QED
    BY <1>1, <2>1, <2>3, <2>4, CongruentSmall
<1>14. i * k = k * i
  BY <1>9
<1>15. QED
  BY <1>8, <1>13, <1>14

\* Dividing by k is multiplying by one number.
LEMMA OverMeaning ==
  ASSUME NEW k \in Halvings
  PROVE  \E i \in Int : /\ Congruent(Modulus, k * i, 1)
                        /\ \A x \in Int : Over(x, k) \in Numbers /\ Congruent(Modulus, Over(x, k), i * x)
<1>1. PICK i \in Numbers : i = CHOOSE j \in Numbers : (j * k) % Modulus = 1
  BY InverseExists
<1>2. (i * k) % Modulus = 1
  BY <1>1, InverseExists
<1>3. i \in Int /\ k \in Int /\ i * k \in Int /\ k * i = i * k /\ Modulus \in Nat \ {0} /\ Modulus \in Nat
  BY ModulusFacts DEF Halvings
<1>4. Congruent(Modulus, k * i, 1)
  <2>1. Congruent(Modulus, (i * k) % Modulus, i * k)
    BY <1>3, CongruentRest
  <2>2. QED
    BY <1>2, <1>3, <2>1, CongruentBack
<1>5. ASSUME NEW x \in Int
      PROVE  Over(x, k) \in Numbers /\ Congruent(Modulus, Over(x, k), i * x)
  <2>1. Over(x, k) = (x * i) % Modulus
    BY <1>1 DEF Over
  <2>2. x * i \in Int /\ x * i = i * x
    BY <1>3
  <2>3. QED
    BY <1>3, <2>1, <2>2, CongruentRest DEF Numbers
<1>6. QED
  BY <1>3, <1>4, <1>5

\* k times a k-th is the whole.
LEMMA OverTimes ==
  ASSUME NEW k \in Halvings, NEW x \in Int
  PROVE  Over(x, k) \in Numbers /\ Congruent(Modulus, k * Over(x, k), x)
<1>1. PICK i \in Int : /\ Congruent(Modulus, k * i, 1)
                       /\ Over(x, k) \in Numbers /\ Congruent(Modulus, Over(x, k), i * x)
  BY OverMeaning
<1>2. PICK o \in Int : o = Over(x, k)
  BY <1>1, ModulusFacts
<1>3. k \in Int /\ Modulus \in Nat /\ i * x \in Int /\ k * i \in Int /\ k * o \in Int
  BY ModulusFacts DEF Halvings
<1>4. Congruent(Modulus, k * o, k * (i * x)) /\ k * (i * x) \in Int
  BY <1>1, <1>2, <1>3, CongruentTimes
<1>5. Congruent(Modulus, x * (k * i), x) /\ x * (k * i) = k * (i * x)
  <2>1. PICK t \in Int : t = k * i
    BY <1>3
  <2>2. Congruent(Modulus, x * t, x)
    BY <1>1, <1>3, <2>1, CongruentTimesOne
  <2>3. x * (k * i) = k * (i * x)
    BY <1>3
  <2>4. QED
    BY <2>1, <2>2, <2>3
<1>6. Congruent(Modulus, k * o, x)
  BY <1>3, <1>4, <1>5, CongruentOn
<1>7. QED
  BY <1>1, <1>2, <1>6

\* What k times a number is tells the number.
LEMMA OverUnique ==
  ASSUME NEW k \in Halvings, NEW a \in Numbers, NEW b \in Numbers,
         Congruent(Modulus, k * a, k * b)
  PROVE  a = b
<1>1. PICK i \in Int : Congruent(Modulus, k * i, 1)
  BY OverMeaning
<1>2. k \in Int /\ Modulus \in Nat \ {0} /\ Modulus \in Nat /\ a \in Int /\ b \in Int
      /\ k * a \in Int /\ k * b \in Int /\ k * i \in Int
  BY ModulusFacts DEF Halvings
<1>3. ASSUME NEW x \in Int PROVE Congruent(Modulus, i * (k * x), x) /\ i * (k * x) \in Int
  <2>1. PICK t \in Int : t = k * i
    BY <1>2
  <2>2. Congruent(Modulus, x * t, x)
    BY <1>1, <1>2, <2>1, CongruentTimesOne
  <2>3. x * (k * i) = i * (k * x) /\ i * (k * x) \in Int
    BY <1>2
  <2>4. QED
    BY <2>1, <2>2, <2>3
<1>4. Congruent(Modulus, i * (k * a), i * (k * b))
  BY <1>2, CongruentTimes
<1>5. Congruent(Modulus, i * (k * a), b)
  BY <1>2, <1>3, <1>4, CongruentOn
<1>6. Congruent(Modulus, a, i * (k * a))
  BY <1>2, <1>3, CongruentBack
<1>7. Congruent(Modulus, a, b)
  BY <1>2, <1>3, <1>5, <1>6, CongruentOn
<1>8. QED
  BY <1>2, <1>7, CongruentSmall DEF Numbers

-----------------------------------------------------------------------------
(* Children, cells, and the cells of the children. *)

ChildNumbers == 0..(NChildren - 1)

LEMMA ChildNumbersFinite ==
  /\ IsFiniteSet(ChildNumbers) /\ Cardinality(ChildNumbers) = NChildren
  /\ NChildren \in Halvings /\ NChildren \in Nat /\ ChildNumbers \in SUBSET Int
  /\ NChildren = (IF Dimension = 1 THEN 2 ELSE IF Dimension = 2 THEN 4 ELSE 8)
<1>1. NChildren = (IF Dimension = 1 THEN 2 ELSE IF Dimension = 2 THEN 4 ELSE 8)
  BY DimensionAssumption DEF NChildren, BitWeight
<1>2. NChildren \in Halvings /\ NChildren \in Nat
  BY <1>1 DEF Halvings
<1>3. IsFiniteSet(ChildNumbers) /\ Cardinality(ChildNumbers) = NChildren
  BY <1>2, FS_Interval DEF ChildNumbers
<1>4. ChildNumbers \in SUBSET Int
  BY DEF ChildNumbers
<1>5. QED
  BY <1>1, <1>2, <1>3, <1>4

LEMMA BitValue ==
  ASSUME NEW c \in ChildNumbers, NEW a \in Axes
  PROVE  Bit(c, a) \in 0..1
BY DimensionAssumption DEF ChildNumbers, NChildren, BitWeight, Axes, Bit

\* The bits tell the child.
LEMMA BitsTellChild ==
  ASSUME NEW c \in ChildNumbers, NEW d \in ChildNumbers, \A a \in Axes : Bit(c, a) = Bit(d, a)
  PROVE  c = d
<1>1. IndexChild(Root, c) = IndexChild(Root, d)
  BY DEF IndexChild, Bit
<1>2. Root \in Index
  BY DEF Root, Index
<1>3. QED
  BY <1>1, <1>2, ChildrenDiffer DEF ChildNumbers

\* A child number is given by its bits, one for every axis.
LEMMA ChildOfBits ==
  ASSUME NEW b \in [Axes -> 0..1]
  PROVE  \E c \in ChildNumbers : \A a \in Axes : Bit(c, a) = b[a]
BY BitsOfChild DEF ChildNumbers, Bit

\* A child number has the same bits as a sum of weights.
LEMMA BitsOfSum ==
  ASSUME NEW b \in [Axes -> 0..1]
  PROVE  LET c == SumFunction([a \in Axes |-> IF b[a] = 1 THEN BitWeight(a) ELSE 0]) IN
         c \in ChildNumbers /\ \A a \in Axes : Bit(c, a) = b[a]
<1> DEFINE f == [a \in Axes |-> IF b[a] = 1 THEN BitWeight(a) ELSE 0]
<1>1. f \in [Axes -> Int]
  BY DimensionAssumption DEF Axes, BitWeight
<1>2. PICK c \in Int : c = SumFunction(f)
  BY <1>1, AxisSum
<1>3. c = f[1] + (IF Dimension > 1 THEN f[2] ELSE 0) + (IF Dimension > 2 THEN f[3] ELSE 0)
  BY <1>1, <1>2, AxisSum
<1>4. \A a \in Axes : b[a] \in 0..1 /\ f[a] = IF b[a] = 1 THEN BitWeight(a) ELSE 0
  OBVIOUS
<1> HIDE DEF f
<1>5. c \in ChildNumbers /\ \A a \in Axes : Bit(c, a) = b[a]
  <2>1. CASE Dimension = 1
    <3>1. Axes = {1} /\ NChildren = 2 /\ BitWeight(1) = 1
      BY <2>1 DEF Axes, NChildren, BitWeight
    <3>2. c = f[1]
      BY <1>3, <1>4, <2>1, <3>1
    <3>3. c = b[1] /\ b[1] \in 0..1
      BY <1>4, <3>1, <3>2
    <3>4. QED
      BY <3>1, <3>3 DEF ChildNumbers, Bit
  <2>2. CASE Dimension = 2
    <3>1. Axes = {1, 2} /\ NChildren = 4 /\ BitWeight(1) = 1 /\ BitWeight(2) = 2
      BY <2>2 DEF Axes, NChildren, BitWeight
    <3>2. c = f[1] + f[2]
      BY <1>3, <1>4, <2>2, <3>1
    <3>3. c = b[1] + 2 * b[2] /\ b[1] \in 0..1 /\ b[2] \in 0..1
      BY <1>4, <3>1, <3>2
    <3>4. QED
      BY <3>1, <3>3 DEF ChildNumbers, Bit
  <2>3. CASE Dimension = 3
    <3>1. Axes = {1, 2, 3} /\ NChildren = 8 /\ BitWeight(1) = 1 /\ BitWeight(2) = 2 /\ BitWeight(3) = 4
      BY <2>3 DEF Axes, NChildren, BitWeight
    <3>2. c = f[1] + f[2] + f[3]
      BY <1>3, <1>4, <2>3, <3>1
    <3>3. c = b[1] + 2 * b[2] + 4 * b[3] /\ b[1] \in 0..1 /\ b[2] \in 0..1 /\ b[3] \in 0..1
      BY <1>4, <3>1, <3>2
    <3>4. /\ c \in 0..7
          /\ (c \div 1) % 2 = b[1] /\ (c \div 2) % 2 = b[2] /\ (c \div 4) % 2 = b[3]
      <4>1. PICK r \in 0..1, s \in 0..1, t \in 0..1 : r = b[1] /\ s = b[2] /\ t = b[3]
        BY <3>3
      <4>2. c = r + 2 * s + 4 * t
        BY <3>3, <4>1
      <4>3. c \div 1 = c /\ c \div 2 = s + 2 * t /\ c \div 4 = t
        BY <4>2
      <4>4. c % 2 = r /\ (s + 2 * t) % 2 = s /\ t % 2 = t
        BY <4>2
      <4>5. c \in 0..7
        BY <4>2
      <4>6. QED
        BY <4>1, <4>3, <4>4, <4>5
    <3>5. QED
      BY <3>1, <3>4 DEF ChildNumbers, Bit
  <2>4. QED
    BY <2>1, <2>2, <2>3, DimensionAssumption
<1>6. QED
  BY <1>2, <1>5 DEF f

\* The cell of a parent lies in one of its children, and holds 2, 4 or 8 of its cells.
HolderOf(x) == SumFunction([a \in Axes |-> IF x[a] >= BlockM \div 2 THEN BitWeight(a) ELSE 0])
FineOf(x, k) == [a \in Axes |-> 2 * (x[a] % (BlockM \div 2)) + Bit(k, a)]

\* A block is two halves along every axis.
LEMMA HalfBlock ==
  \E h \in Nat \ {0} : BlockM \div 2 = h /\ BlockM = 2 * h
<1>1. BlockM \in Nat /\ BlockM % 2 = 0 /\ BlockM > 0
  BY BlockMAssumption
<1>2. BlockM \div 2 \in Nat \ {0} /\ BlockM = 2 * (BlockM \div 2)
  BY <1>1
<1>3. QED
  BY <1>2

\* HolderOf (x) is the child whose half of the block cell x is in.
LEMMA HolderMeaning ==
  ASSUME NEW x \in Cells
  PROVE  /\ HolderOf(x) \in ChildNumbers
         /\ \A a \in Axes : Bit(HolderOf(x), a) = IF x[a] >= BlockM \div 2 THEN 1 ELSE 0
<1> DEFINE b == [a \in Axes |-> IF x[a] >= BlockM \div 2 THEN 1 ELSE 0]
<1>1. b \in [Axes -> 0..1]
  OBVIOUS
<1>2. [a \in Axes |-> IF b[a] = 1 THEN BitWeight(a) ELSE 0]
        = [a \in Axes |-> IF x[a] >= BlockM \div 2 THEN BitWeight(a) ELSE 0]
  OBVIOUS
<1>3. \A a \in Axes : b[a] = IF x[a] >= BlockM \div 2 THEN 1 ELSE 0
  OBVIOUS
<1> HIDE DEF b
<1>4. LET c == SumFunction([a \in Axes |-> IF b[a] = 1 THEN BitWeight(a) ELSE 0]) IN
      c \in ChildNumbers /\ \A a \in Axes : Bit(c, a) = b[a]
  BY <1>1, BitsOfSum
<1>5. HolderOf(x) \in ChildNumbers /\ \A a \in Axes : Bit(HolderOf(x), a) = b[a]
  BY <1>2, <1>4 DEF HolderOf
<1>6. QED
  BY <1>3, <1>5

\* Along one axis.
LEMMA AxisHalves ==
  ASSUME NEW h \in Nat \ {0}, NEW x \in 0..(2 * h - 1), NEW b \in 0..1
  PROVE  /\ 2 * (x % h) + b \in 0..(2 * h - 1)
         /\ (IF x >= h THEN 1 ELSE 0) * (2 * h) + (2 * (x % h) + b) = 2 * x + b
<1>1. x % h = IF x >= h THEN x - h ELSE x
  <2>1. CASE x < h
    BY <2>1
  <2>2. CASE x >= h
    <3>1. x \div h = 1
      <4>1. h * 1 =< x /\ x < h * 1 + h
        BY <2>2
      <4>2. QED
        BY <4>1, QuotientUnique
    <3>2. x = h * (x \div h) + (x % h)
      OBVIOUS
    <3>3. x % h \in Int
      OBVIOUS
    <3>4. QED
      BY <2>2, <3>1, <3>2, <3>3
  <2>3. QED
    BY <2>1, <2>2
<1>2. PICK r \in Int : r = x % h
  BY <1>1
<1>3. QED
  BY <1>1, <1>2

\* FineOf (x, k) is a cell of the block of that child.
LEMMA FineMeaning ==
  ASSUME NEW x \in Cells, NEW k \in ChildNumbers
  PROVE  /\ FineOf(x, k) \in Cells
         /\ \A a \in Axes : Bit(HolderOf(x), a) * BlockM + FineOf(x, k)[a] = 2 * x[a] + Bit(k, a)
<1>1. PICK h \in Nat \ {0} : BlockM \div 2 = h /\ BlockM = 2 * h
  BY HalfBlock
<1>2. \A a \in Axes : x[a] \in 0..(2 * h - 1) /\ FineOf(x, k)[a] = 2 * (x[a] % h) + Bit(k, a)
  BY <1>1 DEF Cells, FineOf
<1>3. \A a \in Axes : Bit(HolderOf(x), a) = IF x[a] >= h THEN 1 ELSE 0
  BY <1>1, HolderMeaning
<1>4. ASSUME NEW a \in Axes
      PROVE  /\ FineOf(x, k)[a] \in 0..(BlockM - 1)
             /\ Bit(HolderOf(x), a) * BlockM + FineOf(x, k)[a] = 2 * x[a] + Bit(k, a)
  <2>1. PICK y \in 0..(2 * h - 1), b \in 0..1 : y = x[a] /\ b = Bit(k, a)
    BY <1>2, BitValue
  <2>2. /\ 2 * (y % h) + b \in 0..(2 * h - 1)
        /\ (IF y >= h THEN 1 ELSE 0) * (2 * h) + (2 * (y % h) + b) = 2 * y + b
    BY AxisHalves
  <2>3. QED
    BY <1>1, <1>2, <1>3, <2>1, <2>2
<1>5. FineOf(x, k) \in Cells
  BY <1>4 DEF Cells, FineOf
<1>6. QED
  BY <1>4, <1>5

LEMMA CellsFinite == IsFiniteSet(Cells)
<1> DEFINE R == 0..(BlockM - 1)
           C == (R \X R) \X R
           g == [t \in C |-> [a \in Axes |-> IF a = 1 THEN t[1][1] ELSE IF a = 2 THEN t[1][2] ELSE t[2]]]
<1>1. IsFiniteSet(R)
  BY BlockMAssumption, FS_Interval
<1>2. IsFiniteSet(R \X R)
  BY <1>1, FS_Product
<1>3. IsFiniteSet(C)
  BY <1>1, <1>2, FS_Product
<1>4. 0 \in R
  BY BlockMAssumption
<1> HIDE DEF R
<1>5. ASSUME NEW t \in C PROVE g[t] \in Cells
  BY DEF Cells, R
<1>6. ASSUME NEW x \in Cells PROVE \E t \in C : g[t] = x
  <2> DEFINE v(a) == IF a \in Axes THEN x[a] ELSE 0
             t == <<<<v(1), v(2)>>, v(3)>>
  <2>1. \A a \in {1, 2, 3} : v(a) \in R
    BY <1>4 DEF Cells, R
  <2>2. t \in C
    BY <2>1
  <2>3. \A a \in Axes : a \in {1, 2, 3}
    BY DimensionAssumption DEF Axes
  <2>4. g[t] = [a \in Axes |-> IF a = 1 THEN t[1][1] ELSE IF a = 2 THEN t[1][2] ELSE t[2]]
    BY <2>2
  <2>5. g[t] = [a \in Axes |-> x[a]]
    BY <2>3, <2>4
  <2>6. x = [a \in Axes |-> x[a]]
    BY DEF Cells
  <2>7. QED
    BY <2>2, <2>5, <2>6
<1>7. g \in Surjection(C, Cells)
  <2>1. g \in [C -> Cells]
    BY <1>5
  <2> HIDE DEF g, C
  <2>2. QED
    BY <1>6, <2>1 DEF Surjection
<1> HIDE DEF C, g
<1>8. QED
  BY <1>3, <1>7, FS_Surjection

-----------------------------------------------------------------------------
(* The mean of a family. *)

Blocks == [ChildNumbers -> Block]
FineSum(b, x) == SumFunction([k \in ChildNumbers |-> b[HolderOf(x)][FineOf(x, k)]])

LEMMA MeanByCells ==
  ASSUME NEW b
  PROVE  Mean(b) = [x \in Cells |-> Over(FineSum(b, x), NChildren)]
BY DEF Mean, FineSum, HolderOf, FineOf, ChildNumbers

\* The eight (or 4, or 2) cells over cell x of the parent are numbers, and so is their sum.
LEMMA FineSumMeaning ==
  ASSUME NEW b \in Blocks, NEW x \in Cells
  PROVE  /\ FineSum(b, x) \in Int
         /\ \A k \in ChildNumbers : b[HolderOf(x)][FineOf(x, k)] \in Int
<1>1. ASSUME NEW k \in ChildNumbers PROVE b[HolderOf(x)][FineOf(x, k)] \in Int
  <2>1. HolderOf(x) \in ChildNumbers /\ FineOf(x, k) \in Cells
    BY HolderMeaning, FineMeaning
  <2>2. QED
    BY <2>1, ModulusFacts DEF Blocks, Block
<1>2. [k \in ChildNumbers |-> b[HolderOf(x)][FineOf(x, k)]] \in [ChildNumbers -> Int]
  BY <1>1
<1>3. FineSum(b, x) \in Int
  BY <1>2, ChildNumbersFinite, SumFacts DEF FineSum
<1>4. QED
  BY <1>1, <1>3

\* NChildren times a mean is the sum of the fine cells.
LEMMA MeanMeaning ==
  ASSUME NEW b \in Blocks
  PROVE  /\ Mean(b) \in Block
         /\ \A x \in Cells : Congruent(Modulus, NChildren * Mean(b)[x], FineSum(b, x))
<1>1. ASSUME NEW x \in Cells
      PROVE  /\ Mean(b)[x] \in Numbers
             /\ Congruent(Modulus, NChildren * Mean(b)[x], FineSum(b, x))
  <2>1. Mean(b)[x] = Over(FineSum(b, x), NChildren)
    BY MeanByCells
  <2>2. FineSum(b, x) \in Int /\ NChildren \in Halvings
    BY FineSumMeaning, ChildNumbersFinite
  <2>3. QED
    BY <2>1, <2>2, OverTimes
<1>2. Mean(b) \in Block
  <2>1. Mean(b) = [x \in Cells |-> Mean(b)[x]]
    BY MeanByCells
  <2>2. QED
    BY <1>1, <2>1 DEF Block
<1>3. QED
  BY <1>1, <1>2

\* The cells of the children, and which cell of the parent holds each.
FamilyCells == ChildNumbers \X Cells
FineCells == [t \in Cells \X ChildNumbers |-> <<HolderOf(t[1]), FineOf(t[1], t[2])>>]

LEMMA FineCellsType == FineCells \in [Cells \X ChildNumbers -> FamilyCells]
<1>1. ASSUME NEW t \in Cells \X ChildNumbers PROVE FineCells[t] \in FamilyCells
  <2>1. t[1] \in Cells /\ t[2] \in ChildNumbers
    OBVIOUS
  <2>2. HolderOf(t[1]) \in ChildNumbers /\ FineOf(t[1], t[2]) \in Cells
    BY <2>1, HolderMeaning, FineMeaning
  <2>3. QED
    BY <2>2 DEF FineCells, FamilyCells
<1>2. QED
  BY <1>1 DEF FineCells

\* No cell of the family is over two cells of the parent.
LEMMA FineCellsOnce == OneToOne(FineCells, Cells \X ChildNumbers)
<1>1. SUFFICES ASSUME NEW s \in Cells \X ChildNumbers, NEW t \in Cells \X ChildNumbers,
                      FineCells[s] = FineCells[t]
               PROVE  s = t
  BY DEF OneToOne
<1>2. PICK x \in Cells, k \in ChildNumbers : s = <<x, k>>
  OBVIOUS
<1>3. PICK y \in Cells, j \in ChildNumbers : t = <<y, j>>
  OBVIOUS
<1>4. HolderOf(x) = HolderOf(y) /\ FineOf(x, k) = FineOf(y, j)
  BY <1>1, <1>2, <1>3 DEF FineCells
<1>5. PICK M \in Int : M = BlockM
  BY HalfBlock
<1>6. ASSUME NEW a \in Axes PROVE x[a] = y[a] /\ Bit(k, a) = Bit(j, a)
  <2>1. PICK n \in 0..1, f \in Int, u \in Int, v \in Int, b \in 0..1, c \in 0..1 :
          /\ n = Bit(HolderOf(x), a) /\ f = FineOf(x, k)[a]
          /\ u = x[a] /\ v = y[a] /\ b = Bit(k, a) /\ c = Bit(j, a)
    <3>1. HolderOf(x) \in ChildNumbers /\ FineOf(x, k) \in Cells
      BY HolderMeaning, FineMeaning
    <3>2. Bit(HolderOf(x), a) \in 0..1 /\ Bit(k, a) \in 0..1 /\ Bit(j, a) \in 0..1
      BY <3>1, BitValue
    <3>3. FineOf(x, k)[a] \in Int /\ x[a] \in Int /\ y[a] \in Int
      BY <3>1 DEF Cells
    <3>4. QED
      BY <3>2, <3>3
  <2>2. n * M + f = 2 * u + b /\ n * M + f = 2 * v + c
    <3>1. Bit(HolderOf(x), a) * BlockM + FineOf(x, k)[a] = 2 * x[a] + Bit(k, a)
      BY FineMeaning
    <3>2. Bit(HolderOf(y), a) * BlockM + FineOf(y, j)[a] = 2 * y[a] + Bit(j, a)
      BY FineMeaning
    <3>3. QED
      BY <1>4, <1>5, <2>1, <3>1, <3>2
  <2>3. 2 * u + b = 2 * v + c
    BY <2>2
  <2>4. u = v /\ b = c
    BY <2>3
  <2>5. QED
    BY <2>1, <2>4
<1>7. x = y
  BY <1>6 DEF Cells
<1>8. k = j
  BY <1>6, BitsTellChild
<1>9. QED
  BY <1>2, <1>3, <1>7, <1>8

\* Along one axis.
LEMMA AxisCovered ==
  ASSUME NEW h \in Nat \ {0}, NEW n \in 0..1, NEW y \in 0..(2 * h - 1)
  PROVE  LET x == n * h + y \div 2 IN
         /\ x \in 0..(2 * h - 1)
         /\ (x >= h) <=> (n = 1)
         /\ 2 * (x % h) + (y % 2) = y
<1>1. PICK z \in Nat : z = y \div 2 /\ z < h
  BY QuotientMeaning
<1>2. y = 2 * z + (y % 2) /\ y % 2 \in Int
  BY <1>1
<1>3. (n * h + z) % h = z
  <2>1. CASE n = 0
    <3>1. n * h + z = z /\ z % h = z
      BY <1>1, <2>1
    <3>2. QED
      BY <3>1
  <2>2. CASE n = 1
    <3>1. PICK w \in Int : w = n * h + z
      OBVIOUS
    <3>2. w = h + z
      BY <2>2, <3>1
    <3>3. w \div h = 1
      <4>1. h * 1 =< w /\ w < h * 1 + h
        BY <1>1, <3>2
      <4>2. QED
        BY <4>1, QuotientUnique
    <3>4. w = h * (w \div h) + (w % h) /\ w % h \in Int
      OBVIOUS
    <3>5. QED
      BY <3>1, <3>2, <3>3, <3>4
  <2>3. QED
    BY <2>1, <2>2
<1>4. n * h + z \in 0..(2 * h - 1) /\ ((n * h + z >= h) <=> (n = 1))
  BY <1>1
<1>5. 2 * ((n * h + z) % h) + (y % 2) = y
  BY <1>2, <1>3
<1>6. QED
  BY <1>1, <1>4, <1>5

\* Every cell of the family is over a cell of the parent.
LEMMA FineCellsAll == Images(FineCells, Cells \X ChildNumbers) = FamilyCells
<1>1. Images(FineCells, Cells \X ChildNumbers) \subseteq FamilyCells
  BY FineCellsType DEF Images
<1>2. ASSUME NEW t \in FamilyCells PROVE t \in Images(FineCells, Cells \X ChildNumbers)
  <2>1. PICK c \in ChildNumbers, y \in Cells : t = <<c, y>>
    BY DEF FamilyCells
  <2>2. PICK h \in Nat \ {0} : BlockM \div 2 = h /\ BlockM = 2 * h
    BY HalfBlock
  <2> DEFINE x == [a \in Axes |-> Bit(c, a) * h + y[a] \div 2]
  <2>3. PICK k \in ChildNumbers : \A a \in Axes : Bit(k, a) = y[a] % 2
    <3>1. [a \in Axes |-> y[a] % 2] \in [Axes -> 0..1]
      BY DEF Cells
    <3>2. PICK b \in [Axes -> 0..1] : b = [a \in Axes |-> y[a] % 2]
      BY <3>1
    <3>3. QED
      BY <3>2, ChildOfBits
  <2>4. ASSUME NEW a \in Axes
        PROVE  /\ x[a] \in 0..(2 * h - 1)
               /\ (x[a] >= h) <=> (Bit(c, a) = 1)
               /\ 2 * (x[a] % h) + Bit(k, a) = y[a]
    <3>1. PICK n \in 0..1, z \in 0..(2 * h - 1) : n = Bit(c, a) /\ z = y[a]
      BY <2>2, BitValue DEF Cells
    <3>2. x[a] = n * h + z \div 2 /\ Bit(k, a) = z % 2
      BY <2>3, <3>1
    <3>3. /\ n * h + z \div 2 \in 0..(2 * h - 1)
          /\ (n * h + z \div 2 >= h) <=> (n = 1)
          /\ 2 * ((n * h + z \div 2) % h) + (z % 2) = z
      BY AxisCovered
    <3>4. PICK X, r : X = n * h + z \div 2 /\ r = z % 2
      OBVIOUS
    <3> HIDE DEF x
    <3>5. X \in 0..(2 * h - 1) /\ ((X >= h) <=> (n = 1)) /\ 2 * (X % h) + r = z
      BY <3>3, <3>4
    <3>6. x[a] = X /\ Bit(k, a) = r
      BY <3>2, <3>4
    <3>7. QED
      BY <3>1, <3>5, <3>6
  <2>5. x \in Cells
    BY <2>2, <2>4 DEF Cells
  <2> HIDE DEF x
  <2>6. HolderOf(x) = c
    <3>1. HolderOf(x) \in ChildNumbers
          /\ \A a \in Axes : Bit(HolderOf(x), a) = IF x[a] >= h THEN 1 ELSE 0
      BY <2>2, <2>5, HolderMeaning
    <3>2. \A a \in Axes : Bit(c, a) \in 0..1
      BY BitValue
    <3>3. \A a \in Axes : Bit(HolderOf(x), a) = Bit(c, a)
      BY <2>4, <3>1, <3>2
    <3>4. QED
      BY <3>1, <3>3, BitsTellChild
  <2>7. FineOf(x, k) = y
    <3>1. \A a \in Axes : FineOf(x, k)[a] = y[a]
      BY <2>2, <2>4 DEF FineOf
    <3>2. FineOf(x, k) = [a \in Axes |-> FineOf(x, k)[a]] /\ y = [a \in Axes |-> y[a]]
      BY DEF FineOf, Cells
    <3>3. QED
      BY <3>1, <3>2
  <2>8. FineCells[<<x, k>>] = <<c, y>> /\ <<x, k>> \in Cells \X ChildNumbers
    BY <2>5, <2>6, <2>7 DEF FineCells
  <2>9. QED
    BY <2>1, <2>8 DEF Images
<1>3. QED
  BY <1>1, <1>2

\* The mean of a family, over the volume of the parent, is what the family holds.
LEMMA FamilySum ==
  ASSUME NEW b \in Blocks
  PROVE  /\ \A c \in ChildNumbers : SumFunction(b[c]) \in Int
         /\ SumFunction(Mean(b)) \in Int
         /\ SumFunction([c \in ChildNumbers |-> SumFunction(b[c])]) \in Int
         /\ Congruent(Modulus, SumFunction([c \in ChildNumbers |-> SumFunction(b[c])]),
                      NChildren * SumFunction(Mean(b)))
<1> DEFINE F == [t \in FamilyCells |-> b[t[1]][t[2]]]
           same == [t \in ChildNumbers \X Cells |-> t]
           groups == [x \in Cells |-> FineSum(b, x)]
<1>1. IsFiniteSet(Cells) /\ IsFiniteSet(ChildNumbers) /\ IsFiniteSet(FamilyCells)
  BY CellsFinite, ChildNumbersFinite, FS_Product DEF FamilyCells
<1>2. \A c \in ChildNumbers : b[c] \in [Cells -> Int]
  BY ModulusFacts DEF Blocks, Block
<1>3. F \in [FamilyCells -> Int]
  BY <1>2 DEF FamilyCells
<1>4. SumFunction(F) = SumFunction([c \in ChildNumbers |-> SumFunction(b[c])])
  <2>1. same \in [ChildNumbers \X Cells -> FamilyCells] /\ OneToOne(same, ChildNumbers \X Cells)
        /\ Images(same, ChildNumbers \X Cells) = FamilyCells
    BY DEF OneToOne, Images, FamilyCells
  <2>2. ASSUME NEW c \in ChildNumbers PROVE [y \in Cells |-> F[same[<<c, y>>]]] = b[c]
    <3>1. b[c] = [y \in Cells |-> b[c][y]]
      BY <1>2
    <3>2. \A y \in Cells : F[same[<<c, y>>]] = b[c][y]
      BY DEF FamilyCells
    <3>3. QED
      BY <3>1, <3>2
  <2> HIDE DEF F, same
  <2>3. SumFunction(F) = SumFunction(Grouped(F, same, ChildNumbers, Cells))
    BY <1>1, <1>3, <2>1, SumByGroups
  <2>4. Grouped(F, same, ChildNumbers, Cells) = [c \in ChildNumbers |-> SumFunction(b[c])]
    BY <2>2 DEF Grouped
  <2>5. QED
    BY <2>3, <2>4
<1>5. SumFunction(F) = SumFunction(groups)
  <2>1. ASSUME NEW x \in Cells PROVE SumFunction([k \in ChildNumbers |-> F[FineCells[<<x, k>>]]]) = FineSum(b, x)
    <3>1. ASSUME NEW k \in ChildNumbers PROVE F[FineCells[<<x, k>>]] = b[HolderOf(x)][FineOf(x, k)]
      <4>1. FineCells[<<x, k>>] = <<HolderOf(x), FineOf(x, k)>> /\ FineCells[<<x, k>>] \in FamilyCells
        BY FineCellsType DEF FineCells
      <4>2. QED
        BY <4>1
    <3>2. [k \in ChildNumbers |-> F[FineCells[<<x, k>>]]]
            = [k \in ChildNumbers |-> b[HolderOf(x)][FineOf(x, k)]]
      <4> HIDE DEF F
      <4>1. QED
        BY <3>1
    <3>3. QED
      BY <3>2 DEF FineSum
  <2> HIDE DEF F
  <2>2. SumFunction(F) = SumFunction(Grouped(F, FineCells, Cells, ChildNumbers))
    BY <1>1, <1>3, FineCellsType, FineCellsOnce, FineCellsAll, SumByGroups
  <2>3. Grouped(F, FineCells, Cells, ChildNumbers) = groups
    BY <2>1 DEF Grouped
  <2>4. QED
    BY <2>2, <2>3
<1>6. groups \in [Cells -> Int] /\ Mean(b) \in [Cells -> Int]
  BY FineSumMeaning, MeanMeaning, ModulusFacts DEF Block
<1>7. /\ \A c \in ChildNumbers : SumFunction(b[c]) \in Int
      /\ SumFunction(Mean(b)) \in Int /\ SumFunction(F) \in Int
  <2>1. \A c \in ChildNumbers : SumFunction(b[c]) \in Int
    BY <1>1, <1>2, SumFacts
  <2> HIDE DEF F
  <2>2. SumFunction(Mean(b)) \in Int /\ SumFunction(F) \in Int
    BY <1>1, <1>3, <1>6, SumFacts
  <2>3. QED
    BY <2>1, <2>2
<1>8. \A x \in Cells : Congruent(Modulus, groups[x], 0 + NChildren * Mean(b)[x])
  <2>1. SUFFICES ASSUME NEW x \in Cells
                 PROVE  Congruent(Modulus, groups[x], 0 + NChildren * Mean(b)[x])
    OBVIOUS
  <2>2. PICK g \in Int, v \in Int, n \in Int : g = FineSum(b, x) /\ v = Mean(b)[x] /\ n = NChildren
    BY <1>6, FineSumMeaning, ChildNumbersFinite
  <2>3. Congruent(Modulus, n * v, g) /\ n * v \in Int /\ 0 + n * v = n * v
    BY <2>2, MeanMeaning
  <2>4. Congruent(Modulus, g, n * v)
    BY <2>3, ModulusFacts, CongruentBack
  <2>5. QED
    BY <2>2, <2>3, <2>4
<1> HIDE DEF groups, F
<1>9. Congruent(Modulus, SumFunction(groups), Cardinality(Cells) * 0 + NChildren * SumFunction(Mean(b)))
  <2>1. PICK o \in Int, n \in Int : o = 0 /\ n = NChildren
    BY ChildNumbersFinite
  <2>2. PICK f \in [Cells -> Int] : f = Mean(b)
    BY <1>6
  <2>3. \A x \in Cells : Congruent(Modulus, groups[x], o + n * f[x])
    BY <1>8, <2>1, <2>2
  <2>4. Congruent(Modulus, SumFunction(groups), Cardinality(Cells) * o + n * SumFunction(f))
    BY <1>1, <1>6, <2>3, ModulusFacts, SumAffine
  <2>5. QED
    BY <2>1, <2>2, <2>4
<1>10. Cardinality(Cells) * 0 + NChildren * SumFunction(Mean(b)) = NChildren * SumFunction(Mean(b))
  <2>1. Cardinality(Cells) \in Nat /\ NChildren \in Nat
    BY <1>1, FS_CardinalityType, ChildNumbersFinite
  <2>2. PICK n \in Int, k \in Int, s \in Int :
          n = Cardinality(Cells) /\ k = NChildren /\ s = SumFunction(Mean(b))
    BY <1>7, <2>1
  <2>3. n * 0 + k * s = k * s
    OBVIOUS
  <2>4. QED
    BY <2>2, <2>3
<1>11. QED
  BY <1>4, <1>5, <1>7, <1>9, <1>10

-----------------------------------------------------------------------------
(* What block_gather () reads is stored: a cell of a node. *)

\* Along one axis: the cell is in the block of its holder.
LEMMA AxisInBlock ==
  ASSUME NEW M \in Nat \ {0}, NEW q \in Int, NEW c \in 0..(M - 1), NEW y \in Nat \ {0}
  PROVE  (q * M + c) \div y - (q \div y) * M \in 0..(M - 1)
<1>1. PICK B \in Int : B = q \div y /\ y * B =< q /\ q < y * B + y
  BY QuotientMeaning
<1>2. PICK e \in Int : q = y * B + e /\ 0 =< e /\ e =< y - 1
  <2>1. PICK w \in Int : w = y * B
    OBVIOUS
  <2>2. q - w \in Int /\ q = w + (q - w) /\ 0 =< q - w /\ q - w =< y - 1
    BY <1>1, <2>1
  <2>3. QED
    BY <2>1, <2>2
<1>3. q = y * B + e
  BY <1>2
<1>4. q * M = y * (B * M) + e * M /\ B * M \in Int /\ e * M \in Int
  <2>1. (y * B + e) * M = y * (B * M) + e * M
    BY <1>2
  <2>2. QED
    BY <1>2, <1>3, <2>1
<1>5. 0 =< e * M /\ e * M + M =< y * M
  <2>1. 0 =< e * M
    BY <1>2
  <2>2. e * M + M = (e + 1) * M
    BY <1>2
  <2>3. (e + 1) * M =< y * M
    BY <1>2
  <2>4. QED
    BY <2>1, <2>2, <2>3
<1>6. PICK b \in Int, s \in Int : b = B * M /\ s = e * M
  BY <1>4
<1>7. PICK X \in Int : X = q * M + c
  OBVIOUS
<1>8. X = y * b + (s + c) /\ 0 =< s + c /\ s + c < y * M
  BY <1>4, <1>5, <1>6, <1>7
<1>9. PICK r \in Int : r = X \div y /\ y * r =< X /\ X < y * r + y
  BY QuotientMeaning
<1>10. y * (r - b) = y * r - y * b /\ y * (r - b + 1) = (y * r - y * b) + y /\ y * r \in Int /\ y * b \in Int
  OBVIOUS
<1>11. y * (r - b) < y * M /\ 0 < y * (r - b + 1)
  <2>1. PICK u \in Int, v \in Int, w \in Int : u = y * r /\ v = y * b /\ w = y * M
    OBVIOUS
  <2>2. u - v < w /\ 0 < (u - v) + y
    BY <1>8, <1>9, <2>1
  <2>3. QED
    BY <1>10, <2>1, <2>2
<1>12. \A z, w \in Int : y * z < y * w => z < w
  OBVIOUS
<1>13. r - b < M
  <2>1. r - b \in Int /\ M \in Int
    OBVIOUS
  <2>2. QED
    BY <1>11, <1>12, <2>1
<1>14. 0 < r - b + 1
  <2>1. r - b + 1 \in Int /\ y * 0 = 0
    OBVIOUS
  <2>2. QED
    BY <1>11, <1>12, <2>1
<1>15. (q * M + c) \div y - (q \div y) * M = r - b
  BY <1>1, <1>6, <1>7, <1>9
<1>16. QED
  BY <1>13, <1>14, <1>15

\* So block_gather () fills its scratch with numbers.
LEMMA GatheredStored ==
  ASSUME TreeInv, NEW p \in nodes, NEW G \in 1..BlockM, NEW x \in Scratch(G)
  PROVE  GatherCell(nodes, p, x).node \in nodes /\ GatherCell(nodes, p, x).cell \in Cells
<1> DEFINE q == InDirection(p, Dir(x))
           b == Holder(nodes, q)
           sh == q.level - b.level
           n == 2^p.level
           X == Reflected(Position(p, x), p.level)
           c(a) == AxisCell(p.ijk[a], n, x[a])
<1>1. p \in Index /\ Inside(p) /\ p.level =< 30 /\ nodes # {} /\ nodes \subseteq Index
  BY NodesInside
<1>2. q \in Index /\ q.level = p.level /\ Inside(q) /\ \A a \in Axes : q.ijk[a] \in Int
  BY <1>1, InDirectionOf DEF Index
<1>3. /\ [level |-> p.level, ijk |-> [a \in Axes |-> X[a] \div BlockM]] = q
      /\ \A a \in Axes : X[a] = q.ijk[a] * BlockM + c(a) /\ c(a) \in 0..(BlockM - 1)
  BY <1>1, ReflectedInBlock
<1>4. b \in nodes /\ 2^sh \in Nat \ {0} /\ \A a \in Axes : b.ijk[a] = q.ijk[a] \div 2^sh
  <2>1. b \in nodes /\ Covers(b, q) /\ b \in Index
    BY <1>1, <1>2, HolderFound
  <2>2. b.level \in Nat /\ b.level =< q.level /\ q.level \in 0..30
    <3>1. b.level \in Nat /\ q.level \in Nat /\ q.level =< 30
      BY <1>1, <1>2, <2>1 DEF Index
    <3>2. b.level =< q.level
      BY <2>1 DEF Covers
    <3>3. QED
      BY <3>1, <3>2
  <2>3. sh \in 0..30
    BY <2>2
  <2>4. 2^sh \in Nat \ {0}
    BY <2>3, PowerPositive
  <2>5. \A a \in Axes : b.ijk[a] = q.ijk[a] \div 2^sh
    BY <2>1 DEF Covers
  <2>6. QED
    BY <2>1, <2>4, <2>5
<1>5. GhostCell(nodes, p, x)
        = [node |-> b, cell |-> [a \in Axes |-> X[a] \div 2^sh - b.ijk[a] * BlockM]]
  BY <1>2, <1>3 DEF GhostCell
<1>6. GatherCell(nodes, p, x) = GhostCell(nodes, p, x)
  BY GhostAsDocumented
<1> HIDE DEF q, b, sh, n, X, c
<1>7. ASSUME NEW a \in Axes
      PROVE  X[a] \div 2^sh - b.ijk[a] * BlockM \in 0..(BlockM - 1)
  <2>1. PICK M \in Nat \ {0} : M = BlockM
    BY BlockMAssumption
  <2>2. PICK j \in Int, e \in 0..(M - 1), y \in Nat \ {0} : j = q.ijk[a] /\ e = c(a) /\ y = 2^sh
    BY <1>2, <1>3, <1>4, <2>1
  <2>3. (j * M + e) \div y - (j \div y) * M \in 0..(M - 1)
    BY AxisInBlock
  <2>4. QED
    BY <1>3, <1>4, <2>1, <2>2, <2>3
<1>8. [a \in Axes |-> X[a] \div 2^sh - b.ijk[a] * BlockM] \in Cells
  BY <1>7 DEF Cells
<1>9. QED
  BY <1>4, <1>5, <1>6, <1>8

\* The scratch block of one layer, its inside and the cells beside a cell.
LEMMA GatheredMeaning ==
  ASSUME TreeInv, value \in [nodes -> Block], NEW p \in nodes
  PROVE  /\ \A x \in Scratch(1) : Gathered(p, 1)[x] \in Numbers
         /\ \A x \in Cells : x \in Scratch(1) /\ Gathered(p, 1)[x] = value[p][x]
         /\ \A x \in Cells, a \in Axes : Beside(x, a, 1) \in Scratch(1) /\ Beside(x, a, -1) \in Scratch(1)
<1>1. BlockM \in Nat \ {0}
  BY BlockMAssumption
<1>2. 1 \in 1..BlockM
  BY <1>1
<1>3. ASSUME NEW x \in Scratch(1) PROVE Gathered(p, 1)[x] \in Numbers
  <2>1. Gathered(p, 1)[x] = value[GatherCell(nodes, p, x).node][GatherCell(nodes, p, x).cell]
    BY DEF Gathered
  <2>2. GatherCell(nodes, p, x).node \in nodes /\ GatherCell(nodes, p, x).cell \in Cells
    BY <1>2, GatheredStored
  <2>3. QED
    BY <2>1, <2>2 DEF Block
<1>4. ASSUME NEW x \in Cells PROVE x \in Scratch(1) /\ Gathered(p, 1)[x] = value[p][x]
  <2>1. x \in Scratch(1)
    BY <1>1 DEF Cells, Scratch
  <2>2. \A a \in Axes : Dir(x)[a] = 0
    BY <1>1 DEF Cells, Dir
  <2>3. GatherCell(nodes, p, x) = [node |-> p, cell |-> x]
    BY <2>2 DEF GatherCell
  <2>4. QED
    BY <2>1, <2>3 DEF Gathered
<1>5. ASSUME NEW x \in Cells, NEW a \in Axes
      PROVE  Beside(x, a, 1) \in Scratch(1) /\ Beside(x, a, -1) \in Scratch(1)
  <2>1. ASSUME NEW e \in {-1, 1} PROVE Beside(x, a, e) \in Scratch(1)
    <3>1. Beside(x, a, e) = [i \in Axes |-> IF i = a THEN x[a] + e ELSE x[i]]
      BY DEF Beside, Cells
    <3>2. \A i \in Axes : x[i] \in 0..(BlockM - 1)
      BY DEF Cells
    <3>3. \A i \in Axes : (IF i = a THEN x[a] + e ELSE x[i]) \in -1..(BlockM + 1 - 1)
      BY <1>1, <3>2
    <3>4. QED
      BY <3>1, <3>3 DEF Scratch
  <2>2. QED
    BY <2>1
<1>6. QED
  BY <1>3, <1>4, <1>5

-----------------------------------------------------------------------------
(* The mean of what a division writes is what was there. *)

\* What a cell is moved by in child cell k: the gradient, with the signs of k.
Signed(G, k) == [a \in Axes |-> IF Bit(k, a) = 1 THEN G[a] ELSE -G[a]]
Shift(G, k) == SumFunction(Signed(G, k))

Opposite == [k \in ChildNumbers |-> NChildren - 1 - k]

\* The child at the opposite corner: every bit is turned.
LEMMA OppositeMeaning ==
  /\ Opposite \in [ChildNumbers -> ChildNumbers]
  /\ OneToOne(Opposite, ChildNumbers) /\ Images(Opposite, ChildNumbers) = ChildNumbers
  /\ \A k \in ChildNumbers : \A a \in Axes : Bit(Opposite[k], a) = 1 - Bit(k, a)
<1>1. NChildren \in Nat /\ NChildren \in {2, 4, 8}
  BY ChildNumbersFinite DEF Halvings
<1>2. \A k \in ChildNumbers : Opposite[k] \in ChildNumbers /\ Opposite[k] = NChildren - 1 - k
                              /\ k \in Int
  BY <1>1 DEF Opposite, ChildNumbers
<1>3. Opposite \in [ChildNumbers -> ChildNumbers]
  BY <1>2 DEF Opposite
<1>4. OneToOne(Opposite, ChildNumbers)
  BY <1>1, <1>2 DEF OneToOne
<1>5. Images(Opposite, ChildNumbers) = ChildNumbers
  <2>1. ASSUME NEW k \in ChildNumbers PROVE Opposite[Opposite[k]] = k
    BY <1>1, <1>2
  <2>2. QED
    BY <1>2, <2>1 DEF Images
<1>6. ASSUME NEW k \in ChildNumbers, NEW a \in Axes PROVE Bit(Opposite[k], a) = 1 - Bit(k, a)
  <2>1. CASE Dimension = 1
    <3>1. k \in 0..1 /\ Opposite[k] = 1 - k
      BY <1>2, <2>1 DEF ChildNumbers, NChildren, BitWeight
    <3>2. \A j \in 0..1 : ((1 - j) \div 1) % 2 = 1 - ((j \div 1) % 2)
      OBVIOUS
    <3>3. a = 1
      BY <2>1 DEF Axes
    <3>4. QED
      BY <3>1, <3>2, <3>3 DEF BitWeight, Bit
  <2>2. CASE Dimension = 2
    <3>1. k \in 0..3 /\ Opposite[k] = 3 - k
      BY <1>2, <2>2 DEF ChildNumbers, NChildren, BitWeight
    <3>2. \A j \in 0..3 : /\ ((3 - j) \div 1) % 2 = 1 - ((j \div 1) % 2)
                          /\ ((3 - j) \div 2) % 2 = 1 - ((j \div 2) % 2)
      BY SMTT(30)
    <3>3. a = 1 \/ a = 2
      BY <2>2 DEF Axes
    <3>4. BitWeight(1) = 1 /\ BitWeight(2) = 2
      BY DEF BitWeight
    <3>5. QED
      BY <3>1, <3>2, <3>3, <3>4 DEF Bit
  <2>3. CASE Dimension = 3
    <3>1. NChildren = 8 /\ k \in 0..7 /\ Opposite[k] = 7 - k
      BY <1>2, <2>3 DEF ChildNumbers, NChildren, BitWeight
    <3>2. \A j \in 0..7 : /\ ((7 - j) \div 1) % 2 = 1 - ((j \div 1) % 2)
                          /\ ((7 - j) \div 2) % 2 = 1 - ((j \div 2) % 2)
                          /\ ((7 - j) \div 4) % 2 = 1 - ((j \div 4) % 2)
      BY SMTT(30)
    <3>3. a = 1 \/ a = 2 \/ a = 3
      BY <2>3 DEF Axes
    <3>4. BitWeight(1) = 1 /\ BitWeight(2) = 2 /\ BitWeight(3) = 4
      BY DEF BitWeight
    <3>5. QED
      BY <3>1, <3>2, <3>3, <3>4 DEF Bit
  <2>4. QED
    BY <2>1, <2>2, <2>3, DimensionAssumption
<1>7. QED
  BY <1>3, <1>4, <1>5, <1>6

\* What the slopes add there is what they take here.
LEMMA ShiftOpposite ==
  ASSUME NEW G \in [Axes -> Int], NEW k \in ChildNumbers
  PROVE  /\ Shift(G, k) \in Int
         /\ Shift(G, Opposite[k]) = -Shift(G, k)
<1>1. Signed(G, k) \in [Axes -> Int] /\ Signed(G, Opposite[k]) \in [Axes -> Int]
  BY DEF Signed
<1>2. ASSUME NEW a \in Axes PROVE Signed(G, Opposite[k])[a] = -Signed(G, k)[a] /\ Signed(G, k)[a] \in Int
  <2>1. Bit(Opposite[k], a) = 1 - Bit(k, a) /\ Bit(k, a) \in 0..1 /\ G[a] \in Int
    BY OppositeMeaning, BitValue
  <2>2. QED
    BY <2>1 DEF Signed
<1>3. PICK f \in [Axes -> Int], g \in [Axes -> Int] : f = Signed(G, k) /\ g = Signed(G, Opposite[k])
  BY <1>1
<1>4. /\ SumFunction(f) \in Int
      /\ SumFunction(f) = f[1] + (IF Dimension > 1 THEN f[2] ELSE 0) + (IF Dimension > 2 THEN f[3] ELSE 0)
  BY AxisSum
<1>5. SumFunction(g) = g[1] + (IF Dimension > 1 THEN g[2] ELSE 0) + (IF Dimension > 2 THEN g[3] ELSE 0)
  BY AxisSum
<1>6. \A a \in Axes : g[a] = -f[a] /\ f[a] \in Int
  BY <1>2, <1>3
<1>7. SumFunction(g) = -SumFunction(f)
  <2>1. 1 \in Axes /\ (Dimension > 1 => 2 \in Axes) /\ (Dimension > 2 => 3 \in Axes)
    BY DimensionAssumption DEF Axes
  <2>2. QED
    BY <1>4, <1>5, <1>6, <2>1
<1>8. QED
  BY <1>3, <1>4, <1>7 DEF Shift

\* Hence over a family they add nothing.
LEMMA ShiftsCancel ==
  ASSUME NEW G \in [Axes -> Int]
  PROVE  /\ [k \in ChildNumbers |-> Shift(G, k)] \in [ChildNumbers -> Int]
         /\ SumFunction([k \in ChildNumbers |-> Shift(G, k)]) = 0
<1> DEFINE f == [k \in ChildNumbers |-> Shift(G, k)]
           h == [k \in ChildNumbers |-> f[Opposite[k]]]
<1>1. f \in [ChildNumbers -> Int] /\ h \in [ChildNumbers -> Int]
  BY ShiftOpposite, OppositeMeaning
<1>2. Part(f, Images(Opposite, ChildNumbers)) = f
  BY <1>1, OppositeMeaning DEF Part
<1>3. \A k \in ChildNumbers : h[k] = -f[k] /\ f[k] \in Int
  BY <1>1, ShiftOpposite, OppositeMeaning
<1>4. PICK s \in Int, t \in Int : s = SumFunction(f) /\ t = SumFunction(h)
  <2> HIDE DEF f, h
  <2>1. SumFunction(f) \in Int /\ SumFunction(h) \in Int
    BY <1>1, ChildNumbersFinite, SumFacts
  <2>2. QED
    BY <2>1
<1>5. s = t
  <2> HIDE DEF f
  <2>1. SumFunction(Part(f, Images(Opposite, ChildNumbers))) = SumFunction(Renamed(f, Opposite, ChildNumbers))
    <3>1. PICK g \in [ChildNumbers -> Int], m \in [ChildNumbers -> ChildNumbers] :
            g = f /\ m = Opposite
      BY <1>1, OppositeMeaning
    <3>2. IsFiniteSet(ChildNumbers) /\ OneToOne(m, ChildNumbers)
      BY <3>1, OppositeMeaning, ChildNumbersFinite
    <3>3. SumFunction(Part(g, Images(m, ChildNumbers))) = SumFunction(Renamed(g, m, ChildNumbers))
      BY <3>2, SumRenamed
    <3>4. QED
      BY <3>1, <3>3
  <2>2. Renamed(f, Opposite, ChildNumbers) = h
    BY DEF Renamed
  <2>3. QED
    BY <1>2, <1>4, <2>1, <2>2
<1> HIDE DEF f, h
<1>6. Congruent(0, t, Cardinality(ChildNumbers) * 0 + (-1) * s)
  <2>1. PICK m \in Nat, o \in Int, n \in Int : m = 0 /\ o = 0 /\ n = -1
    OBVIOUS
  <2>2. \A k \in ChildNumbers : Congruent(m, h[k], o + n * f[k])
    <3>1. SUFFICES ASSUME NEW k \in ChildNumbers PROVE Congruent(m, h[k], o + n * f[k])
      OBVIOUS
    <3>2. h[k] = o + n * f[k] /\ h[k] \in Int
      BY <1>3, <2>1
    <3>3. Congruent(m, h[k], h[k])
      BY <3>2, CongruentSame
    <3>4. QED
      BY <3>2, <3>3
  <2>3. Congruent(m, SumFunction(h), Cardinality(ChildNumbers) * o + n * SumFunction(f))
    BY <1>1, <2>2, ChildNumbersFinite, SumAffine
  <2>4. QED
    BY <1>4, <2>1, <2>3
<1>7. t = -s
  <2>1. PICK z \in Int : t = (Cardinality(ChildNumbers) * 0 + (-1) * s) + 0 * z
    BY <1>6 DEF Congruent
  <2>2. Cardinality(ChildNumbers) \in Int
    BY ChildNumbersFinite
  <2>3. QED
    BY <2>1, <2>2
<1>8. s = 0
  BY <1>5, <1>7
<1>9. QED
  BY <1>1, <1>4, <1>8 DEF f

-----------------------------------------------------------------------------
(* block_prolong (), cell by cell. *)

Gradient(u, x) == [a \in Axes |-> u[Beside(x, a, 1)] - u[Beside(x, a, -1)]]

\* The linear interpolation of the k-th cell over x: u[x] and a shift.
LEMMA LinearOfFine ==
  ASSUME NEW u, NEW x \in Cells, NEW k \in ChildNumbers, NEW f,
         f = [a \in Axes |-> 2 * x[a] + Bit(k, a)], Gradient(u, x) \in [Axes -> Int]
  PROVE  Linear(u, f) = (u[x] + Over(Shift(Gradient(u, x), k), 8)) % Modulus
<1> DEFINE C == [a \in Axes |-> f[a] \div 2]
           sgn(a) == IF f[a] % 2 = 1 THEN 1 ELSE -1
           slope == [a \in Axes |-> sgn(a) * (u[Beside(C, a, 1)] - u[Beside(C, a, -1)])]
<1>1. ASSUME NEW a \in Axes PROVE f[a] \div 2 = x[a] /\ f[a] % 2 = Bit(k, a) /\ Bit(k, a) \in 0..1
  <2>1. PICK y \in Int, b \in 0..1 : y = x[a] /\ b = Bit(k, a)
    <3>1. x[a] \in Int
      BY DEF Cells
    <3>2. QED
      BY <3>1, BitValue
  <2>2. (2 * y + b) \div 2 = y /\ (2 * y + b) % 2 = b
    OBVIOUS
  <2>3. f[a] = 2 * y + b
    BY <2>1
  <2>4. QED
    BY <2>1, <2>2, <2>3
<1>2. C = x
  <2>1. x = [a \in Axes |-> x[a]]
    BY DEF Cells
  <2>2. QED
    BY <1>1, <2>1
<1>3. ASSUME NEW a \in Axes PROVE slope[a] = IF Bit(k, a) = 1 THEN Gradient(u, x)[a] ELSE -Gradient(u, x)[a]
  <2>1. PICK g \in Int : g = Gradient(u, x)[a] /\ g = u[Beside(x, a, 1)] - u[Beside(x, a, -1)]
    BY DEF Gradient
  <2>2. slope[a] = sgn(a) * g
    BY <1>2, <2>1
  <2>3. sgn(a) = IF Bit(k, a) = 1 THEN 1 ELSE -1
    BY <1>1
  <2>4. 1 * g = g /\ (-1) * g = -g
    OBVIOUS
  <2> HIDE DEF slope, sgn
  <2>5. QED
    BY <2>1, <2>2, <2>3, <2>4
<1>4. slope = Signed(Gradient(u, x), k)
  <2>1. slope = [a \in Axes |-> slope[a]]
    OBVIOUS
  <2> HIDE DEF slope
  <2>2. QED
    BY <1>3, <2>1 DEF Signed
<1>5. Linear(u, f) = (u[C] + Over(SumFunction(slope), 8)) % Modulus
  BY DEF Linear
<1> HIDE DEF slope, C
<1>6. QED
  BY <1>2, <1>4, <1>5 DEF Shift

\* block_prolong () by cells of the parent.
LEMMA ProlongedByCells ==
  ASSUME TreeInv, value \in [nodes -> Block], NEW p \in nodes
  PROVE  LET u == Gathered(p, 1) IN
         \A x \in Cells :
           /\ Gradient(u, x) \in [Axes -> Int]
           /\ \A k \in ChildNumbers :
                Prolonged(p)[HolderOf(x)][FineOf(x, k)]
                  = (value[p][x] + Over(Shift(Gradient(u, x), k), 8)) % Modulus
<1> DEFINE u == Gathered(p, 1)
<1>1. /\ \A x \in Scratch(1) : u[x] \in Numbers
      /\ \A x \in Cells : x \in Scratch(1) /\ u[x] = value[p][x]
      /\ \A x \in Cells, a \in Axes : Beside(x, a, 1) \in Scratch(1) /\ Beside(x, a, -1) \in Scratch(1)
  BY GatheredMeaning
<1>2. ASSUME NEW x \in Cells PROVE Gradient(u, x) \in [Axes -> Int]
  <2>1. ASSUME NEW a \in Axes PROVE u[Beside(x, a, 1)] - u[Beside(x, a, -1)] \in Int
    <3>1. u[Beside(x, a, 1)] \in Int /\ u[Beside(x, a, -1)] \in Int
      BY <1>1, ModulusFacts
    <3> HIDE DEF u
    <3>2. QED
      BY <3>1
  <2>2. QED
    BY <2>1 DEF Gradient
<1>3. Prolonged(p) = [c \in ChildNumbers |-> [y \in Cells |->
                        Linear(u, [a \in Axes |-> Bit(c, a) * BlockM + y[a]])]]
  BY DEF Prolonged, ChildNumbers
<1> HIDE DEF u
<1>4. ASSUME NEW x \in Cells, NEW k \in ChildNumbers
      PROVE  Prolonged(p)[HolderOf(x)][FineOf(x, k)]
               = (value[p][x] + Over(Shift(Gradient(u, x), k), 8)) % Modulus
  <2>1. HolderOf(x) \in ChildNumbers /\ FineOf(x, k) \in Cells
    BY HolderMeaning, FineMeaning
  <2>2. PICK f : f = [a \in Axes |-> Bit(HolderOf(x), a) * BlockM + FineOf(x, k)[a]]
    OBVIOUS
  <2>3. Prolonged(p)[HolderOf(x)][FineOf(x, k)] = Linear(u, f)
    BY <1>3, <2>1, <2>2
  <2>4. f = [a \in Axes |-> 2 * x[a] + Bit(k, a)]
    BY <2>2, FineMeaning
  <2>5. Linear(u, f) = (u[x] + Over(Shift(Gradient(u, x), k), 8)) % Modulus
    BY <1>2, <2>4, LinearOfFine
  <2>6. QED
    BY <1>1, <2>3, <2>5
<1>5. QED
  BY <1>2, <1>4 DEF u

LEMMA ProlongedType ==
  ASSUME TreeInv, value \in [nodes -> Block], NEW p \in nodes
  PROVE  Prolonged(p) \in Blocks
<1>1. ASSUME NEW c \in ChildNumbers, NEW y \in Cells PROVE Prolonged(p)[c][y] \in Numbers
  <2>1. <<c, y>> \in Images(FineCells, Cells \X ChildNumbers)
    BY FineCellsAll DEF FamilyCells
  <2>2. PICK t \in Cells \X ChildNumbers : FineCells[t] = <<c, y>>
    BY <2>1 DEF Images
  <2>3. PICK x \in Cells, k \in ChildNumbers : c = HolderOf(x) /\ y = FineOf(x, k)
    BY <2>2 DEF FineCells
  <2>4. PICK G \in [Axes -> Int] :
          Prolonged(p)[c][y] = (value[p][x] + Over(Shift(G, k), 8)) % Modulus
    BY <2>3, ProlongedByCells
  <2>5. value[p][x] \in Int /\ Over(Shift(G, k), 8) \in Int
    <3>1. value[p][x] \in Int
      BY ModulusFacts DEF Block
    <3>2. Shift(G, k) \in Int /\ 8 \in Halvings
      BY ShiftOpposite DEF Halvings
    <3>3. Over(Shift(G, k), 8) \in Numbers
      BY <3>2, OverTimes
    <3>4. QED
      BY <3>1, <3>3, ModulusFacts
  <2>6. PICK s \in Int : s = value[p][x] + Over(Shift(G, k), 8)
    BY <2>5
  <2>7. QED
    BY <2>4, <2>6, ModulusFacts, CongruentRest
<1>2. Prolonged(p) = [c \in ChildNumbers |-> [y \in Cells |-> Prolonged(p)[c][y]]]
  BY DEF Prolonged, ChildNumbers
<1>3. QED
  BY <1>1, <1>2 DEF Blocks, Block

\* The gradients cancel.
LEMMA MeanOfProlonged ==
  ASSUME TreeInv, value \in [nodes -> Block], NEW p \in nodes
  PROVE  Mean(Prolonged(p)) = value[p]
<1> DEFINE b == Prolonged(p)
           u == Gathered(p, 1)
<1>1. b \in Blocks
  BY ProlongedType
<1>2. value[p] \in Block
  OBVIOUS
<1> HIDE DEF b, u
<1>3. ASSUME NEW x \in Cells PROVE Mean(b)[x] = value[p][x]
  <2>1. PICK G \in [Axes -> Int] :
          \A k \in ChildNumbers :
            b[HolderOf(x)][FineOf(x, k)] = (value[p][x] + Over(Shift(G, k), 8)) % Modulus
    BY ProlongedByCells DEF b
  <2>2. PICK v \in Numbers : v = value[p][x]
    BY <1>2 DEF Block
  <2>3. PICK i \in Int :
          \A s \in Int : Over(s, 8) \in Numbers /\ Congruent(Modulus, Over(s, 8), i * s)
    BY OverMeaning DEF Halvings
  <2> DEFINE f == [k \in ChildNumbers |-> Shift(G, k)]
             h == [k \in ChildNumbers |-> b[HolderOf(x)][FineOf(x, k)]]
  <2>4. f \in [ChildNumbers -> Int] /\ SumFunction(f) = 0 /\ h \in [ChildNumbers -> Int]
        /\ SumFunction(h) = FineSum(b, x) /\ FineSum(b, x) \in Int
    BY <1>1, ShiftsCancel, FineSumMeaning DEF FineSum
  <2>5. ASSUME NEW k \in ChildNumbers PROVE Congruent(Modulus, h[k], v + i * f[k])
    <3>1. PICK s \in Int : s = f[k] /\ s = Shift(G, k)
      BY <2>4
    <3>2. PICK o \in Int : o = Over(s, 8) /\ Congruent(Modulus, o, i * s)
      BY <2>3, ModulusFacts
    <3>3. h[k] = (v + o) % Modulus
      BY <2>1, <2>2, <3>1, <3>2
    <3>4. v \in Int /\ v + o \in Int /\ i * s \in Int /\ v + i * s \in Int /\ Modulus \in Nat \ {0}
          /\ Modulus \in Nat
      BY ModulusFacts
    <3>5. Congruent(Modulus, v, v)
      BY <3>4, CongruentSame
    <3>6. Congruent(Modulus, v + o, v + i * s)
      BY <3>2, <3>4, <3>5, CongruentPlus
    <3>7. PICK r \in Int, w \in Int, z \in Int : r = w % Modulus /\ w = v + o /\ z = v + i * s
      <4>1. PICK w \in Int, z \in Int : w = v + o /\ z = v + i * s
        BY <3>4
      <4>2. w % Modulus \in 0..(Modulus - 1)
        BY <3>4, CongruentRest
      <4>3. w % Modulus \in Int
        BY <3>4, <4>2
      <4>4. QED
        BY <4>1, <4>3
    <3>8. Congruent(Modulus, r, w)
      BY <3>4, <3>7, CongruentRest
    <3>9. Congruent(Modulus, r, z)
      BY <3>4, <3>6, <3>7, <3>8, CongruentOn
    <3>10. QED
      BY <3>1, <3>3, <3>7, <3>9
  <2> HIDE DEF f, h
  <2>6. Congruent(Modulus, SumFunction(h), Cardinality(ChildNumbers) * v + i * SumFunction(f))
    <3>1. v \in Int
      BY ModulusFacts
    <3>2. QED
      BY <2>4, <2>5, <3>1, ModulusFacts, ChildNumbersFinite, SumAffine
  <2>7. PICK n \in Int, t \in Int : n = NChildren /\ t = FineSum(b, x)
    BY <2>4, ChildNumbersFinite
  <2>8. Congruent(Modulus, t, n * v)
    <3>1. v \in Int /\ n * v + i * 0 = n * v
      BY ModulusFacts
    <3>2. QED
      BY <2>4, <2>6, <2>7, <3>1, ChildNumbersFinite
  <2>9. PICK m \in Numbers : m = Mean(b)[x] /\ Congruent(Modulus, n * m, t)
    BY <1>1, <2>7, MeanMeaning DEF Block
  <2>10. Congruent(Modulus, n * m, n * v)
    <3>1. n * m \in Int /\ n * v \in Int /\ Modulus \in Nat
      BY ModulusFacts
    <3>2. QED
      BY <2>8, <2>9, <3>1, CongruentOn
  <2>11. m = v
    <3>1. n \in Halvings
      BY <2>7, ChildNumbersFinite
    <3>2. QED
      BY <2>10, <3>1, OverUnique
  <2>12. QED
    BY <2>2, <2>9, <2>11
<1>4. Mean(b) = value[p]
  <2>1. Mean(b) \in Block
    BY <1>1, MeanMeaning
  <2>2. QED
    BY <1>2, <1>3, <2>1 DEF Block
<1>5. QED
  BY <1>4 DEF b

-----------------------------------------------------------------------------
(* Integrals. *)

\* A block has the volume of its NChildren children.
LEMMA VolumeStep ==
  ASSUME NEW l \in Nat, l < MaxDepth
  PROVE  /\ CellVolume(l) \in Nat /\ CellVolume(l + 1) \in Nat
         /\ CellVolume(l) = NChildren * CellVolume(l + 1)
<1>1. PICK k \in 0..29 : k = MaxDepth - (l + 1)
  BY MaxDepthAssumption
<1>2. MaxDepth - l = k + 1 /\ MaxDepth - (l + 1) = k
  BY <1>1, MaxDepthAssumption
<1>3. PICK s \in Nat : s = 2^k /\ 2^(k + 1) = 2 * s
  BY PowerStep
<1>4. /\ CellVolume(l) = IF Dimension = 1 THEN 2 * s ELSE IF Dimension = 2 THEN (2 * s) * (2 * s)
                         ELSE (2 * s) * (2 * s) * (2 * s)
      /\ CellVolume(l + 1) = IF Dimension = 1 THEN s ELSE IF Dimension = 2 THEN s * s ELSE s * s * s
  BY <1>2, <1>3 DEF CellVolume
<1>5. PICK u \in Nat : u = s * s
  OBVIOUS
<1>6. PICK c \in Nat : c = u * s
  OBVIOUS
<1>7. (2 * s) * (2 * s) = 4 * u
  BY <1>5
<1>8. (4 * u) * (2 * s) = 8 * c
  BY <1>6
<1>9. /\ CellVolume(l) = IF Dimension = 1 THEN 2 * s ELSE IF Dimension = 2 THEN 4 * u ELSE 8 * c
      /\ CellVolume(l + 1) = IF Dimension = 1 THEN s ELSE IF Dimension = 2 THEN u ELSE c
  BY <1>4, <1>5, <1>6, <1>7, <1>8
<1>10. QED
  BY <1>9, ChildNumbersFinite, DimensionAssumption

LEMMA VolumeType ==
  ASSUME NEW l \in Nat, l =< MaxDepth
  PROVE  CellVolume(l) \in Nat
<1>1. CASE l < MaxDepth
  BY <1>1, VolumeStep
<1>2. CASE l = MaxDepth
  <2>1. PICK k \in Nat : k = l - 1 /\ k < MaxDepth /\ k + 1 = l
    BY <1>2, MaxDepthAssumption
  <2>2. QED
    BY <2>1, VolumeStep
<1>3. QED
  BY <1>1, <1>2, MaxDepthAssumption

\* The sum of a block of numbers.
LEMMA BlockSum ==
  ASSUME NEW b \in Block
  PROVE  SumFunction(b) \in Int
<1>1. b \in [Cells -> Int]
  BY ModulusFacts DEF Block
<1>2. QED
  BY <1>1, CellsFinite, SumFacts

Weights(v, S) == [q \in S |-> SumFunction(v[q]) * CellVolume(q.level)]
Weighable(v, S) == \A q \in S : q.level \in Nat /\ q.level =< MaxDepth /\ v[q] \in Block

LEMMA WeightsType ==
  ASSUME NEW v, NEW S, Weighable(v, S)
  PROVE  Weights(v, S) \in [S -> Int]
<1>1. ASSUME NEW q \in S PROVE SumFunction(v[q]) * CellVolume(q.level) \in Int
  <2>1. SumFunction(v[q]) \in Int /\ CellVolume(q.level) \in Int
    BY BlockSum, VolumeType DEF Weighable
  <2>2. QED
    BY <2>1
<1>2. QED
  BY <1>1 DEF Weights

(* The children of p weigh what their mean does in p. *)
LEMMA FamilyWeight ==
  ASSUME NEW p \in Index, p.level < MaxDepth, NEW b \in Blocks, NEW w,
         \A c \in ChildNumbers : w[IndexChild(p, c)] = b[c]
  PROVE  /\ Weighable(w, Children(p)) /\ IsFiniteSet(Children(p))
         /\ SumFunction(Weights(w, Children(p))) \in Int
         /\ SumFunction(Mean(b)) * CellVolume(p.level) \in Int
         /\ Congruent(Modulus, SumFunction(Weights(w, Children(p))),
                      SumFunction(Mean(b)) * CellVolume(p.level))
<1> DEFINE K == Children(p)
           f == Weights(w, K)
           m == [c \in ChildNumbers |-> IndexChild(p, c)]
           sums == [c \in ChildNumbers |-> SumFunction(b[c])]
<1>1. p.level \in Nat
  BY DEF Index
<1>2. m \in [ChildNumbers -> K] /\ OneToOne(m, ChildNumbers) /\ Images(m, ChildNumbers) = K
  BY ChildrenDiffer DEF Children, ChildNumbers, OneToOne, Images
<1>3. IsFiniteSet(K)
  BY FamilySize
<1>4. Weighable(w, K)
  <2>1. ASSUME NEW q \in K PROVE q.level \in Nat /\ q.level =< MaxDepth /\ w[q] \in Block
    <3>1. PICK c \in ChildNumbers : q = IndexChild(p, c)
      BY DEF Children, ChildNumbers
    <3>2. q.level = p.level + 1 /\ w[q] = b[c] /\ b[c] \in Block
      BY <3>1 DEF IndexChild, Blocks
    <3>3. QED
      BY <1>1, <3>2, MaxDepthAssumption
  <2>2. QED
    BY <2>1 DEF Weighable
<1>5. f \in [K -> Int]
  BY <1>4, WeightsType
<1>6. PICK V \in Nat : V = CellVolume(p.level + 1)
  BY <1>1, VolumeStep
<1>7. CellVolume(p.level) = NChildren * V
  BY <1>1, <1>6, VolumeStep
<1>8. /\ SumFunction(Mean(b)) \in Int /\ SumFunction(sums) \in Int /\ sums \in [ChildNumbers -> Int]
      /\ Congruent(Modulus, SumFunction(sums), NChildren * SumFunction(Mean(b)))
  BY FamilySum
<1>9. \A c \in ChildNumbers : Renamed(f, m, ChildNumbers)[c] = V * sums[c]
  <2>1. TAKE c \in ChildNumbers
  <2>2. m[c] = IndexChild(p, c) /\ m[c] \in K /\ m[c].level = p.level + 1
    BY <1>2 DEF IndexChild
  <2>3. f[m[c]] = SumFunction(w[m[c]]) * V
    BY <1>6, <2>2 DEF Weights
  <2>4. f[m[c]] = sums[c] * V
    BY <2>2, <2>3
  <2>5. sums[c] * V = V * sums[c]
    BY <1>8
  <2>6. QED
    BY <2>4, <2>5 DEF Renamed
<1> HIDE DEF f, m, sums, K
<1>10. Part(f, K) = f
  BY <1>5 DEF Part
<1>11. SumFunction(f) = SumFunction(Renamed(f, m, ChildNumbers))
  <2>1. SumFunction(Part(f, Images(m, ChildNumbers))) = SumFunction(Renamed(f, m, ChildNumbers))
    <3>1. PICK g \in [K -> Int], n \in [ChildNumbers -> K] : g = f /\ n = m
      BY <1>2, <1>5
    <3>2. IsFiniteSet(ChildNumbers) /\ IsFiniteSet(K) /\ OneToOne(n, ChildNumbers)
      BY <1>2, <1>3, <3>1, ChildNumbersFinite
    <3>3. SumFunction(Part(g, Images(n, ChildNumbers))) = SumFunction(Renamed(g, n, ChildNumbers))
      BY <3>2, SumRenamed
    <3>4. QED
      BY <3>1, <3>3
  <2>2. QED
    BY <1>2, <1>10, <2>1
<1>12. Renamed(f, m, ChildNumbers) \in [ChildNumbers -> Int]
  <2>1. \A c \in ChildNumbers : V * sums[c] \in Int
    BY <1>8
  <2>2. QED
    BY <1>9, <2>1 DEF Renamed
<1>13. PICK g \in [ChildNumbers -> Int] : g = Renamed(f, m, ChildNumbers)
  BY <1>12
<1>14. SumFunction(g) = V * SumFunction(sums)
  <2>1. \A c \in ChildNumbers : Congruent(0, g[c], 0 + V * sums[c])
    <3>1. TAKE c \in ChildNumbers
    <3>2. g[c] = V * sums[c] /\ sums[c] \in Int /\ g[c] \in Int
      BY <1>8, <1>9, <1>13
    <3>3. PICK t \in Int : t = V * sums[c]
      BY <3>2
    <3>4. Congruent(0, t, 0 + t)
      BY CongruentSame
    <3>5. QED
      BY <3>2, <3>3, <3>4
  <2>2. Congruent(0, SumFunction(g), Cardinality(ChildNumbers) * 0 + V * SumFunction(sums))
    <3>1. V \in Int /\ 0 \in Int /\ 0 \in Nat
      OBVIOUS
    <3>2. QED
      BY <1>8, <2>1, <3>1, ChildNumbersFinite, SumAffine
  <2>3. SumFunction(g) \in Int
    BY ChildNumbersFinite, SumFacts
  <2>4. PICK t \in Int : t = V * SumFunction(sums)
    BY <1>8
  <2>5. Cardinality(ChildNumbers) * 0 + t = t
    BY <2>4, ChildNumbersFinite
  <2>6. Congruent(0, SumFunction(g), t)
    BY <2>2, <2>4, <2>5
  <2>7. QED
    BY <2>3, <2>4, <2>6 DEF Congruent
<1>15. Congruent(Modulus, V * SumFunction(sums), V * (NChildren * SumFunction(Mean(b))))
  <2>1. PICK t \in Int : t = NChildren * SumFunction(Mean(b))
    BY <1>8, ChildNumbersFinite
  <2>2. QED
    <3>1. PICK a \in Int : a = SumFunction(sums)
      BY <1>8
    <3>2. Congruent(Modulus, a, t) /\ V \in Int
      BY <1>8, <2>1, <3>1
    <3>3. Congruent(Modulus, V * a, V * t)
      BY <3>2, ModulusFacts, CongruentTimes
    <3>4. QED
      BY <2>1, <3>1, <3>3
<1>16. V * (NChildren * SumFunction(Mean(b))) = SumFunction(Mean(b)) * CellVolume(p.level)
  BY <1>7, <1>8, ChildNumbersFinite
<1>17. SumFunction(Mean(b)) * CellVolume(p.level) \in Int /\ V * SumFunction(sums) \in Int
  BY <1>7, <1>8, ChildNumbersFinite
<1>18. QED
  BY <1>3, <1>4, <1>11, <1>13, <1>14, <1>15, <1>16, <1>17 DEF f, K

(* Leaves A with p, or with its children in its place: the integral is the   *)
(* same when p holds the mean of its children.                               *)
LEMMA Exchange ==
  ASSUME NEW A, IsFiniteSet(A), NEW p \in A, p \in Index, p.level < MaxDepth,
         NEW v, Weighable(v, A), NEW b \in Blocks, v[p] = Mean(b),
         NEW w, \A q \in A \ {p} : w[q] = v[q],
         \A c \in ChildNumbers : w[IndexChild(p, c)] = b[c],
         Children(p) \cap A = {},
         NEW B, B = (A \ {p}) \cup Children(p)
  PROVE  /\ Weighable(w, B) /\ IsFiniteSet(B)
         /\ SumFunction(Weights(w, B)) \in Int /\ SumFunction(Weights(v, A)) \in Int
         /\ Congruent(Modulus, SumFunction(Weights(w, B)), SumFunction(Weights(v, A)))
<1> DEFINE K == Children(p)
           R == A \ {p}
           f == Weights(v, A)
           g == Weights(w, B)
<1>1. /\ Weighable(w, K) /\ IsFiniteSet(K)
      /\ SumFunction(Weights(w, K)) \in Int
      /\ SumFunction(Mean(b)) * CellVolume(p.level) \in Int
      /\ Congruent(Modulus, SumFunction(Weights(w, K)), SumFunction(Mean(b)) * CellVolume(p.level))
  BY FamilyWeight
<1>2. IsFiniteSet(R) /\ IsFiniteSet(B)
  BY <1>1, FS_Subset, FS_Union
<1>3. Weighable(w, B)
  BY <1>1 DEF Weighable
<1>4. f \in [A -> Int] /\ g \in [B -> Int]
  BY <1>3, WeightsType
<1>5. Part(g, R) = Part(f, R) /\ Part(g, K) = Weights(w, K) /\ Part(g, R \cup K) = g
  BY DEF Weights, Part
<1>6. f[p] = SumFunction(Mean(b)) * CellVolume(p.level)
  BY DEF Weights
<1>7. R \in SUBSET B /\ K \in SUBSET B /\ R \cap K = {} /\ B = R \cup K
  OBVIOUS
<1> HIDE DEF f, g, K, R
<1>8. SumFunction(f) \in Int /\ SumFunction(f) = f[p] + SumFunction(Part(f, R))
  BY <1>4, SumFacts DEF R
<1>9. SumFunction(g) = SumFunction(Part(g, R)) + SumFunction(Part(g, K))
  <2>1. SumFunction(Part(g, R \cup K)) = SumFunction(Part(g, R)) + SumFunction(Part(g, K))
    BY <1>2, <1>4, <1>7, SumOfUnion
  <2>2. QED
    BY <1>5, <2>1
<1>10. SumFunction(Part(f, R)) \in Int
  <2>1. Part(f, R) \in [R -> Int]
    BY <1>4 DEF Part, R
  <2>2. QED
    BY <1>2, <2>1, SumFacts
<1>11. PICK s \in Int, k \in Int, n \in Int :
         s = SumFunction(Part(f, R)) /\ k = SumFunction(Weights(w, K)) /\ n = f[p]
  BY <1>1, <1>6, <1>10 DEF K
<1>12. Congruent(Modulus, k, n) /\ Congruent(Modulus, s, s)
  BY <1>1, <1>6, <1>11, ModulusFacts, CongruentSame DEF K
<1>13. Congruent(Modulus, k + s, n + s)
  BY <1>12, ModulusFacts, CongruentPlus
<1>14. SumFunction(g) = k + s /\ SumFunction(f) = n + s
  BY <1>5, <1>8, <1>9, <1>11
<1>15. QED
  BY <1>2, <1>3, <1>13, <1>14 DEF f, g

ValueInv ==
  /\ mass \in Numbers
  /\ ~Exists => mass = 0
  /\ Exists => /\ value \in [nodes -> Block]
               /\ Congruent(Modulus, mass, SumFunction(Weights(value, leaf)))
  /\ ParentsAreMeans

\* The leaves are finitely many blocks of numbers.
LEMMA LeavesWeighable ==
  ASSUME TreeInv, CountInv, value \in [nodes -> Block]
  PROVE  /\ IsFiniteSet(leaf) /\ IsFiniteSet(nodes) /\ leaf \subseteq nodes /\ nodes \subseteq Index
         /\ Weighable(value, leaf)
         /\ Weights(value, leaf) \in [leaf -> Int]
         /\ SumFunction(Weights(value, leaf)) \in Int
<1>1. leaf \subseteq nodes /\ nodes \subseteq Index /\ IsFiniteSet(nodes)
  BY TreeShape DEF CountInv, Counted
<1>2. IsFiniteSet(leaf)
  BY <1>1, FS_Subset
<1>3. Weighable(value, leaf)
  <2>1. ASSUME NEW q \in leaf PROVE q.level \in Nat /\ q.level =< MaxDepth /\ value[q] \in Block
    <3>1. q \in nodes /\ value[q] \in Block
      BY <1>1
    <3>2. q.level =< depthmax /\ depthmax \in 1..MaxDepth /\ q.level \in Nat
      BY <1>1, <3>1 DEF TreeInv, TypeOK, WholeTree, Exists, Index
    <3>3. QED
      BY <3>1, <3>2, MaxDepthAssumption
  <2>2. QED
    BY <2>1 DEF Weighable
<1>4. Weights(value, leaf) \in [leaf -> Int]
  BY <1>3, WeightsType
<1>5. QED
  BY <1>1, <1>2, <1>3, <1>4, SumFacts

(* The integral and the means do not read what these steps write. *)
LEMMA ValueUnchanged ==
  ASSUME ValueInv, UNCHANGED <<nodes, leaf, hasChildren, value, restricted, mass>>
  PROVE  ValueInv'
<1>1. Exists' <=> Exists
  BY DEF Exists
<1>2. ParentsAreMeans'
  <2>1. ASSUME restricted', NEW p \in hasChildren'
        PROVE  value'[p] = Mean(ChildBlocks(value', p))
    BY <2>1 DEF ValueInv, ParentsAreMeans
  <2>2. QED
    BY <2>1 DEF ParentsAreMeans
<1>3. Congruent(Modulus, mass', SumFunction(Weights(value', leaf')))
        <=> Congruent(Modulus, mass, SumFunction(Weights(value, leaf)))
  OBVIOUS
<1>4. QED
  BY <1>1, <1>2, <1>3 DEF ValueInv

-----------------------------------------------------------------------------
(* The values under tree (), tree_destroy () and divide_leaf (). *)

\* Zeros sum to 0.
LEMMA SumOfZeros ==
  ASSUME NEW S, IsFiniteSet(S), NEW f \in [S -> Int], \A x \in S : f[x] = 0
  PROVE  SumFunction(f) = 0
<1>1. \A x \in S : Congruent(0, f[x], 0 + 0 * f[x])
  BY CongruentSame
<1>2. 0 \in Int /\ 0 \in Nat
  OBVIOUS
<1>3. Congruent(0, SumFunction(f), Cardinality(S) * 0 + 0 * SumFunction(f))
  BY <1>1, <1>2, SumAffine
<1>4. SumFunction(f) \in Int /\ Cardinality(S) \in Int
  BY SumFacts, FS_CardinalityType
<1>5. QED
  BY <1>3, <1>4 DEF Congruent

\* The block of zeros that tree () allocates.
LEMMA ZeroFacts ==
  /\ Zero \in Block /\ SumFunction(Zero) = 0
  /\ [c \in ChildNumbers |-> Zero] \in Blocks
  /\ Mean([c \in ChildNumbers |-> Zero]) = Zero
<1>1. Zero \in Block /\ Zero \in [Cells -> Int]
  BY ModulusFacts DEF Zero, Block
<1>2. SumFunction(Zero) = 0
  BY <1>1, CellsFinite, SumOfZeros DEF Zero
<1> DEFINE b == [c \in ChildNumbers |-> Zero]
<1>3. b \in Blocks
  BY <1>1 DEF Blocks
<1>4. ASSUME NEW x \in Cells PROVE Mean(b)[x] = 0
  <2>1. \A k \in ChildNumbers : b[HolderOf(x)][FineOf(x, k)] = 0
    BY HolderMeaning, FineMeaning DEF Zero
  <2> DEFINE f == [k \in ChildNumbers |-> b[HolderOf(x)][FineOf(x, k)]]
  <2>2. f \in [ChildNumbers -> Int] /\ \A k \in ChildNumbers : f[k] = 0
    BY <2>1
  <2> HIDE DEF f
  <2>3. SumFunction(f) = 0
    BY <2>2, ChildNumbersFinite, SumOfZeros
  <2>4. FineSum(b, x) = 0
    BY <2>3 DEF f, FineSum
  <2>5. Mean(b)[x] \in Numbers /\ Congruent(Modulus, NChildren * Mean(b)[x], NChildren * 0)
    <3>1. NChildren * 0 = 0
      BY ChildNumbersFinite
    <3>2. QED
      BY <1>3, <2>4, <3>1, MeanMeaning DEF Block
  <2>6. QED
    BY <2>5, ModulusFacts, ChildNumbersFinite, OverUnique
<1>5. Mean(b) = Zero
  <2>1. Mean(b) = [x \in Cells |-> Mean(b)[x]]
    BY MeanByCells
  <2>2. QED
    BY <1>4, <2>1 DEF Zero
<1>6. QED
  BY <1>1, <1>2, <1>3, <1>5

LEMMA ChildBlocksByChild ==
  ASSUME NEW v, NEW q
  PROVE  ChildBlocks(v, q) = [c \in ChildNumbers |-> v[IndexChild(q, c)]]
BY DEF ChildBlocks, ChildNumbers

\* tree (): zeros all over.
LEMMA CreateValueInv ==
  ASSUME ValueInv, Create(MaxDepth), CreateValues
  PROVE  ValueInv'
<1>1. /\ nodes' = {Root} \cup Children(Root) /\ hasChildren' = {Root} /\ leaf' = Children(Root)
      /\ ~Exists /\ Exists' /\ value' = [q \in nodes' |-> Zero] /\ mass' = mass
  BY DEF Create, CreateValues, Exists
<1>2. mass' = 0 /\ 0 \in Numbers
  BY <1>1, ModulusFacts DEF ValueInv
<1>3. value' \in [nodes' -> Block]
  BY <1>1, ZeroFacts
<1>4. /\ IsFiniteSet(leaf') /\ leaf' \subseteq nodes'
      /\ Weighable(value', leaf') /\ Weights(value', leaf') \in [leaf' -> Int]
  <2>1. Root \in Index /\ Root.level = 0
    BY DEF Root, Index
  <2>2. IsFiniteSet(Children(Root)) /\ \A q \in Children(Root) : q.level = 1
    BY <2>1, FamilySize, ChildOfParent
  <2>3. \A q \in leaf' : q.level \in Nat /\ q.level =< MaxDepth /\ value'[q] \in Block
    BY <1>1, <1>3, <2>2, MaxDepthAssumption
  <2>4. PICK v, L : v = value' /\ L = leaf'
    OBVIOUS
  <2>5. Weighable(v, L)
    BY <2>3, <2>4 DEF Weighable
  <2>6. Weights(v, L) \in [L -> Int]
    BY <2>5, WeightsType
  <2>7. QED
    BY <1>1, <2>2, <2>4, <2>5, <2>6
<1>5. SumFunction(Weights(value', leaf')) = 0
  <2>1. PICK f \in [leaf' -> Int] : f = Weights(value', leaf')
    BY <1>4
  <2>2. ASSUME NEW q \in leaf' PROVE f[q] = 0
    <3>1. q.level \in Nat /\ q.level =< MaxDepth /\ value'[q] = Zero
      BY <1>1, <1>4 DEF Weighable
    <3>2. PICK V \in Nat : V = CellVolume(q.level)
      BY <3>1, VolumeType
    <3>3. f[q] = 0 * V
      BY <2>1, <3>1, <3>2, ZeroFacts DEF Weights
    <3>4. QED
      BY <3>3
  <2>3. PICK S : S = leaf'
    OBVIOUS
  <2>4. SumFunction(f) = 0
    <3>1. IsFiniteSet(S) /\ f \in [S -> Int] /\ \A q \in S : f[q] = 0
      BY <1>4, <2>2, <2>3
    <3>2. QED
      BY <3>1, SumOfZeros
  <2>5. QED
    BY <2>1, <2>4
<1>6. Congruent(Modulus, mass', SumFunction(Weights(value', leaf')))
  <2>1. Congruent(Modulus, 0, 0)
    BY ModulusFacts, CongruentSame
  <2>2. QED
    BY <1>2, <1>5, <2>1
<1>7. ParentsAreMeans'
  <2>1. \A c \in ChildNumbers : IndexChild(Root, c) \in nodes'
    BY <1>1 DEF Children, ChildNumbers
  <2>2. ChildBlocks(value', Root) = [c \in ChildNumbers |-> Zero]
    BY <1>1, <2>1, ChildBlocksByChild
  <2>3. value'[Root] = Mean(ChildBlocks(value', Root))
    BY <1>1, <2>2, ZeroFacts
  <2>4. QED
    BY <1>1, <2>3 DEF ParentsAreMeans
<1>8. QED
  BY <1>1, <1>2, <1>3, <1>6, <1>7 DEF ValueInv

LEMMA DestroyValueInv ==
  ASSUME Destroy, DestroyValues
  PROVE  ValueInv'
<1>1. nodes' = {} /\ hasChildren' = {} /\ mass' = 0
  BY DEF Destroy, DestroyValues
<1>2. QED
  BY <1>1, ModulusFacts DEF ValueInv, Exists, ParentsAreMeans

(* A family is looked at as it was. *)
LEMMA SameFamily ==
  ASSUME NEW v, NEW w, NEW q, w[q] = v[q],
         \A c \in ChildNumbers : w[IndexChild(q, c)] = v[IndexChild(q, c)],
         v[q] = Mean(ChildBlocks(v, q))
  PROVE  w[q] = Mean(ChildBlocks(w, q))
<1>1. ChildBlocks(w, q) = ChildBlocks(v, q)
  BY ChildBlocksByChild
<1>2. QED
  BY <1>1

\* divide_leaf (): the family it writes has the mean of the node, and takes its
\* place among the leaves.
LEMMA DivideValueInv ==
  ASSUME TreeInv, CountInv, ValueInv, ~Idle, RefineDivide, DivideValues(Top.p)
  PROVE  ValueInv'
<1>1. PICK p : p = Top.p
  OBVIOUS
<1>2. /\ p \in leaf /\ p \in nodes /\ p \in Index /\ p.level < depthmax
      /\ p.level \in Nat /\ p.level < MaxDepth /\ Children(p) \cap nodes = {} /\ Exists
  <2>1. p \in Index /\ p \in leaf /\ p.level < depthmax
    BY <1>1, TopFrame DEF TreeInv, Refinable
  <2>2. leaf \subseteq nodes
    BY TreeShape
  <2>3. depthmax \in 1..MaxDepth /\ p.level \in Nat
    BY <2>1 DEF TreeInv, TypeOK, Index
  <2>4. Children(p) \cap nodes = {}
    BY <2>1, LeafHasNoChildren DEF TreeInv
  <2>5. QED
    BY <2>1, <2>2, <2>3, <2>4, MaxDepthAssumption DEF Exists
<1>3. /\ nodes' = nodes \cup Children(p) /\ hasChildren' = hasChildren \cup {p}
      /\ leaf' = (leaf \ {p}) \cup Children(p)
  BY <1>1 DEF RefineDivide, DivideLeaf
<1>4. PICK b : b = Prolonged(p)
  OBVIOUS
<1>5. /\ restricted' = restricted /\ mass' = mass
      /\ value' = [q \in nodes' |->
                     IF q \in Children(p)
                     THEN b[CHOOSE c \in 0..(NChildren - 1) : q = IndexChild(p, c)]
                     ELSE value[q]]
  BY <1>1, <1>4 DEF DivideValues
<1>6. value \in [nodes -> Block] /\ Congruent(Modulus, mass, SumFunction(Weights(value, leaf)))
  BY <1>2 DEF ValueInv
<1>7. b \in Blocks /\ Mean(b) = value[p]
  BY <1>2, <1>4, <1>6, ProlongedType, MeanOfProlonged
<1>8. \A c \in ChildNumbers : IndexChild(p, c) \in Children(p) /\ value'[IndexChild(p, c)] = b[c]
  <2>1. TAKE c \in ChildNumbers
  <2>2. IndexChild(p, c) \in Children(p) /\ IndexChild(p, c) \in nodes'
    BY <1>3 DEF Children, ChildNumbers
  <2>3. (CHOOSE d \in 0..(NChildren - 1) : IndexChild(p, c) = IndexChild(p, d)) = c
    <3>1. \A d \in 0..(NChildren - 1) : IndexChild(p, c) = IndexChild(p, d) => d = c
      BY <1>2, ChildrenDiffer DEF ChildNumbers
    <3>2. QED
      BY <3>1 DEF ChildNumbers
  <2>4. QED
    BY <1>5, <2>2, <2>3
<1>9. \A q \in nodes : value'[q] = value[q]
  BY <1>2, <1>3, <1>5
<1>10. value' \in [nodes' -> Block]
  <2>1. ASSUME NEW q \in nodes' PROVE value'[q] \in Block
    <3>1. CASE q \in nodes
      BY <1>6, <1>9, <3>1
    <3>2. CASE q \in Children(p)
      <4>1. PICK c \in ChildNumbers : q = IndexChild(p, c)
        BY <3>2 DEF Children, ChildNumbers
      <4>2. QED
        BY <1>7, <1>8, <4>1 DEF Blocks
    <3>3. QED
      BY <1>3, <3>1, <3>2
  <2>2. value' = [q \in nodes' |-> value'[q]]
    BY <1>5
  <2>3. QED
    BY <2>1, <2>2
<1>11. Congruent(Modulus, mass', SumFunction(Weights(value', leaf')))
  <2>1. /\ IsFiniteSet(leaf) /\ leaf \subseteq nodes
        /\ Weighable(value, leaf) /\ SumFunction(Weights(value, leaf)) \in Int
    BY <1>6, LeavesWeighable
  <2>2. PICK w, B : w = value' /\ B = leaf'
    OBVIOUS
  <2>3. PICK v : v = value
    OBVIOUS
  <2>4. PICK A : A = leaf
    OBVIOUS
  <2>5. /\ IsFiniteSet(A) /\ p \in A /\ Weighable(v, A) /\ v[p] = Mean(b)
        /\ \A q \in A \ {p} : w[q] = v[q]
        /\ \A c \in ChildNumbers : w[IndexChild(p, c)] = b[c]
        /\ Children(p) \cap A = {}
        /\ B = (A \ {p}) \cup Children(p)
    BY <1>2, <1>3, <1>7, <1>8, <1>9, <2>1, <2>2, <2>3, <2>4
  <2>6. /\ SumFunction(Weights(w, B)) \in Int /\ SumFunction(Weights(v, A)) \in Int
        /\ Congruent(Modulus, SumFunction(Weights(w, B)), SumFunction(Weights(v, A)))
    BY <1>2, <1>7, <2>5, Exchange
  <2>7. PICK i \in Int, j \in Int, k \in Int :
          i = mass /\ j = SumFunction(Weights(v, A)) /\ k = SumFunction(Weights(w, B))
    BY <2>6, ModulusFacts DEF ValueInv
  <2>8. Congruent(Modulus, i, j) /\ Congruent(Modulus, k, j)
    BY <1>6, <2>3, <2>4, <2>6, <2>7
  <2>9. Congruent(Modulus, i, k)
    BY <2>8, ModulusFacts, CongruentBack, CongruentOn
  <2>10. QED
    BY <1>5, <2>2, <2>7, <2>9
<1>12. ParentsAreMeans'
  <2> SUFFICES ASSUME restricted', NEW q \in hasChildren'
               PROVE  value'[q] = Mean(ChildBlocks(value', q))
    BY DEF ParentsAreMeans
  <2>1. CASE q = p
    <3>1. ChildBlocks(value', p) = b
      <4>1. b = [c \in ChildNumbers |-> b[c]]
        BY <1>7 DEF Blocks
      <4>2. QED
        BY <1>8, <4>1, ChildBlocksByChild
    <3>2. QED
      BY <1>2, <1>7, <1>9, <2>1, <3>1
  <2>2. CASE q \in hasChildren
    <3>1. q \in nodes /\ Children(q) \subseteq nodes
      BY <1>2, <2>2 DEF TreeInv, TypeOK, WholeTree
    <3>2. \A c \in ChildNumbers : value'[IndexChild(q, c)] = value[IndexChild(q, c)]
      BY <1>9, <3>1 DEF Children, ChildNumbers
    <3>3. value[q] = Mean(ChildBlocks(value, q))
      BY <1>5, <2>2 DEF ValueInv, ParentsAreMeans
    <3>4. value'[q] = value[q]
      BY <1>9, <3>1
    <3>5. PICK v, w : v = value /\ w = value'
      OBVIOUS
    <3>6. w[q] = Mean(ChildBlocks(w, q))
      BY <3>2, <3>3, <3>4, <3>5, SameFamily
    <3>7. QED
      BY <3>5, <3>6
  <2>3. QED
    BY <1>3, <2>1, <2>2
<1>13. mass' \in Numbers /\ Exists'
  BY <1>2, <1>3, <1>5 DEF ValueInv, Exists
<1>14. QED
  BY <1>10, <1>11, <1>12, <1>13 DEF ValueInv

-----------------------------------------------------------------------------
(* The values under tree_coarsen () and writes. *)

LEMMA FamilyBlocks ==
  ASSUME TreeInv, value \in [nodes -> Block], NEW p \in hasChildren
  PROVE  /\ p \in nodes /\ p \in Index /\ Children(p) \subseteq nodes
         /\ p.level \in Nat /\ p.level < MaxDepth
         /\ ChildBlocks(value, p) \in Blocks
         /\ \A c \in ChildNumbers : /\ IndexChild(p, c) \in Children(p)
                                    /\ ChildBlocks(value, p)[c] = value[IndexChild(p, c)]
<1>1. p \in nodes /\ p \in Index /\ Children(p) \subseteq nodes /\ p.level \in Nat
  BY DEF TreeInv, TypeOK, WholeTree, Exists, Index
<1>2. \A c \in ChildNumbers : /\ IndexChild(p, c) \in Children(p)
                              /\ ChildBlocks(value, p)[c] = value[IndexChild(p, c)]
  BY ChildBlocksByChild DEF Children, ChildNumbers
<1>3. ChildBlocks(value, p) \in Blocks
  BY <1>1, <1>2, ChildBlocksByChild DEF Blocks
<1>4. p.level < MaxDepth
  <2>1. 0 \in ChildNumbers
    BY ChildNumbersFinite DEF ChildNumbers, Halvings
  <2>2. PICK q \in Children(p) : q \in nodes
    BY <1>1, <1>2, <2>1
  <2>3. q.level = p.level + 1
    BY <1>1, ChildOfParent
  <2>4. q.level =< depthmax /\ depthmax \in 1..MaxDepth
    BY <2>2 DEF TreeInv, TypeOK, WholeTree, Exists
  <2>5. QED
    BY <1>1, <2>3, <2>4, MaxDepthAssumption
<1>5. QED
  BY <1>1, <1>2, <1>3, <1>4

\* tree_coarsen (): the node is given the mean of the family it takes the place of.
LEMMA CoarsenValueInv ==
  ASSUME TreeInv, CountInv, ValueInv, NEW p \in hasChildren, Coarsen(p), CoarsenValues(p)
  PROVE  ValueInv'
<1>1. Exists /\ leaf = nodes \ hasChildren /\ hasChildren \subseteq nodes /\ nodes \subseteq Index
  BY DEF TreeInv, TypeOK, WholeTree, Exists
<1>2. value \in [nodes -> Block] /\ Congruent(Modulus, mass, SumFunction(Weights(value, leaf)))
  BY <1>1 DEF ValueInv
<1>3. PICK b : b = ChildBlocks(value, p)
  OBVIOUS
<1>4. /\ p \in nodes /\ p \in Index /\ Children(p) \subseteq nodes
      /\ p.level \in Nat /\ p.level < MaxDepth /\ b \in Blocks
      /\ \A c \in ChildNumbers : /\ IndexChild(p, c) \in Children(p)
                                 /\ b[c] = value[IndexChild(p, c)]
  BY <1>2, <1>3, FamilyBlocks
<1>5. /\ nodes' = nodes \ Children(p) /\ hasChildren' = hasChildren \ {p}
      /\ leaf' = (leaf \ Children(p)) \cup {p} /\ Grandchildless(p)
  BY DEF Coarsen, RemoveChildren, CanCoarsen
<1>6. /\ restricted' = restricted /\ mass' = mass
      /\ value' = [[q \in nodes' |-> value[q]] EXCEPT ![p] = Mean(b)]
  BY <1>3 DEF CoarsenValues
<1>7. Children(p) \subseteq leaf /\ p \notin Children(p) /\ p \notin leaf
  <2>1. \A q \in Children(p) : q.level = p.level + 1
    BY <1>4, ChildOfParent
  <2>2. QED
    BY <1>1, <1>4, <1>5, <2>1 DEF Grandchildless
<1>8. p \in nodes' /\ value'[p] = Mean(b) /\ \A q \in nodes' \ {p} : value'[q] = value[q]
  BY <1>4, <1>5, <1>6, <1>7
<1>9. value' \in [nodes' -> Block]
  <2>1. Mean(b) \in Block
    BY <1>4, MeanMeaning
  <2>2. \A q \in nodes' : value[q] \in Block
    BY <1>2, <1>5
  <2>3. QED
    BY <1>6, <2>1, <2>2
<1>10. Congruent(Modulus, mass', SumFunction(Weights(value', leaf')))
  <2>1. /\ IsFiniteSet(leaf) /\ leaf \subseteq nodes
        /\ Weighable(value, leaf) /\ SumFunction(Weights(value, leaf)) \in Int
    BY <1>2, LeavesWeighable
  <2>2. PICK v, A : v = value' /\ A = leaf'
    OBVIOUS
  <2>3. PICK w : w = value
    OBVIOUS
  <2>4. PICK B : B = leaf
    OBVIOUS
  <2>5. IsFiniteSet(A)
    BY <1>5, <2>1, <2>2, FS_Subset, FS_AddElement
  <2>6. \A q \in A : q \in nodes' /\ q.level \in Nat /\ q.level =< MaxDepth /\ v[q] \in Block
    <3>1. TAKE q \in A
    <3>2. q \in nodes'
      BY <1>5, <1>7, <1>8, <2>1, <2>2
    <3>3. v[q] \in Block
      BY <1>9, <2>2, <3>2
    <3>4. CASE q = p
      BY <1>4, <3>2, <3>3, <3>4, MaxDepthAssumption
    <3>5. CASE q \in leaf
      BY <2>1, <3>2, <3>3, <3>5 DEF Weighable
    <3>6. QED
      BY <1>5, <2>2, <3>4, <3>5
  <2>7. Weighable(v, A)
    BY <2>6 DEF Weighable
  <2>8. /\ p \in A /\ v[p] = Mean(b)
        /\ \A q \in A \ {p} : w[q] = v[q]
        /\ \A c \in ChildNumbers : w[IndexChild(p, c)] = b[c]
        /\ Children(p) \cap A = {}
        /\ B = (A \ {p}) \cup Children(p)
    BY <1>4, <1>5, <1>7, <1>8, <2>2, <2>3, <2>4, <2>6
  <2>9. /\ SumFunction(Weights(w, B)) \in Int /\ SumFunction(Weights(v, A)) \in Int
        /\ Congruent(Modulus, SumFunction(Weights(w, B)), SumFunction(Weights(v, A)))
    BY <1>4, <2>5, <2>7, <2>8, Exchange
  <2>10. PICK i \in Int, j \in Int, k \in Int :
          i = mass /\ j = SumFunction(Weights(w, B)) /\ k = SumFunction(Weights(v, A))
    BY <2>9, ModulusFacts DEF ValueInv
  <2>11. Congruent(Modulus, i, j) /\ Congruent(Modulus, j, k)
    BY <1>2, <2>3, <2>4, <2>9, <2>10
  <2>12. Congruent(Modulus, i, k)
    BY <2>11, ModulusFacts, CongruentOn
  <2>13. QED
    BY <1>6, <2>2, <2>10, <2>12
<1>11. ParentsAreMeans'
  <2> SUFFICES ASSUME restricted', NEW q \in hasChildren'
               PROVE  value'[q] = Mean(ChildBlocks(value', q))
    BY DEF ParentsAreMeans
  <2>1. restricted /\ value[p] = Mean(b) /\ value[q] = Mean(ChildBlocks(value, q))
    BY <1>3, <1>5, <1>6 DEF ValueInv, ParentsAreMeans
  <2>2. \A r \in nodes' : value'[r] = value[r]
    BY <1>8, <2>1
  <2>3. q \in Index /\ q \in nodes /\ q # p /\ Children(q) \subseteq nodes
    BY <1>1, <1>5 DEF TreeInv, WholeTree
  <2>4. q \in nodes' /\ Children(q) \subseteq nodes'
    <3>1. \A c \in Children(q) : c \notin Children(p)
      BY <1>4, <2>3, ChildOfParent
    <3>2. q \notin Children(p)
      BY <1>5 DEF Grandchildless
    <3>3. QED
      BY <1>5, <2>3, <3>1, <3>2
  <2>5. value'[q] = value[q] /\ \A c \in ChildNumbers : value'[IndexChild(q, c)] = value[IndexChild(q, c)]
    BY <2>2, <2>4 DEF Children, ChildNumbers
  <2>6. PICK v, w : v = value /\ w = value'
    OBVIOUS
  <2>7. w[q] = Mean(ChildBlocks(w, q))
    BY <2>1, <2>5, <2>6, SameFamily
  <2>8. QED
    BY <2>6, <2>7
<1>12. mass' \in Numbers /\ Exists'
  BY <1>6, <1>8 DEF ValueInv, Exists
<1>13. QED
  BY <1>9, <1>10, <1>11, <1>12 DEF ValueInv

(* Sums of two functions that differ at one place. *)
LEMMA SumMoved ==
  ASSUME NEW S, IsFiniteSet(S), NEW f \in [S -> Int], NEW g \in [S -> Int], NEW x \in S, NEW k \in Int,
         Congruent(Modulus, g[x], f[x] + k), \A y \in S \ {x} : g[y] = f[y]
  PROVE  /\ SumFunction(f) \in Int /\ SumFunction(g) \in Int
         /\ Congruent(Modulus, SumFunction(g), SumFunction(f) + k)
<1>1. /\ SumFunction(f) \in Int /\ SumFunction(f) = f[x] + SumFunction(Part(f, S \ {x}))
  BY SumFacts
<1>2. /\ SumFunction(g) \in Int /\ SumFunction(g) = g[x] + SumFunction(Part(g, S \ {x}))
  BY SumFacts
<1>3. Part(g, S \ {x}) = Part(f, S \ {x})
  BY DEF Part
<1>4. PICK R \in Int : R = SumFunction(Part(f, S \ {x}))
  <2>1. IsFiniteSet(S \ {x}) /\ Part(f, S \ {x}) \in [S \ {x} -> Int]
    BY FS_Subset DEF Part
  <2>2. QED
    BY <2>1, SumFacts
<1>5. PICK a \in Int, b \in Int : a = f[x] /\ b = g[x]
  OBVIOUS
<1>6. PICK c \in Int : c = a + k
  OBVIOUS
<1>7. Congruent(Modulus, b, c) /\ Congruent(Modulus, R, R)
  BY <1>5, <1>6, ModulusFacts, CongruentSame
<1>8. Congruent(Modulus, b + R, c + R)
  BY <1>7, ModulusFacts, CongruentPlus
<1>9. SumFunction(g) = b + R /\ SumFunction(f) + k = c + R
  BY <1>1, <1>2, <1>3, <1>4, <1>5, <1>6
<1>10. QED
  BY <1>1, <1>2, <1>8, <1>9

\* A cell of a leaf is written: the integral goes with it, and the parents are no
\* longer restricted.
LEMMA WriteValueInv ==
  ASSUME TreeInv, CountInv, ValueInv, NEW p \in leaf, NEW x \in Cells, WriteCell(p, x)
  PROVE  ValueInv'
<1>1. /\ leaf' = leaf /\ nodes' = nodes /\ hasChildren' = hasChildren /\ ~restricted'
      /\ mass' = (mass + CellVolume(p.level)) % Modulus
      /\ value' = [value EXCEPT ![p][x] = (@ + 1) % Modulus]
  BY DEF WriteCell, vars
<1>2. Exists /\ p \in nodes
  BY TreeShape DEF Exists
<1>3. value \in [nodes -> Block] /\ Congruent(Modulus, mass, SumFunction(Weights(value, leaf)))
  BY <1>2 DEF ValueInv
<1>4. /\ IsFiniteSet(leaf) /\ leaf \subseteq nodes
      /\ Weighable(value, leaf) /\ Weights(value, leaf) \in [leaf -> Int]
      /\ SumFunction(Weights(value, leaf)) \in Int
  BY <1>3, LeavesWeighable
<1>5. PICK V \in Nat : V = CellVolume(p.level)
  BY <1>4, VolumeType DEF Weighable
<1>6. PICK u, w : u \in Block /\ u = value[p] /\ w = value'
  BY <1>2, <1>3
<1>7. PICK n \in Numbers : n = (u[x] + 1) % Modulus
  <2>1. u[x] \in Int
    BY <1>6, ModulusFacts DEF Block
  <2>2. (u[x] + 1) % Modulus \in 0..(Modulus - 1)
    BY <2>1, ModulusFacts
  <2>3. QED
    BY <2>2 DEF Numbers
<1>8. /\ w[p] = [u EXCEPT ![x] = n]
      /\ \A q \in nodes \ {p} : w[q] = value[q]
      /\ w[p] \in Block /\ w \in [nodes -> Block]
  <2>1. w[p] = [u EXCEPT ![x] = n] /\ \A q \in nodes \ {p} : w[q] = value[q]
    BY <1>1, <1>2, <1>3, <1>6, <1>7
  <2>2. w[p] \in Block
    BY <1>6, <2>1 DEF Block
  <2>3. w = [q \in nodes |-> w[q]]
    BY <1>1, <1>3, <1>6
  <2>4. \A q \in nodes : w[q] \in Block
    BY <1>3, <2>1, <2>2
  <2>5. QED
    BY <2>1, <2>2, <2>3, <2>4
<1>9. /\ SumFunction(u) \in Int /\ SumFunction(w[p]) \in Int
      /\ Congruent(Modulus, SumFunction(w[p]), SumFunction(u) + 1)
  <2>1. PICK y \in Block : y = w[p]
    BY <1>8
  <2>2. u \in [Cells -> Int] /\ y \in [Cells -> Int]
    BY <1>6, ModulusFacts DEF Block
  <2>3. Congruent(Modulus, y[x], u[x] + 1)
    <3>1. u[x] + 1 \in Int /\ y[x] = (u[x] + 1) % Modulus
      BY <1>7, <1>8, <2>1, <2>2 DEF Block
    <3>2. QED
      BY <3>1, ModulusFacts, CongruentRest
  <2>4. \A z \in Cells \ {x} : y[z] = u[z]
    BY <1>8, <2>1 DEF Block
  <2>5. QED
    BY <2>1, <2>2, <2>3, <2>4, CellsFinite, SumMoved
<1>10. Weighable(w, leaf)
  BY <1>4, <1>8 DEF Weighable
<1>11. PICK L, f, g : L = leaf /\ f = Weights(value, L) /\ g = Weights(w, L)
  OBVIOUS
<1>12. f \in [L -> Int] /\ g \in [L -> Int] /\ IsFiniteSet(L) /\ p \in L
  BY <1>4, <1>10, <1>11, WeightsType
<1>13. Congruent(Modulus, g[p], f[p] + V)
  <2>1. PICK s \in Int, t \in Int : s = SumFunction(u) /\ t = SumFunction(w[p])
    BY <1>9
  <2>2. f[p] = s * V /\ g[p] = t * V
    BY <1>5, <1>6, <1>11, <2>1 DEF Weights
  <2>3. PICK r \in Int : r = s + 1
    OBVIOUS
  <2>4. Congruent(Modulus, t, r) /\ V \in Int
    BY <1>9, <2>1, <2>3
  <2>5. Congruent(Modulus, V * t, V * r)
    BY <2>4, ModulusFacts, CongruentTimes
  <2>6. V * t = t * V /\ V * r = s * V + V
    BY <2>3
  <2>7. QED
    BY <2>2, <2>5, <2>6
<1>14. \A q \in L \ {p} : g[q] = f[q]
  BY <1>4, <1>8, <1>11 DEF Weights
<1>15. /\ SumFunction(f) \in Int /\ SumFunction(g) \in Int
       /\ Congruent(Modulus, SumFunction(g), SumFunction(f) + V)
  BY <1>12, <1>13, <1>14, SumMoved
<1>16. Congruent(Modulus, mass', SumFunction(g)) /\ mass' \in Numbers
  <2>1. PICK i \in Int, s \in Int, t \in Int, r \in Int :
           i = mass /\ s = SumFunction(f) /\ t = SumFunction(g) /\ r = s + V
    BY <1>15, ModulusFacts DEF ValueInv
  <2>2. PICK j \in Int, k \in Int : j = i + V /\ k = j % Modulus
    BY ModulusFacts
  <2>3. Congruent(Modulus, k, j) /\ k \in Numbers
    BY <2>2, ModulusFacts, CongruentRest
  <2>4. Congruent(Modulus, i, s) /\ Congruent(Modulus, V, V) /\ Congruent(Modulus, t, r)
    BY <1>3, <1>11, <1>15, <2>1, ModulusFacts, CongruentSame
  <2>5. Congruent(Modulus, i + V, s + V)
    BY <2>4, ModulusFacts, CongruentPlus
  <2>6. Congruent(Modulus, j, r)
    BY <2>1, <2>2, <2>5
  <2>7. Congruent(Modulus, r, t)
    BY <2>4, ModulusFacts, CongruentBack
  <2>8. Congruent(Modulus, k, r)
    BY <2>3, <2>6, ModulusFacts, CongruentOn
  <2>9. Congruent(Modulus, k, t)
    BY <2>7, <2>8, ModulusFacts, CongruentOn
  <2>10. mass' = k
    BY <1>1, <1>5, <2>1, <2>2
  <2>11. QED
    BY <2>1, <2>3, <2>9, <2>10
<1>17. SumFunction(g) = SumFunction(Weights(value', leaf'))
  BY <1>1, <1>6, <1>11
<1>18. ParentsAreMeans'
  BY <1>1 DEF ParentsAreMeans
<1>19. QED
  <2>1. Exists' /\ value' \in [nodes' -> Block]
    BY <1>1, <1>2, <1>6, <1>8 DEF Exists
  <2>2. Congruent(Modulus, mass', SumFunction(Weights(value', leaf')))
    BY <1>16, <1>17
  <2>3. QED
    BY <1>16, <1>18, <2>1, <2>2 DEF ValueInv

-----------------------------------------------------------------------------
(* The values under tree_restrict (). *)

(* Block g gives q: the mean of what it gives the children of a parent. *)
Averaged(g, q) ==
  IF q \in hasChildren
  THEN Mean([c \in ChildNumbers |-> g[IndexChild(q, c)]])
  ELSE value[q]

Averages(g) == g = [q \in nodes |-> Averaged(g, q)]

(* There is a solution: it is said level by level, from the deepest. *)
LEMMA AveragesExist ==
  ASSUME TreeInv, value \in [nodes -> Block]
  PROVE  \E g : Averages(g)
<1> DEFINE Deep(n) == {q \in nodes : q.level >= MaxDepth - n}
           Said(g, n) == \A q \in Deep(n) : g[q] = Averaged(g, q)
           Bad == {n \in Nat : ~ \E g : Said(g, n)}
<1>1. /\ MaxDepth \in Nat
      /\ \A q \in nodes : q.level \in Nat
      /\ \A q \in hasChildren : q.level < MaxDepth
      /\ \A q \in hasChildren : \A c \in ChildNumbers :
            IndexChild(q, c) \in nodes /\ IndexChild(q, c).level = q.level + 1
  <2>1. MaxDepth \in Nat
    BY MaxDepthAssumption
  <2>2. \A q \in nodes : q.level \in Nat
    BY NodesInside
  <2>3. \A q \in hasChildren : q.level < MaxDepth
    BY FamilyBlocks
  <2>4. ASSUME NEW q \in hasChildren, NEW c \in ChildNumbers
        PROVE  IndexChild(q, c) \in nodes /\ IndexChild(q, c).level = q.level + 1
    <3>1. IndexChild(q, c) \in nodes
      BY FamilyBlocks
    <3>2. QED
      BY <3>1 DEF IndexChild
  <2>5. QED
    BY <2>1, <2>2, <2>3, <2>4
<1>2. Said(value, 0)
  BY <1>1 DEF Averaged
<1>3. ASSUME NEW n \in Nat, NEW g, Said(g, n)
      PROVE  \E h : Said(h, n + 1)
  <2> DEFINE h == [q \in nodes |-> IF q.level >= MaxDepth - n THEN g[q] ELSE Averaged(g, q)]
  <2>1. ASSUME NEW q \in Deep(n + 1) PROVE h[q] = Averaged(h, q)
    <3>1. h[q] = Averaged(g, q)
      BY <1>3
    <3>2. ASSUME q \in hasChildren, NEW c \in ChildNumbers
          PROVE  h[IndexChild(q, c)] = g[IndexChild(q, c)]
      BY <1>1, <3>2
    <3>3. Averaged(h, q) = Averaged(g, q)
      <4>1. CASE q \in hasChildren
        <5>1. [c \in ChildNumbers |-> h[IndexChild(q, c)]] = [c \in ChildNumbers |-> g[IndexChild(q, c)]]
          BY <3>2, <4>1
        <5> HIDE DEF h
        <5>2. QED
          BY <5>1 DEF Averaged
      <4>2. CASE q \notin hasChildren
        BY <4>2 DEF Averaged
      <4>3. QED
        BY <4>1, <4>2
    <3>4. QED
      BY <3>1, <3>3
  <2>2. Said(h, n + 1)
    BY <2>1
  <2> HIDE DEF h, Said
  <2>3. QED
    BY <2>2
<1>4. Bad = {}
  <2>1. ASSUME Bad # {} PROVE FALSE
    <3>1. Bad \in SUBSET Nat
      OBVIOUS
    <3>2. PICK n \in Bad : \A k \in Bad : n =< k
      <4> HIDE DEF Bad
      <4>1. QED
        BY <2>1, <3>1, LeastNatural
    <3> HIDE DEF Said
    <3>3. n # 0
      BY <1>2
    <3>4. PICK k \in Nat : n = k + 1
      BY <3>3
    <3>5. k \notin Bad
      <4> HIDE DEF Bad
      <4>1. QED
        BY <3>2, <3>4
    <3>6. QED
      BY <1>3, <3>4, <3>5
  <2>2. QED
    BY <2>1
<1>5. PICK g : Said(g, MaxDepth)
  <2> HIDE DEF Said
  <2>1. QED
    BY <1>1, <1>4
<1>6. \A q \in nodes : g[q] = Averaged(g, q)
  BY <1>1, <1>5
<1> DEFINE h == [q \in nodes |-> g[q]]
<1>7. ASSUME NEW q \in nodes PROVE Averaged(h, q) = g[q]
  <2>1. CASE q \in hasChildren
    <3>1. [c \in ChildNumbers |-> h[IndexChild(q, c)]] = [c \in ChildNumbers |-> g[IndexChild(q, c)]]
      BY <1>1, <2>1
    <3> HIDE DEF h
    <3>2. QED
      BY <1>6, <3>1 DEF Averaged
  <2>2. CASE q \notin hasChildren
    BY <1>6, <2>2 DEF Averaged
  <2>3. QED
    BY <2>1, <2>2
<1>8. h = [q \in nodes |-> Averaged(h, q)]
  BY <1>7
<1> HIDE DEF h
<1>9. QED
  BY <1>8 DEF Averages

\* Every solution is made of blocks of numbers.
LEMMA AveragesAreBlocks ==
  ASSUME TreeInv, value \in [nodes -> Block], NEW g, Averages(g)
  PROVE  g \in [nodes -> Block]
<1> DEFINE Bad == {n \in Nat : \E q \in nodes : q.level = MaxDepth - n /\ g[q] \notin Block}
<1>1. ASSUME Bad # {} PROVE FALSE
  <2>1. Bad \in SUBSET Nat
    OBVIOUS
  <2>2. PICK n \in Bad : \A k \in Bad : n =< k
    <3> HIDE DEF Bad
    <3>1. QED
      BY <1>1, <2>1, LeastNatural
  <2>3. PICK q \in nodes : q.level = MaxDepth - n /\ g[q] \notin Block
    OBVIOUS
  <2>4. g[q] = Averaged(g, q)
    BY DEF Averages
  <2>5. CASE q \in hasChildren
    <3>1. q.level \in Nat /\ q.level < MaxDepth /\ Children(q) \subseteq nodes
      BY <2>5, FamilyBlocks
    <3>2. PICK k \in Nat : k = n - 1 /\ k < n
      BY <2>3, <3>1, MaxDepthAssumption
    <3>3. ASSUME NEW c \in ChildNumbers PROVE g[IndexChild(q, c)] \in Block
      <4>1. IndexChild(q, c) \in nodes /\ IndexChild(q, c).level = q.level + 1
        BY <3>1 DEF Children, ChildNumbers, IndexChild
      <4>2. IndexChild(q, c).level = MaxDepth - k
        BY <2>3, <3>2, <4>1, MaxDepthAssumption
      <4>3. k \notin Bad
        <5> HIDE DEF Bad
        <5>1. QED
          BY <2>1, <2>2, <3>2
      <4>4. QED
        BY <4>1, <4>2, <4>3
    <3>4. [c \in ChildNumbers |-> g[IndexChild(q, c)]] \in Blocks
      BY <3>3 DEF Blocks
    <3>5. QED
      BY <2>3, <2>4, <2>5, <3>4, MeanMeaning DEF Averaged
  <2>6. CASE q \notin hasChildren
    BY <2>3, <2>4, <2>6 DEF Averaged
  <2>7. QED
    BY <2>5, <2>6
<1>2. ASSUME NEW q \in nodes PROVE g[q] \in Block
  <2>1. PICK n \in Nat : q.level = MaxDepth - n
    <3>1. q.level =< depthmax /\ depthmax \in 1..MaxDepth /\ q.level \in Nat
      BY NodesInside DEF TreeInv, TypeOK, WholeTree, Exists
    <3>2. MaxDepth - q.level \in Nat /\ q.level = MaxDepth - (MaxDepth - q.level)
      BY <3>1, MaxDepthAssumption
    <3>3. QED
      BY <3>2
  <2>2. QED
    BY <1>1, <2>1
<1>3. g = [q \in nodes |-> g[q]]
  BY DEF Averages
<1>4. QED
  BY <1>2, <1>3

\* What tree_restrict () computes is a solution.
LEMMA RestrictAverages ==
  ASSUME TreeInv, value \in [nodes -> Block], TreeRestrict
  PROVE  Averages(value')
<1> DEFINE up == CHOOSE g : g = [q \in nodes |->
                    IF q \in hasChildren
                    THEN Mean([c \in 0..(NChildren - 1) |-> g[IndexChild(q, c)]])
                    ELSE value[q]]
<1>1. PICK g : Averages(g)
  BY AveragesExist
<1>2. g = [q \in nodes |->
                    IF q \in hasChildren
                    THEN Mean([c \in 0..(NChildren - 1) |-> g[IndexChild(q, c)]])
                    ELSE value[q]]
  BY <1>1 DEF Averages, Averaged, ChildNumbers
<1>3. up = [q \in nodes |->
                    IF q \in hasChildren
                    THEN Mean([c \in 0..(NChildren - 1) |-> up[IndexChild(q, c)]])
                    ELSE value[q]]
  BY <1>2
<1>4. value' = up
  BY DEF TreeRestrict
<1> HIDE DEF up
<1>5. QED
  BY <1>3, <1>4 DEF Averages, Averaged, ChildNumbers

\* tree_restrict (): every parent is the mean of its children, the leaves are as they were.
LEMMA RestrictValueInv ==
  ASSUME TreeInv, CountInv, ValueInv, TreeRestrict
  PROVE  ValueInv'
<1>1. /\ nodes' = nodes /\ leaf' = leaf /\ hasChildren' = hasChildren /\ mass' = mass /\ Exists
  BY DEF TreeRestrict, vars
<1>2. value \in [nodes -> Block] /\ Congruent(Modulus, mass, SumFunction(Weights(value, leaf)))
  BY <1>1 DEF ValueInv
<1>3. PICK g : g = value'
  OBVIOUS
<1>4. Averages(g)
  BY <1>2, <1>3, RestrictAverages
<1>5. g \in [nodes -> Block]
  BY <1>2, <1>4, AveragesAreBlocks
<1>6. leaf \subseteq nodes /\ leaf = nodes \ hasChildren /\ hasChildren \subseteq nodes
  BY <1>1 DEF TreeInv, TypeOK, WholeTree
<1>7. \A q \in nodes : g[q] = Averaged(g, q)
  BY <1>4 DEF Averages
<1>8. Weights(g, leaf) = Weights(value, leaf)
  <2>1. \A q \in leaf : g[q] = value[q]
    BY <1>6, <1>7 DEF Averaged
  <2>2. QED
    BY <2>1 DEF Weights
<1>9. \A q \in hasChildren : g[q] = Mean(ChildBlocks(g, q))
  BY <1>6, <1>7, ChildBlocksByChild DEF Averaged
<1>10. ParentsAreMeans'
  BY <1>1, <1>3, <1>9 DEF ParentsAreMeans
<1>11. Exists' /\ mass' \in Numbers
  BY <1>1 DEF Exists, ValueInv
<1>12. value' \in [nodes' -> Block]
  BY <1>1, <1>3, <1>5
<1>13. Congruent(Modulus, mass', SumFunction(Weights(value', leaf')))
  BY <1>1, <1>2, <1>3, <1>8
<1>14. QED
  BY <1>10, <1>11, <1>12, <1>13 DEF ValueInv

-----------------------------------------------------------------------------
(* The values and the tree together. *)

\* The tree steps as AmrTree has it, so its theorems hold here.
LEMMA ValueStepsTheTree == [ValueNext]_gridVars => [Next]_vars
<1> SUFFICES ASSUME [ValueNext]_gridVars PROVE [Next]_vars
  OBVIOUS
<1>1. CASE Create(MaxDepth)
  BY <1>1, MaxDepthAssumption DEF Next
<1>2. CASE Destroy
  BY <1>2 DEF Next
<1>3. CASE \E p \in leaf : RefineCall(p)
  BY <1>3 DEF Next
<1>4. CASE ~Idle /\ (RefineDescend \/ RefineDivide)
  BY <1>4 DEF Next, RefineStep
<1>5. CASE \E p \in hasChildren : Coarsen(p)
  BY <1>5 DEF Next
<1>6. CASE UNCHANGED vars
  BY <1>6
<1>7. QED
  BY <1>1, <1>2, <1>3, <1>4, <1>5, <1>6 DEF ValueNext, TreeRestrict, WriteCell, gridVars

LEMMA InitValueInv == ValueInit => TreeInv /\ CountInv /\ ValueInv
<1> SUFFICES ASSUME ValueInit PROVE TreeInv /\ CountInv /\ ValueInv
  OBVIOUS
<1>1. Init /\ nodes = {} /\ leaf = {} /\ hasChildren = {} /\ mass = 0
  BY DEF ValueInit, Init
<1>2. TreeInv
  BY <1>1, InitTreeInv
<1>3. CountInv
  BY <1>1, EmptyCounts DEF Init, CountInv
<1>4. ValueInv
  BY <1>1, ModulusFacts DEF ValueInv, Exists, ParentsAreMeans
<1>5. QED
  BY <1>2, <1>3, <1>4

\* One step of the scalars.
LEMMA NextValueInv ==
  TreeInv /\ TreeInv' /\ CountInv /\ ValueInv /\ [ValueNext]_gridVars => ValueInv'
<1> SUFFICES ASSUME TreeInv, TreeInv', CountInv, ValueInv, [ValueNext]_gridVars
             PROVE  ValueInv'
  OBVIOUS
<1>1. CASE Create(MaxDepth) /\ CreateValues
  BY <1>1, CreateValueInv
<1>2. CASE Destroy /\ DestroyValues
  BY <1>2, DestroyValueInv
<1>3. ASSUME NEW p \in leaf, RefineCall(p), UNCHANGED valueVars
      PROVE  ValueInv'
  BY <1>3, ValueUnchanged DEF RefineCall, valueVars
<1>4. CASE RefineDescend /\ UNCHANGED valueVars
  BY <1>4, ValueUnchanged DEF RefineDescend, valueVars
<1>5. CASE ~Idle /\ RefineDivide /\ DivideValues(Top.p)
  BY <1>5, DivideValueInv
<1>6. ASSUME NEW p \in hasChildren, Coarsen(p), CoarsenValues(p)
      PROVE  ValueInv'
  BY <1>6, CoarsenValueInv
<1>7. CASE TreeRestrict
  BY <1>7, RestrictValueInv
<1>8. ASSUME NEW p \in leaf, NEW x \in Cells, WriteCell(p, x)
      PROVE  ValueInv'
  BY <1>8, WriteValueInv
<1>9. CASE UNCHANGED gridVars
  BY <1>9, ValueUnchanged DEF gridVars, vars, valueVars
<1>10. QED
  BY <1>1, <1>2, <1>3, <1>4, <1>5, <1>6, <1>7, <1>8, <1>9 DEF ValueNext

\* The values are numbers, the integral of the leaves is the one written, and the
\* restricted parents are means.
LEMMA ValueInvHolds == ValueSpec => [](TreeInv /\ CountInv /\ ValueInv)
<1>1. TreeInv /\ CountInv /\ ValueInv /\ [ValueNext]_gridVars => (TreeInv /\ CountInv /\ ValueInv)'
  BY ValueStepsTheTree, NextTreeInv, NextCounts, NextValueInv
<1>2. QED
  BY <1>1, InitValueInv, PTL DEF ValueSpec

\* Once tree_restrict () has run every parent is the mean of its children, until
\* a leaf is written: ParentsAreMeans.
THEOREM ParentsStayMeans == ValueSpec => []ParentsAreMeans
<1>1. ValueInv => ParentsAreMeans
  BY DEF ValueInv
<1>2. QED
  BY <1>1, ValueInvHolds, PTL

\* The sum over the leaves, as IntegralKept writes it.
LEMMA InvImpliesIntegral == TreeInv /\ CountInv /\ ValueInv => IntegralKept
<1> SUFFICES ASSUME TreeInv, CountInv, ValueInv, Exists
             PROVE  mass = SumFunction([q \in leaf |-> SumFunction(value[q]) * CellVolume(q.level)]) % Modulus
  BY DEF IntegralKept
<1>1. value \in [nodes -> Block] /\ Congruent(Modulus, mass, SumFunction(Weights(value, leaf)))
  BY DEF ValueInv
<1>2. SumFunction(Weights(value, leaf)) \in Int
  BY <1>1, LeavesWeighable
<1>3. PICK s \in Int : s = SumFunction(Weights(value, leaf))
  BY <1>2
<1>4. PICK k \in Int : k = s % Modulus
  BY ModulusFacts
<1>5. Congruent(Modulus, k, s) /\ k \in 0..(Modulus - 1)
  BY <1>4, ModulusFacts, CongruentRest
<1>6. PICK i \in 0..(Modulus - 1) : i = mass
  BY ModulusFacts DEF ValueInv
<1>7. Congruent(Modulus, i, s)
  BY <1>1, <1>3, <1>6
<1>8. Congruent(Modulus, s, k)
  BY <1>5, ModulusFacts, CongruentBack
<1>9. Congruent(Modulus, i, k)
  BY <1>6, <1>7, <1>8, ModulusFacts, CongruentOn
<1>10. i = k
  BY <1>5, <1>9, ModulusFacts, CongruentSmall
<1>11. QED
  BY <1>3, <1>4, <1>6, <1>10 DEF Weights

\* tree_refine () and tree_coarsen () keep the integral of every scalar:
\* IntegralKept.
THEOREM IntegralStaysKept == ValueSpec => []IntegralKept
BY InvImpliesIntegral, ValueInvHolds, PTL

-----------------------------------------------------------------------------
(* The cell of p's own level that a scratch cell around p stands for, and    *)
(* what a division writes if all of them are stored.                         *)
OwnLevelPosition(p, x) == Reflected(Position(p, x), p.level)

OwnLevelCell(p, x) ==
  [node |-> [level |-> p.level, ijk |-> [a \in Axes |-> OwnLevelPosition(p, x)[a] \div BlockM]],
   cell |-> [a \in Axes |-> OwnLevelPosition(p, x)[a]
                              - (OwnLevelPosition(p, x)[a] \div BlockM) * BlockM]]

OwnLevel(v, p) ==
  [x \in Scratch(1) |-> v[OwnLevelCell(p, x).node][OwnLevelCell(p, x).cell]]

PredictedFrom(u, c) ==
  [x \in Cells |-> Linear(u, [a \in Axes |-> Bit(c, a) * BlockM + x[a]])]

\* It is in p or beside it.
LEMMA OwnLevelMeaning ==
  ASSUME NEW p \in Index, Inside(p), p.level =< 30, NEW G \in 1..BlockM, NEW x \in Scratch(G)
  PROVE  LET s == OwnLevelCell(p, x) IN
         /\ s.node \in Index /\ s.node.level = p.level /\ Inside(s.node)
         /\ s.node = p \/ s.node \in Neighbors(p)
         /\ s.cell \in Cells
         /\ \A a \in Axes : OwnLevelPosition(p, x)[a] = s.node.ijk[a] * BlockM + s.cell[a]
<1> DEFINE q == InDirection(p, Dir(x))
           n == 2^p.level
           X == OwnLevelPosition(p, x)
           c(a) == AxisCell(p.ijk[a], n, x[a])
<1>1. /\ q \in Index /\ q.level = p.level /\ Inside(q) /\ n \in Nat \ {0}
      /\ \A a \in Axes : /\ p.ijk[a] \in 0..(n - 1)
                         /\ q.ijk[a] = AxisBlock(p.ijk[a], n, x[a])
  BY InDirectionOf
<1>2. /\ [level |-> p.level, ijk |-> [a \in Axes |-> X[a] \div BlockM]] = q
      /\ \A a \in Axes : X[a] = q.ijk[a] * BlockM + c(a) /\ c(a) \in 0..(BlockM - 1)
  BY ReflectedInBlock DEF OwnLevelPosition
<1>3. \A a \in Axes : AxisDir(x[a]) \in -1..1
  BY DEF AxisDir
<1> HIDE DEF q, n, X, c
<1>4. \A a \in Axes : q.ijk[a] - p.ijk[a] \in -1..1
  BY <1>1, <1>3 DEF AxisBlock
<1>5. q = p \/ q \in Neighbors(p)
  BY <1>1, <1>4, NeighborMeaning
<1>6. \A a \in Axes : X[a] \div BlockM = q.ijk[a]
  <2>1. q.ijk = [a \in Axes |-> X[a] \div BlockM]
    BY <1>2
  <2>2. QED
    BY <2>1
<1>7. ASSUME NEW a \in Axes PROVE X[a] - (X[a] \div BlockM) * BlockM = c(a)
  <2>1. PICK M \in Nat, j \in Int, e \in Int : M = BlockM /\ j = q.ijk[a] /\ e = c(a)
    BY <1>1, <1>2, BlockMAssumption DEF Index
  <2>2. X[a] = j * M + e /\ X[a] \div BlockM = j
    BY <1>2, <1>6, <2>1
  <2>3. (j * M + e) - j * M = e
    OBVIOUS
  <2>4. QED
    BY <2>1, <2>2, <2>3
<1>8. OwnLevelCell(p, x) = [node |-> q, cell |-> [a \in Axes |-> c(a)]]
  BY <1>2, <1>7 DEF OwnLevelCell, X
<1>9. [a \in Axes |-> c(a)] \in Cells
  BY <1>2 DEF Cells
<1>10. QED
  BY <1>1, <1>2, <1>5, <1>8, <1>9 DEF X

\* Where there is a node, block_gather () reads that cell.
LEMMA OwnLevelGathered ==
  ASSUME TreeInv, NEW p \in nodes, NEW G \in 1..BlockM, NEW x \in Scratch(G),
         OwnLevelCell(p, x).node \in nodes
  PROVE  GatherCell(nodes, p, x) = OwnLevelCell(p, x)
<1> DEFINE X == OwnLevelPosition(p, x)
           q == [level |-> p.level, ijk |-> [a \in Axes |-> X[a] \div BlockM]]
<1>1. p \in Index /\ Inside(p) /\ p.level =< 30 /\ p.level \in Nat
  BY NodesInside
<1>2. OwnLevelCell(p, x).node = q /\ q \in nodes /\ q.level = p.level
  BY DEF OwnLevelCell
<1>3. Holder(nodes, q) = q
  BY <1>2, HolderOfNode
<1>4. GatherCell(nodes, p, x)
        = [node |-> q, cell |-> [a \in Axes |-> X[a] \div 2^(p.level - q.level) - q.ijk[a] * BlockM]]
  BY <1>3, GhostAsDocumented DEF GhostCell, OwnLevelPosition
<1>5. 2^(p.level - q.level) = 1
  <2>1. p.level - q.level = 0
    BY <1>1, <1>2
  <2>2. 2^0 = 1
    OBVIOUS
  <2>3. QED
    BY <2>1, <2>2
<1>6. \A a \in Axes : X[a] \in Int /\ X[a] \div 1 = X[a]
  <2> TAKE a \in Axes
  <2>1. PICK s : s = OwnLevelCell(p, x)
    OBVIOUS
  <2>2. s.node \in Index /\ s.cell \in Cells /\ X[a] = s.node.ijk[a] * BlockM + s.cell[a]
    BY <1>1, <2>1, OwnLevelMeaning
  <2>3. s.node.ijk[a] \in Int /\ s.cell[a] \in Int /\ BlockM \in Int
    BY <2>2, BlockMAssumption DEF Index, Cells
  <2>4. PICK i \in Int, j \in Int, M \in Int : i = s.node.ijk[a] /\ j = s.cell[a] /\ M = BlockM
    BY <2>3
  <2>5. i * M + j \in Int
    OBVIOUS
  <2> HIDE DEF X
  <2>6. X[a] \in Int
    BY <2>2, <2>4, <2>5
  <2>7. \A k \in Int : k \div 1 = k
    OBVIOUS
  <2>8. QED
    BY <2>6, <2>7
<1>7. \A a \in Axes : q.ijk[a] = X[a] \div BlockM
  OBVIOUS
<1>8. OwnLevelCell(p, x) = [node |-> q, cell |-> [a \in Axes |-> X[a] - (X[a] \div BlockM) * BlockM]]
  BY DEF OwnLevelCell
<1> HIDE DEF X, q
<1>9. QED
  BY <1>4, <1>5, <1>6, <1>7, <1>8

\* Around a node with children all of them are stored.
LEMMA OwnLevelStored ==
  TreeInv => \A p \in hasChildren : /\ p \in Index /\ Inside(p) /\ p.level < 30
                                    /\ \A x \in Scratch(1) : /\ OwnLevelCell(p, x).node \in nodes
                                                             /\ OwnLevelCell(p, x).cell \in Cells
<1> SUFFICES ASSUME TreeInv, NEW p \in hasChildren
             PROVE  /\ p \in Index /\ Inside(p) /\ p.level < 30
                    /\ \A x \in Scratch(1) : /\ OwnLevelCell(p, x).node \in nodes
                                             /\ OwnLevelCell(p, x).cell \in Cells
  OBVIOUS
<1>1. p \in nodes /\ Children(p) \subseteq nodes /\ Exists
  BY DEF TreeInv, TypeOK, WholeTree, Exists
<1>2. p \in Index /\ Inside(p) /\ p.level =< 30 /\ p.level \in Nat
  BY <1>1, NodesInside
<1>3. p.level < 30
  <2>1. 0 \in ChildNumbers
    BY ChildNumbersFinite DEF ChildNumbers, Halvings
  <2>2. PICK q : q = IndexChild(p, 0)
    OBVIOUS
  <2>3. q \in Children(p) /\ q.level = p.level + 1
    BY <2>1, <2>2 DEF Children, ChildNumbers, IndexChild
  <2>4. q \in nodes /\ q.level =< 30
    BY <1>1, <2>3, NodesInside
  <2>5. QED
    BY <1>2, <2>3, <2>4
<1>4. ASSUME NEW x \in Scratch(1)
      PROVE  OwnLevelCell(p, x).node \in nodes /\ OwnLevelCell(p, x).cell \in Cells
  <2>1. 1 \in 1..BlockM
    BY BlockMAssumption
  <2>2. PICK s : s = OwnLevelCell(p, x)
    OBVIOUS
  <2>3. s.node = p \/ (s.node \in Neighbors(p) /\ Inside(s.node))
    BY <1>2, <2>1, <2>2, OwnLevelMeaning
  <2>4. s.cell \in Cells
    BY <1>2, <2>1, <2>2, OwnLevelMeaning
  <2>5. s.node \in nodes
    BY <1>1, <2>3 DEF TreeInv, ParentsSurrounded
  <2>6. QED
    BY <2>2, <2>4, <2>5
<1>5. QED
  BY <1>2, <1>3, <1>4

-----------------------------------------------------------------------------
(* Where the cells of the wavelet are read from. *)

\* Where there is none but a parent, the parent holds the index.
LEMMA HolderOfParent ==
  ASSUME TreeInv, NEW q \in Index, q \notin nodes, q.level > 0, q.level =< 30, Inside(q),
         Parent(q) \in nodes
  PROVE  Holder(nodes, q) = Parent(q)
<1> DEFINE b == Holder(nodes, q)
           r == Parent(q)
<1>1. nodes # {} /\ nodes \subseteq Index /\ q.level \in Nat
  BY NodesInside DEF Index
<1>2. b \in nodes /\ Covers(b, q) /\ \A a \in nodes : Covers(a, q) => a.level =< b.level
  BY <1>1, HolderFound
<1>3. r \in Index /\ r.level = q.level - 1
  BY ParentIndex
<1>4. Covers(r, q)
  <2>1. Covers(q, q)
    BY CoversItself
  <2>2. QED
    BY <2>1, CoversFromParent
<1>5. r.level =< b.level /\ b.level =< q.level /\ b.level \in Nat /\ b \in Index
  BY <1>1, <1>2, <1>4 DEF Covers, Index
<1> HIDE DEF b, r
<1>6. PICK e \in 0..30 : e = q.level - b.level /\ b = Ancestor(q, e)
  BY <1>2, <1>5, CoveringIsAncestor
<1>7. e # 0
  <2>1. e = 0 => b = q
    BY <1>6, OwnAncestor
  <2>2. QED
    BY <1>2, <2>1
<1>8. e = 1
  BY <1>1, <1>3, <1>5, <1>6, <1>7
<1>9. Ancestor(q, 1) = r
  <2>1. Ancestor(q, 1).level = q.level - 1 /\ Ancestor(q, 1) \in Index
        /\ \A a \in Axes : Ancestor(q, 1).ijk[a] = q.ijk[a] \div 2^1
    BY <1>1, AncestorIndex
  <2>2. \A a \in Axes : r.ijk[a] = q.ijk[a] \div 2
    BY ParentIndex DEF r
  <2>3. 2^1 = 2
    OBVIOUS
  <2>4. QED
    BY <1>3, <2>1, <2>2, <2>3, IndexEquality
<1>10. QED
  BY <1>6, <1>8, <1>9 DEF b, r

\* And block_gather () reads the cell of the parent around it.
LEMMA GatheredFromParent ==
  ASSUME TreeInv, NEW p \in nodes, NEW G \in 1..BlockM, NEW x \in Scratch(G),
         NEW r, r = OwnLevelCell(p, x).node, r \notin nodes, r.level > 0, Parent(r) \in nodes
  PROVE  GatherCell(nodes, p, x)
           = [node |-> Parent(r),
              cell |-> [a \in Axes |-> OwnLevelPosition(p, x)[a] \div 2 - Parent(r).ijk[a] * BlockM]]
<1> DEFINE X == OwnLevelPosition(p, x)
           q == [level |-> p.level, ijk |-> [a \in Axes |-> X[a] \div BlockM]]
<1>1. p \in Index /\ Inside(p) /\ p.level =< 30 /\ p.level \in Nat
  BY NodesInside
<1>2. r = q /\ r.level = p.level
  BY DEF OwnLevelCell
<1>3. r \in Index /\ Inside(r)
  BY <1>1, OwnLevelMeaning
<1>4. Holder(nodes, r) = Parent(r) /\ Parent(r).level = r.level - 1
  BY <1>1, <1>2, <1>3, HolderOfParent, ParentIndex
<1>5. GatherCell(nodes, p, x)
        = [node |-> Parent(r),
           cell |-> [a \in Axes |-> X[a] \div 2^(p.level - Parent(r).level) - Parent(r).ijk[a] * BlockM]]
  BY <1>2, <1>4, GhostAsDocumented DEF GhostCell, OwnLevelPosition
<1>6. 2^(p.level - Parent(r).level) = 2
  <2>1. p.level - Parent(r).level = 1
    BY <1>1, <1>2, <1>4
  <2>2. 2^1 = 2
    OBVIOUS
  <2>3. QED
    BY <2>1, <2>2
<1>7. QED
  BY <1>5, <1>6

\* Along one axis: a cell twice as fine, reflected.
LEMMA AxisFiner ==
  ASSUME NEW A \in Int, NEW N \in Nat, NEW b \in 0..1
  PROVE  AxisReflected(2 * A + b, 2 * N)
           = 2 * AxisReflected(A, N) + (IF A < 0 \/ A >= N THEN 1 - b ELSE b)
<1>1. CASE A < 0
  <2>1. 2 * A + b < 0
    BY <1>1
  <2>2. AxisReflected(2 * A + b, 2 * N) = -1 - (2 * A + b) /\ AxisReflected(A, N) = -1 - A
    BY <1>1, <2>1 DEF AxisReflected
  <2>3. QED
    BY <1>1, <2>2
<1>2. CASE A >= N
  <2>1. ~(2 * A + b < 0) /\ 2 * A + b >= 2 * N /\ ~(A < 0)
    BY <1>2
  <2>2. AxisReflected(2 * A + b, 2 * N) = 2 * (2 * N) - 1 - (2 * A + b)
        /\ AxisReflected(A, N) = 2 * N - 1 - A
    BY <1>2, <2>1 DEF AxisReflected
  <2>3. QED
    BY <1>2, <2>2
<1>3. CASE A >= 0 /\ A < N
  <2>1. ~(2 * A + b < 0) /\ ~(2 * A + b >= 2 * N)
    BY <1>3
  <2>2. AxisReflected(2 * A + b, 2 * N) = 2 * A + b /\ AxisReflected(A, N) = A
    BY <1>3, <2>1 DEF AxisReflected
  <2>3. QED
    BY <1>3, <2>2
<1>4. QED
  BY <1>1, <1>2, <1>3

\* The child numbers with some bits turned.
LEMMA BitsTurned ==
  ASSUME NEW m \in [Axes -> BOOLEAN]
  PROVE  \E g \in [ChildNumbers -> ChildNumbers] :
           /\ \A k \in ChildNumbers : \A a \in Axes :
                Bit(g[k], a) = IF m[a] THEN 1 - Bit(k, a) ELSE Bit(k, a)
           /\ OneToOne(g, ChildNumbers) /\ Images(g, ChildNumbers) = ChildNumbers
<1> DEFINE T(k, c) == \A a \in Axes : Bit(c, a) = IF m[a] THEN 1 - Bit(k, a) ELSE Bit(k, a)
           g == [k \in ChildNumbers |-> CHOOSE c \in ChildNumbers : T(k, c)]
<1>1. ASSUME NEW k \in ChildNumbers PROVE \E c \in ChildNumbers : T(k, c)
  <2> DEFINE b == [a \in Axes |-> IF m[a] THEN 1 - Bit(k, a) ELSE Bit(k, a)]
  <2>1. b \in [Axes -> 0..1]
    BY BitValue
  <2>2. \A a \in Axes : b[a] = IF m[a] THEN 1 - Bit(k, a) ELSE Bit(k, a)
    OBVIOUS
  <2> HIDE DEF b
  <2>3. QED
    BY <2>1, <2>2, ChildOfBits
<1>2. \A k \in ChildNumbers : g[k] \in ChildNumbers /\ T(k, g[k])
  <2> TAKE k \in ChildNumbers
  <2>1. PICK c : c = g[k]
    OBVIOUS
  <2>2. c = CHOOSE d \in ChildNumbers : T(k, d)
    BY <2>1
  <2> HIDE DEF T, g
  <2>3. c \in ChildNumbers /\ T(k, c)
    BY <1>1, <2>2
  <2>4. QED
    BY <2>1, <2>3
<1>3. g = [k \in ChildNumbers |-> g[k]]
  OBVIOUS
<1> HIDE DEF g
<1>4. g \in [ChildNumbers -> ChildNumbers]
  BY <1>2, <1>3
<1>5. \A k, j \in ChildNumbers : \A a \in Axes :
        (IF m[a] THEN 1 - Bit(k, a) ELSE Bit(k, a)) = (IF m[a] THEN 1 - Bit(j, a) ELSE Bit(j, a))
          => Bit(k, a) = Bit(j, a)
  BY BitValue
<1>6. ASSUME NEW k \in ChildNumbers, NEW j \in ChildNumbers, g[k] = g[j] PROVE k = j
  <2>1. \A a \in Axes : Bit(k, a) = Bit(j, a)
    BY <1>2, <1>5, <1>6
  <2>2. QED
    BY <2>1, BitsTellChild
<1>7. ASSUME NEW k \in ChildNumbers PROVE \E j \in ChildNumbers : g[j] = k
  <2>1. g[k] \in ChildNumbers /\ g[g[k]] \in ChildNumbers /\ T(k, g[k]) /\ T(g[k], g[g[k]])
    BY <1>2
  <2>2. \A a \in Axes : Bit(g[g[k]], a) = Bit(k, a)
    <3> TAKE a \in Axes
    <3>1. Bit(k, a) \in 0..1
      BY BitValue
    <3>2. QED
      BY <2>1, <3>1
  <2>3. g[g[k]] = k
    BY <2>1, <2>2, BitsTellChild
  <2>4. QED
    BY <2>1, <2>3
<1>8. OneToOne(g, ChildNumbers)
  BY <1>6 DEF OneToOne
<1>9. Images(g, ChildNumbers) = ChildNumbers
  BY <1>2, <1>7 DEF Images
<1>10. QED
  BY <1>2, <1>4, <1>8, <1>9

(* block_wavelet () averages the fine cells over each cell C of half the     *)
(* scratch block around a child; which one around the parent that is.        *)
CoarseCells == [Axes -> -1..(BlockM \div 2)]
CoarseAround(c, C) == [a \in Axes |-> Bit(c, a) * (BlockM \div 2) + C[a]]
FineAround(C, k) == [a \in Axes |-> 2 * C[a] + Bit(k, a)]

\* It is one of the scratch cells around the parent.
LEMMA CoarseAroundType ==
  ASSUME NEW c \in ChildNumbers, NEW C \in CoarseCells
  PROVE  /\ CoarseAround(c, C) \in Scratch(1)
         /\ \A k \in ChildNumbers : FineAround(C, k) \in Scratch(2)
<1>1. PICK h \in Nat \ {0} : BlockM \div 2 = h /\ BlockM = 2 * h
  BY HalfBlock
<1>2. \A a \in Axes : C[a] \in -1..h
  BY <1>1 DEF CoarseCells
<1>3. ASSUME NEW a \in Axes PROVE Bit(c, a) * h + C[a] \in -1..(BlockM + 1 - 1)
  <2>1. CASE Bit(c, a) = 0
    BY <1>1, <1>2, <2>1
  <2>2. CASE Bit(c, a) = 1
    BY <1>1, <1>2, <2>2
  <2>3. QED
    BY <2>1, <2>2, BitValue
<1>4. CoarseAround(c, C) \in Scratch(1)
  BY <1>1, <1>3 DEF CoarseAround, Scratch
<1>5. ASSUME NEW k \in ChildNumbers PROVE FineAround(C, k) \in Scratch(2)
  <2>1. ASSUME NEW a \in Axes PROVE 2 * C[a] + Bit(k, a) \in -2..(BlockM + 2 - 1)
    <3>1. Bit(k, a) \in 0..1
      BY BitValue
    <3>2. QED
      BY <1>1, <1>2, <3>1
  <2>2. QED
    BY <2>1 DEF FineAround, Scratch
<1>6. QED
  BY <1>4, <1>5

\* Along one axis: the position of a fine cell is that of the coarse one, twice.
LEMMA AxisFineAround ==
  ASSUME NEW h \in Nat \ {0}, NEW i \in Int, NEW n \in 0..1, NEW C \in Int, NEW b \in Int
  PROVE  (2 * i + n) * (2 * h) + (2 * C + b) = 2 * (i * (2 * h) + (n * h + C)) + b
<1>1. CASE n = 0
  <2>1. (2 * i + n) * (2 * h) = 2 * (i * (2 * h)) /\ n * h = 0
    BY <1>1
  <2>2. PICK j \in Int : j = i * (2 * h)
    OBVIOUS
  <2>3. QED
    BY <2>1, <2>2
<1>2. CASE n = 1
  <2>1. (2 * i + n) * (2 * h) = 2 * (i * (2 * h)) + 2 * h /\ n * h = h
    BY <1>2
  <2>2. PICK j \in Int : j = i * (2 * h)
    OBVIOUS
  <2>3. QED
    BY <2>1, <2>2
<1>3. QED
  BY <1>1, <1>2

\* Along one axis: the fine cells over cell z of block i are in the child that
\* holds it.
LEMMA AxisFineOver ==
  ASSUME NEW h \in Nat \ {0}, NEW i \in Int, NEW z \in 0..(2 * h - 1), NEW n \in 0..1,
         NEW f \in Int, NEW b \in Int, n * (2 * h) + f = 2 * z + b
  PROVE  2 * (i * (2 * h) + z) + b = (2 * i + n) * (2 * h) + f
<1>1. CASE n = 0
  <2>1. (2 * i + n) * (2 * h) = 2 * (i * (2 * h)) /\ n * (2 * h) = 0
    BY <1>1
  <2>2. PICK j \in Int : j = i * (2 * h)
    OBVIOUS
  <2>3. QED
    BY <2>1, <2>2
<1>2. CASE n = 1
  <2>1. (2 * i + n) * (2 * h) = 2 * (i * (2 * h)) + 2 * h /\ n * (2 * h) = 2 * h
    BY <1>2
  <2>2. PICK j \in Int : j = i * (2 * h)
    OBVIOUS
  <2>3. QED
    BY <2>1, <2>2
<1>3. QED
  BY <1>1, <1>2

FineOrder(g, q, C, s) ==
  /\ g \in [ChildNumbers -> ChildNumbers]
  /\ OneToOne(g, ChildNumbers) /\ Images(g, ChildNumbers) = ChildNumbers
  /\ \A k \in ChildNumbers :
       /\ OwnLevelCell(q, FineAround(C, k))
            = [node |-> IndexChild(s.node, HolderOf(s.cell)), cell |-> FineOf(s.cell, g[k])]
       /\ \A a \in Axes : OwnLevelPosition(q, FineAround(C, k))[a]
                            = 2 * (s.node.ijk[a] * BlockM + s.cell[a]) + Bit(g[k], a)

\* The fine cells are, at their own level, those over the coarse cell, in
\* another order where they are reflected.
LEMMA FineAroundMeaning ==
  ASSUME NEW p \in Index, Inside(p), p.level < 30, NEW c \in ChildNumbers, NEW C \in CoarseCells,
         NEW q, q = IndexChild(p, c), NEW s, s = OwnLevelCell(p, CoarseAround(c, C))
  PROVE  \E g : FineOrder(g, q, C, s)
<1>1. PICK h \in Nat \ {0} : BlockM \div 2 = h /\ BlockM = 2 * h
  BY HalfBlock
<1>2. PICK x \in Scratch(1) : x = CoarseAround(c, C)
  BY CoarseAroundType
<1>3. \A a \in Axes : /\ x[a] = Bit(c, a) * h + C[a] /\ Bit(c, a) \in 0..1
                      /\ C[a] \in Int /\ p.ijk[a] \in Int
  BY <1>1, <1>2, BitValue DEF CoarseAround, CoarseCells, Index
<1>4. /\ s.node \in Index /\ s.cell \in Cells
      /\ \A a \in Axes : OwnLevelPosition(p, x)[a] = s.node.ijk[a] * BlockM + s.cell[a]
  <2>1. 1 \in 1..BlockM
    BY <1>1
  <2>2. p.level =< 30
    BY DEF Index
  <2>3. PICK t : t = OwnLevelCell(p, x)
    OBVIOUS
  <2>4. /\ t.node \in Index /\ t.cell \in Cells
        /\ \A a \in Axes : OwnLevelPosition(p, x)[a] = t.node.ijk[a] * BlockM + t.cell[a]
    BY <2>1, <2>2, <2>3, OwnLevelMeaning
  <2>5. QED
    BY <1>2, <2>3, <2>4
<1>5. PICK n \in Nat : n = BlockM * 2^p.level /\ BlockM * 2^(p.level + 1) = 2 * n
  <2>1. p.level \in 0..29
    BY DEF Index
  <2>2. PICK t \in Nat : t = 2^p.level /\ 2^(p.level + 1) = 2 * t
    BY <2>1, PowerStep
  <2>3. BlockM * t \in Nat /\ BlockM * (2 * t) = 2 * (BlockM * t)
    BY <1>1
  <2>4. QED
    BY <2>2, <2>3
<1>6. q.level = p.level + 1 /\ \A a \in Axes : q.ijk[a] = 2 * p.ijk[a] + Bit(c, a)
  BY DEF IndexChild, Bit
<1>7. PICK A \in [Axes -> Int] : \A a \in Axes : A[a] = p.ijk[a] * BlockM + x[a]
  <2>1. \A a \in Axes : p.ijk[a] * BlockM + x[a] \in Int
    <3> TAKE a \in Axes
    <3>1. PICK i \in Int, j \in Int : i = p.ijk[a] /\ j = x[a]
      BY <1>1, <1>3 DEF Scratch
    <3>2. i * BlockM + j \in Int
      BY <1>1
    <3>3. QED
      BY <3>1, <3>2
  <2>2. [a \in Axes |-> p.ijk[a] * BlockM + x[a]] \in [Axes -> Int]
    BY <2>1
  <2>3. QED
    BY <2>2
<1>8. \A a \in Axes : OwnLevelPosition(p, x)[a] = AxisReflected(A[a], n)
  BY <1>5, <1>7 DEF OwnLevelPosition, Reflected, Position, AxisReflected
<1>9. PICK m \in [Axes -> BOOLEAN] : \A a \in Axes : m[a] <=> (A[a] < 0 \/ A[a] >= n)
  <2>1. [a \in Axes |-> A[a] < 0 \/ A[a] >= n] \in [Axes -> BOOLEAN]
    OBVIOUS
  <2>2. QED
    BY <2>1
<1>10. PICK g \in [ChildNumbers -> ChildNumbers] :
         /\ \A k \in ChildNumbers : \A a \in Axes :
              Bit(g[k], a) = IF m[a] THEN 1 - Bit(k, a) ELSE Bit(k, a)
         /\ OneToOne(g, ChildNumbers) /\ Images(g, ChildNumbers) = ChildNumbers
  BY BitsTurned
<1>11. ASSUME NEW k \in ChildNumbers, NEW a \in Axes
       PROVE  OwnLevelPosition(q, FineAround(C, k))[a]
                = 2 * (s.node.ijk[a] * BlockM + s.cell[a]) + Bit(g[k], a)
  <2>1. PICK b \in 0..1 : b = Bit(k, a)
    BY BitValue
  <2>2. q.ijk[a] * BlockM + FineAround(C, k)[a] = 2 * A[a] + b
    <3>1. PICK i \in Int, d \in 0..1, e \in Int : i = p.ijk[a] /\ d = Bit(c, a) /\ e = C[a]
      BY <1>3
    <3>2. (2 * i + d) * (2 * h) + (2 * e + b) = 2 * (i * (2 * h) + (d * h + e)) + b
      BY AxisFineAround
    <3>3. q.ijk[a] = 2 * i + d /\ FineAround(C, k)[a] = 2 * e + b
          /\ A[a] = i * (2 * h) + (d * h + e)
      BY <1>1, <1>3, <1>6, <1>7, <2>1, <3>1 DEF FineAround
    <3>4. QED
      BY <1>1, <3>2, <3>3
  <2>3. OwnLevelPosition(q, FineAround(C, k))[a] = AxisReflected(2 * A[a] + b, 2 * n)
    BY <1>5, <1>6, <2>2 DEF OwnLevelPosition, Reflected, Position, AxisReflected
  <2>4. PICK w \in Int : w = A[a]
    BY <1>7
  <2>5. AxisReflected(2 * w + b, 2 * n)
          = 2 * AxisReflected(w, n) + (IF w < 0 \/ w >= n THEN 1 - b ELSE b)
    BY AxisFiner
  <2>6. Bit(g[k], a) = IF w < 0 \/ w >= n THEN 1 - b ELSE b
    BY <1>9, <1>10, <2>1, <2>4
  <2>7. QED
    BY <1>4, <1>8, <2>3, <2>4, <2>5, <2>6
<1>12. ASSUME NEW k \in ChildNumbers
       PROVE  OwnLevelCell(q, FineAround(C, k))
                = [node |-> IndexChild(s.node, HolderOf(s.cell)), cell |-> FineOf(s.cell, g[k])]
  <2>1. PICK X : X = OwnLevelPosition(q, FineAround(C, k))
    OBVIOUS
  <2>2. PICK j \in ChildNumbers, F \in Cells, H \in ChildNumbers :
          j = g[k] /\ F = FineOf(s.cell, j) /\ H = HolderOf(s.cell)
    BY <1>4, FineMeaning, HolderMeaning
  <2>3. \A a \in Axes : Bit(H, a) * BlockM + F[a] = 2 * s.cell[a] + Bit(j, a)
    BY <1>4, <2>2, FineMeaning
  <2>4. PICK r : r = IndexChild(s.node, H)
    OBVIOUS
  <2>5. r.level = s.node.level + 1 /\ r = [level |-> r.level, ijk |-> r.ijk]
        /\ r.ijk = [a \in Axes |-> r.ijk[a]]
        /\ \A a \in Axes : r.ijk[a] = 2 * s.node.ijk[a] + Bit(H, a)
    BY <2>4 DEF IndexChild, Bit
  <2>6. ASSUME NEW a \in Axes
        PROVE  r.ijk[a] \in Int /\ X[a] = r.ijk[a] * BlockM + F[a] /\ F[a] \in 0..(BlockM - 1)
    <3>1. PICK i \in Int, z \in 0..(2 * h - 1), d \in 0..1, f \in Int, b \in Int :
            i = s.node.ijk[a] /\ z = s.cell[a] /\ d = Bit(H, a) /\ f = F[a] /\ b = Bit(j, a)
      <4>1. s.node.ijk[a] \in Int /\ s.cell[a] \in 0..(2 * h - 1)
        BY <1>1, <1>4 DEF Index, Cells
      <4>2. Bit(H, a) \in 0..1 /\ Bit(j, a) \in 0..1 /\ F[a] \in Int
        BY <1>1, BitValue DEF Cells
      <4>3. QED
        BY <4>1, <4>2
    <3>2. d * (2 * h) + f = 2 * z + b
      BY <1>1, <2>3, <3>1
    <3>3. 2 * (i * (2 * h) + z) + b = (2 * i + d) * (2 * h) + f
      BY <3>2, AxisFineOver
    <3>4. X[a] = 2 * (i * (2 * h) + z) + b
      BY <1>1, <1>11, <2>1, <2>2, <3>1
    <3>5. r.ijk[a] = 2 * i + d
      BY <2>5, <3>1
    <3>6. F[a] \in 0..(BlockM - 1)
      BY DEF Cells
    <3>7. QED
      BY <1>1, <3>1, <3>3, <3>4, <3>5, <3>6
  <2>7. \A a \in Axes : X[a] \div BlockM = r.ijk[a]
    <3> TAKE a \in Axes
    <3>1. PICK i \in Int, f \in 0..(BlockM - 1) : i = r.ijk[a] /\ f = F[a]
      BY <2>6
    <3>2. (i * BlockM + f) \div BlockM = i
      BY AxisCellOfBlock
    <3>3. QED
      BY <2>6, <3>1, <3>2
  <2>8. \A a \in Axes : X[a] - (X[a] \div BlockM) * BlockM = F[a]
    <3> TAKE a \in Axes
    <3>1. PICK i \in Int, f \in Int, M \in Int : i = r.ijk[a] /\ f = F[a] /\ M = BlockM
      BY <1>1, <2>6
    <3>2. (i * M + f) - i * M = f
      OBVIOUS
    <3>3. QED
      BY <2>6, <2>7, <3>1, <3>2
  <2>9. OwnLevelCell(q, FineAround(C, k))
          = [node |-> [level |-> q.level, ijk |-> [a \in Axes |-> X[a] \div BlockM]],
             cell |-> [a \in Axes |-> X[a] - (X[a] \div BlockM) * BlockM]]
    BY <2>1 DEF OwnLevelCell
  <2>10. [a \in Axes |-> X[a] \div BlockM] = r.ijk
    BY <2>5, <2>7
  <2>11. [a \in Axes |-> X[a] - (X[a] \div BlockM) * BlockM] = F
    BY <2>8 DEF Cells
  <2>12. q.level = r.level
    BY <1>6, <1>2, <2>5 DEF OwnLevelCell
  <2>13. QED
    BY <2>2, <2>4, <2>5, <2>9, <2>10, <2>11, <2>12
<1>13. QED
  BY <1>10, <1>11, <1>12 DEF FineOrder

-----------------------------------------------------------------------------
(* The averages of the wavelet. *)

\* A sum of NChildren equal numbers, over NChildren.
LEMMA AverageOfSame ==
  ASSUME NEW v \in Numbers, NEW f \in [ChildNumbers -> Int], \A k \in ChildNumbers : f[k] = v
  PROVE  Over(SumFunction(f), NChildren) = v
<1>1. v \in Int /\ Modulus \in Nat
  BY ModulusFacts
<1>2. \A k \in ChildNumbers : Congruent(Modulus, f[k], v + 0 * f[k])
  BY <1>1, CongruentSame
<1>3. SumFunction(f) \in Int
  BY ChildNumbersFinite, SumFacts
<1>4. PICK t \in Int, n \in Int : t = SumFunction(f) /\ n = NChildren
  BY <1>3, ChildNumbersFinite
<1>5. Congruent(Modulus, t, n * v + 0 * t)
  <2>1. 0 \in Int
    OBVIOUS
  <2>2. Congruent(Modulus, SumFunction(f), Cardinality(ChildNumbers) * v + 0 * SumFunction(f))
    BY <1>1, <1>2, <2>1, ChildNumbersFinite, SumAffine
  <2>3. QED
    BY <1>4, <2>2, ChildNumbersFinite
<1>6. Congruent(Modulus, t, n * v) /\ n * v \in Int
  <2>1. n * v + 0 * t = n * v /\ n * v \in Int
    BY <1>1
  <2>2. QED
    BY <1>5, <2>1
<1>7. n \in Halvings
  BY <1>4, ChildNumbersFinite
<1>8. PICK m \in Numbers : m = Over(t, n) /\ Congruent(Modulus, n * m, t)
  BY <1>7, OverTimes
<1>9. Congruent(Modulus, n * m, n * v)
  <2>1. n * m \in Int
    BY ModulusFacts
  <2>2. QED
    BY <1>1, <1>6, <1>8, <2>1, CongruentOn
<1>10. m = v
  BY <1>7, <1>9, OverUnique
<1>11. QED
  BY <1>4, <1>8, <1>10

\* What block_wavelet () averages from around a child is what is stored around
\* its parent, once the parents are means: the fine cells are a family, or the
\* coarse cell is the leaf's that they are read from.
LEMMA AverageOfFine ==
  ASSUME TreeInv, value \in [nodes -> Block], ParentsAreMeans, restricted,
         NEW p \in hasChildren, NEW c \in ChildNumbers, NEW C \in CoarseCells,
         NEW q, q = IndexChild(p, c)
  PROVE  Over(SumFunction([k \in ChildNumbers |-> Gathered(q, 2)[FineAround(C, k)]]), NChildren)
           = OwnLevel(value, p)[CoarseAround(c, C)]
<1> DEFINE f == [k \in ChildNumbers |-> Gathered(q, 2)[FineAround(C, k)]]
<1>1. p \in Index /\ Inside(p) /\ p.level < 30
  BY OwnLevelStored
<1>2. CoarseAround(c, C) \in Scratch(1) /\ \A k \in ChildNumbers : FineAround(C, k) \in Scratch(2)
  BY CoarseAroundType
<1>3. PICK s : s = OwnLevelCell(p, CoarseAround(c, C))
  OBVIOUS
<1>4. s.node \in nodes /\ s.cell \in Cells
  BY <1>2, <1>3, OwnLevelStored
<1>5. PICK v \in Numbers : v = value[s.node][s.cell]
  BY <1>4 DEF Block
<1>6. OwnLevel(value, p)[CoarseAround(c, C)] = v
  BY <1>2, <1>3, <1>5 DEF OwnLevel
<1>7. PICK g \in [ChildNumbers -> ChildNumbers] :
        /\ OneToOne(g, ChildNumbers) /\ Images(g, ChildNumbers) = ChildNumbers
        /\ \A k \in ChildNumbers :
             /\ OwnLevelCell(q, FineAround(C, k))
                  = [node |-> IndexChild(s.node, HolderOf(s.cell)), cell |-> FineOf(s.cell, g[k])]
             /\ \A a \in Axes : OwnLevelPosition(q, FineAround(C, k))[a]
                                  = 2 * (s.node.ijk[a] * BlockM + s.cell[a]) + Bit(g[k], a)
  <2>1. \E g : FineOrder(g, q, C, s)
    BY <1>1, <1>3, FineAroundMeaning
  <2>2. QED
    BY <2>1 DEF FineOrder
<1>8. PICK H \in ChildNumbers : H = HolderOf(s.cell)
  BY <1>4, HolderMeaning
<1>9. PICK r : r = IndexChild(s.node, H)
  OBVIOUS
<1>10. q \in nodes /\ 2 \in 1..BlockM
  <2>1. q \in Children(p) /\ Children(p) \subseteq nodes
    BY FamilyBlocks DEF Children, ChildNumbers
  <2>2. 2 \in 1..BlockM
    BY BlockMAssumption
  <2>3. QED
    BY <2>1, <2>2
<1>11. \A k \in ChildNumbers :
         f[k] = value[GatherCell(nodes, q, FineAround(C, k)).node][GatherCell(nodes, q, FineAround(C, k)).cell]
  BY <1>2 DEF Gathered
<1>12. s.node \in Index /\ r \in Children(s.node)
  <2>1. s.node \in Index
    BY <1>4, NodesInside
  <2>2. r \in Children(s.node)
    BY <1>9 DEF Children, ChildNumbers
  <2>3. QED
    BY <2>1, <2>2
<1>13. r \in Index /\ r.level = s.node.level + 1 /\ Parent(r) = s.node /\ r.level > 0
  <2>1. r \in Index /\ r.level = s.node.level + 1 /\ Parent(r) = s.node
    BY <1>12, ChildOfParent
  <2>2. s.node.level \in Nat
    BY <1>12 DEF Index
  <2>3. QED
    BY <2>1, <2>2
<1>14. f = [k \in ChildNumbers |-> f[k]]
  OBVIOUS
<1> HIDE DEF f
<1>15. CASE r \in nodes
  <2>1. s.node \in hasChildren
    BY <1>13, <1>15 DEF TreeInv, WholeTree, Exists
  <2>2. PICK b \in Blocks : b = ChildBlocks(value, s.node) /\ b[H] = value[r]
    BY <1>9, <2>1, FamilyBlocks
  <2>3. value[s.node] = Mean(b)
    BY <2>1, <2>2 DEF ParentsAreMeans
  <2> DEFINE e == [k \in ChildNumbers |-> b[H][FineOf(s.cell, k)]]
  <2>4. e \in [ChildNumbers -> Int] /\ SumFunction(e) = FineSum(b, s.cell)
    BY <1>4, <1>8, FineSumMeaning DEF FineSum
  <2>5. \A k \in ChildNumbers : f[k] = e[g[k]]
    <3> TAKE k \in ChildNumbers
    <3>1. GatherCell(nodes, q, FineAround(C, k)) = OwnLevelCell(q, FineAround(C, k))
      BY <1>2, <1>7, <1>8, <1>9, <1>10, <1>15, OwnLevelGathered
    <3>2. GatherCell(nodes, q, FineAround(C, k)) = [node |-> r, cell |-> FineOf(s.cell, g[k])]
      BY <1>7, <1>8, <1>9, <3>1
    <3>3. f[k] = value[r][FineOf(s.cell, g[k])]
      BY <1>11, <3>2
    <3>4. g[k] \in ChildNumbers
      BY <1>7
    <3>5. QED
      BY <2>2, <3>3, <3>4
  <2> HIDE DEF e
  <2>6. f = Renamed(e, g, ChildNumbers)
    BY <1>14, <2>5 DEF Renamed
  <2>7. Part(e, ChildNumbers) = e
    BY <2>4 DEF Part
  <2>8. SumFunction(f) = SumFunction(e)
    <3>1. PICK d \in [ChildNumbers -> Int] : d = e
      BY <2>4
    <3>2. SumFunction(Part(d, Images(g, ChildNumbers))) = SumFunction(Renamed(d, g, ChildNumbers))
      BY <1>7, ChildNumbersFinite, SumRenamed
    <3>3. QED
      BY <1>7, <2>6, <2>7, <3>1, <3>2
  <2>9. Mean(b)[s.cell] = Over(FineSum(b, s.cell), NChildren)
    BY <1>4, MeanByCells
  <2>10. QED
    BY <1>5, <1>6, <2>3, <2>4, <2>8, <2>9 DEF f
<1>16. CASE r \notin nodes
  <2>1. \A k \in ChildNumbers : f[k] = v
    <3> TAKE k \in ChildNumbers
    <3>1. PICK y \in Scratch(2) : y = FineAround(C, k)
      BY <1>2
    <3>2. r = OwnLevelCell(q, y).node
      BY <1>7, <1>8, <1>9, <3>1
    <3>3. GatherCell(nodes, q, y)
            = [node |-> Parent(r),
               cell |-> [a \in Axes |-> OwnLevelPosition(q, y)[a] \div 2 - Parent(r).ijk[a] * BlockM]]
      BY <1>4, <1>10, <1>13, <1>16, <3>2, GatheredFromParent
    <3>4. ASSUME NEW a \in Axes
          PROVE  OwnLevelPosition(q, y)[a] \div 2 - s.node.ijk[a] * BlockM = s.cell[a]
      <4>1. PICK i \in Int, z \in Int, M \in Int, b \in 0..1 :
              i = s.node.ijk[a] /\ z = s.cell[a] /\ M = BlockM /\ b = Bit(g[k], a)
        <5>1. s.node.ijk[a] \in Int /\ s.cell[a] \in Int /\ BlockM \in Int
          BY <1>4, <1>12, BlockMAssumption DEF Index, Cells
        <5>2. Bit(g[k], a) \in 0..1
          BY <1>7, BitValue
        <5>3. QED
          BY <5>1, <5>2
      <4>2. OwnLevelPosition(q, y)[a] = 2 * (i * M + z) + b
        BY <1>7, <3>1, <4>1
      <4>3. PICK w \in Int : w = i * M + z
        OBVIOUS
      <4>4. (2 * w + b) \div 2 = w
        OBVIOUS
      <4>5. w - i * M = z
        BY <4>3
      <4>6. QED
        BY <4>1, <4>2, <4>3, <4>4, <4>5
    <3>5. s.cell = [a \in Axes |-> s.cell[a]]
      BY <1>4 DEF Cells
    <3>6. GatherCell(nodes, q, y) = [node |-> s.node, cell |-> s.cell]
      BY <1>13, <3>3, <3>4, <3>5
    <3>7. QED
      BY <1>5, <1>11, <3>1, <3>6
  <2>2. f \in [ChildNumbers -> Int]
    BY <1>14, <2>1, ModulusFacts
  <2>3. Over(SumFunction(f), NChildren) = v
    BY <2>1, <2>2, AverageOfSame
  <2>4. QED
    BY <1>6, <2>3 DEF f
<1>17. QED
  BY <1>15, <1>16

-----------------------------------------------------------------------------
(* The prediction of the wavelet, and that of a division. *)

\* A sum of zeros over 8.
LEMMA NothingOver ==
  ASSUME NEW k \in Halvings
  PROVE  Over(0, k) = 0
<1>1. PICK m \in Numbers : m = Over(0, k) /\ Congruent(Modulus, k * m, 0)
  BY OverTimes
<1>2. 0 \in Numbers /\ k * 0 = 0
  BY ModulusFacts DEF Halvings
<1>3. m = 0
  <2>1. PICK z \in Numbers : z = 0
    BY <1>2
  <2>2. Congruent(Modulus, k * m, k * z)
    BY <1>1, <1>2, <2>1
  <2>3. QED
    BY <2>1, <2>2, OverUnique
<1>4. QED
  BY <1>1, <1>3

\* The linear interpolation looks at the same places of u and of w.
LEMMA LinearSame ==
  ASSUME NEW u, NEW w, NEW f, NEW g,
         \A a \in Axes : f[a] % 2 = g[a] % 2,
         NEW C, C = [a \in Axes |-> f[a] \div 2], NEW D, D = [a \in Axes |-> g[a] \div 2],
         w[D] = u[C],
         \A a \in Axes, e \in {-1, 1} : w[Beside(D, a, e)] = u[Beside(C, a, e)]
  PROVE  Linear(w, g) = Linear(u, f)
<1> DEFINE sf(a) == IF f[a] % 2 = 1 THEN 1 ELSE -1
           sg(a) == IF g[a] % 2 = 1 THEN 1 ELSE -1
           tf == [a \in Axes |-> sf(a) * (u[Beside(C, a, 1)] - u[Beside(C, a, -1)])]
           tg == [a \in Axes |-> sg(a) * (w[Beside(D, a, 1)] - w[Beside(D, a, -1)])]
<1>1. Linear(u, f) = (u[C] + Over(SumFunction(tf), 8)) % Modulus
  BY DEF Linear
<1>2. Linear(w, g) = (w[D] + Over(SumFunction(tg), 8)) % Modulus
  BY DEF Linear
<1>3. \A a \in Axes : sg(a) = sf(a)
  OBVIOUS
<1>4. w[D] = u[C]
  OBVIOUS
<1>5. \A a \in Axes : /\ w[Beside(D, a, 1)] = u[Beside(C, a, 1)]
                      /\ w[Beside(D, a, -1)] = u[Beside(C, a, -1)]
  OBVIOUS
<1> HIDE DEF sf, sg
<1>6. tg = tf
  BY <1>3, <1>5
<1> HIDE DEF tf, tg
<1>7. QED
  BY <1>1, <1>2, <1>4, <1>6

\* Along one axis: a cell of a child, halved.
LEMMA AxisHalved ==
  ASSUME NEW h \in Nat \ {0}, NEW b \in 0..1, NEW y \in 0..(2 * h - 1)
  PROVE  /\ (b * (2 * h) + y) % 2 = y % 2
         /\ (b * (2 * h) + y) \div 2 = b * h + y \div 2
         /\ y \div 2 \in 0..(h - 1)
<1>1. CASE b = 0
  BY <1>1
<1>2. CASE b = 1
  <2>1. b * (2 * h) = 2 * h /\ b * h = h
    BY <1>2
  <2>2. QED
    BY <2>1
<1>3. QED
  BY <1>1, <1>2

\* What block_wavelet () predicts for a child from the cells around it is what
\* a division predicts from those around the parent.
LEMMA PredictionAgrees ==
  ASSUME NEW c \in ChildNumbers, NEW u, NEW w,
         \A C \in CoarseCells : w[C] = u[CoarseAround(c, C)], NEW x \in Cells
  PROVE  Linear(w, x) = PredictedFrom(u, c)[x]
<1>1. PICK h \in Nat \ {0} : BlockM \div 2 = h /\ BlockM = 2 * h
  BY HalfBlock
<1> DEFINE f == [a \in Axes |-> Bit(c, a) * BlockM + x[a]]
           C == [a \in Axes |-> x[a] \div 2]
           D == [a \in Axes |-> f[a] \div 2]
<1>2. PredictedFrom(u, c)[x] = Linear(u, f)
  BY DEF PredictedFrom
<1>3. ASSUME NEW a \in Axes
      PROVE  /\ f[a] % 2 = x[a] % 2 /\ C[a] \in 0..(h - 1)
             /\ D[a] = Bit(c, a) * h + C[a] /\ Bit(c, a) * h \in Int
  <2>1. PICK b \in 0..1, y \in 0..(2 * h - 1) : b = Bit(c, a) /\ y = x[a]
    BY <1>1, BitValue DEF Cells
  <2>2. /\ (b * (2 * h) + y) % 2 = y % 2
        /\ (b * (2 * h) + y) \div 2 = b * h + y \div 2
        /\ y \div 2 \in 0..(h - 1)
    BY AxisHalved
  <2>3. b * h \in Int
    OBVIOUS
  <2>4. f[a] = b * (2 * h) + y /\ D[a] = f[a] \div 2 /\ C[a] = y \div 2
    BY <1>1, <2>1
  <2> HIDE DEF f, C, D
  <2>5. QED
    BY <2>1, <2>2, <2>3, <2>4
<1>4. C = [a \in Axes |-> C[a]] /\ D = [a \in Axes |-> D[a]]
  OBVIOUS
<1>5. C = [a \in Axes |-> x[a] \div 2] /\ D = [a \in Axes |-> f[a] \div 2]
  OBVIOUS
<1> HIDE DEF f, C, D
<1>6. C \in CoarseCells
  <2>1. \A a \in Axes : C[a] \in -1..(BlockM \div 2)
    BY <1>1, <1>3
  <2>2. QED
    BY <1>4, <2>1 DEF CoarseCells
<1>7. CoarseAround(c, C) = D
  BY <1>1, <1>3, <1>4 DEF CoarseAround
<1>8. ASSUME NEW a \in Axes, NEW e \in {-1, 1}
      PROVE  w[Beside(C, a, e)] = u[Beside(D, a, e)]
  <2>1. Beside(C, a, e) = [i \in Axes |-> IF i = a THEN C[a] + e ELSE C[i]]
    BY <1>4 DEF Beside
  <2>2. Beside(D, a, e) = [i \in Axes |-> IF i = a THEN D[a] + e ELSE D[i]]
    BY <1>4 DEF Beside
  <2>3. \A i \in Axes : (IF i = a THEN C[a] + e ELSE C[i]) \in -1..(BlockM \div 2)
    BY <1>1, <1>3
  <2>4. Beside(C, a, e) \in CoarseCells
    BY <2>1, <2>3 DEF CoarseCells
  <2>5. \A i \in Axes : (IF i = a THEN D[a] + e ELSE D[i])
                          = Bit(c, i) * h + (IF i = a THEN C[a] + e ELSE C[i])
    BY <1>3
  <2>6. CoarseAround(c, Beside(C, a, e))
          = [i \in Axes |-> Bit(c, i) * h + (IF i = a THEN C[a] + e ELSE C[i])]
    BY <1>1, <2>1 DEF CoarseAround
  <2>7. CoarseAround(c, Beside(C, a, e)) = Beside(D, a, e)
    BY <2>2, <2>5, <2>6
  <2>8. QED
    BY <2>4, <2>7
<1>9. w[C] = u[D]
  BY <1>6, <1>7
<1>10. Linear(w, x) = Linear(u, f)
  <2>1. \A a \in Axes : f[a] % 2 = x[a] % 2
    BY <1>3
  <2>2. QED
    BY <1>5, <1>8, <1>9, <2>1, LinearSame
<1>11. QED
  BY <1>2, <1>10

\* The children of p that hold what p predicts have no wavelet.
LEMMA NoWavelet ==
  ASSUME TreeInv, value \in [nodes -> Block], ParentsAreMeans, restricted,
         NEW p \in hasChildren, NEW c \in ChildNumbers, NEW q, q = IndexChild(p, c),
         value[q] = PredictedFrom(OwnLevel(value, p), c)
  PROVE  Wavelet(q) = Zero
<1> DEFINE u == Gathered(q, 2)
           coarse == [C \in [Axes -> -1..(BlockM \div 2)] |->
                        Over(SumFunction([k \in 0..(NChildren - 1) |->
                               u[[a \in Axes |-> 2 * C[a] + Bit(k, a)]]]), NChildren)]
<1>1. Wavelet(q) = [x \in Cells |-> (u[x] - Linear(coarse, x)) % Modulus]
  BY DEF Wavelet
<1>2. ASSUME NEW C \in CoarseCells
      PROVE  coarse[C] = OwnLevel(value, p)[CoarseAround(c, C)]
  <2>1. coarse[C] = Over(SumFunction([k \in ChildNumbers |-> u[FineAround(C, k)]]), NChildren)
    BY DEF CoarseCells, ChildNumbers, FineAround
  <2>2. Over(SumFunction([k \in ChildNumbers |-> u[FineAround(C, k)]]), NChildren)
          = OwnLevel(value, p)[CoarseAround(c, C)]
    BY AverageOfFine
  <2>3. QED
    BY <2>1, <2>2
<1>3. q \in nodes
  <2>1. q \in Children(p) /\ Children(p) \subseteq nodes
    BY FamilyBlocks DEF Children, ChildNumbers
  <2>2. QED
    BY <2>1
<1>4. ASSUME NEW x \in Cells PROVE u[x] = value[q][x]
  <2>1. PICK M \in Nat : M = BlockM
    BY BlockMAssumption
  <2>2. x \in Scratch(2)
    <3>1. x \in [Axes -> 0..(M - 1)]
      BY <2>1 DEF Cells
    <3>2. x \in [Axes -> -2..(M + 2 - 1)]
      BY <3>1
    <3>3. QED
      BY <2>1, <3>2 DEF Scratch
  <2>3. \A a \in Axes : Dir(x)[a] = 0
    <3>1. \A a \in Axes : x[a] \in 0..(M - 1)
      BY <2>1 DEF Cells
    <3>2. QED
      BY <2>1, <3>1 DEF Dir
  <2>4. GatherCell(nodes, q, x) = [node |-> q, cell |-> x]
    BY <2>3 DEF GatherCell
  <2>5. QED
    BY <2>2, <2>4 DEF Gathered
<1> HIDE DEF u, coarse
<1>5. ASSUME NEW x \in Cells PROVE (u[x] - Linear(coarse, x)) % Modulus = 0
  <2>1. PICK n \in Numbers : n = value[q][x]
    BY <1>3 DEF Block
  <2>2. PICK v, w : v = OwnLevel(value, p) /\ w = coarse
    OBVIOUS
  <2>3. \A C \in CoarseCells : w[C] = v[CoarseAround(c, C)]
    BY <1>2, <2>2
  <2>4. Linear(w, x) = PredictedFrom(v, c)[x]
    BY <2>3, PredictionAgrees
  <2>5. Linear(coarse, x) = n
    BY <2>1, <2>2, <2>4
  <2>6. u[x] = n
    BY <1>4, <2>1
  <2>7. n - n = 0 /\ 0 % Modulus = 0
    BY ModulusFacts
  <2>8. QED
    BY <2>5, <2>6, <2>7
<1>6. QED
  BY <1>1, <1>5 DEF Zero

-----------------------------------------------------------------------------
(* Predictions while the tree changes. *)

(* What a division writes is what the blocks of the parent's own level      *)
(* predict.                                                                 *)
LEMMA ProlongedFrom ==
  ASSUME TreeInv, NEW p \in nodes, NEW c \in ChildNumbers,
         \A x \in Scratch(1) : OwnLevelCell(p, x).node \in nodes
  PROVE  Prolonged(p)[c] = PredictedFrom(OwnLevel(value, p), c)
<1>1. 1 \in 1..BlockM
  BY BlockMAssumption
<1>2. \A x \in Scratch(1) : GatherCell(nodes, p, x) = OwnLevelCell(p, x)
  BY <1>1, OwnLevelGathered
<1>3. Gathered(p, 1) = OwnLevel(value, p)
  BY <1>2 DEF Gathered, OwnLevel
<1>4. Prolonged(p)[c] = [x \in Cells |->
        Linear(Gathered(p, 1), [a \in Axes |-> Bit(c, a) * BlockM + x[a]])]
  BY DEF Prolonged, ChildNumbers
<1>5. QED
  BY <1>3, <1>4 DEF PredictedFrom

\* It is looked at as it was.
LEMMA OwnLevelKept ==
  ASSUME NEW p, NEW N, \A x \in Scratch(1) : OwnLevelCell(p, x).node \in N,
         NEW v, NEW w, \A r \in N : w[r] = v[r]
  PROVE  OwnLevel(w, p) = OwnLevel(v, p)
BY DEF OwnLevel

(* Nothing is predicted of nothing. *)
LEMMA LinearOfZeros ==
  ASSUME NEW u, NEW f, NEW C, C = [a \in Axes |-> f[a] \div 2],
         u[C] = 0, \A a \in Axes, e \in {-1, 1} : u[Beside(C, a, e)] = 0
  PROVE  Linear(u, f) = 0
<1> DEFINE sgn(a) == IF f[a] % 2 = 1 THEN 1 ELSE -1
           t == [a \in Axes |-> sgn(a) * (u[Beside(C, a, 1)] - u[Beside(C, a, -1)])]
<1>1. Linear(u, f) = (u[C] + Over(SumFunction(t), 8)) % Modulus
  BY DEF Linear
<1>2. \A a \in Axes : sgn(a) \in Int /\ sgn(a) * (0 - 0) = 0
  OBVIOUS
<1>3. t \in [Axes -> Int] /\ \A a \in Axes : t[a] = 0
  <2>1. \A a \in Axes : u[Beside(C, a, 1)] = 0 /\ u[Beside(C, a, -1)] = 0
    OBVIOUS
  <2> HIDE DEF sgn
  <2>2. QED
    BY <1>2, <2>1
<1> HIDE DEF t, sgn
<1>4. SumFunction(t) = 0
  <2>1. IsFiniteSet(Axes)
    <3>1. Dimension \in Int /\ 1 \in Int
      BY DimensionAssumption
    <3>2. QED
      BY <3>1, FS_Interval DEF Axes
  <2>2. QED
    BY <1>3, <2>1, SumOfZeros
<1>5. Over(0, 8) = 0
  BY NothingOver DEF Halvings
<1>6. (0 + 0) % Modulus = 0
  BY ModulusFacts
<1>7. QED
  BY <1>1, <1>4, <1>5, <1>6

\* Where a division looks for the value of a cell and the slope beside it.
LEMMA LooksWithin ==
  ASSUME NEW c \in ChildNumbers, NEW x \in Cells, NEW f, f = [a \in Axes |-> Bit(c, a) * BlockM + x[a]],
         NEW C, C = [a \in Axes |-> f[a] \div 2]
  PROVE  /\ C \in Scratch(1)
         /\ \A a \in Axes, e \in {-1, 1} : Beside(C, a, e) \in Scratch(1)
<1>1. PICK h \in Nat \ {0} : BlockM \div 2 = h /\ BlockM = 2 * h
  BY HalfBlock
<1>2. ASSUME NEW a \in Axes PROVE C[a] \in 0..(2 * h - 1)
  <2>1. PICK b \in 0..1, y \in 0..(2 * h - 1) : b = Bit(c, a) /\ y = x[a]
    BY <1>1, BitValue DEF Cells
  <2>2. (b * (2 * h) + y) \div 2 = b * h + y \div 2 /\ y \div 2 \in 0..(h - 1)
    BY AxisHalved
  <2>3. C[a] = (b * (2 * h) + y) \div 2
    BY <1>1, <2>1
  <2>4. b * h = 0 \/ b * h = h
    OBVIOUS
  <2>5. QED
    BY <2>2, <2>3, <2>4
<1>3. Scratch(1) = [Axes -> -1..(2 * h)]
  BY <1>1 DEF Scratch
<1>4. C \in Scratch(1)
  BY <1>2, <1>3
<1>5. ASSUME NEW a \in Axes, NEW e \in {-1, 1} PROVE Beside(C, a, e) \in Scratch(1)
  <2>1. Beside(C, a, e) = [i \in Axes |-> IF i = a THEN C[a] + e ELSE C[i]]
    BY DEF Beside
  <2>2. \A i \in Axes : (IF i = a THEN C[a] + e ELSE C[i]) \in -1..(2 * h)
    BY <1>2
  <2>3. QED
    BY <1>3, <2>1, <2>2
<1>6. QED
  BY <1>4, <1>5

\* Nothing is predicted of nothing.
LEMMA PredictedZero ==
  ASSUME NEW u, \A x \in Scratch(1) : u[x] = 0, NEW c \in ChildNumbers
  PROVE  PredictedFrom(u, c) = Zero
<1>1. ASSUME NEW x \in Cells
      PROVE  Linear(u, [a \in Axes |-> Bit(c, a) * BlockM + x[a]]) = 0
  <2>1. PICK f : f = [a \in Axes |-> Bit(c, a) * BlockM + x[a]]
    OBVIOUS
  <2>2. PICK C : C = [a \in Axes |-> f[a] \div 2]
    OBVIOUS
  <2>3. C \in Scratch(1) /\ \A a \in Axes, e \in {-1, 1} : Beside(C, a, e) \in Scratch(1)
    BY <2>1, <2>2, LooksWithin
  <2>4. Linear(u, f) = 0
    BY <2>2, <2>3, LinearOfZeros
  <2>5. QED
    BY <2>1, <2>4
<1>2. QED
  BY <1>1 DEF PredictedFrom, Zero

(* Averages have one solution. *)
LEMMA AveragesUnique ==
  ASSUME TreeInv, value \in [nodes -> Block], NEW g, Averages(g), NEW h, Averages(h)
  PROVE  g = h
<1> DEFINE Bad == {n \in Nat : \E q \in nodes : q.level = MaxDepth - n /\ g[q] # h[q]}
<1>1. ASSUME Bad # {} PROVE FALSE
  <2>1. Bad \in SUBSET Nat
    OBVIOUS
  <2>2. PICK n \in Bad : \A k \in Bad : n =< k
    <3> HIDE DEF Bad
    <3>1. QED
      BY <1>1, <2>1, LeastNatural
  <2>3. PICK q \in nodes : q.level = MaxDepth - n /\ g[q] # h[q]
    OBVIOUS
  <2>4. g[q] = Averaged(g, q) /\ h[q] = Averaged(h, q)
    BY DEF Averages
  <2>5. CASE q \in hasChildren
    <3>1. q.level \in Nat /\ q.level < MaxDepth /\ Children(q) \subseteq nodes
      BY <2>5, FamilyBlocks
    <3>2. PICK k \in Nat : k = n - 1 /\ k < n
      BY <2>3, <3>1, MaxDepthAssumption
    <3>3. ASSUME NEW c \in ChildNumbers PROVE g[IndexChild(q, c)] = h[IndexChild(q, c)]
      <4>1. IndexChild(q, c) \in nodes /\ IndexChild(q, c).level = q.level + 1
        BY <3>1 DEF Children, ChildNumbers, IndexChild
      <4>2. IndexChild(q, c).level = MaxDepth - k
        BY <2>3, <3>2, <4>1, MaxDepthAssumption
      <4>3. k \notin Bad
        <5> HIDE DEF Bad
        <5>1. QED
          BY <2>1, <2>2, <3>2
      <4>4. QED
        BY <4>1, <4>2, <4>3
    <3>4. QED
      BY <2>3, <2>4, <2>5, <3>3 DEF Averaged
  <2>6. CASE q \notin hasChildren
    BY <2>3, <2>4, <2>6 DEF Averaged
  <2>7. QED
    BY <2>5, <2>6
<1>2. ASSUME NEW q \in nodes PROVE g[q] = h[q]
  <2>1. PICK n \in Nat : q.level = MaxDepth - n
    <3>1. q.level =< depthmax /\ depthmax \in 1..MaxDepth /\ q.level \in Nat
      BY NodesInside DEF TreeInv, TypeOK, WholeTree, Exists
    <3>2. MaxDepth - q.level \in Nat /\ q.level = MaxDepth - (MaxDepth - q.level)
      BY <3>1, MaxDepthAssumption
    <3>3. QED
      BY <3>2
  <2>2. QED
    BY <1>1, <2>1
<1>3. g = [q \in nodes |-> g[q]] /\ h = [q \in nodes |-> h[q]]
  BY DEF Averages
<1>4. QED
  BY <1>2, <1>3

\* Means stay as they are.
LEMMA RestrictKeepsMeans ==
  ASSUME TreeInv, ValueInv, restricted, TreeRestrict
  PROVE  value' = value
<1>1. value \in [nodes -> Block] /\ hasChildren \subseteq nodes
  BY DEF TreeRestrict, ValueInv, TreeInv, TypeOK, WholeTree
<1>2. \A q \in nodes : value[q] = Averaged(value, q)
  <2>1. \A q \in hasChildren : value[q] = Mean(ChildBlocks(value, q))
    BY DEF ValueInv, ParentsAreMeans
  <2>2. QED
    BY <2>1, ChildBlocksByChild DEF Averaged
<1>3. Averages(value)
  BY <1>1, <1>2 DEF Averages
<1>4. PICK g : g = value'
  OBVIOUS
<1>5. Averages(g)
  BY <1>1, <1>4, RestrictAverages
<1>6. g = value
  BY <1>1, <1>3, <1>5, AveragesUnique
<1>7. QED
  BY <1>4, <1>6

-----------------------------------------------------------------------------
(* Divided blocks stay predicted. *)

PredictedIn(v, H, q) ==
  \E p \in H, c \in ChildNumbers :
    q = IndexChild(p, c) /\ v[q] = PredictedFrom(OwnLevel(v, p), c)

(* What DividedAsPredicted needs: the blocks divided since the last write   *)
(* are still what their parents predict, and no parent is out of date.      *)
PredictedInv ==
  /\ ~Exists => restricted /\ predicted = {}
  /\ predicted # {} => restricted
  /\ \A q \in predicted : PredictedIn(value, hasChildren, q)

\* All that a prediction looks at is stored.
LooksStored(N, H) ==
  \A p \in H : /\ Children(p) \subseteq N
               /\ \A x \in Scratch(1) : OwnLevelCell(p, x).node \in N

\* Around every parent it is.
LEMMA PredictionsStored == TreeInv => LooksStored(nodes, hasChildren)
<1> SUFFICES ASSUME TreeInv PROVE LooksStored(nodes, hasChildren)
  OBVIOUS
<1>1. \A p \in hasChildren : Children(p) \subseteq nodes
  BY DEF TreeInv, WholeTree, TypeOK, Exists
<1>2. QED
  BY <1>1, OwnLevelStored DEF LooksStored

\* And after a step.
LEMMA PredictionsStoredNext == TreeInv' => LooksStored(nodes', hasChildren')
<1>1. (TreeInv => LooksStored(nodes, hasChildren))'
  BY PredictionsStored, PTL
<1>2. QED
  BY <1>1 DEF LooksStored

\* A prediction holds on while all it looks at stays.
LEMMA PredictionKept ==
  ASSUME NEW v, NEW w, NEW H, NEW q, PredictedIn(v, H, q),
         NEW K, NEW N, LooksStored(N, K), \A r \in N : w[r] = v[r],
         \A p \in H : q \in Children(p) => p \in K
  PROVE  PredictedIn(w, K, q)
<1>1. PICK p \in H, c \in ChildNumbers : q = IndexChild(p, c) /\ v[q] = PredictedFrom(OwnLevel(v, p), c)
  BY DEF PredictedIn
<1>2. q \in Children(p)
  BY <1>1 DEF Children, ChildNumbers
<1>3. p \in K /\ q \in N /\ \A x \in Scratch(1) : OwnLevelCell(p, x).node \in N
  BY <1>2 DEF LooksStored
<1>4. OwnLevel(w, p) = OwnLevel(v, p)
  BY <1>3, OwnLevelKept
<1>5. w[q] = PredictedFrom(OwnLevel(w, p), c)
  BY <1>1, <1>3, <1>4
<1>6. QED
  BY <1>1, <1>3, <1>5 DEF PredictedIn

\* Steps that touch neither the tree nor the values.
LEMMA PredictedUnchanged ==
  ASSUME PredictedInv, UNCHANGED <<nodes, hasChildren, value, restricted, predicted>>
  PROVE  PredictedInv'
BY DEF PredictedInv, PredictedIn, Exists

\* tree (): zeros all over, and nothing predicted of nothing.
LEMMA CreatePredictedInv ==
  ASSUME TreeInv', PredictedInv, Create(MaxDepth), CreateValues
  PROVE  PredictedInv'
<1>1. /\ nodes' = {Root} \cup Children(Root) /\ hasChildren' = {Root} /\ restricted' = restricted
      /\ ~Exists /\ Exists' /\ value' = [q \in nodes' |-> Zero] /\ predicted' = Children(Root)
  BY DEF Create, CreateValues, Exists
<1>2. restricted'
  BY <1>1 DEF PredictedInv
<1>3. PICK N, H : N = nodes' /\ H = hasChildren'
  OBVIOUS
<1>4. LooksStored(N, H)
  BY <1>3, PredictionsStoredNext
<1>5. PICK w : w = [q \in N |-> Zero]
  OBVIOUS
<1>6. ASSUME NEW q \in Children(Root) PROVE PredictedIn(w, H, q)
  <2>1. PICK c \in ChildNumbers : q = IndexChild(Root, c)
    BY DEF Children, ChildNumbers
  <2>2. q \in N /\ Root \in H /\ \A x \in Scratch(1) : OwnLevelCell(Root, x).node \in N
    BY <1>1, <1>3, <1>4 DEF LooksStored
  <2>3. ASSUME NEW x \in Scratch(1) PROVE OwnLevel(w, Root)[x] = 0
    <3>1. OwnLevelCell(Root, x).cell \in Cells
      <4>1. 2^0 = 1 /\ 1 \in 1..BlockM
        BY BlockMAssumption
      <4>2. Root \in Index /\ Inside(Root) /\ Root.level =< 30
        BY <4>1 DEF Root, Index, Inside
      <4>3. QED
        BY <4>1, <4>2, OwnLevelMeaning
    <3>2. OwnLevel(w, Root)[x] = w[OwnLevelCell(Root, x).node][OwnLevelCell(Root, x).cell]
      BY DEF OwnLevel
    <3>3. QED
      BY <1>5, <2>2, <3>1, <3>2 DEF Zero
  <2>4. PredictedFrom(OwnLevel(w, Root), c) = Zero
    BY <2>3, PredictedZero
  <2>5. w[q] = Zero
    BY <1>5, <2>2
  <2>6. QED
    BY <2>1, <2>2, <2>4, <2>5 DEF PredictedIn
<1>7. value' = w
  BY <1>1, <1>3, <1>5
<1>8. QED
  BY <1>1, <1>2, <1>3, <1>6, <1>7 DEF PredictedInv

\* divide_leaf (): the box around the leaf is full, so its children are what its
\* own level predicts; nobody else looks at them.
LEMMA DividePredictedInv ==
  ASSUME TreeInv, TreeInv', ValueInv, PredictedInv, ~Idle, RefineDivide, DivideValues(Top.p)
  PROVE  PredictedInv'
<1>1. PICK p : p = Top.p
  OBVIOUS
<1>2. /\ p \in leaf /\ p \in nodes /\ p \in Index /\ Children(p) \cap nodes = {} /\ Exists
  <2>1. p \in Index /\ p \in leaf
    BY <1>1, TopFrame DEF TreeInv, Refinable
  <2>2. leaf \subseteq nodes
    BY TreeShape
  <2>3. Children(p) \cap nodes = {}
    BY <2>1, LeafHasNoChildren DEF TreeInv
  <2>4. QED
    BY <2>1, <2>2, <2>3 DEF Exists
<1>3. nodes' = nodes \cup Children(p) /\ hasChildren' = hasChildren \cup {p} /\ Exists'
  BY <1>1, <1>2 DEF RefineDivide, DivideLeaf, Exists
<1>4. PICK b : b = Prolonged(p)
  OBVIOUS
<1>5. /\ restricted' = restricted
      /\ predicted' = IF restricted THEN predicted \cup Children(p) ELSE predicted
      /\ value' = [q \in nodes' |->
                     IF q \in Children(p)
                     THEN b[CHOOSE c \in 0..(NChildren - 1) : q = IndexChild(p, c)]
                     ELSE value[q]]
  BY <1>1, <1>4 DEF DivideValues
<1>6. \A q \in nodes : value'[q] = value[q]
  BY <1>2, <1>3, <1>5
<1>7. PICK w, v, H, N : w = value' /\ v = value /\ H = hasChildren' /\ N = nodes
  OBVIOUS
<1>8. ASSUME NEW q \in predicted PROVE PredictedIn(w, H, q)
  <2>1. PredictedIn(v, hasChildren, q)
    BY <1>7 DEF PredictedInv
  <2>2. PICK K : K = hasChildren
    OBVIOUS
  <2>3. LooksStored(N, K)
    BY <1>7, <2>2, PredictionsStored
  <2>4. PredictedIn(w, K, q)
    BY <1>6, <1>7, <2>1, <2>2, <2>3, PredictionKept
  <2>5. QED
    BY <1>3, <1>7, <2>2, <2>4 DEF PredictedIn
<1>9. ASSUME NEW q \in Children(p) PROVE PredictedIn(w, H, q)
  <2>1. PICK c \in ChildNumbers : q = IndexChild(p, c)
    BY DEF Children, ChildNumbers
  <2>2. (CHOOSE d \in 0..(NChildren - 1) : q = IndexChild(p, d)) = c
    <3>1. \A d \in 0..(NChildren - 1) : q = IndexChild(p, d) => d = c
      BY <1>2, <2>1, ChildrenDiffer DEF ChildNumbers
    <3>2. QED
      BY <2>1, <3>1 DEF ChildNumbers
  <2>3. w[q] = b[c]
    BY <1>3, <1>5, <1>7, <2>2
  <2>4. \A x \in Scratch(1) : OwnLevelCell(p, x).node \in nodes
    <3>1. \A s \in Neighbors(p) : Inside(s) => s \in nodes
      BY <1>1, BoxFull DEF TreeInv, RefineDivide
    <3>2. Inside(p) /\ p.level =< 30 /\ 1 \in 1..BlockM
      BY <1>2, NodesInside, BlockMAssumption
    <3>3. ASSUME NEW x \in Scratch(1) PROVE OwnLevelCell(p, x).node \in nodes
      <4>1. PICK s : s = OwnLevelCell(p, x)
        OBVIOUS
      <4>2. Inside(s.node) /\ (s.node = p \/ s.node \in Neighbors(p))
        BY <1>2, <3>2, <4>1, OwnLevelMeaning
      <4>3. QED
        BY <1>2, <3>1, <4>1, <4>2
    <3>4. QED
      BY <3>3
  <2>5. b[c] = PredictedFrom(OwnLevel(v, p), c)
    BY <1>2, <1>4, <1>7, <2>4, ProlongedFrom
  <2>6. OwnLevel(w, p) = OwnLevel(v, p)
    BY <1>6, <1>7, <2>4, OwnLevelKept
  <2>7. w[q] = PredictedFrom(OwnLevel(w, p), c)
    BY <2>3, <2>5, <2>6
  <2>8. p \in H
    BY <1>3, <1>7
  <2>9. QED
    BY <2>1, <2>7, <2>8 DEF PredictedIn
<1>10. predicted' # {} => restricted'
  BY <1>5 DEF PredictedInv
<1>11. \A q \in predicted' : q \in predicted \/ q \in Children(p)
  BY <1>5
<1>12. QED
  BY <1>3, <1>7, <1>8, <1>9, <1>10, <1>11 DEF PredictedInv

\* tree_coarsen (): p is given what it had, as the mean of its children.
LEMMA CoarsenPredictedInv ==
  ASSUME TreeInv, TreeInv', ValueInv, PredictedInv, NEW p \in hasChildren, Coarsen(p), CoarsenValues(p)
  PROVE  PredictedInv'
<1>1. Exists /\ hasChildren \subseteq nodes
  BY DEF TreeInv, TypeOK, WholeTree, Exists
<1>2. /\ nodes' = nodes \ Children(p) /\ hasChildren' = hasChildren \ {p} /\ p \notin Children(p)
  <2>1. p \in Index /\ p.level \in Nat
    BY <1>1, NodesInside
  <2>2. \A q \in Children(p) : q.level = p.level + 1
    BY <2>1, ChildOfParent
  <2>3. QED
    BY <2>1, <2>2 DEF Coarsen, RemoveChildren
<1>3. /\ restricted' = restricted /\ predicted' = predicted \ Children(p)
      /\ value' = [[q \in nodes' |-> value[q]] EXCEPT ![p] = Mean(ChildBlocks(value, p))]
  BY DEF CoarsenValues
<1>4. Exists'
  BY <1>1, <1>2 DEF Exists
<1>5. ASSUME NEW q \in predicted' PROVE PredictedIn(value', hasChildren', q)
  <2>1. restricted /\ q \in predicted /\ q \notin Children(p)
    BY <1>3 DEF PredictedInv
  <2>2. value[p] = Mean(ChildBlocks(value, p))
    BY <2>1 DEF ValueInv, ParentsAreMeans
  <2>3. \A r \in nodes' : value'[r] = value[r]
    BY <1>3, <2>2
  <2>4. PICK w, v, H, K, N : w = value' /\ v = value /\ H = hasChildren /\ K = hasChildren' /\ N = nodes'
    OBVIOUS
  <2>5. LooksStored(N, K)
    BY <2>4, PredictionsStoredNext
  <2>6. PredictedIn(v, H, q)
    BY <2>1, <2>4 DEF PredictedInv
  <2>7. \A s \in H : q \in Children(s) => s \in K
    BY <1>2, <2>1, <2>4
  <2>8. PredictedIn(w, K, q)
    BY <2>3, <2>4, <2>5, <2>6, <2>7, PredictionKept
  <2>9. QED
    BY <2>4, <2>8
<1>6. predicted' # {} => restricted'
  BY <1>3 DEF PredictedInv
<1>7. QED
  BY <1>4, <1>5, <1>6 DEF PredictedInv

\* tree_restrict (): means already, so nothing changes.
LEMMA RestrictPredictedInv ==
  ASSUME TreeInv, ValueInv, PredictedInv, TreeRestrict
  PROVE  PredictedInv'
<1>1. Exists' /\ restricted' /\ predicted' = predicted /\ hasChildren' = hasChildren /\ nodes' = nodes
  BY DEF TreeRestrict, vars, Exists
<1>2. ASSUME NEW q \in predicted' PROVE PredictedIn(value', hasChildren', q)
  <2>1. restricted /\ PredictedIn(value, hasChildren, q)
    BY <1>1 DEF PredictedInv
  <2>2. value' = value
    BY <2>1, RestrictKeepsMeans
  <2>3. QED
    BY <1>1, <2>1, <2>2
<1>3. QED
  BY <1>1, <1>2 DEF PredictedInv

\* One step of the predictions.
LEMMA NextPredictedInv ==
  TreeInv /\ TreeInv' /\ ValueInv /\ PredictedInv /\ [ValueNext]_gridVars => PredictedInv'
<1> SUFFICES ASSUME TreeInv, TreeInv', ValueInv, PredictedInv, [ValueNext]_gridVars
             PROVE  PredictedInv'
  OBVIOUS
<1>1. CASE Create(MaxDepth) /\ CreateValues
  BY <1>1, CreatePredictedInv
<1>2. CASE Destroy /\ DestroyValues
  BY <1>2 DEF DestroyValues, PredictedInv
<1>3. ASSUME NEW p \in leaf, RefineCall(p), UNCHANGED valueVars
      PROVE  PredictedInv'
  BY <1>3, PredictedUnchanged DEF RefineCall, valueVars
<1>4. CASE RefineDescend /\ UNCHANGED valueVars
  BY <1>4, PredictedUnchanged DEF RefineDescend, valueVars
<1>5. CASE ~Idle /\ RefineDivide /\ DivideValues(Top.p)
  BY <1>5, DividePredictedInv
<1>6. ASSUME NEW p \in hasChildren, Coarsen(p), CoarsenValues(p)
      PROVE  PredictedInv'
  BY <1>6, CoarsenPredictedInv
<1>7. CASE TreeRestrict
  BY <1>7, RestrictPredictedInv
<1>8. ASSUME NEW p \in leaf, NEW x \in Cells, WriteCell(p, x)
      PROVE  PredictedInv'
  <2>1. p \in nodes /\ nodes' = nodes /\ predicted' = {}
    BY <1>8, TreeShape DEF WriteCell, vars
  <2>2. QED
    BY <2>1 DEF PredictedInv, Exists
<1>9. CASE UNCHANGED gridVars
  BY <1>9, PredictedUnchanged DEF gridVars, vars, valueVars
<1>10. QED
  BY <1>1, <1>2, <1>3, <1>4, <1>5, <1>6, <1>7, <1>8, <1>9 DEF ValueNext

\* And a block that is as predicted has no wavelet.
LEMMA InvImpliesPredicted == TreeInv /\ ValueInv /\ PredictedInv => DividedAsPredicted
<1> SUFFICES ASSUME TreeInv, ValueInv, PredictedInv, NEW q \in predicted PROVE Wavelet(q) = Zero
  BY DEF DividedAsPredicted
<1>1. PICK p \in hasChildren, c \in ChildNumbers :
        q = IndexChild(p, c) /\ value[q] = PredictedFrom(OwnLevel(value, p), c)
  BY DEF PredictedInv, PredictedIn
<1>2. restricted /\ ParentsAreMeans /\ value \in [nodes -> Block]
  BY DEF PredictedInv, ValueInv, TreeInv, TypeOK, WholeTree
<1>3. QED
  BY <1>1, <1>2, NoWavelet

\* What a division wrote has a wavelet of zero until a leaf is written: this is
\* DividedAsPredicted, of block_prolong () and block_wavelet ().
THEOREM DivisionsHaveNoWavelet == ValueSpec => []DividedAsPredicted
<1>1. ValueInit => PredictedInv
  BY DEF ValueInit, PredictedInv
<1>2. TreeInv /\ ValueInv /\ PredictedInv /\ (TreeInv /\ ValueInv)' /\ [ValueNext]_gridVars
        => PredictedInv'
  BY NextPredictedInv
<1>3. ValueSpec => []PredictedInv
  BY <1>1, <1>2, ValueInvHolds, PTL DEF ValueSpec
<1>4. QED
  BY <1>3, InvImpliesPredicted, ValueInvHolds, PTL
=============================================================================
