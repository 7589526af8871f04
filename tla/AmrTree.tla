------------------------------ MODULE AmrTree ------------------------------
(***************************************************************************)
(* The tree of libb-amr/tree.c: its nodes and their flags, the counters    *)
(* kept beside them, and the operations tree (), tree_refine (),           *)
(* tree_coarsen () and tree_destroy ().                                    *)
(*                                                                         *)
(* tree_refine () calls itself on the coarser leaves beside its argument   *)
(* before it divides it.  The call stack is a variable, so that every      *)
(* state between two divisions is a state of this specification: each      *)
(* frame scans the box around its leaf, calls on when the box has a gap,   *)
(* and divides the leaf when it has none left.                             *)
(*                                                                         *)
(* Values of the scalars are not here: see BlockValues and Adapt.          *)
(***************************************************************************)
EXTENDS TreeIndex, Sequences, FiniteSets, Functions

CONSTANT
  MaxBlocks    \* model bound: no refinement is called above this many nodes

ASSUME MaxBlocksAssumption == MaxBlocks \in Nat

VARIABLES
  nodes,        \* the indices at which a node is allocated
  leaf,         \* the nodes flagged BAMR_NODE_LEAF
  hasChildren,  \* the nodes flagged BAMR_NODE_HAS_CHILDREN
  nb, nlb,      \* number of nodes, number of leaves
  nleaves,      \* leaves per level
  depth,        \* deepest level with a node
  depthmin,     \* coarsest level of a leaf
  depthmax,     \* the depth tree () was given
  stack,        \* the active calls of tree_refine (), the last one running
  before        \* history: the nodes when the outermost call began

counters == <<nb, nlb, nleaves, depth, depthmin>>
vars == <<nodes, leaf, hasChildren, counters, depthmax, stack, before>>

\* One call of tree_refine (p): its loop stands at slot m of the box around p,
\* and it has counted this many divisions.
Frame == [p : Index, m : 0..BoxSize, count : Nat]

TypeOK ==
  /\ nodes \subseteq Index
  /\ leaf \subseteq nodes
  /\ hasChildren \subseteq nodes
  /\ nb \in Int /\ nlb \in Int
  /\ nleaves \in [Levels -> Int]
  /\ depth \in Levels
  /\ depthmin \in Levels
  /\ depthmax \in 1..MaxDepth
  /\ stack \in Seq(Frame)
  /\ before \subseteq Index

Init ==
  /\ nodes = {} /\ leaf = {} /\ hasChildren = {}
  /\ nb = 0 /\ nlb = 0
  /\ nleaves = [l \in Levels |-> 0]
  /\ depth = 0 /\ depthmin = 0
  /\ depthmax = 1
  /\ stack = <<>> /\ before = {}

Idle == stack = <<>>
Exists == nodes # {}

-----------------------------------------------------------------------------
(***************************************************************************)
(* The counters.  update_depthmin () walks up from level 0 to the first    *)
(* level with leaves; update_depth () first walks down from depth.         *)
(***************************************************************************)
CoarsestLevel(n, d) ==
  CHOOSE l \in 0..d : /\ l = d \/ n[l] # 0
                      /\ \A k \in 0..(l - 1) : n[k] = 0

DeepestLevel(n, d) ==
  CHOOSE l \in 0..d : /\ l = 0 \/ n[l] # 0
                      /\ \A k \in (l + 1)..d : n[k] = 0

-----------------------------------------------------------------------------
(***************************************************************************)
(* divide_leaf () and remove_children (): one family more or less, the     *)
(* flags of its parent, and every counter.                                 *)
(***************************************************************************)
\* Faulty variant for a mutation run: the flag of the divided leaf stays.
DivideLeaf_KeepsLeafFlag(p) ==
  LET n == [nleaves EXCEPT ![p.level] = @ - 1, ![p.level + 1] = @ + NChildren]
      d == IF p.level = depth THEN depth + 1 ELSE depth
  IN  /\ nodes' = nodes \cup Children(p)
      /\ hasChildren' = hasChildren \cup {p}
      /\ leaf' = leaf \cup Children(p)
      /\ nb' = nb + NChildren
      /\ nlb' = nlb + NChildren - 1
      /\ nleaves' = n
      /\ depth' = d
      /\ depthmin' = CoarsestLevel(n, d)

DivideLeaf(p) ==
  LET n == [nleaves EXCEPT ![p.level] = @ - 1, ![p.level + 1] = @ + NChildren]
      d == IF p.level = depth THEN depth + 1 ELSE depth
  IN  /\ nodes' = nodes \cup Children(p)
      /\ hasChildren' = hasChildren \cup {p}
      /\ leaf' = (leaf \ {p}) \cup Children(p)
      /\ nb' = nb + NChildren
      /\ nlb' = nlb + NChildren - 1
      /\ nleaves' = n
      /\ depth' = d
      /\ depthmin' = CoarsestLevel(n, d)

\* Faulty variant for a mutation run: update_depth () is not called.
RemoveChildren_DepthKept(p) ==
  LET n == [nleaves EXCEPT ![p.level + 1] = @ - NChildren, ![p.level] = @ + 1]
  IN  /\ nodes' = nodes \ Children(p)
      /\ hasChildren' = hasChildren \ {p}
      /\ leaf' = (leaf \ Children(p)) \cup {p}
      /\ nb' = nb - NChildren
      /\ nlb' = nlb - (NChildren - 1)
      /\ nleaves' = n
      /\ UNCHANGED <<depth, depthmin>>

\* Faulty variant for a mutation run: the family stays in the layers.
RemoveChildren_NotFreed(p) ==
  LET n == [nleaves EXCEPT ![p.level + 1] = @ - NChildren, ![p.level] = @ + 1]
      d == DeepestLevel(n, depth)
  IN  /\ nodes' = nodes \ {IndexChild(p, 0)}
      /\ hasChildren' = hasChildren \ {p}
      /\ leaf' = leaf \cup {p}
      /\ nb' = nb - NChildren
      /\ nlb' = nlb - (NChildren - 1)
      /\ nleaves' = n
      /\ depth' = d
      /\ depthmin' = CoarsestLevel(n, d)

RemoveChildren(p) ==
  LET n == [nleaves EXCEPT ![p.level + 1] = @ - NChildren, ![p.level] = @ + 1]
      d == DeepestLevel(n, depth)
  IN  /\ nodes' = nodes \ Children(p)
      /\ hasChildren' = hasChildren \ {p}
      /\ leaf' = (leaf \ Children(p)) \cup {p}
      /\ nb' = nb - NChildren
      /\ nlb' = nlb - (NChildren - 1)
      /\ nleaves' = n
      /\ depth' = d
      /\ depthmin' = CoarsestLevel(n, d)

-----------------------------------------------------------------------------
(***************************************************************************)
(* tree (), tree_destroy ().  tree () clamps the depth it is given, makes  *)
(* the root a leaf and divides it at once.                                 *)
(***************************************************************************)
ClampDepth(d) == IF d > MaxDepth THEN MaxDepth ELSE IF d =< 0 THEN 1 ELSE d

Create(d) ==
  /\ ~Exists
  /\ depthmax' = ClampDepth(d)
  /\ nodes' = {Root} \cup Children(Root)
  /\ hasChildren' = {Root}
  /\ leaf' = Children(Root)
  /\ nb' = NChildren + 1
  /\ nlb' = NChildren
  /\ nleaves' = [l \in Levels |-> IF l = 1 THEN NChildren ELSE 0]
  /\ depth' = 1
  /\ depthmin' = 1
  /\ UNCHANGED <<stack, before>>

Destroy ==
  /\ Idle /\ Exists
  /\ nodes' = {} /\ leaf' = {} /\ hasChildren' = {}
  /\ nb' = 0 /\ nlb' = 0
  /\ nleaves' = [l \in Levels |-> 0]
  /\ depth' = 0 /\ depthmin' = 0
  /\ depthmax' = 1
  /\ UNCHANGED <<stack, before>>

-----------------------------------------------------------------------------
(***************************************************************************)
(* tree_refine ().  A call that returns 0 at once changes nothing and is   *)
(* no step here.                                                           *)
(***************************************************************************)
Refinable(p) == p \in leaf /\ p.level < depthmax

\* Faulty variant for a mutation run: the farthest ancestor, not the nearest.
Covering_Farthest(q) ==
  CHOOSE a \in nodes : /\ Covers(a, q)
                       /\ \A b \in nodes : Covers(b, q) => b.level >= a.level

\* covering (q): q, or the nearest of its ancestors that is allocated.
Covering(q) ==
  CHOOSE a \in nodes : /\ Covers(a, q)
                       /\ \A b \in nodes : Covers(b, q) => b.level =< a.level

Top == stack[Len(stack)]

\* An index of the box around p where a node is needed and none is allocated.
IsGap(p, m) ==
  /\ m \in NeighborSlots
  /\ Inside(IndexInBox(p, m))
  /\ IndexInBox(p, m) \notin nodes

\* The gaps the running call has still to visit, in the order of its loop.
GapsAhead == {m \in Top.m..(BoxSize - 1) : IsGap(Top.p, m)}

\* Faulty variant for a mutation run: the loop starts one slot too far.
RefineCall_FromSlotOne(p) ==
  /\ Idle
  /\ Refinable(p)
  /\ nb =< MaxBlocks
  /\ stack' = <<[p |-> p, m |-> 1, count |-> 0]>>
  /\ before' = nodes
  /\ UNCHANGED <<nodes, leaf, hasChildren, counters, depthmax>>

RefineCall(p) ==
  /\ Idle
  /\ Refinable(p)
  /\ nb =< MaxBlocks
  /\ stack' = <<[p |-> p, m |-> 0, count |-> 0]>>
  /\ before' = nodes
  /\ UNCHANGED <<nodes, leaf, hasChildren, counters, depthmax>>

\* The loop has come to a gap: refine the leaf that covers it.
RefineDescend ==
  \E m \in GapsAhead :
    LET a == Covering(IndexInBox(Top.p, m)) IN
    /\ \A k \in GapsAhead : m =< k
    /\ Refinable(a)
    /\ stack' = Append([stack EXCEPT ![Len(stack)].m = m],
                       [p |-> a, m |-> 0, count |-> 0])
    /\ UNCHANGED <<nodes, leaf, hasChildren, counters, depthmax, before>>

\* The loop has ended: divide the leaf and return the count to the caller.
RefineDivide ==
  /\ GapsAhead = {}
  /\ DivideLeaf(Top.p)
  /\ LET rest == SubSeq(stack, 1, Len(stack) - 1) IN
     stack' = IF rest = <<>> THEN <<>>
              ELSE [rest EXCEPT ![Len(rest)].count = @ + Top.count + 1]
  /\ before' = IF Len(stack) = 1 THEN {} ELSE before
  /\ UNCHANGED depthmax

RefineStep == ~Idle /\ (RefineDescend \/ RefineDivide)

-----------------------------------------------------------------------------
(***************************************************************************)
(* tree_coarsen ().                                                        *)
(***************************************************************************)
Grandchildless(p) == \A c \in Children(p) : c \notin hasChildren

\* Faulty variant for a mutation run: the neighbours are not looked at.
CanCoarsen_NoNeighbours(p) ==
  /\ p \in hasChildren
  /\ Grandchildless(p)

CanCoarsen(p) ==
  /\ p \in hasChildren
  /\ Grandchildless(p)
  /\ \A q \in Neighbors(p) : q \in hasChildren => Grandchildless(q)

Coarsen(p) ==
  /\ Idle
  /\ CanCoarsen(p)
  /\ RemoveChildren(p)
  /\ UNCHANGED <<depthmax, stack, before>>

Next ==
  \/ \E d \in -1..(MaxDepth + 1) : Create(d)
  \/ Destroy
  \/ \E p \in leaf : RefineCall(p)
  \/ RefineStep
  \/ \E p \in hasChildren : Coarsen(p)

\* A call of tree_refine () runs on until it returns.
Fairness == WF_vars(RefineStep)

Spec == Init /\ [][Next]_vars /\ Fairness
-----------------------------------------------------------------------------
(***************************************************************************)
(* Properties.                                                             *)
(***************************************************************************)

\* The flags and the allocated nodes describe one tree at all times, between
\* two divisions of a running refinement too: a node is a leaf or has all of
\* its children, every node but the root hangs under a node with children, and
\* none lies outside of the domain or below the depth that was asked for.
WholeTree ==
  Exists =>
    /\ Root \in nodes
    /\ leaf = nodes \ hasChildren
    /\ \A p \in hasChildren : Children(p) \subseteq nodes
    /\ \A q \in nodes : q.level > 0 => Parent(q) \in hasChildren
    /\ \A q \in nodes : Inside(q) /\ q.level =< depthmax

\* What tree_refine () works to keep, though no line of the code states it: an
\* index beside a node with children holds a node.
ParentsSurrounded ==
  \A p \in hasChildren : \A q \in Neighbors(p) : Inside(q) => q \in nodes

\* balanced () of test_adapt.c: around every leaf, each index of its level
\* holds a node, or its parent index does.
Balanced ==
  \A p \in leaf : \A q \in Neighbors(p) :
    Inside(q) => q \in nodes \/ Parent(q) \in nodes

\* The promise of tree.h, in terms of space and not of boxes: two leaves that
\* touch, by a face, an edge or a corner, differ by at most one level.  It
\* holds after every single division and merge.
TouchingLeavesBalanced ==
  \A p, q \in leaf : p.level > q.level + 1 => ~Touch(p, q)

\* The counters say what a count of the tree would: tree_get_nblocks (),
\* tree_get_nleaves (), tree_get_depth () and tree_get_depth_min () are kept
\* by increments and never recounted.
CountersExact ==
  /\ nb = Cardinality(nodes)
  /\ nlb = Cardinality(leaf)
  /\ \A l \in Levels : nleaves[l] = Cardinality({p \in leaf : p.level = l})
  /\ \A p \in nodes : p.level =< depth
  /\ Exists => \E p \in nodes : p.level = depth
  /\ \A p \in leaf : depthmin =< p.level
  /\ Exists => \E p \in leaf : p.level = depthmin

\* Each active call still owns an undivided leaf, whatever the calls it made
\* have divided since, and the slots of its box that it has left behind hold
\* nodes: it need not scan them again.
CallersUndisturbed ==
  \A i \in 1..Len(stack) :
    LET f == stack[i] IN
    /\ Refinable(f.p)
    /\ \A m \in 0..(f.m - 1) : ~IsGap(f.p, m)

\* A call descends by exactly one level: covering () finds the parent of the
\* gap at once, so the calls nest no deeper than the tree.
DescendsOneLevel ==
  \A i \in 1..Len(stack) : stack[i].p.level = stack[1].p.level - (i - 1)

\* The assertion of tree_refine (): the leaf beside a gap can be refined, so the
\* recursive call divides at least one leaf and the loop makes progress.
CalleeDivides ==
  ~Idle => \A m \in GapsAhead : Refinable(Covering(IndexInBox(Top.p, m)))

\* A call of tree_refine () returns.
RefineReturns == ~Idle ~> Idle

\* The tree implements what tree.h promises, each call of tree_refine () being
\* one step of the promise, taken when it returns.
Promise == INSTANCE BalancedTree WITH
  cells <- IF Idle THEN nodes ELSE before,
  limit <- depthmax

ImplementsPromise == Promise!Spec
=============================================================================
