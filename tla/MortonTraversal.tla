--------------------------- MODULE MortonTraversal ---------------------------
(***************************************************************************)
(* The loop morton (root) of libb-amr/morton-curve.h, under every visit of *)
(* all nodes or of all leaves: a walk of the tree with a stack of its own, *)
(* in an array of fixed size.  The body of the loop only reads the tree.   *)
(***************************************************************************)
EXTENDS TreeIndex, Sequences

CONSTANT
  Trees       \* the trees walked: sets of the nodes with children

\* A set of nodes with children: each hangs under another, none is at the last
\* level.
IsTree(T) ==
  \A p \in T : /\ p \in Positions /\ p.level < MaxDepth
               /\ p.level > 0 => Parent(p) \in T

ASSUME TreesAssumption == \A T \in Trees : IsTree(T)

VARIABLES
  parents,     \* the nodes with children
  root,        \* where the walk starts
  cur,         \* the node reached
  visited,     \* TRUE if cur came off the stack after all of its children
  walkStack,   \* what is left to visit
  visits,      \* the nodes the body has seen, in order
  done

walkVars == <<parents, root, cur, visited, walkStack, visits, done>>
tree == <<parents, root>>

Entry == [p : Index, visited : BOOLEAN]

Nodes == {Root} \cup UNION {Children(p) : p \in parents}

WalkTypeOK ==
  /\ IsTree(parents)
  /\ root \in Index /\ cur \in Index
  /\ visited \in BOOLEAN /\ done \in BOOLEAN
  /\ walkStack \in Seq(Entry)
  /\ visits \in Seq(Index)

\* Nothing is visited if no node is allocated at root.
WalkInit ==
  /\ parents \in Trees
  /\ root \in Positions
  /\ cur = root /\ visited = FALSE
  /\ walkStack = <<>> /\ visits = <<>>
  /\ done = (root \notin Nodes)

\* Faulty variant for a mutation run: c itself comes off the stack first.
Later_ParentFirst(c) ==
  [i \in 1..NChildren |->
     IF i = NChildren THEN [p |-> c, visited |-> TRUE]
     ELSE [p |-> IndexChild(c, NChildren - i), visited |-> FALSE]]

\* Faulty variant for a mutation run: the first child is stacked as well.
Later_AllChildren(c) ==
  [i \in 1..(NChildren + 1) |->
     IF i = 1 THEN [p |-> c, visited |-> TRUE]
     ELSE [p |-> IndexChild(c, NChildren - i + 1), visited |-> FALSE]]

\* What a step down leaves for later: cur itself, and its children but the
\* first, the second on top.
Later(c) ==
  [i \in 1..NChildren |->
     IF i = 1 THEN [p |-> c, visited |-> TRUE]
     ELSE [p |-> IndexChild(c, NChildren - i + 1), visited |-> FALSE]]

Down ==
  /\ ~done /\ ~visited /\ cur \in parents
  /\ walkStack' = walkStack \o Later(cur)
  /\ cur' = IndexChild(cur, 0)
  /\ UNCHANGED <<tree, visited, visits, done>>

\* The body sees a leaf when it is reached, a parent when it comes off the
\* stack; then the next node comes off it.
Visit ==
  /\ ~done /\ (visited \/ cur \notin parents)
  /\ visits' = Append(visits, cur)
  /\ IF walkStack = <<>>
     THEN done' = TRUE /\ UNCHANGED <<cur, visited, walkStack>>
     ELSE /\ cur' = walkStack[Len(walkStack)].p
          /\ visited' = walkStack[Len(walkStack)].visited
          /\ walkStack' = SubSeq(walkStack, 1, Len(walkStack) - 1)
          /\ UNCHANGED done
  /\ UNCHANGED tree

WalkNext == Down \/ Visit

WalkSpec == WalkInit /\ [][WalkNext]_walkVars
-----------------------------------------------------------------------------
(***************************************************************************)
(* Properties.                                                             *)
(***************************************************************************)
\* "The stack never holds more than TREE_NCHILDREN per level": the levels
\* between root and the node reached, so that stack [TREE_NCHILDREN *
\* BAMR_MAX_DEPTH + 1] has room at the deepest.
StackFits ==
  /\ Len(walkStack) =< NChildren * (cur.level - root.level)
  /\ Len(walkStack) =< NChildren * MaxDepth

\* Morton order: of two nodes, one inside of the other comes first; otherwise
\* the order is that of the children they are in, of the smallest node that
\* holds both, i varying fastest.
Before(p, q) ==
  \/ Covers(q, p) /\ p # q
  \/ \E a \in Nodes, b, c \in 0..(NChildren - 1) :
       /\ b < c
       /\ Covers(IndexChild(a, b), p) /\ Covers(IndexChild(a, c), q)

\* "Children come in Morton (Z) order ... a parent after all of its children":
\* what the body has seen so far is in order, hence each node once.  "Runs the
\* block once for every node of the subtree": when the loop ends the body has
\* seen all of them and no other node.
VisitsInOrder ==
  \A i, j \in 1..Len(visits) : i < j => Before(visits[i], visits[j])

SeesTheSubtree ==
  done => {visits[i] : i \in 1..Len(visits)} = {p \in Nodes : Covers(root, p)}

InMortonOrder == VisitsInOrder /\ SeesTheSubtree
=============================================================================
