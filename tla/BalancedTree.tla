---------------------------- MODULE BalancedTree ----------------------------
(***************************************************************************)
(* What tree.h promises of the tree, with nothing of how tree.c does it: a *)
(* set of cells that is a whole tree, in which two leaves that touch by a  *)
(* face, an edge or a corner differ by at most one level, changed by       *)
(*   - a refinement of one leaf, which divides that leaf and as few others *)
(*     as keep the tree balanced;                                          *)
(*   - a coarsening, which merges one family of leaves and nothing else.   *)
(***************************************************************************)
EXTENDS TreeIndex

VARIABLES
  cells,   \* the nodes of the tree, leaves or not; {} when there is no tree
  limit    \* the depth given by the user

vars == <<cells, limit>>

IsLeafOf(p, S) == Children(p) \cap S = {}
LeavesOf(S) == {p \in S : IsLeafOf(p, S)}

\* Whole: a root, and each other cell with its parent and all its siblings.
IsTree(S) ==
  /\ Root \in S
  /\ \A q \in S \ {Root} :
       /\ q.level > 0
       /\ Parent(q) \in S
       /\ Children(Parent(q)) \subseteq S

\* tree.h: "2:1 balanced: two leaves that touch, by a face, an edge or a
\* corner, differ by at most one level."
TwoToOne(S) ==
  \A p, q \in LeavesOf(S) : p.level > q.level + 1 => ~Touch(p, q)

IsBalancedTree(S) == IsTree(S) /\ TwoToOne(S)

\* The families of S that are not in R, named by their parent.
NewFamilies(R, S) == {Parent(q) : q \in S \ R}

\* S without the children of the cells of F.
Without(S, F) == S \ UNION {Children(p) : p \in F}

\* S is balanced and holds R, and no smaller tree between the two is.
IsLeastBalanced(R, S) ==
  /\ R \subseteq S
  /\ IsBalancedTree(S)
  /\ \A F \in SUBSET NewFamilies(R, S) :
       F # {} => ~IsBalancedTree(Without(S, F))

Init == cells = {} /\ limit = 1

Create ==
  /\ cells = {}
  /\ cells' = {Root} \cup Children(Root)
  /\ limit' \in 1..MaxDepth

Refine(p) ==
  /\ p.level < limit
  /\ IsLeafOf(p, cells)
  /\ Children(p) \subseteq cells'
  /\ IsLeastBalanced(cells \cup Children(p), cells')
  /\ UNCHANGED limit

Coarsen(p) ==
  /\ Children(p) \subseteq LeavesOf(cells)
  /\ cells' = cells \ Children(p)
  /\ TwoToOne(cells')
  /\ UNCHANGED limit

Destroy ==
  /\ cells # {}
  /\ cells' = {}
  /\ limit' = 1

Next == Create \/ Destroy \/ \E p \in cells : Refine(p) \/ Coarsen(p)

Spec == Init /\ [][Next]_vars
=============================================================================
