----------------------------- MODULE TreeIndex -----------------------------
(***************************************************************************)
(* The indices of libb-amr: a node is named by its level and its integer   *)
(* position along each axis (Index in tree.h), never by a pointer.  The    *)
(* operators here are the pure index arithmetic that tree.c, adapt.c and   *)
(* block-ghosts.c are written with.  The compile-time 'dimension' of the   *)
(* code is the constant Dimension; its axes i, j, k are 1, 2, 3.           *)
(***************************************************************************)
EXTENDS Integers

CONSTANTS
  Dimension,   \* 1, 2 or 3: a binary tree, a quadtree or an octree
  MaxDepth     \* BAMR_MAX_DEPTH: the deepest level the arrays have room for

ASSUME DimensionAssumption == Dimension \in 1..3

\* 2^level is the int 1 << level, so the depth stays below the width of int.
ASSUME MaxDepthAssumption == MaxDepth \in 1..30

Axes == 1..Dimension
Levels == 0..MaxDepth

\* An index may lie outside of the domain, and even beyond the last level.
Index == [level : Nat, ijk : [Axes -> Int]]

\* Where a node may be.
Positions == UNION {[level : {l}, ijk : [Axes -> 0..(2^l - 1)]] : l \in Levels}

Root == [level |-> 0, ijk |-> [a \in Axes |-> 0]]

(***************************************************************************)
(* Children.  Bit a - 1 of the child number c steps along axis a.          *)
(***************************************************************************)
BitWeight(a) == CASE a = 1 -> 1 [] a = 2 -> 2 [] a = 3 -> 4

NChildren == 2 * BitWeight(Dimension)

IndexChild(p, c) ==
  [level |-> p.level + 1,
   ijk   |-> [a \in Axes |-> 2 * p.ijk[a] + ((c \div BitWeight(a)) % 2)]]

Children(p) == {IndexChild(p, c) : c \in 0..(NChildren - 1)}

\* i >> 1 is a division that rounds down, as \div does.
Parent(q) ==
  [level |-> q.level - 1, ijk |-> [a \in Axes |-> q.ijk[a] \div 2]]

(***************************************************************************)
(* The box of radius 1 around an index: 3^Dimension indices of its level,  *)
(* the index itself being the middle one.                                  *)
(***************************************************************************)
BoxWeight(a) == CASE a = 1 -> 1 [] a = 2 -> 3 [] a = 3 -> 9

BoxSize == 3 * BoxWeight(Dimension)

IndexInBox(p, m) ==
  [level |-> p.level,
   ijk   |-> [a \in Axes |-> p.ijk[a] + ((m \div BoxWeight(a)) % 3) - 1]]

\* Faulty variant for a mutation run: the neighbours across a face only.
NeighborSlots_FacesOnly ==
  {m \in 0..(BoxSize - 1) :
     \E a \in Axes : m - BoxSize \div 2 \in {-BoxWeight(a), BoxWeight(a)}}

\* The positions neighbors_of () visits, in the order of the numbers.
NeighborSlots == (0..(BoxSize - 1)) \ {BoxSize \div 2}

Neighbors(p) == {IndexInBox(p, m) : m \in NeighborSlots}

Inside(q) == \A a \in Axes : q.ijk[a] >= 0 /\ q.ijk[a] < 2^q.level

(***************************************************************************)
(* Geometry, independent of the loops above: the closed cube of an index   *)
(* in units of the finest of two levels, and cubes that share a point.     *)
(***************************************************************************)
Scale(p, l) == 2^(l - p.level)

Touch(p, q) ==
  LET l == IF p.level > q.level THEN p.level ELSE q.level IN
  \A a \in Axes :
    /\ p.ijk[a] * Scale(p, l) =< (q.ijk[a] + 1) * Scale(q, l)
    /\ q.ijk[a] * Scale(q, l) =< (p.ijk[a] + 1) * Scale(p, l)

\* a is q, or an ancestor of q.
Covers(a, q) ==
  /\ a.level =< q.level
  /\ \A x \in Axes : a.ijk[x] = q.ijk[x] \div 2^(q.level - a.level)
=============================================================================
