----------------------------- MODULE BlockGhosts -----------------------------
(***************************************************************************)
(* The cells of libb-amr/block-ghosts.c.  A node stores BlockM cells along *)
(* each axis and no ghosts: block_gather () copies them into a scratch     *)
(* block with ghosts layers around, each ghost cell from the node that     *)
(* holds it, or from a coarser one.  This module says which stored cell    *)
(* every scratch cell is copied from; BlockValues gives them values.       *)
(***************************************************************************)
EXTENDS TreeIndex

CONSTANT
  BlockM       \* cells per side of a block, tree_get_block_m ()

\* Cells are halved into a parent's and quartered into ghosts.
ASSUME BlockMAssumption == BlockM \in Nat \ {0} /\ BlockM % 2 = 0

Cells == [Axes -> 0..(BlockM - 1)]
Scratch(g) == [Axes -> -g..(BlockM + g - 1)]

\* The region of the scratch block a cell lies in: 0 along every axis for the
\* block's own cells, or else a face, an edge or a corner.
Dir(x) ==
  [a \in Axes |-> IF x[a] < 0 THEN -1 ELSE IF x[a] < BlockM THEN 0 ELSE 1]

\* Along one axis: x in the block in direction d, or reflected in the block
\* itself, then in the cells of the source, sh levels coarser.
SourceCell(x, d, mirror, off, sh) ==
  LET xl == IF ~mirror THEN x - d * BlockM
            ELSE IF d < 0 THEN -1 - x ELSE 2 * BlockM - 1 - x
  IN  (off + xl) \div 2^sh

\* Along which axes the block in direction d would be outside of the domain.
Mirrored(p, d) == [a \in Axes |-> p.ijk[a] + d[a] \notin 0..(2^p.level - 1)]

\* Faulty variant for a mutation run: across a wall, the block itself.
InDirection_OwnBlock(p, d) ==
  IF \E a \in Axes : Mirrored(p, d)[a] THEN p
  ELSE [p EXCEPT !.ijk = [a \in Axes |-> @[a] + d[a]]]

\* The index in direction d, the components across a wall left out.
InDirection(p, d) ==
  [p EXCEPT !.ijk = [a \in Axes |-> IF Mirrored(p, d)[a] THEN @[a] ELSE @[a] + d[a]]]

\* The node of the set at q, or the nearest coarser one covering it.
Holder(N, q) ==
  CHOOSE a \in N : /\ Covers(a, q)
                   /\ \A b \in N : Covers(b, q) => b.level =< a.level

\* Where q's cells start in those of the holder b, in cells of q's level.
Offset(q, b) ==
  [a \in Axes |-> LET sh == q.level - b.level IN
                  q.ijk[a] * BlockM - (q.ijk[a] \div 2^sh) * BlockM * 2^sh]

\* block_gather (): the stored cell, of a node of N, that cell x of the scratch
\* block around p is a copy of.  Rows that run along the first axis in both
\* are copied as they are, the others cell by cell.
GatherCell(N, p, x) ==
  LET d   == Dir(x)
      q   == InDirection(p, d)
      b   == Holder(N, q)
      sh  == q.level - b.level
      mirror == Mirrored(p, d)
      run == ~mirror[1] /\ sh = 0
  IN  IF \A a \in Axes : d[a] = 0 THEN [node |-> p, cell |-> x]
      ELSE [node |-> b,
            cell |-> [a \in Axes |->
                        IF a = 1 /\ run THEN x[a] - d[a] * BlockM
                        ELSE SourceCell(x[a], d[a], mirror[a], Offset(q, b)[a], sh)]]

(***************************************************************************)
(* What block-ghosts.h says a ghost cell's value is, in terms of positions *)
(* in the domain: the cell itself, reflected back inside if it is outside; *)
(* of the node of p's level that holds it; or else of the finest coarser   *)
(* one.                                                                    *)
(***************************************************************************)
\* The position of cell x of p, in cells of p's level.
Position(p, x) == [a \in Axes |-> p.ijk[a] * BlockM + x[a]]

Reflected(X, l) ==
  LET n == BlockM * 2^l IN
  [a \in Axes |-> IF X[a] < 0 THEN -1 - X[a]
                  ELSE IF X[a] >= n THEN 2 * n - 1 - X[a] ELSE X[a]]

GhostCell(N, p, x) ==
  LET X == Reflected(Position(p, x), p.level)
      b == Holder(N, [level |-> p.level, ijk |-> [a \in Axes |-> X[a] \div BlockM]])
  IN  [node |-> b,
       cell |-> [a \in Axes |-> X[a] \div 2^(p.level - b.level) - b.ijk[a] * BlockM]]
=============================================================================
