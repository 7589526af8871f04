----------------------------- MODULE BlockLoops -----------------------------
(***************************************************************************)
(* The loops over the cells of one block (libb-amr/block-loops.h), or of   *)
(* several, in three dimensions: the layout of a block, and the order in   *)
(* which each loop visits its cells.  In block_cells and block_rows the    *)
(* body may break, which has to leave the loops around it too: `stop' is   *)
(* set while the body runs and cleared in the step of the loop, which      *)
(* break skips.  The others do not allow it.  block_cells_simd runs the    *)
(* cells of a row in any order, and block_cells_threads shares out the     *)
(* rows; gpu_cells is the one of a build without offload.                  *)
(***************************************************************************)
EXTENDS Integers, SequencesExt

CONSTANTS
  Layouts,      \* model bound: m, g and v given to block_shape_aligned ()
  Tiles,        \* model bound: the sizes of tiles
  NBlocks,      \* model bound: the blocks of gpu_cells
  Threads,
  TeamRows      \* model bound: the rows the threads share

ASSUME LoopAssumption ==
  /\ \A l \in Layouts : l.m \in Nat \ {0} /\ l.g \in Nat /\ l.v \in Nat \ {0}
  /\ Tiles \subseteq Nat /\ NBlocks \in Nat \ {0}

RoundUp(n, a) == ((n + a - 1) \div a) * a

\* block_shape_aligned ().
ShapeOf(m, g, v) ==
  LET ox == RoundUp(g, v)
      nx == RoundUp(ox + m + g, v)
      ny == m + 2 * g
  IN  [m |-> m, g |-> g, ox |-> ox, nx |-> nx, sy |-> nx, sz |-> nx * ny, cells |-> nx * ny * ny]

CellIndex(s, cell) == cell.i + cell.j * s.sy + cell.k * s.sz

\* The index of an interior cell in a stored block.
StoredIndex(s, cell) ==
  cell.i - s.ox + (cell.j - s.g) * s.m + (cell.k - s.g) * s.m * s.m

VARIABLES
  loop, lanes, shape, halo, tile,   \* which loop runs, and its arguments
  cell,                         \* ci, cj, ck, and blk
  corner,                       \* tj, tk
  stop,
  pc,                           \* the body, or the loop whose step is next
  team,                         \* of each thread, the cells of its row still to run
  seen,                       \* the cells, or first cells of rows, visited so far
  broken                        \* history: the body has left by break

loopVars == <<loop, lanes, shape, halo, tile, cell, corner, stop, pc, team, seen, broken>>
given == <<loop, lanes, shape, halo, tile>>

ILo == shape.ox - halo
IHi == shape.ox + shape.m + halo
JLo == shape.g - halo
JHi == shape.g + shape.m + halo

LoopInit ==
  /\ \E l \in Layouts : shape = ShapeOf(l.m, l.g, l.v) /\ lanes = l.v
  /\ loop \in {"cells", "rows", "tiled", "simd", "threads", "gpu"}
  /\ halo \in 0..shape.g
  /\ loop = "threads" => (JHi - JLo) * (JHi - JLo) =< TeamRows
  /\ tile \in (IF loop = "tiled" THEN Tiles ELSE {0})
  /\ cell = [i |-> ILo, j |-> JLo, k |-> JLo, blk |-> 0]
  /\ corner = [j |-> JLo, k |-> JLo]
  /\ stop = 0 /\ seen = <<>> /\ broken = FALSE
  /\ pc = IF loop \in {"simd", "threads"} THEN "team" ELSE "body"
  /\ team = [t \in Threads |-> {}]

\* The body runs to its end, or to a continue.
Continue ==
  /\ pc = "body"
  /\ seen' = Append(seen, cell)
  /\ stop' = 0
  /\ IF loop # "rows" /\ cell.i + 1 < IHi
     THEN cell' = [cell EXCEPT !.i = @ + 1] /\ UNCHANGED pc
     ELSE pc' = (IF loop = "tiled" THEN "tile" ELSE "row") /\ UNCHANGED cell
  /\ UNCHANGED <<given, corner, team, broken>>

\* break leaves the loop along i, or that over rows, before its step.
Break ==
  /\ pc = "body" /\ loop \in {"cells", "rows"}
  /\ seen' = Append(seen, cell)
  /\ stop' = 1 /\ broken' = TRUE
  /\ pc' = IF loop = "cells" THEN "row" ELSE "plane"
  /\ UNCHANGED <<given, cell, corner, team>>

\* Faulty variant for a mutation run: the loop over planes goes on.
GoesOn_Rows == stop = 0 \/ pc = "plane"

\* The test of stop in the loops around the body's.
GoesOn == stop = 0

\* The next row, if there is one.
NextRow ==
  /\ pc = "row"
  /\ IF GoesOn /\ cell.j + 1 < JHi
     THEN cell' = [cell EXCEPT !.i = ILo, !.j = @ + 1] /\ pc' = "body"
     ELSE pc' = "plane" /\ UNCHANGED cell
  /\ UNCHANGED <<given, corner, stop, team, seen, broken>>

NextPlane ==
  /\ pc = "plane"
  /\ IF GoesOn /\ cell.k + 1 < JHi
     THEN cell' = [cell EXCEPT !.i = ILo, !.j = JLo, !.k = @ + 1] /\ pc' = "body"
     ELSE pc' = (IF loop = "gpu" THEN "block" ELSE "done") /\ UNCHANGED cell
  /\ UNCHANGED <<given, corner, stop, team, seen, broken>>

Side == IF tile > 0 THEN tile ELSE 1

\* The next row of a tile of block_cells_tiled, or of the next tile.
NextInTile ==
  /\ pc = "tile"
  /\ \/ /\ cell.j + 1 < corner.j + Side /\ cell.j + 1 < JHi
        /\ cell' = [cell EXCEPT !.i = ILo, !.j = @ + 1]
        /\ pc' = "body" /\ UNCHANGED corner
     \/ /\ ~(cell.j + 1 < corner.j + Side /\ cell.j + 1 < JHi)
        /\ cell.k + 1 < corner.k + Side /\ cell.k + 1 < JHi
        /\ cell' = [cell EXCEPT !.i = ILo, !.j = corner.j, !.k = @ + 1]
        /\ pc' = "body" /\ UNCHANGED corner
     \/ /\ ~(cell.j + 1 < corner.j + Side /\ cell.j + 1 < JHi)
        /\ ~(cell.k + 1 < corner.k + Side /\ cell.k + 1 < JHi)
        /\ corner' = IF corner.j + Side < JHi THEN [corner EXCEPT !.j = @ + Side]
                     ELSE [j |-> JLo, k |-> corner.k + Side]
        /\ IF corner'.k < JHi
           THEN cell' = [cell EXCEPT !.i = ILo, !.j = corner'.j, !.k = corner'.k] /\ pc' = "body"
           ELSE pc' = "done" /\ UNCHANGED cell
  /\ UNCHANGED <<given, stop, team, seen, broken>>

\* The next block of gpu_cells.
NextBlock ==
  /\ pc = "block"
  /\ IF cell.blk + 1 < NBlocks
     THEN cell' = [i |-> ILo, j |-> JLo, k |-> JLo, blk |-> cell.blk + 1] /\ pc' = "body"
     ELSE pc' = "done" /\ UNCHANGED cell
  /\ UNCHANGED <<given, corner, stop, team, seen, broken>>

LoopCells == [i : ILo..(IHi - 1), j : JLo..(JHi - 1), k : JLo..(JHi - 1),
          blk : IF loop = "gpu" THEN 0..(NBlocks - 1) ELSE {0}]
RowOf(c) == {d \in LoopCells : d.j = c.j /\ d.k = c.k /\ d.blk = c.blk}
Visited == Range(seen)
Begun == Visited \union UNION Range(team)

\* The rows that are not begun: a team takes them in any order, one thread alone
\* in the order of storage.
RowsToTake ==
  LET first == {c \in LoopCells \ Begun : c.i = ILo}
  IN  IF loop = "threads" THEN first
      ELSE {c \in first : \A d \in first : CellIndex(shape, c) =< CellIndex(shape, d)}

TakeRow(t) ==
  /\ pc = "team" /\ team[t] = {}
  /\ loop = "simd" => UNION Range(team) = {}
  /\ \E c \in RowsToTake : team' = [team EXCEPT ![t] = RowOf(c)]
  /\ UNCHANGED <<given, cell, corner, stop, pc, seen, broken>>

\* A cell of the row that a thread has, in any order; visits are noted in the
\* order of storage.
RunCell(t) ==
  /\ \E c \in team[t], n \in 1..(Len(seen) + 1) :
       /\ team' = [team EXCEPT ![t] = @ \ {c}]
       /\ \A m \in 1..Len(seen) : m >= n <=> CellIndex(shape, c) < CellIndex(shape, seen[m])
       /\ seen' = InsertAt(seen, n, c)
  /\ UNCHANGED <<given, cell, corner, stop, pc, broken>>

\* The threads wait for one another at the end of the loop.
Join ==
  /\ pc = "team" /\ RowsToTake = {} /\ UNION Range(team) = {}
  /\ pc' = "done"
  /\ UNCHANGED <<given, cell, corner, stop, team, seen, broken>>

LoopNext ==
  \/ Continue \/ Break \/ NextRow \/ NextPlane \/ NextInTile \/ NextBlock
  \/ \E t \in Threads : TakeRow(t) \/ RunCell(t)
  \/ Join

LoopSpec == LoopInit /\ [][LoopNext]_loopVars
-----------------------------------------------------------------------------
ToVisit == IF loop = "rows" THEN {c \in LoopCells : c.i = ILo} ELSE LoopCells
Interior == [i : shape.ox..(shape.ox + shape.m - 1),
             j : shape.g..(shape.g + shape.m - 1), k : shape.g..(shape.g + shape.m - 1)]

\* The Reals of a visit: a cell's, or a row's.
Length == IF loop = "rows" THEN IHi - ILo ELSE 1
First(n) == seen[n].blk * shape.cells + CellIndex(shape, seen[n])

\* "One cell at a time, in storage order", "break leaves the block": no Real is
\* visited twice and none outside of the blocks, in the order of storage but for
\* tiles (and noted in it when threads run them); all of the cells are visited unless the body breaks, and none after it
\* has.  "Every interior row starts on a V boundary", and the interior fills a
\* stored block.
EachCellOnce ==
  /\ \A n \in 1..Len(seen) : First(n) >= 0 /\ First(n) + Length =< (IF loop = "gpu" THEN NBlocks ELSE 1) * shape.cells
  /\ \A n \in 1..(Len(seen) - 1) :
       IF loop = "tiled" THEN \A k \in 1..n : First(k) # First(n + 1)
       ELSE First(n) + Length =< First(n + 1)
  /\ broken => pc # "body"
  /\ pc = "done" /\ ~broken =>
       /\ Visited = ToVisit
       /\ \A c \in Interior : c.i = shape.ox => CellIndex(shape, c) % lanes = 0
       /\ {StoredIndex(shape, c) : c \in Interior} = 0..(shape.m * shape.m * shape.m - 1)
=============================================================================
