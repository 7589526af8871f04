------------------------------- MODULE Raster -------------------------------
(***************************************************************************)
(* The rasters of libflow-network: cells of a rectangle and one ring of    *)
(* ghost cells around it.  liballoc/grid.c keeps two rings: the elevations *)
(* of the outer one are never read, and its tags, read beside those of a   *)
(* ghost cell, are zero.  A cell is <<x, y>>, a direction 0..7 as in       *)
(* flow-utils.h, NoDir the empty byte.                                     *)
(* Elevations are integers or NaN.  D8 () reads no state and is an         *)
(* operator here.                                                          *)
(***************************************************************************)
EXTENDS Integers, FiniteSets

CONSTANTS Width, Height,   \* of the domain, ghosts not counted
          NaN              \* the elevation of a cell without data

ASSUME RasterAssumption == Width \in Nat \ {0} /\ Height \in Nat \ {0}

Inside == (0 .. Width - 1) \X (0 .. Height - 1)
Halo   == (-1 .. Width) \X (-1 .. Height)

OnBoundary(p) == p[1] \in {0, Width - 1} \/ p[2] \in {0, Height - 1}

(* the order of the loops over y, then over x *)
ScanIndex(p) == p[2] * Width + p[1]
CellAt(i) == <<i % Width, i \div Width>>

Dirs  == 0 .. 7
NoDir == 8

Straight == {0, 2, 4, 6}
OffsetX == [c \in Dirs |-> IF c \in {0, 1, 7} THEN 1 ELSE IF c \in {2, 6} THEN 0 ELSE -1]
OffsetY == [c \in Dirs |-> IF c \in {1, 2, 3} THEN 1 ELSE IF c \in {0, 4} THEN 0 ELSE -1]

Neighbor(p, c) == <<p[1] + OffsetX[c], p[2] + OffsetY[c]>>
Opposite(c) == (c + 4) % 8

Around(p) == {Neighbor(p, c) : c \in Dirs}

(* Slopes are drops over 1 or sqrt (2): twice their squares compare alike. *)
Slope2(drop, c) == drop * drop * (IF c \in Straight THEN 2 ELSE 1)

(* the first of the steepest directions down, NoDir if none goes down *)
\* Faulty variant for a mutation run: a level way counts as one down.
Steepest_Level(drop) ==
    LET down == {c \in DOMAIN drop : drop[c] >= 0}
        best == {c \in down : \A d \in down : Slope2(drop[c], c) >= Slope2(drop[d], d)}
    IN  IF down = {} THEN NoDir ELSE CHOOSE c \in best : \A d \in best : c <= d

Steepest(drop) ==
    LET down == {c \in DOMAIN drop : drop[c] > 0}
        best == {c \in down : \A d \in down : Slope2(drop[c], c) >= Slope2(drop[d], d)}
    IN  IF down = {} THEN NoDir ELSE CHOOSE c \in best : \A d \in best : c <= d

(* where D8 () drains cell p of the domain *)
DownhillDir(e, p) ==
    LET known == {c \in Dirs : e[Neighbor(p, c)] # NaN}
    IN  IF e[p] = NaN THEN NoDir
        ELSE Steepest([c \in known |-> e[p] - e[Neighbor(p, c)]])

D8(e) == [p \in Inside |-> DownhillDir(e, p)]

(* the bits invDir [] of every cell, ghosts too, as D8 () and the fallback of
   Garbrecht_Martz () set them beside dir [] *)
InvDirs(dir) ==
    [q \in Halo |-> {c \in Dirs : LET p == Neighbor(q, c) IN
                        p \in Inside /\ dir[p] = Opposite(c)}]
=============================================================================
