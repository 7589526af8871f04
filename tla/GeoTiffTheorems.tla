-------------------------- MODULE GeoTiffTheorems --------------------------
(***************************************************************************)
(* The raster that geotiff.c puts together is the image, for images and    *)
(* tiles of any dimensions and strips of any height, wherever a tile ends  *)
(* beyond the image; and what is asked of the raster is that of the place  *)
(* it was asked for.                                                       *)
(*                                                                         *)
(* A pixel is that of one tile, the one its row and column divide into,    *)
(* and the place it has in what was decoded is the one the writer gave it: *)
(* the rows there are as far apart as a tile is wide, whatever of it is    *)
(* skipped.  The tiles that came are those before 'tile' (Covered), and    *)
(* behind the last of them there is none.                                  *)
(***************************************************************************)
EXTENDS GeoTiff, TLAPS

-----------------------------------------------------------------------------
(* Quotients.                                                              *)

LEMMA QuotientIs ==
  ASSUME NEW x \in Int, NEW y \in Nat \ {0}, NEW q \in Int, NEW r \in 0..(y - 1), x = y * q + r
  PROVE  x \div y = q /\ x % y = r
OBVIOUS

LEMMA QuotientOf ==
  ASSUME NEW x \in Int, NEW y \in Nat \ {0}
  PROVE  /\ x \div y \in Int /\ x % y \in 0..(y - 1)
         /\ x = y * (x \div y) + (x % y)
OBVIOUS

\* Of two products with one factor, the larger has the larger other factor.
LEMMA FactorOrder ==
  ASSUME NEW y \in Nat \ {0}, NEW q \in Int, NEW r \in Int
  PROVE  /\ y * q < y * r => q < r
         /\ q =< r => y * q =< y * r
         /\ y * (r + 1) = y * r + y
OBVIOUS

\* What is less than n is in one of the pieces of n.
LEMMA PieceOf ==
  ASSUME NEW n \in Nat \ {0}, NEW d \in Nat \ {0}, NEW x \in 0..(n - 1)
  PROVE  /\ Ceiling(n, d) \in Nat \ {0}
         /\ x \div d \in 0..(Ceiling(n, d) - 1)
<1>1. PICK c \in Int : c = Ceiling(n, d) /\ d * c > n - 1
  <2>1. n + d - 1 \in Int
    OBVIOUS
  <2>2. PICK c \in Int, r \in 0..(d - 1) : c = Ceiling(n, d) /\ n + d - 1 = d * c + r
    BY <2>1, QuotientOf DEF Ceiling
  <2>3. d * c \in Int
    OBVIOUS
  <2>4. QED
    BY <2>2, <2>3
<1>2. PICK q \in Int, r \in 0..(d - 1) : q = x \div d /\ x = d * q + r
  BY QuotientOf
<1>3. d * q \in Int /\ d * c \in Int
  OBVIOUS
<1>4. d * q < d * c
  BY <1>1, <1>2, <1>3
<1>5. q < c
  BY <1>4, FactorOrder
<1>6. q >= 0
  <2>1. d * (-1) < d * (q + 1) - d
    BY <1>2, <1>3, FactorOrder
  <2>2. d * (-1) < d * q
    BY <2>1, <1>3, FactorOrder
  <2>3. QED
    BY <2>2, FactorOrder
<1>7. QED
  BY <1>1, <1>2, <1>5, <1>6

-----------------------------------------------------------------------------
(* The raster.                                                             *)

TypeOK ==
  /\ file.dim \in Dimensions /\ file.tdim \in Dimensions
  /\ file.image \in [Pixels(file.dim) -> Nat]
  /\ Coordinates[file.dim] \subseteq Int \X Int
  /\ tile \in (0..Tiles[1]) \X (0..(Tiles[2] - 1))
  /\ pixels = [p \in Pixels(file.dim) |-> pixels[p]]
  /\ read \in {"details", "tiles", "failed", "done", "closed"}

\* The tile of a pixel has come.
Covered(p) ==
  LET j == (p \div file.dim[2]) \div Rows
      i == (p % file.dim[2]) \div Columns
  IN  j < tile[1] \/ (j = tile[1] /\ i < tile[2])

PixelsInPlace ==
  /\ \A p \in Pixels(file.dim) : pixels[p] \in {NoValue, file.image[p]}
  /\ read # "closed" => \A p \in Pixels(file.dim) : Covered(p) => pixels[p] = file.image[p]
  /\ read = "done" => tile[1] = Tiles[1]

RasterInv ==
  /\ TypeOK
  /\ ~file.hdiff => PixelsInPlace /\ ElevationInPlace /\ WindowInPlace

LEMMA Sides ==
  ASSUME TypeOK
  PROVE  /\ file.dim[1] \in Nat \ {0} /\ file.dim[2] \in Nat \ {0}
         /\ Rows \in Nat \ {0} /\ Columns \in Nat \ {0}
         /\ file.dim[1] * file.dim[2] \in Nat
         /\ tile = <<tile[1], tile[2]>> /\ tile[1] \in Nat /\ tile[2] \in Nat
         /\ Tiles[1] = Ceiling(file.dim[1], Rows) /\ Tiles[2] = Ceiling(file.dim[2], Columns)
         /\ Top \in Nat /\ Left \in Nat
<1>1. /\ file.dim[1] \in Nat \ {0} /\ file.dim[2] \in Nat \ {0}
      /\ Rows \in Nat \ {0} /\ Columns \in Nat \ {0}
  BY DEF TypeOK, Dimensions, Rows, Columns
<1>2. Tiles[1] = Ceiling(file.dim[1], Rows) /\ Tiles[2] = Ceiling(file.dim[2], Columns)
  BY DEF Tiles
<1>3. tile = <<tile[1], tile[2]>> /\ tile[1] \in Nat /\ tile[2] \in Nat
  BY DEF TypeOK
<1>4. \A m, n \in Nat : m * n \in Nat
  OBVIOUS
<1>5. QED
  BY <1>1, <1>2, <1>3, <1>4 DEF Top, Left

\* A pixel, by its row and column.
LEMMA PixelPlace ==
  ASSUME TypeOK, NEW p \in Pixels(file.dim)
  PROVE  /\ p \div file.dim[2] \in 0..(file.dim[1] - 1) /\ p % file.dim[2] \in 0..(file.dim[2] - 1)
         /\ p = (p \div file.dim[2]) * file.dim[2] + (p % file.dim[2])
<1>1. PICK H \in Nat \ {0}, W \in Nat \ {0} : H = file.dim[1] /\ W = file.dim[2]
  BY Sides
<1>2. p \in Int /\ 0 =< p /\ p < W * H /\ W * H \in Int
  BY <1>1 DEF Pixels
<1>3. PICK h \in Int, w \in 0..(W - 1) : h = p \div W /\ w = p % W /\ p = W * h + w
  BY <1>2, QuotientOf
<1>4. W * h \in Int
  OBVIOUS
<1>5. h < H
  <2>1. W * h < W * H
    BY <1>2, <1>3, <1>4
  <2>2. QED
    BY <2>1, FactorOrder
<1>6. h >= 0
  <2>1. W * (-1) = -W /\ W * (h + 1) = W * h + W
    BY FactorOrder
  <2>2. W * (-1) < W * h
    BY <1>2, <1>3, <1>4, <2>1
  <2>3. QED
    BY <2>2, FactorOrder
<1>7. h * W + w = p
  BY <1>3, <1>4
<1>8. h \in 0..(H - 1)
  BY <1>5, <1>6
<1>9. (p \div W) * W + (p % W) = p
  BY <1>3, <1>7
<1>10. QED
  BY <1>1, <1>3, <1>8, <1>9

\* And the other way round.
LEMMA PlaceIsPixel ==
  ASSUME TypeOK, NEW h \in 0..(file.dim[1] - 1), NEW w \in 0..(file.dim[2] - 1)
  PROVE  h * file.dim[2] + w \in Pixels(file.dim)
<1>1. PICK H \in Nat \ {0}, W \in Nat \ {0} : H = file.dim[1] /\ W = file.dim[2]
  BY Sides
<1>2. h \in Nat /\ h + 1 =< H /\ w \in Nat /\ w < W
  BY <1>1
<1>3. W * (h + 1) =< W * H /\ W * (h + 1) = W * h + W
  BY <1>2, FactorOrder
<1>4. W * h = h * W /\ W * H = H * W /\ h * W \in Nat /\ H * W \in Nat
  BY <1>2
<1>5. h * W + w \in 0..(H * W - 1)
  BY <1>2, <1>3, <1>4
<1>6. QED
  BY <1>1, <1>5 DEF Pixels

-----------------------------------------------------------------------------
(* A tile.                                                                 *)

\* Between the ends of the k-th piece of n.
PieceEnds(n, d, k, x, last) ==
  n \in Nat \ {0} /\ d \in Nat \ {0} /\ k \in Nat /\ x \in 0..(n - 1) /\ last = Lesser((k + 1) * d, n)

LEMMA InsidePiece ==
  ASSUME NEW n, NEW d, NEW k, NEW x, NEW last, PieceEnds(n, d, k, x, last)
  PROVE  x \in (k * d)..(last - 1) <=> x \div d = k
<1>1. n \in Nat \ {0} /\ d \in Nat \ {0} /\ k \in Nat /\ x \in Nat /\ x < n /\ last = Lesser((k + 1) * d, n)
  BY DEF PieceEnds
<1>2. PICK q \in Int, r \in 0..(d - 1) : q = x \div d /\ x = d * q + r
  <2>1. PICK D \in Nat \ {0}, X \in Int : D = d /\ X = x
    BY <1>1
  <2>2. PICK q \in Int, r \in 0..(D - 1) : q = X \div D /\ X = D * q + r
    BY QuotientOf
  <2>3. QED
    BY <2>1, <2>2
<1>3. d * (k + 1) = d * k + d /\ k * d = d * k /\ (k + 1) * d = d * (k + 1) /\ d * k \in Int
  BY <1>1, FactorOrder
<1>4. x \in (k * d)..(last - 1) <=> d * k =< x /\ x < d * k + d
  BY <1>1, <1>3 DEF Lesser
<1>5. ASSUME d * k =< x, x < d * k + d PROVE q = k
  <2>1. PICK s \in 0..(d - 1) : x = d * k + s
    <3>1. x - d * k \in 0..(d - 1) /\ x = d * k + (x - d * k)
      BY <1>1, <1>3, <1>5
    <3>2. QED
      BY <3>1
  <2>2. x \div d = k
    BY <1>1, <2>1, QuotientIs
  <2>3. QED
    BY <1>2, <2>2
<1>6. q = k => d * k =< x /\ x < d * k + d
  BY <1>1, <1>2, <1>3
<1>7. QED
  BY <1>2, <1>4, <1>5, <1>6

\* The pixels of a tile are those whose row and column divide into it.
LEMMA InsideTile ==
  ASSUME TypeOK, NEW h \in 0..(file.dim[1] - 1), NEW w \in 0..(file.dim[2] - 1)
  PROVE  /\ h \in Top..(InTile(1) - 1) <=> h \div Rows = tile[1]
         /\ w \in Left..(InTile(2) - 1) <=> w \div Columns = tile[2]
<1>1. /\ file.dim[1] \in Nat \ {0} /\ file.dim[2] \in Nat \ {0}
      /\ Rows \in Nat \ {0} /\ Columns \in Nat \ {0} /\ tile[1] \in Nat /\ tile[2] \in Nat
  BY Sides
<1>2. InTile(1) = Lesser((tile[1] + 1) * Rows, file.dim[1]) /\ InTile(2) = Lesser((tile[2] + 1) * Columns, file.dim[2])
  BY DEF InTile, Rows, Columns
<1>3. /\ PieceEnds(file.dim[1], Rows, tile[1], h, InTile(1))
      /\ PieceEnds(file.dim[2], Columns, tile[2], w, InTile(2))
  BY <1>1, <1>2 DEF PieceEnds
<1>4. h \in (tile[1] * Rows)..(InTile(1) - 1) <=> h \div Rows = tile[1]
  BY <1>3, InsidePiece
<1>5. w \in (tile[2] * Columns)..(InTile(2) - 1) <=> w \div Columns = tile[2]
  BY <1>3, InsidePiece
<1>6. QED
  BY <1>4, <1>5 DEF Top, Left

\* Rows are as far apart as a tile is wide, and a pixel is where the writer put it.
LEMMA FloatIsPixel ==
  ASSUME TypeOK, ~file.hdiff, NEW h \in 0..(file.dim[1] - 1), NEW w \in 0..(file.dim[2] - 1),
         h \in Top..(InTile(1) - 1), w \in Left..(InTile(2) - 1)
  PROVE  Float(h, w) = file.image[h * file.dim[2] + w]
<1>1. /\ Columns \in Nat \ {0} /\ Top \in Nat /\ Left \in Nat /\ tile[2] \in Nat
      /\ file.dim[1] \in Nat /\ file.dim[2] \in Nat
  BY Sides
<1>2. /\ InTile(2) = Lesser((tile[2] + 1) * Columns, file.dim[2])
      /\ (tile[2] + 1) * Columns = Left + Columns
  <2>1. InTile(2) = Lesser((tile[2] + 1) * Columns, file.dim[2])
    BY DEF InTile, Columns
  <2>2. \A k, n \in Nat : (k + 1) * n = k * n + n
    OBVIOUS
  <2>3. QED
    BY <1>1, <2>1, <2>2 DEF Left
<1>3. Stride = Columns
  BY <1>1, <1>2 DEF Stride, Lesser
<1>4. PICK a \in Nat, b \in 0..(Columns - 1) : h = Top + a /\ w = Left + b
  <2>1. h - Top \in Nat /\ w - Left \in 0..(Columns - 1)
    BY <1>1, <1>2 DEF Lesser
  <2>2. h = Top + (h - Top) /\ w = Left + (w - Left)
    BY <1>1
  <2>3. QED
    BY <2>1, <2>2
<1>5. PICK n \in Int : n = (h - Top) * Stride + (w - Left) /\ n = Columns * a + b
  <2>1. h - Top = a /\ w - Left = b
    BY <1>1, <1>4
  <2>2. a * Columns + b = Columns * a + b /\ a * Columns + b \in Int
    BY <1>1
  <2>3. QED
    BY <1>3, <2>1, <2>2
<1>6. n \div Columns = a /\ n % Columns = b
  <2>1. PICK C \in Nat \ {0} : C = Columns
    BY <1>1
  <2>2. n = C * a + b /\ b \in 0..(C - 1)
    BY <1>5, <2>1
  <2>3. n \div C = a /\ n % C = b
    BY <2>2, QuotientIs
  <2>4. QED
    BY <2>1, <2>3
<1>7. SampleWritten(n) = PixelWritten(h, w)
  BY <1>4, <1>6 DEF SampleWritten
<1>8. Float(h, w) = SampleWritten(n)
  BY <1>5 DEF Float
<1>9. QED
  BY <1>1, <1>7, <1>8 DEF PixelWritten

-----------------------------------------------------------------------------
(* Steps.                                                                  *)

\* The file stays what it is, and what is said of it.
LEMMA FileStays ==
  ASSUME UNCHANGED file
  PROVE  /\ Rows' = Rows /\ Columns' = Columns /\ Tiles' = Tiles
         /\ Pixels(file.dim)' = Pixels(file.dim)
BY DEF Rows, Columns, Tiles, Pixels, Ceiling

\* What came with the tile that was next: the pixels before, and its own.
LEMMA CoveredNext ==
  ASSUME TypeOK, UNCHANGED file, tile[1] < Tiles[1], tile' = NextTile, NEW p \in Pixels(file.dim)
  PROVE  Covered(p)' => \/ Covered(p)
                        \/ /\ (p \div file.dim[2]) \div Rows = tile[1]
                           /\ (p % file.dim[2]) \div Columns = tile[2]
<1>1. PICK j \in Int, i \in Int : /\ j = (p \div file.dim[2]) \div Rows
                                  /\ i = (p % file.dim[2]) \div Columns
                                  /\ 0 =< i /\ i < Tiles[2]
  <2>1. PICK H \in Nat \ {0}, W \in Nat \ {0}, R \in Nat \ {0}, C \in Nat \ {0} :
          H = file.dim[1] /\ W = file.dim[2] /\ R = Rows /\ C = Columns
    BY Sides
  <2>2. PICK h \in 0..(H - 1), w \in 0..(W - 1) : h = p \div W /\ w = p % W
    BY <2>1, PixelPlace
  <2>3. h \div R \in Int
    BY QuotientOf
  <2>4. Ceiling(W, C) \in Nat /\ w \div C \in 0..(Ceiling(W, C) - 1)
    BY PieceOf
  <2>5. Tiles[2] = Ceiling(W, C)
    BY <2>1, Sides
  <2>6. QED
    BY <2>1, <2>2, <2>3, <2>4, <2>5
<1>2. Rows' = Rows /\ Columns' = Columns
  BY FileStays
<1>3. Covered(p) <=> j < tile[1] \/ (j = tile[1] /\ i < tile[2])
  BY <1>1 DEF Covered
<1>4. Covered(p)' <=> j < tile'[1] \/ (j = tile'[1] /\ i < tile'[2])
  BY <1>1, <1>2 DEF Covered
<1>5. tile[1] \in Nat /\ tile[2] \in Nat /\ Tiles[2] \in Int
  <2>1. PICK W \in Nat \ {0}, C \in Nat \ {0} : W = file.dim[2] /\ C = Columns /\ Tiles[2] = Ceiling(W, C)
    BY Sides
  <2>2. Ceiling(W, C) \in Int
    BY QuotientOf DEF Ceiling
  <2>3. QED
    BY <2>1, <2>2, Sides
<1>6. CASE tile[2] + 1 < Tiles[2]
  BY <1>1, <1>3, <1>4, <1>5, <1>6 DEF NextTile
<1>7. CASE ~(tile[2] + 1 < Tiles[2])
  BY <1>1, <1>3, <1>4, <1>5, <1>7 DEF NextTile
<1>8. QED
  BY <1>6, <1>7

LEMMA TilesPositive ==
  ASSUME file.dim \in Dimensions, file.tdim \in Dimensions
  PROVE  Tiles[1] \in Nat \ {0} /\ Tiles[2] \in Nat \ {0}
<1>1. PICK H \in Nat \ {0}, W \in Nat \ {0}, R \in Nat \ {0}, C \in Nat \ {0} :
        H = file.dim[1] /\ W = file.dim[2] /\ R = Rows /\ C = Columns
  BY DEF Dimensions, Rows, Columns
<1>2. 0 \in 0..(H - 1) /\ 0 \in 0..(W - 1)
  OBVIOUS
<1>3. Ceiling(H, R) \in Nat \ {0} /\ Ceiling(W, C) \in Nat \ {0}
  BY <1>2, PieceOf
<1>4. QED
  BY <1>1, <1>3 DEF Tiles

LEMMA InitRasterInv ==
  ASSUME ReaderInit
  PROVE  RasterInv
<1>1. PICK picture \in Pictures, tdim \in TileDims, strips \in BOOLEAN :
        /\ file.dim = picture.dim /\ file.image = picture.image
        /\ file.tdim = IF strips THEN <<tdim[1], picture.dim[2]>> ELSE tdim
  <2>1. PICK picture \in Pictures, header \in Headers,
             tdim \in TileDims, strips \in BOOLEAN, hdiff \in BOOLEAN :
          file = [dim |-> picture.dim, image |-> picture.image,
                  strips |-> strips, hdiff |-> hdiff, header |-> header,
                  tdim |-> IF strips THEN <<tdim[1], picture.dim[2]>> ELSE tdim]
    BY DEF ReaderInit
  <2>2. /\ file.dim = picture.dim /\ file.image = picture.image
        /\ file.tdim = IF strips THEN <<tdim[1], picture.dim[2]>> ELSE tdim
    BY <2>1
  <2>3. QED
    BY <2>2
<1>2. /\ picture.dim \in Dimensions /\ picture.image \in [Pixels(picture.dim) -> Nat]
      /\ Coordinates[picture.dim] \subseteq Int \X Int /\ tdim \in Dimensions
  BY ImageAssumption
<1>3. file.dim \in Dimensions /\ file.tdim \in Dimensions
  BY <1>1, <1>2 DEF Dimensions
<1>4. tile = <<0, 0>> /\ read = "details" /\ pixels = [p \in Pixels(file.dim) |-> NoValue] /\ answer = NoAnswer
  BY DEF ReaderInit
<1>5. TypeOK
  BY <1>1, <1>2, <1>3, <1>4, TilesPositive DEF TypeOK
<1>6. \A p \in Pixels(file.dim) : ~Covered(p)
  <2>1. TAKE p \in Pixels(file.dim)
  <2>2. PICK W \in Nat \ {0}, H \in Nat \ {0}, R \in Nat \ {0}, C \in Nat \ {0} :
          H = file.dim[1] /\ W = file.dim[2] /\ R = Rows /\ C = Columns
    BY <1>5, Sides
  <2>3. PICK h \in 0..(H - 1), w \in 0..(W - 1) : h = p \div W /\ w = p % W
    BY <1>5, <2>2, PixelPlace
  <2>4. Ceiling(H, R) \in Nat /\ Ceiling(W, C) \in Nat /\ h \div R \in 0..(Ceiling(H, R) - 1) /\ w \div C \in 0..(Ceiling(W, C) - 1)
    BY PieceOf
  <2>5. QED
    BY <1>4, <2>2, <2>3, <2>4 DEF Covered
<1>7. PixelsInPlace
  BY <1>4, <1>6 DEF PixelsInPlace
<1>8. ElevationInPlace /\ WindowInPlace
  BY <1>4 DEF ElevationInPlace, WindowInPlace, NoAnswer
<1>9. QED
  BY <1>5, <1>7, <1>8 DEF RasterInv

\* A step that leaves the raster, the tile and the file alone.
LEMMA RasterStays ==
  ASSUME RasterInv, UNCHANGED <<file, tile, pixels>>,
         read' \in {"details", "tiles", "failed", "done", "closed"},
         ~file.hdiff => /\ read' # "closed" => read # "closed"
                        /\ read' = "done" => tile[1] = Tiles[1]
                        /\ ElevationInPlace' /\ WindowInPlace'
  PROVE  RasterInv'
<1>1. TypeOK
  BY DEF RasterInv
<1>2. TypeOK'
  BY <1>1, FileStays DEF TypeOK
<1>3. \A p \in Pixels(file.dim) : Covered(p)' <=> Covered(p)
  BY FileStays DEF Covered
<1>4. ASSUME ~file.hdiff PROVE PixelsInPlace'
  BY <1>3, <1>4, FileStays DEF PixelsInPlace, RasterInv
<1>5. QED
  BY <1>2, <1>4 DEF RasterInv

\* What is asked for has its answer of the file alone.
LEMMA AnswerStays ==
  ASSUME RasterInv, UNCHANGED <<file, answer>>, ~file.hdiff
  PROVE  ElevationInPlace' /\ WindowInPlace'
<1>1. ElevationInPlace /\ WindowInPlace
  BY DEF RasterInv
<1>2. \A x, y : Written(x, y)' = Written(x, y)
  BY DEF Written, InImage
<1>3. QED
  BY <1>1, <1>2 DEF ElevationInPlace, WindowInPlace

LEMMA DetailsStep ==
  ASSUME RasterInv, Details
  PROVE  RasterInv'
<1>1. /\ UNCHANGED <<file, tile, pixels, answer>>
      /\ read = "details" /\ read' \in {"tiles", "failed"}
  BY DEF Details
<1>2. QED
  BY <1>1, AnswerStays, RasterStays

LEMMA FailStep ==
  ASSUME RasterInv, Fail
  PROVE  RasterInv'
<1>1. /\ UNCHANGED <<file, tile, pixels, answer>>
      /\ read = "tiles" /\ read' = "failed"
  BY DEF Fail
<1>2. QED
  BY <1>1, AnswerStays, RasterStays

LEMMA DoneStep ==
  ASSUME RasterInv, Done
  PROVE  RasterInv'
<1>1. /\ UNCHANGED <<file, tile, pixels, answer>>
      /\ read = "tiles" /\ read' = "done" /\ tile[1] = Tiles[1]
  BY DEF Done
<1>2. QED
  BY <1>1, AnswerStays, RasterStays

LEMMA WriteTileStep ==
  ASSUME RasterInv, WriteTile
  PROVE  RasterInv'
<1>1. /\ UNCHANGED <<file, read, answer>> /\ read = "tiles" /\ tile[1] < Tiles[1]
      /\ tile' = NextTile
  BY DEF WriteTile
<1>2. TypeOK
  BY DEF RasterInv
<1>3. TypeOK'
  <2>1. Tiles[1] \in Nat \ {0} /\ Tiles[2] \in Nat \ {0}
    BY <1>2, TilesPositive DEF TypeOK
  <2>2. tile' \in (0..Tiles[1]) \X (0..(Tiles[2] - 1))
    BY <1>1, <1>2, <2>1 DEF TypeOK, NextTile
  <2>3. pixels' = [p \in Pixels(file.dim) |-> pixels'[p]]
    BY DEF WriteTile
  <2>4. QED
    BY <1>1, <1>2, <2>2, <2>3, FileStays DEF TypeOK
<1>4. ASSUME ~file.hdiff, NEW p \in Pixels(file.dim)
      PROVE  IF /\ (p \div file.dim[2]) \div Rows = tile[1]
                /\ (p % file.dim[2]) \div Columns = tile[2]
             THEN pixels'[p] = file.image[p]
             ELSE pixels'[p] = pixels[p]
  <2>1. PICK h \in 0..(file.dim[1] - 1), w \in 0..(file.dim[2] - 1) :
          h = p \div file.dim[2] /\ w = p % file.dim[2] /\ p = h * file.dim[2] + w
    BY <1>2, PixelPlace
  <2>2. pixels'[p] = IF h \in Top..(InTile(1) - 1) /\ w \in Left..(InTile(2) - 1)
                     THEN Float(h, w) ELSE pixels[p]
    BY <2>1 DEF WriteTile
  <2>3. QED
    BY <1>2, <1>4, <2>1, <2>2, InsideTile, FloatIsPixel
<1>5. ASSUME ~file.hdiff PROVE PixelsInPlace'
  <2>1. \A p \in Pixels(file.dim) : pixels'[p] \in {NoValue, file.image[p]}
    BY <1>4, <1>5 DEF RasterInv, PixelsInPlace
  <2>2. ASSUME NEW p \in Pixels(file.dim), Covered(p)' PROVE pixels'[p] = file.image[p]
    <3>1. Covered(p) => pixels[p] = file.image[p]
      BY <1>1, <1>5 DEF RasterInv, PixelsInPlace
    <3>2. QED
      BY <1>1, <1>2, <1>4, <1>5, <2>2, <3>1, CoveredNext
  <2>3. QED
    BY <1>1, <2>1, <2>2, FileStays DEF PixelsInPlace
<1>6. QED
  BY <1>1, <1>3, <1>5, AnswerStays DEF RasterInv

\* When all tiles have come, so has every pixel.
LEMMA AllInPlace ==
  ASSUME RasterInv, ~file.hdiff, read = "done", NEW p \in Pixels(file.dim)
  PROVE  pixels[p] = file.image[p]
<1>1. TypeOK /\ PixelsInPlace /\ tile[1] = Tiles[1]
  BY DEF RasterInv, PixelsInPlace
<1>2. PICK H \in Nat \ {0}, W \in Nat \ {0}, R \in Nat \ {0} :
        H = file.dim[1] /\ W = file.dim[2] /\ R = Rows /\ Tiles[1] = Ceiling(H, R)
  BY <1>1, Sides
<1>3. PICK h \in 0..(H - 1) : h = p \div W
  BY <1>1, <1>2, PixelPlace
<1>4. Ceiling(H, R) \in Nat /\ h \div R \in 0..(Ceiling(H, R) - 1)
  BY PieceOf
<1>5. Covered(p)
  BY <1>1, <1>2, <1>3, <1>4 DEF Covered
<1>6. QED
  BY <1>1, <1>5 DEF PixelsInPlace

\* A place in the image has a pixel, and its value when all tiles have come.
LEMMA ValueIsWritten ==
  ASSUME RasterInv, ~file.hdiff, read = "done", NEW x, NEW y, InImage(x, y)
  PROVE  pixels[y * file.dim[2] + x] = file.image[y * file.dim[2] + x]
BY AllInPlace, PlaceIsPixel DEF InImage, RasterInv

LEMMA ElevationStep ==
  ASSUME RasterInv, Elevation
  PROVE  RasterInv'
<1>1. UNCHANGED <<file, tile, pixels, read>>
  BY DEF Elevation
<1>2. PICK at \in Coordinates[file.dim] :
        answer' = [kind |-> "elevation", at |-> at,
                   of |-> IF read = "done" /\ InImage(Column(at[1]), Row(at[2]))
                          THEN pixels[Row(at[2]) * file.dim[2] + Column(at[1])] ELSE NoValue]
  BY DEF Elevation
<1>3. ASSUME ~file.hdiff PROVE ElevationInPlace' /\ WindowInPlace'
  <2>1. answer'.kind = "elevation" /\ answer'.at = at
    BY <1>2
  <2>2. Written(at[1], at[2])' = IF InImage(Column(at[1]), Row(at[2]))
                                 THEN file.image[Row(at[2]) * file.dim[2] + Column(at[1])] ELSE NoValue
    BY <1>1 DEF Written, InImage
  <2>3. answer'.of \in {NoValue, Written(at[1], at[2])'}
    BY <1>2, <1>3, <2>2, ValueIsWritten
  <2>4. QED
    BY <2>1, <2>3 DEF ElevationInPlace, WindowInPlace
<1>4. QED
  BY <1>1, <1>3, RasterStays DEF RasterInv, TypeOK, PixelsInPlace

LEMMA CloseStep ==
  ASSUME RasterInv, Close
  PROVE  RasterInv'
<1>1. /\ UNCHANGED <<file, tile, answer>> /\ read' = "closed"
      /\ pixels' = [p \in Pixels(file.dim) |-> NoValue]
  BY DEF Close
<1>2. TypeOK'
  BY <1>1, FileStays DEF TypeOK, RasterInv
<1>3. PixelsInPlace'
  BY <1>1, FileStays DEF PixelsInPlace
<1>4. QED
  BY <1>1, <1>2, <1>3, AnswerStays DEF RasterInv

-----------------------------------------------------------------------------
(* A window.                                                               *)

\* Columns and rows, and where they begin.
LEMMA PlaceOf ==
  ASSUME NEW lon \in Int, NEW lat \in Int
  PROVE  /\ Column(lon) \in Int /\ Row(lat) \in Int
         /\ TieCoordinate[1] + (Column(lon) - TiePixel[1]) * Scale =< lon
         /\ lon < TieCoordinate[1] + Column(lon) * Scale
         /\ lat =< TieCoordinate[2] - (Row(lat) - TiePixel[2]) * Scale
         /\ TieCoordinate[2] - Row(lat) * Scale < lat
BY DEF Column, Row, TieCoordinate, TiePixel, Scale

\* A window's columns and rows, from its own tiepoint, are those of the image.
LEMMA PlaceInWindow ==
  ASSUME NEW n \in Int, NEW c \in Int
  PROVE  /\ Column(TieCoordinate[1] + (n - TiePixel[1]) * Scale + c * Scale) = n + c
         /\ Row(TieCoordinate[2] - (n - TiePixel[2]) * Scale - c * Scale) = n + c
BY DEF Column, Row, TieCoordinate, TiePixel, Scale

\* What is given out for a window, with its columns and rows.
WindowGiven(at, dlon, dlat, ia, ib, ja, jb) ==
  /\ HasRing(ia, ja, ib, jb)
  /\ answer' = [kind |-> "window", w |-> ib - ia + 1, h |-> jb - ja + 1, at |-> at,
                dlon |-> dlon, dlat |-> dlat,
                tie |-> <<TieCoordinate[1] + (ia - TiePixel[1]) * Scale,
                          TieCoordinate[2] - (ja - TiePixel[2]) * Scale>>,
                raster |-> [c \in (-2..(jb - ja + 1 + 1)) \X (-2..(ib - ia + 1 + 1)) |->
                              pixels[(ja + c[1]) * file.dim[2] + (ia + c[2])]]]

LEMMA WindowStep ==
  ASSUME RasterInv, Window
  PROVE  RasterInv'
<1>1. UNCHANGED <<file, tile, pixels, read>> /\ read = "done"
  BY DEF Window
<1>2. PICK at \in Coordinates[file.dim], dlon \in Spans, dlat \in Spans :
        WindowGiven(at, dlon, dlat, Column(Lower(at[1], dlon)), Column(Upper(at[1], dlon)),
                    Row(Upper(at[2], dlat)), Row(Lower(at[2], dlat)))
  BY Zenon DEF Window, WindowGiven
<1>3. PICK ia, ib, ja, jb :
        /\ ia = Column(Lower(at[1], dlon)) /\ ib = Column(Upper(at[1], dlon))
        /\ ja = Row(Upper(at[2], dlat)) /\ jb = Row(Lower(at[2], dlat))
        /\ WindowGiven(at, dlon, dlat, ia, ib, ja, jb)
  BY <1>2
<1>4. /\ at[1] \in Int /\ at[2] \in Int /\ dlon \in Int /\ dlat \in Int
  BY ImageAssumption DEF RasterInv, TypeOK
<1>5. PICK l1 \in Int, u1 \in Int, l2 \in Int, u2 \in Int :
        /\ l1 = Lower(at[1], dlon) /\ u1 = Upper(at[1], dlon)
        /\ l2 = Lower(at[2], dlat) /\ u2 = Upper(at[2], dlat)
  BY <1>4 DEF Lower, Upper
<1>6. ia = Column(l1) /\ ib = Column(u1) /\ ja = Row(u2) /\ jb = Row(l2)
  BY <1>3, <1>5
<1>7. ia \in Int /\ ib \in Int /\ ja \in Int /\ jb \in Int
  BY <1>6, PlaceOf
<1>8. file.dim[1] \in Nat /\ file.dim[2] \in Nat
  BY Sides DEF RasterInv
<1>9. ASSUME ~file.hdiff PROVE WindowInPlace'
  <2> DEFINE tie1 == TieCoordinate[1] + (ia - TiePixel[1]) * Scale
             tie2 == TieCoordinate[2] - (ja - TiePixel[2]) * Scale
             cells == (-2..(jb - ja + 1 + 1)) \X (-2..(ib - ia + 1 + 1))
  <2>1. /\ answer'.w = ib - ia + 1 /\ answer'.h = jb - ja + 1 /\ answer'.at = at
        /\ answer'.dlon = dlon /\ answer'.dlat = dlat /\ answer'.tie = <<tie1, tie2>>
        /\ answer'.raster = [c \in cells |-> pixels[(ja + c[1]) * file.dim[2] + (ia + c[2])]]
        /\ answer'.kind = "window"
    BY <1>3 DEF WindowGiven
  <2>2. /\ tie1 =< Lower(at[1], dlon) /\ Upper(at[1], dlon) < tie1 + (ib - ia + 1) * Scale
    <3>1. tie1 =< Lower(at[1], dlon) /\ Upper(at[1], dlon) < TieCoordinate[1] + ib * Scale
      <4>1. tie1 =< l1 /\ u1 < TieCoordinate[1] + ib * Scale
        BY <1>6, PlaceOf
      <4>2. QED
        BY <1>5, <4>1
    <3>2. tie1 + (ib - ia + 1) * Scale = TieCoordinate[1] + ib * Scale
      BY <1>7 DEF TieCoordinate, TiePixel, Scale
    <3>3. QED
      BY <3>1, <3>2
  <2>3. /\ tie2 >= Upper(at[2], dlat) /\ Lower(at[2], dlat) > tie2 - (jb - ja + 1) * Scale
    <3>1. Upper(at[2], dlat) =< tie2 /\ TieCoordinate[2] - jb * Scale < Lower(at[2], dlat)
      <4>1. u2 =< tie2 /\ TieCoordinate[2] - jb * Scale < l2
        BY <1>6, PlaceOf
      <4>2. QED
        BY <1>5, <4>1
    <3>2. tie2 - (jb - ja + 1) * Scale = TieCoordinate[2] - jb * Scale /\ tie2 \in Int
      BY <1>7 DEF TieCoordinate, TiePixel, Scale
    <3>3. TieCoordinate[2] - jb * Scale \in Int
      BY <1>7 DEF TieCoordinate, Scale
    <3>4. QED
      BY <1>5, <3>1, <3>2, <3>3
  <2>4. ASSUME NEW c \in cells
        PROVE  pixels[(ja + c[1]) * file.dim[2] + (ia + c[2])] = Written(tie1 + c[2] * Scale, tie2 - c[1] * Scale)
    <3>1. c[1] \in -2..(jb - ja + 1 + 1) /\ c[2] \in -2..(ib - ia + 1 + 1)
      OBVIOUS
    <3>2. InImage(ia + c[2], ja + c[1])
      BY <1>3, <1>7, <1>8, <3>1 DEF InImage, HasRing, WindowGiven
    <3>3. Column(tie1 + c[2] * Scale) = ia + c[2] /\ Row(tie2 - c[1] * Scale) = ja + c[1]
      <4>1. PICK I \in Int, J \in Int, k \in Int, l \in Int : I = ia /\ J = ja /\ k = c[2] /\ l = c[1]
        BY <1>7, <3>1
      <4>2. /\ Column(TieCoordinate[1] + (I - TiePixel[1]) * Scale + k * Scale) = I + k
            /\ Row(TieCoordinate[2] - (J - TiePixel[2]) * Scale - l * Scale) = J + l
        BY PlaceInWindow
      <4>3. QED
        BY <4>1, <4>2
    <3>4. QED
      BY <1>1, <1>9, <3>2, <3>3, ValueIsWritten DEF Written
  <2>5. \A x, y : Written(x, y)' = Written(x, y)
    BY <1>1 DEF Written, InImage
  <2>6. QED
    BY <2>1, <2>2, <2>3, <2>4, <2>5 DEF WindowInPlace
<1>10. ElevationInPlace'
  BY <1>3 DEF ElevationInPlace, WindowGiven
<1>11. QED
  BY <1>1, <1>9, <1>10, RasterStays DEF RasterInv, TypeOK, PixelsInPlace

-----------------------------------------------------------------------------
\* Whatever the dimensions of the image and of the tiles, a tile's rows and
\* columns that are beyond the image are skipped and each of its others goes to
\* its own pixel; no pixel is left out when the last tile has come; and
\* geotiff_elevation () and geotiff_dem_window () give the values of the places
\* they were asked for.
THEOREM TilesAreInPlace == ReaderSpec => []TilesInPlace
<1>1. ReaderInit => RasterInv
  BY InitRasterInv
<1>2. RasterInv /\ [ReaderNext]_readerVars => RasterInv'
  <2>1. SUFFICES ASSUME RasterInv, [ReaderNext]_readerVars PROVE RasterInv'
    OBVIOUS
  <2>2. CASE Details
    BY <2>1, <2>2, DetailsStep
  <2>3. CASE WriteTile
    BY <2>1, <2>3, WriteTileStep
  <2>4. CASE Fail
    BY <2>1, <2>4, FailStep
  <2>5. CASE Done
    BY <2>1, <2>5, DoneStep
  <2>6. CASE Elevation
    BY <2>1, <2>6, ElevationStep
  <2>7. CASE Window
    BY <2>1, <2>7, WindowStep
  <2>8. CASE Close
    BY <2>1, <2>8, CloseStep
  <2>9. CASE UNCHANGED readerVars
    <3>1. UNCHANGED <<file, tile, pixels, read, answer>>
      BY <2>9 DEF readerVars
    <3>2. QED
      BY <2>1, <3>1, AnswerStays, RasterStays DEF RasterInv, TypeOK, PixelsInPlace
  <2>10. QED
    BY <2>1, <2>2, <2>3, <2>4, <2>5, <2>6, <2>7, <2>8, <2>9 DEF ReaderNext
<1>3. RasterInv => TilesInPlace
  <2>1. SUFFICES ASSUME RasterInv PROVE TilesInPlace
    OBVIOUS
  <2>2. ASSUME ~file.hdiff, read = "done" PROVE pixels = file.image
    <3>1. \A p \in Pixels(file.dim) : pixels[p] = file.image[p]
      BY <2>1, <2>2, AllInPlace
    <3>2. QED
      BY <2>1, <3>1 DEF RasterInv, TypeOK
  <2>3. QED
    BY <2>1, <2>2 DEF TilesInPlace, RasterInv, PixelsInPlace
<1>4. QED
  BY <1>1, <1>2, <1>3, PTL DEF ReaderSpec
=============================================================================
