------------------------------ MODULE GeoTiff ------------------------------
(***************************************************************************)
(* How libgeotiff/geotiff.c brings the tiles of a TIFF file, or its        *)
(* strips, into one raster of floats: the checks of ifd_read () and of     *)
(* img_details (), the loop of img_unwrap () over the tiles and            *)
(* write_decoded_pixels ().  What lzw_decode () does is in Lzw: here it    *)
(* yields a tile or fails.  Then what is asked of the raster: elevations   *)
(* at points, and windows of it, which stay when the file is closed.       *)
(*                                                                         *)
(* The files are those of a TIFF writer, with more than one tile: tiles    *)
(* all have one size, whatever part of them is in the image; the last      *)
(* strip has the rows that are left; a difference of two samples is taken  *)
(* modulo what a sample can hold.  Coordinates count half pixels.          *)
(***************************************************************************)
EXTENDS Integers, SequencesExt

CONSTANTS
  Pictures,     \* model bound: images, with their dimensions, rows first
  TileDims,     \* model bound: dimensions of tiles
  Coordinates,  \* model bound: where elevations are asked for, of each dimensions
  Spans,        \* model bound: the widths and heights of windows
  Modulus       \* of the values of a sample: 2^bits

Ceiling(n, d) == (n + d - 1) \div d
Lesser(a, b) == IF a < b THEN a ELSE b
Pixels(dim) == 0..(dim[1] * dim[2] - 1)

\* An image and a tile have a row and a column.
Dimensions == (Nat \ {0}) \X (Nat \ {0})

ASSUME ImageAssumption ==
  /\ \A picture \in Pictures :
       /\ picture.dim \in Dimensions /\ picture.image \in [Pixels(picture.dim) -> Nat]
       /\ Coordinates[picture.dim] \subseteq Int \X Int
  /\ TileDims \subseteq Dimensions /\ Spans \subseteq Int

VARIABLES
  file,         \* the file, with the image that was written to it
  tile,         \* the tile that comes next: j and i
  pixels,       \* FILEMAP_PIXELS, by the index of a pixel
  read,         \* how far the reading is
  answer        \* the elevation, or the window, that was asked for last

readerVars == <<file, tile, pixels, read, answer>>

NoValue == -1
NoAnswer == [kind |-> "none"]

\* Files of either byte order, one that is no TIFF file, a BigTIFF file and one
\* with a second image.
Headers == {[order |-> "II", magic |-> 42, images |-> 1],
            [order |-> "MM", magic |-> 42, images |-> 1],
            [order |-> "PK", magic |-> 42, images |-> 1],
            [order |-> "II", magic |-> 43, images |-> 1],
            [order |-> "II", magic |-> 42, images |-> 2]}

ReaderInit ==
  /\ \E picture \in Pictures, header \in Headers,
        tdim \in TileDims, strips \in BOOLEAN, hdiff \in BOOLEAN :
       file = [dim |-> picture.dim, image |-> picture.image,
               strips |-> strips, hdiff |-> hdiff, header |-> header,
               tdim |-> IF strips THEN <<tdim[1], picture.dim[2]>> ELSE tdim]
  /\ file.dim # file.tdim
  /\ tile = <<0, 0>>
  /\ pixels = [p \in Pixels(file.dim) |-> NoValue]
  /\ read = "details"
  /\ answer = NoAnswer

Rows == file.tdim[1]
Columns == file.tdim[2]
Tiles == <<Ceiling(file.dim[1], Rows), Ceiling(file.dim[2], Columns)>>
Top == tile[1] * Rows
Left == tile[2] * Columns
-----------------------------------------------------------------------------
(***************************************************************************)
(* What a writer puts into the file.                                       *)
(***************************************************************************)
\* A short in an entry of the directory, read as the four bytes it lies in.
ShortEntry(value) == IF file.header.order = "MM" THEN value * 2^16 ELSE value

RowsWritten == IF file.strips THEN Lesser(Rows, file.dim[1] - Top) ELSE Rows

PixelWritten(h, w) ==
  IF h < file.dim[1] /\ w < file.dim[2] THEN file.image[h * file.dim[2] + w] ELSE 0

\* The samples of a tile, row by row.
SampleWritten(n) ==
  LET h == Top + (n \div Columns)
      w == Left + (n % Columns)
  IN  IF file.hdiff /\ w > Left
      THEN (PixelWritten(h, w) - PixelWritten(h, w - 1)) % Modulus
      ELSE PixelWritten(h, w)
-----------------------------------------------------------------------------
(***************************************************************************)
(* img_details (): bits, format and compression are shorts, kept in        *)
(* sixteen bits.                                                           *)
(***************************************************************************)
Short(value) == ShortEntry(value) % 2^16

TIFF_COMP_LZW == 5
T_UINT == 1
BitsPerSample == 16

DetailsUnderstood ==
  /\ Short(BitsPerSample) # 0 /\ Short(T_UINT) # 0
  /\ Short(TIFF_COMP_LZW) = TIFF_COMP_LZW

\* ifd_read (): the header, the one directory with its details, and no other.
HeaderUnderstood ==
  /\ file.header.order \in {"II", "MM"}
  /\ file.header.magic = 42

Details ==
  /\ read = "details"
  /\ read' = IF HeaderUnderstood /\ DetailsUnderstood /\ file.header.images = 1
             THEN "tiles" ELSE "failed"
  /\ UNCHANGED <<file, tile, pixels, answer>>
-----------------------------------------------------------------------------
(***************************************************************************)
(* img_unwrap () and write_decoded_pixels ().                              *)
(***************************************************************************)
\* A tile has as many bytes as its dimensions say, or lzw_decode () fails.
Decodes == RowsWritten * Columns = Rows * Columns

InTile(side) == Lesser((tile[side] + 1) * file.tdim[side], file.dim[side])

\* Faulty variant for a mutation run: what a tile has beyond the image is not
\* skipped.
Stride_InImage == InTile(2) - Left

\* How far apart two rows are in a tile that was decoded: what is in the image
\* and what is skipped.
Stride == (InTile(2) - Left) + (IF (tile[2] + 1) * Columns > InTile(2)
                                THEN (tile[2] + 1) * Columns - InTile(2) ELSE 0)

\* The float for a pixel: prev, which adds up a row of differences.
Float(h, w) ==
  LET sample(u) == SampleWritten((h - Top) * Stride + (u - Left))
  IN  IF file.hdiff
      THEN FoldLeft(LAMBDA prev, n : prev + sample(Left + n - 1), 0, [n \in 1..(w - Left + 1) |-> n])
      ELSE sample(w)

NextTile == IF tile[2] + 1 < Tiles[2] THEN <<tile[1], tile[2] + 1>> ELSE <<tile[1] + 1, 0>>

WriteTile ==
  /\ read = "tiles" /\ tile[1] < Tiles[1] /\ Decodes
  /\ pixels' = [p \in Pixels(file.dim) |->
                  LET h == p \div file.dim[2]
                      w == p % file.dim[2]
                  IN  IF h \in Top..(InTile(1) - 1) /\ w \in Left..(InTile(2) - 1)
                      THEN Float(h, w) ELSE pixels[p]]
  /\ tile' = NextTile
  /\ UNCHANGED <<file, read, answer>>

Fail ==
  /\ read = "tiles" /\ tile[1] < Tiles[1] /\ ~Decodes
  /\ read' = "failed"
  /\ UNCHANGED <<file, tile, pixels, answer>>

\* geotiff_map () keeps the image and its raster.
Done ==
  /\ read = "tiles" /\ tile[1] = Tiles[1]
  /\ read' = "done"
  /\ UNCHANGED <<file, tile, pixels, answer>>
-----------------------------------------------------------------------------
(***************************************************************************)
(* What is asked of the raster.  The tiepoint of the file: a pixel, column *)
(* first, and its longitude and latitude.                                  *)
(***************************************************************************)
TiePixel == <<1, 1>>
TieCoordinate == <<10, 30>>
Scale == 2

\* coordinate_map () and floor (): the column and the row.
Column(lon) == (lon - TieCoordinate[1]) \div Scale + TiePixel[1]
Row(lat) == (TieCoordinate[2] - lat) \div Scale + TiePixel[2]

InImage(x, y) == x \in 0..(file.dim[2] - 1) /\ y \in 0..(file.dim[1] - 1)

\* geotiff_elevation () at one point: no elevation outside of the image, or
\* when there is none.
Elevation ==
  /\ read \in {"done", "closed"}
  /\ \E at \in Coordinates[file.dim] :
       LET x == Column(at[1])
           y == Row(at[2])
       IN  answer' = [kind |-> "elevation", at |-> at,
                     of |-> IF read = "done" /\ InImage(x, y)
                            THEN pixels[y * file.dim[2] + x] ELSE NoValue]
  /\ UNCHANGED <<file, tile, pixels, read>>

\* The smaller end of a window's side, which may be given from either end.
Lower(from, span) == IF span < 0 THEN from + span ELSE from
Upper(from, span) == IF span < 0 THEN from ELSE from + span

\* Two more columns and rows of the image on every side of a window.
HasRing(ia, ja, ib, jb) ==
  ia >= 2 /\ ja >= 2 /\ ib + 2 < file.dim[2] /\ jb + 2 < file.dim[1]

\* geotiff_dem_window (): a copy of what is in the window and of two cells
\* around it, with a tiepoint of its own; nothing without these two cells.
Window ==
  /\ read = "done"
  /\ \E at \in Coordinates[file.dim], dlon \in Spans, dlat \in Spans :
       LET ia == Column(Lower(at[1], dlon))
           ib == Column(Upper(at[1], dlon))
           ja == Row(Upper(at[2], dlat))
           jb == Row(Lower(at[2], dlat))
           w == ib - ia + 1
           h == jb - ja + 1
       IN  /\ HasRing(ia, ja, ib, jb)
           /\ answer' = [kind |-> "window", w |-> w, h |-> h, at |-> at,
                         dlon |-> dlon, dlat |-> dlat,
                         tie |-> <<TieCoordinate[1] + (ia - TiePixel[1]) * Scale,
                                   TieCoordinate[2] - (ja - TiePixel[2]) * Scale>>,
                         raster |-> [c \in (-2..(h + 1)) \X (-2..(w + 1)) |->
                                       pixels[(ja + c[1]) * file.dim[2] + (ia + c[2])]]]
  /\ UNCHANGED <<file, tile, pixels, read>>

\* geotiff_map_destroy ().
Close ==
  /\ read = "done"
  /\ read' = "closed"
  /\ pixels' = [p \in Pixels(file.dim) |-> NoValue]
  /\ UNCHANGED <<file, tile, answer>>

ReaderNext == Details \/ WriteTile \/ Fail \/ Done \/ Elevation \/ Window \/ Close

ReaderSpec == ReaderInit /\ [][ReaderNext]_readerVars
-----------------------------------------------------------------------------
\* The value the image was written with at a point.
Written(lon, lat) ==
  LET x == Column(lon)
      y == Row(lat)
  IN  IF InImage(x, y) THEN file.image[y * file.dim[2] + x] ELSE NoValue

ElevationInPlace ==
  answer.kind = "elevation" => answer.of \in {NoValue, Written(answer.at[1], answer.at[2])}

\* By a window's own tiepoint, what was asked for is in its w columns and h
\* rows, and each cell, those of the two rings included, has the value that the
\* image has there.
WindowInPlace ==
  answer.kind = "window" =>
    /\ answer.tie[1] =< Lower(answer.at[1], answer.dlon)
    /\ Upper(answer.at[1], answer.dlon) < answer.tie[1] + answer.w * Scale
    /\ answer.tie[2] >= Upper(answer.at[2], answer.dlat)
    /\ Lower(answer.at[2], answer.dlat) > answer.tie[2] - answer.h * Scale
    /\ \A c \in DOMAIN answer.raster :
         answer.raster[c] = Written(answer.tie[1] + c[2] * Scale, answer.tie[2] - c[1] * Scale)

\* "Mapping decoded tile data onto the 2D array": without a predictor, the
\* raster of a file that is read to its end is the image, whatever part of the
\* tiles at its right and lower edge is outside of it; a file that is given up
\* has left no wrong pixel behind; and an elevation or a window that is given
\* out is that of the place it was asked for, also after the file was closed.
TilesInPlace ==
  ~file.hdiff =>
    /\ \A p \in Pixels(file.dim) : pixels[p] \in {NoValue, file.image[p]}
    /\ read = "done" => pixels = file.image
    /\ ElevationInPlace
    /\ WindowInPlace

\* "(6) Predictor (if used before encoding) : 1 not used, 2 for horizontal
\* diff": a file that was read to its end is the image, with a predictor too.
PredictorUndone == read = "done" => pixels = file.image
=============================================================================
