--------------------------- MODULE MCFlowNetwork ---------------------------
(* Elevations on their way from a file to the drainage network, one model   *)
(* at a time: the decoding of LZW, the tiles of a file, and flow_network () *)
(* on a raster.  A behaviour is one of the model it begins with; the others *)
(* stand still.                                                             *)
EXTENDS FlowNetwork, GeoTiff

VARIABLES
    model,
    text, stream, room, seek, mode, width, next, last, firstchar, dictionary, out, decoded

(* Borders of a square of four: a basin with a rough rim, so that the flood *)
(* gets in; a slope; a rim of one height with a notch, which is a patch the *)
(* flood does not cross; a flat below the sea; a gap in the data.           *)
MCBorders ==
    {[p \in Inside |-> 3 + ((p[1] + 2 * p[2]) % 3)],
     [p \in Inside |-> p[1] + p[2]],
     [p \in Inside |-> IF p = <<3, 1>> THEN 1 ELSE 3],
     [p \in Inside |-> -1],
     [p \in Inside |-> IF p = <<0, 1>> THEN NaN ELSE 2 + ((p[1] + p[2]) % 2)]}

(* What lies around: the sea, and no data on one side; ground as high as    *)
(* the border beside it, so that patches go on in the ghost cells; ground   *)
(* that falls off on one side and rises here and there on the others.       *)
Beside(p) == <<Least({Width - 1, -Least({0, -p[1]})}), Least({Height - 1, -Least({0, -p[2]})})>>

MCSurrounds(border) ==
    {[p \in Halo \ Inside |-> IF p[1] = -1 THEN NaN ELSE 0],
     [p \in Halo \ Inside |-> border[Beside(p)]],
     [p \in Halo \ Inside |->
         IF border[Beside(p)] = NaN THEN 2
         ELSE border[Beside(p)] + (IF p[2] = Height THEN -1 ELSE p[1] % 2)]}

Middles == Inside \ {p \in Inside : OnBoundary(p)}

MCFields ==
    {[p \in Inside |-> IF OnBoundary(p) THEN border[p] ELSE middle[p]] :
        border \in MCBorders, middle \in [Middles -> {0, 1, 2, 4}]}
    \union {[p \in Inside |-> IF p = <<1, 1>> THEN NaN ELSE border[p]] : border \in MCBorders}

MCRasters ==
    UNION {{[p \in Halo |-> IF p \in Inside THEN field[p] ELSE around[p]] :
               around \in MCSurrounds(field)} : field \in MCFields}

(* Texts of two characters: all the short ones, and long ones that repeat   *)
(* and fill the dictionary.                                                 *)
MCTexts ==
    UNION {[1 .. n -> 0 .. 1] : n \in 1 .. 7}
    \union {[i \in 1 .. n |-> period[1 + (i % Len(period))]] :
               n \in (24 .. 27) \union {40}, period \in UNION {[1 .. k -> 0 .. 1] : k \in 1 .. 3}}

(* Codes of three bits, and of four at most, where TIFF has nine to twelve. *)
Decoder == INSTANCE Lzw WITH
    Chars <- 2, MinWidth <- 3, MaxWidth <- 4, ByteBits <- 3,
    Texts <- MCTexts, Restarts <- {0, 1, 3}, result <- decoded

(* Images whose sides are multiples of a tile's, and images that are not;   *)
(* and one of six rows and seven columns, with room for windows and their   *)
(* rings, of which no two pixels are alike.                                 *)
MCPictures ==
    UNION {{[dim |-> dim, image |-> image] : image \in [0 .. 5 -> {0, 1, 3}]} :
              dim \in {<<2, 3>>, <<3, 2>>}}
    \union {[dim |-> <<6, 7>>, image |-> [p \in 0 .. 41 |-> p]]}

(* Around the pixels where a window has both rings or just misses one.      *)
MCCoordinates ==
    [dim \in {<<2, 3>>, <<3, 2>>, <<6, 7>>} |->
       IF dim = <<6, 7>> THEN {7, 9, 11, 12, 13, 17, 18, 22} \X {19, 24, 26, 27, 28, 30, 32} ELSE {<<9, 30>>}]

MCTileDims == {<<2, 2>>, <<1, 2>>, <<2, 1>>}
MCSpans == {-3, 0, 1}

flowVars == vars
decoderVars == <<text, stream, room, seek, mode, width, next, last, firstchar, dictionary,
                 out, decoded>>

(* The models that do not run have nothing to do.                           *)
NoDecoder ==
    /\ text = <<>> /\ stream = <<>> /\ room = 0 /\ seek = 0 /\ mode = "first" /\ width = 3
    /\ next = 0 /\ last = 0 /\ firstchar = 0 /\ dictionary = <<>> /\ out = <<>>
    /\ decoded = "running"

NoReader ==
    /\ file = [dim |-> <<1, 1>>, tdim |-> <<1, 1>>, strips |-> FALSE, hdiff |-> FALSE,
               header |-> [order |-> "II", magic |-> 42, images |-> 1],
               image |-> [p \in {0} |-> 0]]
    /\ tile = <<0, 0>> /\ pixels = [p \in {0} |-> 0] /\ read = "details"
    /\ answer = [kind |-> "none"]

RasterInit ==
    /\ model \in {"decoder", "reader", "flow"}
    /\ Init
    /\ IF model = "decoder" THEN Decoder!Init ELSE NoDecoder
    /\ IF model = "reader" THEN ReaderInit ELSE NoReader

DecoderNext == model = "decoder" /\ Decoder!Next /\ UNCHANGED <<model, flowVars, readerVars>>
ReadNext == model = "reader" /\ ReaderNext /\ UNCHANGED <<model, flowVars, decoderVars>>
FlowNext == model = "flow" /\ Next /\ UNCHANGED <<model, decoderVars, readerVars>>

RasterNext == DecoderNext \/ ReadNext \/ FlowNext

RasterSpec == RasterInit /\ [][RasterNext]_<<model, flowVars, decoderVars, readerVars>>

(* The property of Lzw.                                                     *)
DecodesTheText == Decoder!DecodesTheText
=============================================================================
