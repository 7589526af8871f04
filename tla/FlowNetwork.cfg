\* A decoder and a reader come to an end.
CONSTANTS
    Width = 4
    Height = 4
    NaN = NaN
    HeapPage = 2
    Page = 2
    Junk = Junk
    Rasters <- MCRasters
    Pictures <- MCPictures
    TileDims <- MCTileDims
    Coordinates <- MCCoordinates
    Spans <- MCSpans
    Modulus = 64
SPECIFICATION RasterSpec
INVARIANTS
    FilledToSpill
    SearchesFindSteps
    
    DrainsFormForest
    CountsExact
    DecodesTheText
    TilesInPlace
CHECK_DEADLOCK FALSE
