\* Samples of two bits, with differences that wrap around.
SPECIFICATION ReaderSpec
CONSTANTS
  Pictures <- MCPictures
  TileDims <- MCTileDims
  Coordinates <- MCCoordinates
  Spans = {0}
  Modulus = 4
INVARIANT
  PredictorUndone
CHECK_DEADLOCK FALSE
