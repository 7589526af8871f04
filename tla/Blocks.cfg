\* Binary trees of up to four levels; for adapt_wavelet (), every order of equal
\* levels, every sequence of fields and bounds.
SPECIFICATION BlocksSpec
CONSTANTS
  Dimension = 1
  MaxDepth = 3
  Trees <- MCTrees
  Layouts <- MCLayouts
  Tiles = {0, 2, 3}
  NBlocks = 2
  Threads = {1, 2}
  TeamRows = 4
  MaxBlocks = 15
  BlockM = 4
  Modulus = 5
  MaxWrites = 1
  Fields <- MCFields
  Bounds <- MCBounds
INVARIANTS
  StackFits
  InMortonOrder
  EachCellOnce
  IntegralKept
  ParentsAreMeans
  DividedAsPredicted
  OneLevelPerCall
  MergesExhausted
PROPERTY
  ComesToRest
