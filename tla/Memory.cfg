\* Small and large objects, hot limits that bind and one that does not; room
\* for two ids in all three families, or three ids in two.
SPECIFICATION MemorySpec
CONSTANTS
  MaxObjects = 3
  Sizes <- MCSizes
  HotLimits <- MCHotLimits
  Dimension = 1
  MaxDepth = 2
  NScalars = 3
  Width = 2
  MaxBlocks = 6
  NAxes = 2
  Size = 4
  PageLength = 2
  Used <- RowsInUse
  NodeIds = {"a", "b"}
  NoPointer = ""
INVARIANTS
  NothingLostOrShared
  GridScalarCheck
  IdsOfTheLiving
  CachesApart
  SparseArray
PROPERTY
  KeepsPromise
