\* What pool.h says of the memory of cold objects.
SPECIFICATION Spec
CONSTANTS
  MaxObjects = 2
  Sizes <- MCSizes
  HotLimits <- MCHotLimits
INVARIANT
  ColdUsesNoMemory
