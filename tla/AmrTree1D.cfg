\* Every binary tree of up to five levels: MaxBlocks is never reached.
CONSTANTS
  Dimension = 1
  MaxDepth = 4
  MaxBlocks = 31
SPECIFICATION Spec
INVARIANTS
  TypeOK
  WholeTree
  Balanced
  CountersExact
  CallersUndisturbed
PROPERTIES
  RefineReturns
  ImplementsPromise
