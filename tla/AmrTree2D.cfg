\* Quadtrees of up to four levels, grown from trees of up to 17 nodes, with
\* blocks of 2 x 2 cells and two ghost layers: as many as a block has cells.
CONSTANTS
  Dimension = 2
  MaxDepth = 3
  MaxBlocks = 17
  BlockM = 2
  Layers = 2
SPECIFICATION Spec
INVARIANTS
  TouchingLeavesBalanced
  CalleeDivides
  GhostsAsDocumented
