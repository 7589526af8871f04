--------------------------- MODULE MCBlockGhosts ---------------------------
(* block_gather () around every node of every tree that tree.c makes, those *)
(* between two divisions of a refinement included.                          *)
EXTENDS AmrTree, BlockGhosts

CONSTANT
  Layers       \* the ghost layers gathered

ASSUME LayersAssumption == Layers \in 1..BlockM

\* "A ghost cell's value": every scratch cell of every node is a copy of the
\* stored cell that the documentation names, across level jumps, along walls
\* and into corners.
GhostsAsDocumented ==
  \A p \in nodes : \A x \in Scratch(Layers) : GatherCell(nodes, p, x) = GhostCell(nodes, p, x)
=============================================================================
