------------------------------ MODULE MCBlocks ------------------------------
\* What runs over a tree and its blocks, one model at a time: the walk of the
\* nodes, the loops over the cells of one block, the values that refining and
\* coarsening write into the blocks, and adapt_wavelet ().  A behaviour is one
\* of the model it begins with; the others stand still.
\*
\* Walked is every binary tree of up to four levels, from every node.  Looped over
\* are blocks of one or two cells a side, with and without ghosts and alignment.
\* Values are on the same trees, in blocks of four cells, the fewest that
\* block_wavelet () takes; and so are the fields that adapt_wavelet () follows.
EXTENDS MortonTraversal, BlockLoops, BlockValues, Adapt

VARIABLE model

MCLayouts == {[m |-> 2, g |-> 1, v |-> 1], [m |-> 2, g |-> 0, v |-> 4],
              [m |-> 2, g |-> 1, v |-> 4], [m |-> 1, g |-> 2, v |-> 2]}

Inner == {p \in Positions : p.level < MaxDepth}

MCTrees == {T \in SUBSET Inner : \A p \in T : p.level > 0 => Parent(p) \in T}

\* Fields of any error in the two left blocks of level 2, of one error in the two
\* right ones, large or small in the blocks of level 1, and no large one below.
MCField(one, left, right, below) ==
  [p \in Positions |->
     CASE p.level = 1 -> one[p.ijk[1]]
       [] p.level = 2 -> IF p.ijk[1] < 2 THEN left[p.ijk[1]] ELSE right
       [] p.level = 3 -> below
       [] OTHER -> "small"]

MCFields ==
  {MCField(one, left, right, below) :
     one \in [0..1 -> {"small", "big"}], left \in [0..1 -> Classes],
     right \in {"small", "big"}, below \in {"small", "middling"}}

\* The whole range, and a floor and a ceiling that bind.
MCBounds == {<<-1, 9>>, <<1, 2>>, <<2, 2>>}

\* The model that does not run begins in one of its states.
AnyWalk == parents = {} /\ root = Root /\ cur = root /\ visited = FALSE
           /\ walkStack = <<>> /\ visits = <<>> /\ done = FALSE
AnyLoop == /\ shape = ShapeOf(1, 0, 1) /\ lanes = 1 /\ loop = "cells" /\ halo = 0 /\ tile = 0
           /\ cell = [i |-> 0, j |-> 0, k |-> 0, blk |-> 0] /\ corner = [j |-> 0, k |-> 0]
           /\ stop = 0 /\ pc = "body" /\ team = <<>> /\ seen = <<>> /\ broken = FALSE

BlocksInit ==
  /\ model \in {"walk", "cells", "values", "adapt"}
  /\ IF model = "walk" THEN WalkInit ELSE AnyWalk
  /\ IF model = "cells" THEN LoopInit ELSE AnyLoop
  /\ ValueInit /\ AdaptInit

blockVars == <<model, walkVars, loopVars, valueVars, allVars>>

WalkRuns == model = "walk" /\ WalkNext /\ UNCHANGED <<model, loopVars, valueVars, allVars>>
LoopRuns == model = "cells" /\ LoopNext /\ UNCHANGED <<model, walkVars, valueVars, allVars>>
\* For the values, no refinement is called on a tree above MCNodes nodes.
MCNodes == 9
TreeRuns ==
  /\ model = "values" /\ ValueNext /\ UNCHANGED <<model, walkVars, loopVars, call>>
  /\ Idle /\ stack' # <<>> => nb =< MCNodes
\* The blocks that adapt_wavelet () refines and merges hold zeros: what it does
\* is decided by the fields.
ZerosEverywhere ==
  /\ value' = [q \in nodes' |-> Zero]
  /\ UNCHANGED <<model, walkVars, loopVars, restricted, predicted, mass, writes>>

AdaptRuns == model = "adapt" /\ AdaptNext /\ ZerosEverywhere

\* A walk and a loop come to an end; a tree must not.
Rests == model \in {"walk", "cells"} /\ UNCHANGED blockVars

BlocksNext == WalkRuns \/ LoopRuns \/ TreeRuns \/ AdaptRuns \/ Rests

\* AdaptFairness, where adapt_wavelet () is the model.
AdaptGoesOn == model = "adapt" /\ (Calls \/ AdaptStep) /\ ZerosEverywhere

BlocksSpec == BlocksInit /\ [][BlocksNext]_blockVars /\ WF_blockVars(AdaptGoesOn)
=============================================================================
