----------------------------- MODULE BlockValues -----------------------------
(***************************************************************************)
(* The values of one scalar on the tree of AmrTree: what refining,         *)
(* coarsening and tree_restrict () write into the blocks, each division of *)
(* a running tree_refine () a step of its own.  A program writes leaves    *)
(* only; the parents beside it are then out of date until the next         *)
(* tree_restrict (), and a refinement may read them as ghosts.             *)
(*                                                                         *)
(* Every operation is linear, with halves and eighths as coefficients.     *)
(* Values are therefore numbers modulo an odd prime: halves and eighths    *)
(* exist there, what holds of all reals holds of them, and they are        *)
(* finitely many.  Rounding is not modelled.                               *)
(***************************************************************************)
EXTENDS AmrTree, BlockGhosts

CONSTANTS
  Modulus,     \* of the values
  MaxWrites    \* model bound: cells the program writes to one tree

ASSUME ValuesAssumption ==
  /\ Modulus \in Nat /\ Modulus > 2 /\ \A k \in 2..(Modulus - 1) : Modulus % k # 0
  /\ MaxWrites \in Nat

VARIABLES
  value,       \* the block of each node
  restricted,  \* history: no leaf was written since tree_restrict () ran
  predicted,   \* history: the nodes divided from their parent since then
  mass,        \* history: the integral of what the program wrote
  writes       \* history: the cells it wrote

valueVars == <<value, restricted, predicted, mass, writes>>
gridVars == <<vars, valueVars>>

Numbers == 0..(Modulus - 1)
Block == [Cells -> Numbers]

Over(x, k) == (x * (CHOOSE i \in Numbers : (i * k) % Modulus = 1)) % Modulus

-----------------------------------------------------------------------------
(***************************************************************************)
(* block_prolong (), block_restrict (), block_wavelet ().                  *)
(***************************************************************************)
Gathered(p, g) ==
  [x \in Scratch(g) |->
     LET s == GatherCell(nodes, p, x) IN value[s.node][s.cell]]

Bit(c, a) == (c \div BitWeight(a)) % 2
Beside(C, a, e) == [C EXCEPT ![a] = @ + e]

\* What u says of the fine cell f: its coarse cell, and a quarter of a cell
\* along the central gradient.
Linear(u, f) ==
  LET C == [a \in Axes |-> f[a] \div 2]
      sgn(a) == IF f[a] % 2 = 1 THEN 1 ELSE -1
  IN  (u[C] + Over(SumFunction([a \in Axes |->
                     sgn(a) * (u[Beside(C, a, 1)] - u[Beside(C, a, -1)])]), 8)) % Modulus

\* Faulty variant for a mutation run: the children copy their parent.
Prolonged_Constant(p) ==
  [c \in 0..(NChildren - 1) |-> [x \in Cells |->
     value[p][[a \in Axes |-> (Bit(c, a) * BlockM + x[a]) \div 2]]]]

\* The blocks of the children of p.
Prolonged(p) ==
  LET u == Gathered(p, 1) IN
  [c \in 0..(NChildren - 1) |-> [x \in Cells |->
     Linear(u, [a \in Axes |-> Bit(c, a) * BlockM + x[a]])]]

\* The block of a parent whose children have these.
Mean(blocks) ==
  LET half == BlockM \div 2
      holder(x) == SumFunction([a \in Axes |-> IF x[a] >= half THEN BitWeight(a) ELSE 0])
      fine(x, k) == [a \in Axes |-> 2 * (x[a] % half) + Bit(k, a)]
  IN  [x \in Cells |->
         Over(SumFunction([k \in 0..(NChildren - 1) |-> blocks[holder(x)][fine(x, k)]]),
              NChildren)]

ChildBlocks(v, p) == [c \in 0..(NChildren - 1) |-> v[IndexChild(p, c)]]

\* How far each cell of p is from what the coarser level predicts for it.
Wavelet(p) ==
  LET u == Gathered(p, 2)
      coarse == [C \in [Axes -> -1..(BlockM \div 2)] |->
                   Over(SumFunction([k \in 0..(NChildren - 1) |->
                          u[[a \in Axes |-> 2 * C[a] + Bit(k, a)]]]), NChildren)]
  IN  [x \in Cells |-> (u[x] - Linear(coarse, x)) % Modulus]

-----------------------------------------------------------------------------
ValueInit ==
  /\ Init
  /\ value = <<>>
  /\ restricted = TRUE /\ predicted = {} /\ mass = 0 /\ writes = 0

Zero == [x \in Cells |-> 0]

\* tree () zeroes the root's block; its children are filled from it.
CreateValues ==
  /\ value' = [q \in nodes' |-> Zero]
  /\ predicted' = Children(Root)
  /\ UNCHANGED <<restricted, mass, writes>>

DestroyValues ==
  /\ value' = <<>>
  /\ restricted' = TRUE /\ predicted' = {} /\ mass' = 0 /\ writes' = 0

\* divide_leaf () fills the children of the leaf it divides.
DivideValues(p) ==
  LET b == Prolonged(p) IN
  /\ value' = [q \in nodes' |->
                 IF q \in Children(p)
                 THEN b[CHOOSE c \in 0..(NChildren - 1) : q = IndexChild(p, c)]
                 ELSE value[q]]
  /\ predicted' = IF restricted THEN predicted \cup Children(p) ELSE predicted
  /\ UNCHANGED <<restricted, mass, writes>>

\* Faulty variant for a mutation run: p keeps what it had as a parent.
CoarsenValues_ParentKept(p) ==
  /\ value' = [q \in nodes' |-> value[q]]
  /\ predicted' = predicted \ Children(p)
  /\ UNCHANGED <<restricted, mass, writes>>

\* tree_coarsen () gives p the mean of its children before they go.
CoarsenValues(p) ==
  /\ value' = [[q \in nodes' |-> value[q]] EXCEPT ![p] = Mean(ChildBlocks(value, p))]
  /\ predicted' = predicted \ Children(p)
  /\ UNCHANGED <<restricted, mass, writes>>

\* Faulty variant for a mutation run: parents are averaged from their children
\* as they were.
TreeRestrict_OneLevel ==
  /\ Idle /\ Exists
  /\ value' = [q \in nodes |-> IF q \in hasChildren THEN Mean(ChildBlocks(value, q))
                               ELSE value[q]]
  /\ restricted' = TRUE
  /\ UNCHANGED <<vars, predicted, mass, writes>>

\* tree_restrict (): children before their parent, so that each is averaged
\* from blocks already up to date.
TreeRestrict ==
  LET up[q \in nodes] == IF q \in hasChildren
                         THEN Mean([c \in 0..(NChildren - 1) |-> up[IndexChild(q, c)]])
                         ELSE value[q]
  IN  /\ Idle /\ Exists
      /\ value' = up
      /\ restricted' = TRUE
      /\ UNCHANGED <<vars, predicted, mass, writes>>

\* In cells of the finest level.
CellVolume(l) ==
  LET side == 2^(MaxDepth - l) IN
  IF Dimension = 1 THEN side ELSE IF Dimension = 2 THEN side * side ELSE side * side * side

\* The program writes a cell of a leaf.
WriteCell(p, x) ==
  /\ Idle
  /\ writes < MaxWrites
  /\ value' = [value EXCEPT ![p][x] = (@ + 1) % Modulus]
  /\ restricted' = FALSE /\ predicted' = {}
  /\ mass' = (mass + CellVolume(p.level)) % Modulus
  /\ writes' = writes + 1
  /\ UNCHANGED vars

ValueNext ==
  \/ Create(MaxDepth) /\ CreateValues
  \/ Destroy /\ DestroyValues
  \/ \E p \in leaf : RefineCall(p) /\ UNCHANGED valueVars
  \/ ~Idle /\ RefineDescend /\ UNCHANGED valueVars
  \/ ~Idle /\ RefineDivide /\ DivideValues(Top.p)
  \/ \E p \in hasChildren : Coarsen(p) /\ CoarsenValues(p)
  \/ TreeRestrict
  \/ \E p \in leaf, x \in Cells : WriteCell(p, x)

ValueSpec == ValueInit /\ [][ValueNext]_gridVars
-----------------------------------------------------------------------------
(***************************************************************************)
(* Properties.                                                             *)
(***************************************************************************)
\* "Both keep the integral of every scalar": summed over the leaves, it is
\* what the program wrote, whatever was refined and coarsened in between, and
\* whether or not the parents read as ghosts were up to date.
IntegralKept ==
  Exists =>
    mass = SumFunction([q \in leaf |-> SumFunction(value[q]) * CellVolume(q.level)]) % Modulus

\* "A parent's block holds the average of its children, once tree_restrict ()
\* has run", and, though the code does not say so, until a leaf is written:
\* refining and coarsening keep it.  adapt_wavelet () restricts once, and reads
\* parents after it has refined.
ParentsAreMeans ==
  restricted => \A p \in hasChildren : value[p] = Mean(ChildBlocks(value, p))

\* "Predicted ... by the same linear prolongation as a refinement": what a
\* division wrote has a wavelet of zero, and keeps it while no leaf is written,
\* whatever is divided or merged around it.
DividedAsPredicted ==
  \A q \in predicted : Wavelet(q) = Zero
=============================================================================
