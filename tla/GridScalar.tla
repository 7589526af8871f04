----------------------------- MODULE GridScalar -----------------------------
(***************************************************************************)
(* Scalars and their blocks: the ids of libc-pp/src/scalar.c, handed out   *)
(* lowest first, and the blocks that libb-amr/grid-scalar.c keeps for each *)
(* id in use in every node of the tree.  scalar_new () and scalar_free ()  *)
(* reach the tree through their hooks, at any shape of it; the tree grows  *)
(* and loses families at any set of ids.                                   *)
(*                                                                         *)
(* A node's table has groups of Width slots, a group made when the first   *)
(* of its ids needs it.  The blocks of a family, for one id, are one       *)
(* object of a pool.  A pool is what ObjectAllocator promises: it hands    *)
(* out objects that are not out.                                           *)
(***************************************************************************)
EXTENDS TreeIndex, FiniteSets, Functions

CONSTANTS
  NScalars,     \* NSCALAR_MAX: how many ids there are
  Width,        \* SCALAR_ARRAY_WIDTH: ids per group
  MaxBlocks    \* model bound: objects a pool can have out at once

ScalarConstants == NScalars \in Nat \ {0} /\ Width \in Nat \ {0} /\ MaxBlocks \in Nat

Ids == 0..(NScalars - 1)
GroupOf(s) == s \div Width
Groups == {GroupOf(s) : s \in Ids}
BlockObjects == 1..MaxBlocks
ChildNumbers == 0..(NChildren - 1)

VARIABLES
  hooked,      \* the pools exist and the hooks are set: there is a tree
  parents,     \* the nodes with children
  inUse,       \* the ids in use
  groups,      \* the groups in each node's table
  slot,        \* the block in each slot of each node
  rootOut, familyOut,   \* objects out of the pools of blocks
  groupsOut, tablesOut  \* how many are out of the pools of groups and tables

scalarVars == <<hooked, parents, inUse, groups, slot, rootOut, familyOut, groupsOut,
               tablesOut>>

None == [of |-> "none", object |-> 0, child |-> 0]
RootBlock(o) == [of |-> "root", object |-> o, child |-> 0]
FamilyBlock(o, c) == [of |-> "family", object |-> o, child |-> c]

Nodes == IF hooked THEN {Root} \cup UNION {Children(p) : p \in parents} ELSE {}

NoSlots == [s \in Ids |-> None]

ScalarsInit ==
  /\ hooked = FALSE /\ parents = {} /\ inUse = {}
  /\ groups = [n \in Positions |-> {}]
  /\ slot = [n \in Positions |-> NoSlots]
  /\ rootOut = {} /\ familyOut = {}
  /\ groupsOut = 0 /\ tablesOut = 0

\* BlockObjects for each member of S, none of them out.
Pick(S, out) == CHOOSE f \in [S -> BlockObjects \ out] : IsInjective(f)
CanPick(S, out) == Cardinality(S) =< Cardinality(BlockObjects \ out)

\* The position of a child in its family: the blocks of the family's object
\* are in this order.
ChildNumber(n) == CHOOSE c \in ChildNumbers : IndexChild(Parent(n), c) = n

GroupsOf(S) == {GroupOf(s) : s \in S}

\* How many groups the nodes of S hold.
GroupCount(g, S) == Cardinality({x \in S \X Groups : x[2] \in g[x[1]]})
-----------------------------------------------------------------------------
(***************************************************************************)
(* The tree: its root and first family, a family more, a family less.      *)
(***************************************************************************)
\* The tables and blocks of a new family, for the ids in use.
FamilySlots(p, f, n) ==
  IF n \in Children(p)
  THEN [s \in Ids |-> IF s \in inUse THEN FamilyBlock(f[s], ChildNumber(n)) ELSE None]
  ELSE slot[n]

TreeCreate ==
  /\ ~hooked
  /\ CanPick(inUse, familyOut) /\ CanPick(inUse, rootOut)
  /\ hooked' = TRUE
  /\ parents' = {Root}
  /\ LET r == Pick(inUse, {})
         f == Pick(inUse, {})
     IN  /\ rootOut' = Range(r)
         /\ familyOut' = Range(f)
         /\ slot' = [n \in Positions |->
                       IF n = Root
                       THEN [s \in Ids |-> IF s \in inUse THEN RootBlock(r[s]) ELSE None]
                       ELSE FamilySlots(Root, f, n)]
  /\ groups' = [n \in Positions |->
                  IF n \in {Root} \cup Children(Root) THEN GroupsOf(inUse) ELSE {}]
  /\ groupsOut' = (NChildren + 1) * Cardinality(GroupsOf(inUse))
  /\ tablesOut' = NChildren + 1
  /\ UNCHANGED inUse

\* Every block, group and table goes with its pool; the hooks are taken off.
TreeDestroy ==
  /\ hooked
  /\ hooked' = FALSE /\ parents' = {}
  /\ groups' = [n \in Positions |-> {}]
  /\ slot' = [n \in Positions |-> NoSlots]
  /\ rootOut' = {} /\ familyOut' = {}
  /\ groupsOut' = 0 /\ tablesOut' = 0
  /\ UNCHANGED inUse

FamilyNew(p) ==
  /\ p \in Nodes \ parents /\ p.level < MaxDepth
  /\ CanPick(inUse, familyOut)
  /\ parents' = parents \cup {p}
  /\ LET f == Pick(inUse, familyOut) IN
     /\ familyOut' = familyOut \cup Range(f)
     /\ slot' = [n \in Positions |-> FamilySlots(p, f, n)]
  /\ groups' = [n \in Positions |-> IF n \in Children(p) THEN GroupsOf(inUse) ELSE groups[n]]
  /\ groupsOut' = groupsOut + NChildren * Cardinality(GroupsOf(inUse))
  /\ tablesOut' = tablesOut + NChildren
  /\ UNCHANGED <<hooked, inUse, rootOut>>

\* The objects behind the slots of id s in the families of S.  Child 0's block
\* is where the object starts; an empty slot there frees nothing.
FamilyObjects(S, s) ==
  {slot[IndexChild(p, 0)][s].object : p \in {p \in S : slot[IndexChild(p, 0)][s] # None}}

\* Faulty variant for a mutation run: the groups are taken for those of the ids
\* in use.
FamilyFree_GroupsInUse(p) ==
  /\ p \in parents /\ Children(p) \cap parents = {}
  /\ parents' = parents \ {p}
  /\ familyOut' = familyOut \ UNION {FamilyObjects({p}, s) : s \in inUse}
  /\ slot' = [n \in Positions |-> IF n \in Children(p) THEN NoSlots ELSE slot[n]]
  /\ groups' = [n \in Positions |-> IF n \in Children(p) THEN {} ELSE groups[n]]
  /\ groupsOut' = groupsOut - NChildren * Cardinality(GroupsOf(inUse))
  /\ tablesOut' = tablesOut - NChildren
  /\ UNCHANGED <<hooked, inUse, rootOut>>

\* The blocks of the ids in use, then every group and table of the family.
FamilyFree(p) ==
  /\ p \in parents /\ Children(p) \cap parents = {}
  /\ parents' = parents \ {p}
  /\ familyOut' = familyOut \ UNION {FamilyObjects({p}, s) : s \in inUse}
  /\ slot' = [n \in Positions |-> IF n \in Children(p) THEN NoSlots ELSE slot[n]]
  /\ groups' = [n \in Positions |-> IF n \in Children(p) THEN {} ELSE groups[n]]
  /\ groupsOut' = groupsOut - GroupCount(groups, Children(p))
  /\ tablesOut' = tablesOut - NChildren
  /\ UNCHANGED <<hooked, inUse, rootOut>>
-----------------------------------------------------------------------------
(***************************************************************************)
(* scalar_new () and scalar_free (), and what their hooks do to the tree.  *)
(***************************************************************************)
LowestFree == CHOOSE s \in Ids \ inUse : \A r \in Ids \ inUse : s =< r

\* The hook of scalar_new (): a block at the root if it has none, and one
\* object for each family.
AllocBlocks(s) ==
  LET r == IF slot[Root][s] # None THEN {} ELSE Range(Pick({s}, rootOut))
      f == Pick(parents, familyOut)
  IN  /\ rootOut' = rootOut \cup r
      /\ familyOut' = familyOut \cup Range(f)
      /\ slot' = [n \in Positions |->
           IF n \notin Nodes THEN slot[n]
           ELSE [slot[n] EXCEPT ![s] =
             IF n # Root THEN FamilyBlock(f[Parent(n)], ChildNumber(n))
             ELSE IF r = {} THEN @ ELSE RootBlock(CHOOSE o \in r : TRUE)]]
      /\ groups' = [n \in Positions |->
                      IF n \in Nodes THEN groups[n] \cup {GroupOf(s)} ELSE {}]
      /\ groupsOut' = groupsOut + Cardinality({n \in Nodes : GroupOf(s) \notin groups[n]})

\* With every id in use the program stops.
ScalarNew ==
  /\ inUse # Ids
  /\ CanPick({0}, rootOut) /\ CanPick(parents, familyOut)
  /\ inUse' = inUse \cup {LowestFree}
  /\ IF hooked THEN AllocBlocks(LowestFree)
     ELSE UNCHANGED <<groups, slot, rootOut, familyOut, groupsOut>>
  /\ UNCHANGED <<hooked, parents, tablesOut>>

\* The hook of scalar_free (): the groups are kept.
FreeBlocks(s) ==
  /\ rootOut' = rootOut \ {slot[Root][s].object}
  /\ familyOut' = familyOut \ FamilyObjects(parents, s)
  /\ slot' = [n \in Positions |-> [slot[n] EXCEPT ![s] = None]]

\* An id that is not in use is left alone.
ScalarFree(s) ==
  /\ s \in inUse
  /\ IF hooked THEN FreeBlocks(s) ELSE UNCHANGED <<rootOut, familyOut, slot>>
  /\ inUse' = inUse \ {s}
  /\ UNCHANGED <<hooked, parents, groups, groupsOut, tablesOut>>

ScalarsNext ==
  \/ TreeCreate
  \/ TreeDestroy
  \/ \E p \in Positions : FamilyNew(p)
  \/ \E p \in Positions : FamilyFree(p)
  \/ ScalarNew
  \/ \E s \in Ids : ScalarFree(s)

ScalarsSpec == ScalarsInit /\ [][ScalarsNext]_scalarVars
-----------------------------------------------------------------------------
(***************************************************************************)
(* Properties.                                                             *)
(***************************************************************************)
Occupied == {x \in Nodes \X Ids : slot[x[1]][x[2]] # None}

\* What grid_scalar_check () counts in the nodes, and compares with the pools.
BlocksAttached == Cardinality(Occupied \cap (Nodes \X inUse))
BlocksMissing == Cardinality((Nodes \X inUse) \ Occupied)
SlotsFilled == Cardinality(Occupied)
BlocksOut == Cardinality(rootOut) + NChildren * Cardinality(familyOut)

ChecksOut ==
  hooked =>
    /\ BlocksAttached = BlocksOut
    /\ tablesOut = Cardinality(Nodes)
    /\ groupsOut = GroupCount(groups, Nodes)
    /\ SlotsFilled = BlocksAttached
    /\ BlocksMissing = 0

\* grid_scalar_check (), which the tests call after each change, finds nothing:
\* what the nodes hold is what the pools have out, whatever ids came and went
\* while the tree changed its shape.  Nor is there what it does not look for:
\* two slots that share a block, or one whose object is not out of its pool, so
\* that a write to one scalar in one node reaches another.
GridScalarCheck ==
  /\ ChecksOut
  /\ \A x, y \in Occupied : slot[x[1]][x[2]] = slot[y[1]][y[2]] => x = y
  /\ \A x \in Occupied :
       LET b == slot[x[1]][x[2]] IN
       b.object \in (IF b.of = "root" THEN rootOut ELSE familyOut)
=============================================================================
