------------------------------ MODULE MemIndex ------------------------------
(***************************************************************************)
(* The layers of the tree: the sparse arrays of libb-amr/memindex.c, one   *)
(* per level, from a position to the node there.  A table of pointers is a *)
(* mapping of its own; the tables of the last axis point to nodes, those   *)
(* of the axes before to tables.  A page in which every pointer is null is *)
(* given back, whatever it holds.                                          *)
(*                                                                         *)
(* A pointer is named by the path to it: its index in the first table,     *)
(* then in the next.  A path of NAxes indices is a position.                *)
(***************************************************************************)
EXTENDS Integers, Sequences, SequencesExt

CONSTANTS
  NAxes,         \* dimension
  Size,         \* pointers in a table: 1 << level
  PageLength,   \* pointers in a page: 512
  Used,         \* model bound: the positions that get nodes
  NodeIds,      \* what a position may point to
  NoPointer     \* NULL

Coordinates == 0..(Size - 1)
PathsOf(n) == [1..n -> Coordinates]
Places == PathsOf(NAxes)
Pointers == UNION {PathsOf(n) : n \in 1..NAxes}
TablePaths == UNION {PathsOf(n) : n \in 0..(NAxes - 1)}

LayerConstants ==
  /\ NAxes \in Nat \ {0} /\ Size \in Nat \ {0} /\ PageLength \in Nat \ {0}
  /\ Used \subseteq Places
  /\ NoPointer \notin NodeIds \cup {"table"}

VARIABLES
  tables,       \* the tables mapped
  at,           \* each pointer: null, a node, or "table"
  inMemory,     \* the pages in memory: a table and the first index of the page
  assigned      \* history: the node assigned to each position and not freed

layerVars == <<tables, at, inMemory, assigned>>

\* The page of a pointer.
PageOf(p) == <<Front(p), (Last(p) \div PageLength) * PageLength>>

InPage(page) ==
  {p \in Pointers : Front(p) = page[1] /\ Last(p) \in page[2]..(page[2] + PageLength - 1)}

LayerInit ==
  /\ tables = {}
  /\ at = [p \in Pointers |-> NoPointer]
  /\ inMemory = {}
  /\ assigned = [p \in Places |-> NoPointer]

\* mem_allocated (), with the path still to follow.
Allocated(p) ==
  /\ <<>> \in tables
  /\ \A n \in 1..NAxes : p[n] \in Coordinates /\ at[SubSeq(p, 1, n)] # NoPointer

\* mem_data ()
Data(p) == at[p]

TablesTo(p) == {SubSeq(p, 1, n) : n \in 1..(NAxes - 1)}

\* mem_assign (): the tables on the way are mapped as they are needed.
Assign(p, b) ==
  /\ tables' = tables \cup TablesTo(p) \cup {<<>>}
  /\ at' = [q \in Pointers |->
              IF q = p THEN b ELSE IF q \in TablesTo(p) THEN "table" ELSE at[q]]
  /\ inMemory' = inMemory \cup {PageOf(q) : q \in {q \in TablesTo(p) : at[q] = NoPointer} \cup {p}}
  /\ assigned' = [assigned EXCEPT ![p] = b]

\* Faulty variant for a mutation run: as many pointers as a table has, from the
\* one that was freed on.
Scanned_FromPointer(p) ==
  {q \in InPage(PageOf(p)) : Last(q) >= Last(p)}

\* The pointers mem_free1d () looks at: the page, or the table if it is
\* smaller.
Scanned(p) == InPage(PageOf(p))

\* mem_free (): a page left empty is given back; then, an axis up, the page
\* with the pointer to the table.
Free(p) ==
  /\ Allocated(p)
  /\ LET freed == [at EXCEPT ![p] = NoPointer]
         Empties(n) == \A q \in Scanned(SubSeq(p, 1, n)) : freed[q] = NoPointer
         given == {SubSeq(p, 1, n) : n \in {n \in 1..NAxes : \A k \in n..NAxes : Empties(k)}}
         gone == UNION {InPage(PageOf(q)) : q \in given}
     IN  /\ at' = [q \in Pointers |-> IF q \in gone THEN NoPointer ELSE freed[q]]
         /\ inMemory' = inMemory \ {PageOf(q) : q \in given}
  /\ assigned' = [assigned EXCEPT ![p] = NoPointer]
  /\ UNCHANGED tables

\* The tables that mem_destroy () can reach.
Reached == {t \in TablePaths : \A n \in 1..Len(t) : at[SubSeq(t, 1, n)] # NoPointer}

\* mem_destroy ().
Destroy ==
  /\ <<>> \in tables
  /\ tables' = tables \ Reached
  /\ at' = [p \in Pointers |-> NoPointer]
  /\ inMemory' = {}
  /\ assigned' = [p \in Places |-> NoPointer]

LayerNext ==
  \/ \E p \in Used, b \in NodeIds : Assign(p, b)
  \/ \E p \in Used : Free(p)
  \/ Destroy

LayerSpec == LayerInit /\ [][LayerNext]_layerVars
-----------------------------------------------------------------------------
\* A sparse array: mem_allocated () and mem_data () tell of each position what
\* was assigned there and not freed since, through every page given back; the
\* pages in memory are those that hold a pointer, and mem_destroy () can reach
\* every table.
SparseArray ==
  /\ \A p \in Places : IF Allocated(p) THEN Data(p) = assigned[p] ELSE assigned[p] = NoPointer
  /\ inMemory = {PageOf(p) : p \in {p \in Pointers : at[p] # NoPointer}}
  /\ tables \subseteq Reached
=============================================================================
