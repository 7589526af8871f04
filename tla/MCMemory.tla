------------------------------ MODULE MCMemory ------------------------------
\* What is handed out and given back, one model at a time: the pool of libb-amr,
\* the blocks that the nodes keep for each scalar, the sparse array of one level;
\* the ids and arrays of the scalars and caches that a program declares.  A
\* behaviour is one of the model it begins with; the others stand still.
\*
\* The pool has objects small and large, two of the large ones to a chunk; the
\* blocks are those of trees of up to seven nodes, with three ids in two groups;
\* the array has four rows of two pages, two of them in use.
EXTENDS Pool, GridScalar, MemIndex

VARIABLES
  model,
  text, main, phase, warned, numbers, taken, fixed, frames, heap

RowsInUse == {p \in [1..2 -> 0..3] : p[1] = 0 \/ (p[1] = 3 /\ p[2] \in {1, 2})}

ASSUME ScalarsAssumption == ScalarConstants
ASSUME LayerAssumption == LayerConstants


-----------------------------------------------------------------------------
\* Programs of a function with a block in it: two declarations of any kind, of
\* two names or one; what a program does with them; and, in the block, a jump to
\* its start, to the start of the function's, or out of the function.
Decl(type, storage, names) == [op |-> "decl", type |-> type, storage |-> storage, names |-> names, elements |-> <<>>]
Name(name, form) == [name |-> name, form |-> form]
One(type, storage, name, form) == Decl(type, storage, <<Name(name, form)>>)
Ints == <<<<"int">>>>
CacheOf(T, storage, name, form) == [One("cache", storage, name, form) EXCEPT !.elements = <<T>>]
Op(op, name) == [op |-> op, name |-> name]
Copy(to, part, from) == [op |-> "assign", to |-> to, members |-> IF part = 0 THEN 0 ELSE 1,
                         part |-> IF part = 0 THEN 1 ELSE part, from |-> from]
Foreach(x, in) == [op |-> "foreach", type |-> "int", storage |-> "", names |-> <<Name(x, "plain")>>, in |-> in]

\* a declaration with what can be done to it
ScalarDecls(x) ==
  {[decl |-> One("scalar", "", x, "plain"), do |-> <<Copy("g", 0, x)>>],
   [decl |-> One("vector", "", x, "plain"), do |-> <<Copy(x, 2, "g")>>],
   [decl |-> One("tensor", "static", x, "plain"), do |-> <<>>],
   [decl |-> One("scalar", "static", x, "plain"), do |-> <<Op("call", "")>>],
   [decl |-> Decl("scalar", "", <<Name(x, "plain"), Name("p", "pointer"), Name("k", "value")>>),
    do |-> <<Op("drop", "k")>>],
   [decl |-> One("int", "", x, "plain"), do |-> <<Copy(x, 0, "g")>>],
   [decl |-> One("scalar", "extern", x, "plain"), do |-> <<>>]}
CacheDecls(x) ==
  {[decl |-> CacheOf(Ints, "", x, "plain"), do |-> <<Op("push", x), Copy("c", 0, x)>>],
   [decl |-> CacheOf(Ints, "", x, "plain"), do |-> <<Op("push", x), Op("free", x), Op("push", x)>>],
   [decl |-> CacheOf(Ints, "", x, "braces"),
    do |-> <<Op("dirty", x), Foreach("x", x), Op("push", "c"), Op("close", "")>>],
   [decl |-> CacheOf(Ints, "static", x, "braces"), do |-> <<Op("dirty", x), Foreach("x", x), Op("close", "")>>],
   [decl |-> CacheOf(<<<<"char">>, <<"*">>>>, "", x, "plain"), do |-> <<Op("call", "")>>],
   [decl |-> CacheOf(<<<<"char", "p">>>>, "", x, "plain"), do |-> <<Op("push", x)>>],
   [decl |-> CacheOf(Ints, "typedef", x, "plain"), do |-> <<>>],
   [decl |-> CacheOf(Ints, "", x, "value"), do |-> <<>>],
   [decl |-> One("int", "", x, "plain"), do |-> <<Copy(x, 0, x)>>]}

Globals == <<Decl("scalar", "", <<Name("g", "plain"), Name("h", "pointer")>>), CacheOf(Ints, "", "c", "plain")>>

ProgramOf(a, b, jump) ==
  LET m == Len(Globals) + 1
      before == Globals \o <<Op("open", ""), a.decl>> \o a.do \o <<Op("open", "")>>
      block == <<b.decl>> \o b.do
      goto == Len(before) + Len(block) + 1
      to == CASE jump = "again" -> Len(before) + 1 [] jump = "from the start" -> m + 1 [] OTHER -> goto + 4
  IN  [main |-> m,
       text |-> before \o block \o <<IF jump = "return" THEN Op("return", b.decl.names[1].name) ELSE [op |-> "goto", to |-> to],
                                      Op("close", ""), Op("call", ""), Op("close", "")>>]

MCPrograms ==
  UNION {{ProgramOf(a, b, jump) :
     a \in kind["a"], b \in kind["a"] \union kind["b"],
     jump \in {"again", "from the start", "to the end", "return"}} :
     kind \in {[x \in {"a", "b"} |-> ScalarDecls(x)], [x \in {"a", "b"} |-> CacheDecls(x)]}}

Program == INSTANCE Declarations WITH
  Dimension <- 2, NScalars <- 7, CacheMin <- 1, IntMax <- 3, Programs <- MCPrograms, MaxDepth <- 2, Refills <- {0, 2},
  inUse <- numbers

ASSUME ProgramAssumption == Program!ConstantsOK
-----------------------------------------------------------------------------
poolVars == vars
programVars == <<text, main, phase, warned, numbers, taken, fixed, frames, heap>>

MemoryInit ==
  /\ model \in {"pool", "scalars", "layer", "program"}
  /\ Init /\ ScalarsInit /\ LayerInit
  /\ IF model = "program" THEN Program!Init
     ELSE /\ text = <<>> /\ main = 1 /\ phase = "translate" /\ warned = FALSE
          /\ numbers = {} /\ taken = {} /\ fixed = <<>> /\ frames = <<>> /\ heap = <<>>

PoolRun == model = "pool" /\ Next /\ UNCHANGED <<model, scalarVars, layerVars, programVars>>
ScalarsRun == model = "scalars" /\ ScalarsNext /\ UNCHANGED <<model, poolVars, layerVars, programVars>>
LayerRun == model = "layer" /\ LayerNext /\ UNCHANGED <<model, poolVars, scalarVars, programVars>>
ProgramRun == model = "program" /\ Program!Next /\ UNCHANGED <<model, poolVars, scalarVars, layerVars>>

MemoryNext == PoolRun \/ ScalarsRun \/ LayerRun \/ ProgramRun

MemorySpec == MemoryInit /\ [][MemoryNext]_<<model, poolVars, scalarVars, layerVars, programVars>>

\* The properties of Declarations.
IdsOfTheLiving == Program!IdsOfTheLiving
CachesApart == Program!CachesApart

MCSizes == {24, 400000}
MCHotLimits == {0, 1, 3}
=============================================================================
