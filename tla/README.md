# A TLA+ development of flood-sim

flood-sim is a collection of C libraries for flood simulation: an adaptive
block-structured mesh (`libb-amr`), a C front end that the mesh is written in
(`libc-pp`), drainage networks on elevation data (`libflow-network`), a reader
of elevations (`libgeotiff`), a WebSocket server (`libws`), and allocators and
writers around them. This directory holds TLA+ modules that model its core, the
instances TLC checks, and proofs TLAPS checks.

Contents: [inventory](#1-inventory), [modules](#2-the-modules-and-the-code),
[runs](#3-the-runs), [bounds](#4-bounds-and-why-they-are-enough),
[fairness](#5-fairness), [proofs](#6-what-is-proved),
[divergences](#7-where-the-code-and-its-documentation-disagree),
[what is left out](#8-abstractions-and-what-is-not-modelled),
[what could follow](#9-what-could-follow), [running it](#10-running-it).

## 1. Inventory

But for `libws` the code is sequential. What makes it hard is state kept by
increments over long sequences of calls, recursion that changes what its callers
are looping over, data read while it is known to be out of date, and text
rewritten by what a name meant elsewhere. `libws` has threads and locks.

### libb-amr: the mesh

| part | state | operations | what makes it hard | what must hold |
|---|---|---|---|---|
| tree (`tree.c`, `tree.h`) | nodes by level and position, two flags each; number of nodes and leaves, leaves per level, deepest level, coarsest leaf | `tree`, `tree_refine`, `tree_coarsen`, `tree_destroy` | `tree_refine` calls itself on coarser leaves beside its argument from inside its loop over them; a cascade is many divisions; counters are never recounted | one tree; leaves that touch differ by a level at most; counters exact; a refinement divides no leaf for nothing, and returns |
| adaptation (`adapt.c`) | flags of a call, its two lists | `adapt_wavelet` | cascades divide leaves that are listed, or beside listed ones; merges refused now may be possible later in the list; the mesh may swing | one level per call; nothing mergeable missed; the mesh comes to rest |
| values (`block-ghosts.c`) | a block of cells per node and scalar, no ghosts | `block_gather`, `block_prolong`, `block_restrict`, `tree_restrict` | ghosts across level jumps, walls and corners; parents out of date while leaves are written | ghosts come from where the header says; integrals kept; parents are means |
| pool (`pool.c`) | chunks, a hot and a cold free list linked through the freed objects | `pool_new`, `pool_alloc`, `pool_alloc_uninit`, `pool_free`, `pool_set_hot_max`, `pool_trim`, `pool_destroy` | the link lives in memory that is zeroed, or given back to the system; limits change while objects are out | nothing lost or shared; zeros where promised |
| blocks per scalar (`grid-scalar.c`) | per node a table of groups of block pointers | families made and freed by the tree; hooks on ids made and freed by the program | the two change independently, and each must find what the other left | what nodes hold is what pools have out; no block shared |
| traversal (`morton-curve.h`) | a stack in a fixed array | `morton` | its bound; its order, which `tree_restrict` relies on | fits, complete, children first |
| index arrays (`memindex.c`) | inner tables and pages of pointers per level, a count per page | `mem_assign`, `mem_free`, `mem_destroy` | pages are given back when empty | a partial function of positions |
| loops over cells (`block-loops.h`) | position in the block, a flag for `break` | plain, tiled, interior, SIMD, threads, device | padding, ghosts and tiles; `break` out of nested loops | each cell once, in order, none after a break |

The tree calls the pool and `grid-scalar` for memory, `memindex` to find nodes,
and `block-ghosts` to fill the children it makes and the parent it keeps.
`adapt_wavelet` calls `tree_refine` and `tree_coarsen`; `scalar_new` and
`scalar_free` reach the tree through two function pointers it sets.

### libc-pp: the front end

`scalar.c` keeps the set of scalar ids (a bit per id) and two hooks, and numbers
global scalars at start-up. The translator reads preprocessed C and writes C.
`scope.c` keeps the stack of scopes that tells type names from others, with the
parameters of a function kept between its declarator and its body, and hash
tables recycled through a free list; `parser.y` and `lexer.l` drive it. Block
macros (`@loop`) are copied to each use with the names of their bodies renamed
(`translate.c`). Scalars and caches that a program declares get initialisers and
cleanups. `driver.c` runs gcc on what comes out. `cwrap/cache.h` is a growable
array. Correctness: ids unique while in use, and given back on every way out of
a scope; a name resolves to the declaration C has in scope; a macro captures no
name; recycled tables are empty; the exit status of `cwrap` is true.

### libflow-network: drainage

`flow.c` fills pits by priority flood (`min-heap.c`), gives each cell its
steepest descent (D8), resolves flats by distances from inlets and to outlets
(`fifo.c`), and accumulates along the result in topological order. Correctness:
after the flood each cell it covers has a way down to the boundary; drains have
no cycle; each cell of a flat with an outlet drains; the accumulation of a cell
is the number of cells above it, in whatever order the queue ran.

### libgeotiff: elevations

`parse.c`, `tiff.c` and `geotiff.c` read the directory of a TIFF file and bring
its tiles or strips, packed by LZW (`lzw.c`), into one raster; elevations at
points and windows are taken from it. Correctness: what was encoded is decoded,
each pixel lands in its place, and a window is that of the place asked for.

### libws: the server

One thread accepts, one per connection reads, one per closing connection waits
for its timeout, and threads of the application send, ping and close. They share
the table of clients under one mutex, and each client's fields under three
locks. Slots of the table are reused. Correctness: messages arrive as they were
sent, a CLOSE is answered, a slot comes back, and threads do not wait for each
other for good. `libws` is a copy of wsServer, which nothing else in the
repository uses.

### The rest

`liballoc` (arenas, a reuse allocator, arrays, grids), `libgeojson` (a JSON
parser), `libview` (image files), `libpinn` (cells handed to an embedded Python
interpreter), `libwebgl` (an LRU cache in JavaScript that no file imports),
`libmpi` (a Makefile), scripts and small test programs. Section 8 says why each
is left out.

## 2. The modules and the code

| module | models | refines / is composed with |
|---|---|---|
| `TreeIndex` | the index arithmetic of `tree.h`: children, parent, the box of neighbours, the domain | used by all of the mesh |
| `BalancedTree` | nothing of the code: what `tree.h` promises | the abstract specification of `AmrTree` |
| `AmrTree` | `tree.c` | implements `BalancedTree` |
| `Adapt` | `adapt.c` | over `AmrTree`, whose actions it calls |
| `BlockGhosts` | `block_gather`, cell by cell, and beside it the position arithmetic of the documentation | pure operators |
| `BlockValues` | `block_prolong`, `block_restrict`, `block_wavelet`, `tree_restrict`, and the values the tree's operations write | over `AmrTree` and `BlockGhosts` |
| `BlockLoops` | `block-loops.h`, the layouts of `block_shape_aligned` | |
| `MortonTraversal` | the loop of `morton-curve.h` | |
| `ObjectAllocator` | what `pool.h` promises | the abstract specification of `Pool` |
| `Pool` | `pool.c` | implements `ObjectAllocator` |
| `GridScalar` | `grid-scalar.c`, `scalar.c` | pools as `ObjectAllocator` promises |
| `MemIndex` | `memindex.c` | beside it, a partial function |
| `ScopeTable` | `scope.c` | |
| `DeclaredNames` | what the grammar of `parser.y` does to the scopes, and the scopes of C | over `ScopeTable` |
| `BlockMacros` | definition, binding and expansion of block macros (`parser.y`, `translate.c`) | |
| `Declarations` | scalars and caches of a program: `translate.c`, `scalar.h`, `cache.h` | gcc's cleanups are external |
| `Driver` | `driver.c`, `translate_file` | gcc is external |
| `Raster` | the raster, its ghosts, the eight directions | used by the next four |
| `Fifo`, `MinHeap` | `fifo.c`, `min-heap.c` | the fronts of the next three |
| `PriorityFlood`, `FlatRouting`, `FlowAccumulation` | the stages of `flow.c` | over `Raster` and the fronts |
| `FlowNetwork` | `flow_network` as a whole | composes the three |
| `Lzw` | `lzw.c`; the encoder is external | |
| `GeoTiff` | `geotiff.c`, `tiff.c`, `parse.c`, parts of `coordinates.c` | what `Lzw` yields |
| `WsFrames` | reading of frames and reassembly of messages (`ws.c`) | |
| `WsServer` | the threads of `ws.c` | over `WsFrames` |
| `TreeIndexTheorems`, `AmrTreeTheorems` (`AmrTree`, `Adapt`, `BlockGhosts` and `BlockValues`), `GeoTiffTheorems`, `MortonTheorems` (`MortonTraversal` and `BlockLoops`), `MemoryTheorems` (`Pool`, `GridScalar` and `MemIndex`), `FlowNetworkTheorems`, `WsServerTheorems`, `DeclaredNamesTheorems` | proofs | |

`MC*` modules extend or instantiate these for TLC. Four of them, `MCMemory`,
`MCBlocks`, `MCFlowNetwork` and `MCDeclaredNames`, hold several models: a
behaviour is one of the model it begins with and the variables of the others
stand still, so that what belongs together is one run. Operators called
`Name_Something` and marked *faulty variant* are plausible mistakes in the code:
`PROJECT.json` pairs each with a property that TLC then finds violated.

**AmrTree.** `nodes`, `leaf` and `hasChildren` are the allocated indices and
the two flags; `nb`, `nlb`, `nleaves`, `depth`, `depthmin`, `depthmax` are the
fields of the grid. `stack` is the C call stack of `tree_refine`: a frame
`[p, m, count]` is a call on `p` whose loop over the box stands at slot `m`.
`RefineCall` is the outermost call, `RefineDescend` the recursive one (line
222), `RefineDivide` lines 227-229 with the whole of `add_children` and
`divide_leaf`. A frame keeps its `m` while its callee runs, as the loop
variable does, and looks at the same slot again when it returns, as the `while`
does. `before` is a history variable: the nodes at the outermost call, which
the refinement mapping shows as the abstract cells until that call returns.

**Adapt.** A call is `Begin` (bounds clamped, flags), one `RefineNext` per
listed leaf, each followed by all of the steps of its `tree_refine`
(`RefineRuns`), `Collect`, one `MergeNext` per family, `Return`. `qsort` is not
stable and sorts by level only, so equal levels come in any order.

**BlockGhosts, BlockValues, BlockLoops.** `GatherCell` follows `block_gather`
region by region, with its shortcut for rows it can copy; `GhostCell` is the
sentence of `block-ghosts.h`. `BlockValues` runs the actions of `AmrTree`
together with what each writes; the program is the action `WriteCell`. In
`BlockLoops` a step is a test, a visit or an increment of one of the nested
loops; `stop` is the flag by which `break` in the body leaves all of them.

**Pool.** `word` is the first word of each object: a link on a list, dirt in
use, zero when fresh. `touched` says which pages are in memory. Each iteration
of `pool_trim` is a step, and `madvise` may fail (`given`).

**GridScalar.** `slot[n][s]` is the pointer in node `n`'s table for id `s`:
which object, and whose child's part of it. Freed objects are reused at once.

**MemIndex.** `tables` are the inner tables, `at` the pointers, `inMemory` the
pages; `assigned` is the partial function of what was assigned and not freed.

**MortonTraversal.** `Down` is an iteration of the inner `while`, `Visit` the
body and what follows it.

**ScopeTable, DeclaredNames.** `st` is the parser's state: scopes, the pending
parameters, buckets, the free list of tables. `frames` are the scopes that C
has at that point of the program, written from the grammar and not from
`scope.c`. A file is every short sequence of openings, declarations, closings
and at most one syntax error.

**BlockMacros.** A program is a pair of definitions and a `main`; `output` is
the tree that gcc gets, in which each name knows what it meant in the source.

**Declarations.** First the text is translated or rejected, then it runs:
`frames` are the calls with their variables, the last declared first to be
cleaned up; `inUse` the ids, `heap` the arrays of caches.

**Driver.** `plan` is what `main` made of the arguments; a step is one run of
gcc or one translation. The content of a file is a term that says from what and
with which flags it was made.

**FlowNetwork.** `phase` runs through the calls of `flow_network`. A raster has
its first ring of ghosts, as `geotiff_dem_window` fills it and `grid_copy` keeps
it. The flood takes one cell from the heap a step, the accumulation one cell
from the queue; the two searches over flats are a step each.

**Lzw, GeoTiff.** A step is one code, or one tile. Afterwards `answer` is what
`geotiff_elevation` or `geotiff_dem_window` gives, also after the file was
closed.

**WsServer.** `pc[t]` says where thread `t` is; `<<"conn", c>>` is the reader of
connection `c`, `<<"timer", c>>` its `close_timeout`, `<<"user", u>>` a thread
of the application. `mutex` and the `lock` of a slot (its `mtx_ping`) are locks;
what is guarded by the other locks is one step. `fd` is the table of
descriptors: the connection behind each number, which is free again once it is
closed. A thread reads the descriptor from its slot into `held`, and calls with
it in a later step; in between it may have been closed, and given to another.
Each `send ()` has an outcome of its own: it reaches whoever is behind the
descriptor, or fails, also on a descriptor that is open. `seen` is history.

## 3. The runs

| run | shows | states |
|---|---|---|
| `tree_1d` | On an interval four levels deep: the tree stays whole (`WholeTree`) and balanced (`Balanced`, the test's own predicate) with exact counters (`CountersExact`) in every state, those between two divisions of a cascade too; callers find their leaf and scanned slots undisturbed (`CallersUndisturbed`); refinements return (`RefineReturns`); each is, as a whole, one step of `BalancedTree` that divides a least set of leaves (`ImplementsPromise`) | 2,533 |
| `tree_2d` | On a square three levels deep: `TouchingLeavesBalanced`, balance in terms of space, corners included, and not of the boxes the code looks at; the assertion of `tree_refine` (`CalleeDivides`); ghosts around every node of each of these trees (`GhostsAsDocumented`) | 1,046 |
| `blocks` | The stack of the walk fits (`StackFits`), visits are in Morton order with children first, and complete when it ends (`InMortonOrder`). Every loop over a block visits each cell once and in order (`EachCellOnce`). The integral over the leaves is what was written, whatever was refined or merged, with parents out of date too (`IntegralKept`); once restricted, parents stay means until a leaf is written (`ParentsAreMeans`); cells a division filled have no wavelet, so that a refinement by itself asks for no other (`DividedAsPredicted`). `adapt_wavelet` under changing fields and bounds: no leaf moves by more than a level in a call, cascades included (`OneLevelPerCall`); when a call ends no chosen family is left that could be merged (`MergesExhausted`); once fields and bounds stay, the tree comes to rest (`ComesToRest`) | 95,543 |
| `memory` | Both lists of a pool stay intact chains that, with the users, account for every object (`NothingLostOrShared`), and the pool implements an allocator, zeros included (`KeepsPromise`). `grid_scalar_check ()`, which the tests call, never fails, and no two slots share a block (`GridScalarCheck`). The index array is a partial function with no page too many (`SparseArray`). The ids in use are those of the scalars that live, however scopes are left (`IdsOfTheLiving`); no cache shares or loses its array (`CachesApart`) | 173,597 |
| `names` | The lexer finds the declaration C has in scope, syntax errors included (`NamesAsInC`), and no hash table is in use twice (`TablesStayApart`). In the expansion of a block macro each name means what it means in the program (`Hygienic`). `cwrap` exits with 0 only when each part of the result is made of its own source with its own flags, and a failure leaves whole results only, none of the source that failed (`ExitsTruly`) | 871,284 |
| `flow_network` | Text goes through LZW unchanged and the decoder stays inside its dictionary (`DecodesTheText`); pixels, elevations and windows are in place (`TilesInPlace`). The flood fills to the spill level and no higher (`FilledToSpill`); flooded cells and flats with an outlet drain (`WaterFindsAWay`), without cycle (`DrainsFormForest`), and the accumulation counts each cell upstream once while the assertions hold (`CountsExact`); the searches over flats find the least steps, through a ring that grows while it wraps (`SearchesFindSteps`) | 399,031 |
| `ws_server` | Threads wait for each other for good in one way only (`OnlyPingsEmbrace`, section 7); messages are put together as they were sent and PINGs answered in order (`MessagesAsSent`); a CLOSE is answered, unless it is lost in a `send ()`, and not repeated (`CloseAnswered`) | 2,630,750 |
| `ws_slots` | A closing client loses its slot, though it never answers, unless two PINGs wait for each other or a `send ()` without a timeout never comes back while `mutex` is held (`SlotsComeBack`) | 389,562 |
| `pool_cold`, `ws_onclose`, `loop_hidden`, `geotiff_predictor` | four sentences of headers, comments and the manual that the code does not keep: section 7 | |

The count of `blocks`, `memory`, `names` and `flow_network` is the sum over the
models they hold.

## 4. Bounds, and why they are enough

- `tree_1d`: `MaxDepth = 4`, every tree of that depth (31 nodes is the whole
  tree, so `MaxBlocks` never binds). Cascades nest three calls deep.
- `tree_2d`: `MaxDepth = 3`; refinements are called on trees of up to 17 nodes
  and may end above that. Four families are enough for a leaf with gaps towards
  two sides and the corner between them, which two or three recursive calls
  fill. What holds for three dimensions, and for any depth, is proved. `BlockM =
  2` and two ghost layers: a layer as wide as the block, so every ghost row, at
  every wall, level jump and corner occurs; wider blocks repeat the same case
  distinctions. The code's blocks have 16 cells or more a side, and 2 layers.
- `blocks`: all binary trees of up to four levels, balanced or not, walked from
  all indices, also those at which no node is allocated. Blocks for loops are of
  one or two cells a side in three dimensions, with and without ghosts, aligned
  to one, two and four, tiles smaller and larger than the block, two threads and
  at most four rows between them. Blocks with values have four cells, the fewest
  `block_wavelet` takes; one write (`MaxWrites = 1`) is enough, as every
  operation is linear in the values and none decides anything by them, so a
  field is a sum of such writes. Numbers are modulo the prime 5, where halves
  and eighths exist; an identity of rational coefficients that fails, fails
  modulo all but finitely many primes.
  For `adapt_wavelet`, an interval and `MaxDepth = 3`. Fields are free where it
  matters, at levels 1 and 2 on one side, and chosen afresh at each call until
  `steady`; bounds are out of range, a floor and a ceiling, and equal. Leaving
  the errors free everywhere would only add combinations of far-away nodes.
- `memory`: three pool objects, two to a chunk, so that a chunk boundary is
  crossed and either list can hold several; sizes below and above the page
  threshold; hot limits 0, 1 and 3 (never reached). Three ids in groups of two,
  six blocks: two ids in all three families of the tree, or three in two. An
  array of two axes with four pointers per table and two per page, six positions
  used: rows longer than a page, a page beside an empty one, rows never made.
  Programs of a function with a block in it, a declaration in each with what can
  be done to it, left by jumps back, out, or by `return`, called from themselves
  once: 1,232.
- `names`: two declarations in up to five constructs, or in four and one syntax
  error, which may be anywhere; tables of two buckets that grow to four, with names that share a
  bucket in the small one and not in the large one. A definition, a second one
  with a use of the first, and a `main` with single and nested uses, parameters
  passed on, listed or not, 216 of the 16,024 programs with mistakes the
  translator must refuse. 4,320 command lines over three sources, two of them
  of one name in two directories.
- `flow_network`: rasters of 4 x 4 with five kinds of rim (rough, a slope, a
  notch, below the sea, with a gap in the data) and every interior of four
  elevations; around them the sea with a side of no data, ground level with the
  border, or ground that rises and falls beside it: 3,855. A heap and a queue
  that grow from two. The accumulation pushes all its sources before it takes
  one, and grows the queue with its front at slot 0 only; the searches of
  `Garbrecht_Martz` grow it while its contents wrap. Codes of three to four bits where TIFF has nine to
  twelve, so that short texts fill the dictionary. Images of two tiles by two,
  ragged at either side, in tiles and in strips, and one of 6 x 7 with windows
  around each of its edges.
- `ws_server`: two connections, two slots, two threads of the application, up to
  three calls and four frames, in five scenarios chosen in `Init` for what they
  bring together (`MCScenarios`). Two descriptors, so that the second client may
  get the number of the first. Idle application threads are alike, so the first
  of them calls.
- `ws_slots`: the same sizes, in six scenarios (`MCFewScenarios`), half of them
  with `timeout_ms` set.

## 5. Fairness

- `AmrTree`: `WF(RefineStep)`. A call that has begun runs on; nothing else runs
  meanwhile. Nobody is obliged to call.
- `Adapt`: weak fairness of beginning a call and of its steps. `adapt_wavelet`
  is called once per time step of the solver; within a call the same thread
  runs on. `steady` is never obliged to become true: `ComesToRest` speaks of
  the behaviours in which it does.
- `WsServer`: `WF(Runs)`: when threads can go on, one does. No step is repeated
  for ever there, so none is left out for good. A `send ()` to a connection that
  is there need not come back unless `timeout_ms` sets `SO_SNDTIMEO`
  (`ws.c:1857-1872`), and a `recv ()` never need; on a descriptor that is closed
  both return. No client is obliged to send, answer or end, and nobody to call.
- The other modules state none, and no liveness is claimed for them. The runs
  whose models come to an end do not check deadlock, and say so.

## 6. What is proved

### The tree

For every `Dimension` in 1..3, every `MaxDepth` in 1..30 and any `MaxBlocks`
(the named assumptions of `TreeIndex` and `AmrTree`), in `AmrTreeTheorems`:
`TypeCorrect`, `TreeStaysWhole`, `TreeStaysBalanced`,
`TouchingLeavesStayBalanced`, `CallersStayUndisturbed`, `CalleeAlwaysDivides`,
`CallsDescendOneLevel`, `CountersStayExact`, `TreeImplementsPromise`.

None of them is inductive alone. The inductive invariant (`TreeInv`,
`TreeInvHolds`) adds what the code never states: *an index beside a node with
children holds a node* (`ParentsSurrounded`). It is what `tree_refine` makes
true before it divides, and what `tree_coarsen` checks when it refuses a family
beside grandchildren; `Balanced` follows from it at once (the parent of a
leaf's neighbour is beside the leaf's parent, or is it). It also makes a gap
covered by a leaf exactly one level coarser (`CoveringIsParent`), which is why
the recursive call can divide it, why calls nest no deeper than the tree, and,
the levels on the stack being strictly decreasing, why no callee divides the
leaf of a caller. Divisions only add nodes, so scanned slots stay filled.
`TreeIndexTheorems` has the arithmetic: a child of its parent, boxes and
neighbours, the domain.

Balance in space: let two leaves touch, the smaller one two levels deeper or
more. Its ancestor half as wide as the larger leaf has children
(`AncestorsHaveChildren`, by the least counterexample), and lies beside a child
of the larger leaf, or is one (`TouchedChild`, from the fact that halving `d`
times is dividing by `2^d`). So that child is a node by `ParentsSurrounded`,
and the larger leaf is none.

Counters: the family of a leaf is never there yet, and that of a merged node is
all leaves, so each increment counts right; `update_depth ()` and
`update_depthmin ()` find their levels among the counts because a deepest node
is a leaf (`CountInv`, with the cardinalities of families by dimension).

The promise: `TreeImplementsPromise` shows that `AmrTree` implements
`BalancedTree`, each refinement with its cascade being one step. The hard part is
that the cascade is *least*, for which no induction over the closure of the
divisions is needed. The history (`HistoryInv`) says that each node divided since
the call began was divided for a reason: for an index that the tree at the
beginning lacks, beside a leaf of it that has since been divided too or is on the
stack (`DividedForAReason`). When the call ends, take any families back, and look
at the deepest one: the leaf it was divided for is one level deeper, so it keeps
its children, and they touch a leaf two levels coarser.

### Adaptation

In `AmrTreeTheorems` too, for every field, all bounds and every dimension and depth.
A step of `adapt_wavelet ()` is a step of the tree or leaves it alone
(`AdaptStepsTheTree`), so `TreeInv` and the promise carry over
(`TreeInvUnderAdapt`, `AdaptKeepsPromise`). `OneLevelAtMost`: while it refines, no
node newer than the call has children, whatever the cascades divide
(`GrownFrom`); while it merges, the families left are of leaves the call began
with; and those do not cover one another, which turns both into levels.
`MergesAreExhausted`: families come finest first, and what stands in the way of a
refused one, grandchildren of it or of a neighbour, is a family one level deeper,
whose turn has passed (`RefusedStaysRefused`).

### Ghost cells

`GatherIsDocumented` in `AmrTreeTheorems`: for every tree that `tree.c`
makes, in every dimension, every even `BlockM` and up to `BlockM` ghost layers,
`block_gather ()` takes each scratch cell from where `block-ghosts.h` says. Along
one axis the reflected position of a cell is its position in the block that the
code looks in (`AxisAgrees`); so both reach one index, hence one node that covers
it, and there is one because the root covers all that is inside the domain.

### Values in the blocks

In `AmrTreeTheorems`, for every dimension and depth, every even `BlockM` and every
odd prime (`ValuesAssumption`): `IntegralStaysKept`, `ParentsStayMeans` and
`DivisionsHaveNoWavelet`. Sums
over cells, blocks and leaves are folds; `TreeIndexTheorems` shows what is used of
them (a sum by parts, `SumOfUnion`; under other names, `SumRenamed`; modulo a number,
`SumAffine`) by looking at a least set for which it fails.

What a division writes has the mean that was there (`MeanOfProlonged`): the child at
the opposite corner takes what a child's slopes add (`ShiftOpposite`), so over the
fine cells of one coarse cell they cancel (`ShiftsCancel`), whatever neighbours and
walls `block_gather ()` has put around it. What it reads is there to be read
(`GatheredStored`, from the ghost cells above). Hence a node weighs as much as a
family of its mean (`FamilyWeight`), and one may take the other's place among the
leaves (`Exchange`): in `divide_leaf ()` because of what is written, in
`tree_coarsen ()` because the mean is what it writes. The invariant `ValueInv` is
that the integral of the leaves is the one written and, once `tree_restrict ()` has
run, that parents are means; a merged node beside a parent changes nothing, as it
kept its mean, and a divided one neither. `tree_restrict ()` itself is a recursive
function; that there is one, made of blocks, is shown from the deepest level up
(`AveragesExist`, `AveragesAreBlocks`).

That a divided block has no wavelet (`DividedAsPredicted`) is not inductive: the
wavelet of a block depends on neighbours that come and go. `PredictedInv` says
instead that the block is still what the linear prolongation makes of the blocks of
its parent's own level (`OwnLevel`), all of which are stored, as a parent is
surrounded (`OwnLevelStored`), and which stay what they are while no leaf is written
(`PredictionKept`): a merge writes a mean that was there, and a second
`tree_restrict ()` changes nothing (`RestrictKeepsMeans`). Then `block_wavelet ()`
finds just these: each coarse cell that it averages from fine ones is a cell of a
family over a cell of that level, or eight readings of one cell where the fine ones
are ghosts of a coarser leaf; walls turn the order of the family and not its mean
(`FineAroundMeaning`, `AverageOfFine`).

### The walk

For every set of trees, balanced or not, in `MortonTheorems`: `MortonTypes`,
and `StackAlwaysFits`. The invariant bounds each *entry*: below an entry at
level `l` there are at most `NChildren * (l - root.level)` others
(`StackInv`); a step down adds one family's worth and goes one level deeper.

`VisitsInMortonOrder` and `EachNodeOnce` are about what the
body sees. They need no induction over trees: `OrderInv` describes the walk as
one line, what has been seen followed by what is on the stack. Each entry of the
line stands for a node or for all that lies below one, comes before the next in
Morton order, and together they are the subtree; a step down replaces one entry
by its children and itself, in place.

### The loops over cells

`CellsAreVisitedOnce` in `MortonTheorems`: for every layout that
`block_shape_aligned` makes, every halo up to the ghosts, size of tiles and number
of blocks and of threads, `EachCellOnce` (`LoopAssumption` asks for sides and
vectors of at least one, and for a block). The invariant (`LoopInv`) describes
where a loop is by the cells it has come to before its next step (`Reached`): these
are the visited ones, in the order of storage (`Ordered`). A step from one loop to
the one around it leaves that set alone (`OnwardStep`), since what the inner loop
had left is outside of the block or of the tile; the body adds its cell and nothing
else. After a break the set says nothing any more, but `stop` is set then, and with
it no loop goes back to the body. For a team, rows are begun as a whole and are one
thread's; when none is left, all cells have been begun (`NoRowLeft`). Places follow
from cells by digits (`PlaceDigits`): a row is as long as `nx`, which holds the block
with its ghosts, so that cells in the order of the loops are in that of their
indices and a row of `block_rows` ends before the next begins.

### The pool

For any number of objects and any sizes and limits, in `MemoryTheorems`:
`PoolTypeCorrect`, `NothingLost`, and `PoolIsAllocator`: `Pool` implements
`ObjectAllocator`, by the mapping that shows for each object held whether its
owner may see anything but zeros. The invariant `PoolInv` says that each list
is a chain of distinct objects through their first words, the two without an
object in common and together all that is cut and not held; that a cold object
is zero but for its link; and that what has not been cut, and what
`pool_alloc` gave out and nobody wrote, is zero. The last two are why
`pool_alloc` may skip clearing all but the link of a cold object and all of a
fresh one. They hold in the middle of `pool_trim ()` too, which is one step per
object.

### Blocks per scalar

For any number of ids and objects, any width of the groups, every dimension and
depth (`ScalarConstants`, with the assumptions of `TreeIndex`), in
`MemoryTheorems`: `ScalarsCheckOut`, that `grid_scalar_check ()` never fails
and no two slots share a block. The check is not inductive: it does not say that
a slot of an id *not* in use is empty, nor that the eight slots of a family for
one id are one object's parts, and a free in either order would break it.
`ScalarInv` says it all at once (`BlocksLaidOut`): there is a bijection from the
ids in use to the objects of the root's pool, and one from the pairs of a node
with children and an id in use to those of the families' pool, and the tables are
what these two lay out. Each of the five operations takes the bijections to new
ones: a family more or less changes the pairs by one node, an id more or less by
one id. `GroupsCounted` carries the count of groups in the pools, which
`family_free ()` takes down by what it finds in the tables and not by what the
ids in use would need: that the two agree is what has to be shown, as an id may
have come or gone since the family was made.

### The layers of pointers

For any number of axes, size and page length, and any positions, in
`MemoryTheorems`: `LayersAreSparseArrays`. The invariant `LayerInv` adds to the
property that the way from the first table to an assigned position, and to each
table, is filled with pointers. From it: `mem_free ()`, which asks only whether the
page with the pointer is empty, gives back no page that another position needs;
and its loop upwards ends at once, as the page an axis up still has the
pointer to the table, so tables stay where `mem_destroy ()` finds them.

### The tables of names

For any names, any hash, any bounds on the tables' sizes that are a power of two
apart (`BucketsAssumption`; the code has 8 and 2^15), any built-in types and any
file, in `DeclaredNamesTheorems`: `TablesNeverShared`, that no table of `scope.c` is
in use twice, or in use and free, or lost, and that a scope is always there. The
bounds on declarations, constructs and errors may have any value.

`TablesStayApart` follows the links of the free lists, and a step changes one link
in the middle of a table. `Good` says instead that the free tables of each size are a
chain (`FreeList`), and that what the chains hold is all that no scope and no kept
parameters use (`Heap`). Each operation of `scope.c` keeps this: a table is taken from
the front of its chain or is new (`TakesFreeTable`, `TakesNewTable`), goes back to the
front of the chain of its own size (`ReleasesTable`), and a scope that grows uses the
old and the new table for a moment (`GrowGood`). In `AddGood`, a scope
without a table is grown by its first name, its size being 0.

That there is always a scope is not local. `scope_pop_params ()` takes the list's
scope off and keeps it without looking at what is below (`KeepParamsGood`), so there
must be another one; `scope_pop ()` looks. After an error before a `)` the same list
is given up twice, so fewer lists and scopes are counted than are open, and the
number of scopes is not that of the constructs any more. What holds (`Nest`)
is that the lists counted are never more than the scopes above the file's, and that
where a block, a `for` or a function opened after some list that is still counted,
its scope and those of all in it are there too, besides the lists' and the file's.
TLC finds it to hold in all states of `names`. Opening and closing a construct, and
giving one up, are each a lemma on it (`NestOpened`, `NestClosed`); an error is as
many of these as there are constructs in the innermost block (`UndoSettled`).

### Drainage

For every raster of every size and every page of the heap and the ring, in
`FlowNetworkTheorems`. `FlowInv` (`FlowHolds`) says that each array is what the
arrays before it make it, that the heap holds only cells the flood has come to,
and that each of these, off the boundary, was come to from one that is not above
it. What an array is made into is said by recursion over data (a search, a run of
a loop). The proofs look at such a run one turn at a time, as a function from
numbers to states, and show by the least number without the property that
each turn has it.

`RaisedToSpill`: the flood raises each cell to the level at which it spills and
no higher. With `Wet (r, l)` for the cells that are come to from the boundary
without going above `l`, the invariant (`SpillInv`, with `Fills` on the way) says
that a cell already seen has the least level at which it is wet, and that it is
still in the heap unless all around it has been seen. The step needs that the
front of the heap is its least: below the level of the front everything wet has been
seen (`WetIsSeen`), so no neighbour could have been come to at a lower level. So
the order of `min-heap.c` is proved too: each turn of `sift_up ()` and
`sift_down ()` leaves at most one node out of place (`SiftUpOrders`,
`SiftDownOrders`), a push adds its node, and a pop takes away the front and nothing
else (`PushOrders`, `PopOrders`).

`NoWaterComesBack`: a drain leads down by elevation, or stays level, in one patch,
and leads to a smaller sum of the two distances of `gradients_flat ()` (`Under`,
`Fallback`); all other cells have the sum zero (`Levels`). To be lower by
elevation or, at one elevation, by that sum is an order, so a cell is never above
itself.

`WaterIsLedAway`: a flooded cell of no patch is level with none of its neighbours, so
the one it was come to from is lower (`FloodedDrain`). In a patch with an outlet the
outlet reaches every cell, patches being connected (`ConnectedReached`); a cell that is
no outlet has a neighbour one step nearer to one (`Distances`), and on the way there
the other distance changes by one at most while this one counts twice, so the sum falls
(`OutletsDrain`). That is what the weights of `Garbrecht_Martz ()` are for. What
`drain_validity ()` marks is closed under drains (`StagnantKept`).

`CountIsExact`: the accumulation is Kahn's order. The invariant (`Kahn`) is that
what drains into a counted cell is counted, that the ring holds just the cells
that wait for nothing more and are not counted, each once, and that the number of a
cell is one more than the counted cells above it by counted ones. When the ring is
empty every cell is counted, as among cells left over, drains having no cycle, one
would wait for nothing (`NoneWaitForever`). No assertion fails on the way, `DAG_validity ()` among them.

`PushAppends` and `PopTakesFront`: the ring of `fifo.c` is a queue, with its
contents across the end of the buffer and when it grows while they are. The lemmas
are that distinct offsets below the capacity fall into distinct slots
(`WrapApart`), and that growing lays the contents out again from slot 0.

### Elevations

`TilesAreInPlace` in `GeoTiffTheorems`, for images, tiles and strips of any
dimensions (`ImageAssumption`: each has a row and a column, samples are natural
numbers): without a predictor, every file that is read to its end is the image, and
elevations and windows are those of the places asked for. A pixel belongs to the one
tile that its row and its column divide into (`InsideTile`), and there to where the
writer put it, because rows are as far apart as the tile is wide, whatever of it is
beyond the image (`FloatIsPixel`). `RasterInv` says that the pixels of the tiles that
have come are in place (`Covered`), and that when no tile is left all have come,
because tiles are counted upwards (`PieceOf`). A window counts its columns and rows
from a tiepoint of its own, which gives back those of the image, its two rings
included (`PlaceInWindow`).

### The server's locks

For any number of slots, connections and threads, and whatever comes (the named
assumption `WsServerAssumption` says no more than that scenarios are built from
frames and calls, and that descriptors are numbers), in `WsServerTheorems`: `OnlyPingsDeadlock`, that the pair of PINGs
of section 7 is the only way for two threads to wait for each other. The
invariant `ServerInv` says from the program counters who holds which lock:
`mutex` belongs to the thread in the last step of `close_client ()` or in a
broadcast past its start, to that one and no other (`MutexInv`); a `mtx_ping`
belongs to the thread that works on its slot after the PING (`LockInv`). That is
not inductive alone: `start_close_timeout ()` starts a timer under the id of a
slot, and were an earlier timer of that id at work, holding `mutex`, it would be
overwritten. `IdInv` and `TimerInv` say that an id is that of one slot, on which
its timer works, and `DestroyInv` that a slot about to lose its locks has no
client, so no timer can be started on it.
`FreshInv` is for the time between `accept ()` and the slot: the new connection
has no thread yet. None of this says whose descriptor a thread holds, so it
does not depend on how numbers are given out, or on what comes of a `send ()`.

### Only model-checked

Liveness, which TLAPS does not treat (`RefineReturns`, `ComesToRest`,
`SlotsComeBack`). `MessagesAsSent` and `CloseAnswered`, which rest on whose
descriptor each thread holds. `SearchesFindSteps`, as the search is a loop over data. `NamesAsInC` compares what the tables hold with the scopes of C,
through all that a construct may leave behind and `odd` does not excuse; it is checked
within the bounds above, as are `Declarations` and `Driver`. `BlockMacros` and `Lzw`
are built on recursion over data, which these provers do not treat.

## 7. Where the code and its documentation disagree

Shown by runs:

- `pool_cold`. `pool.h:18-19` says that cold objects "use no memory, and read
  as zero". The link of the cold list is written into each after its pages went
  back, so its first page is in memory and its first word is the link, until
  `pool_alloc` clears it. The promise to users is kept (`KeepsPromise`).
- `ws_onclose`. `ws.c:1789-1791` says that close events always occur. The
  thread of a connection names the client that its slot holds by then, which
  may be a new one; the old client gets no event.
- `loop_hidden`. libc-pp's `README.md:571-574` says that a name an inner loop
  gives and the outer one does not list is hidden like the rest. For a listed
  parameter the hidden local is renamed where it is declared and not where it is
  used (`translate.c:1097`), and gcc refuses the result.
- `geotiff_predictor`. `geotiff.c:370` lists the horizontal predictor among
  what it handles; the running sums are not taken modulo the width of a sample
  (`geotiff.c:101`), so elevations are wrong after the first fall in a row.

Met while modelling, not shown by a run of their own:

- `tree.h:250-251` says a family is kept when grandchildren of a neighbour
  "would then touch p two levels finer"; `tree_coarsen` refuses also when those
  are at the neighbour's far side. Balance does not suffer.
- `DAG_validity ()` (`flow-utils.c:80-105`, whose comment says no cycle) misses
  a loop that a walk enters from outside. `DrainsFormForest` shows there is
  none. `drain_validity ()`'s result is ignored, and its second error never set.
- `scalar.c:55-57` says that the cleanup of a scalar whose declaration a `goto`
  jumped past leaves the id alone; the unset id may be another variable's.
- `scope.c`: the typedef latch is lost when declarations in a statement
  expression stand among specifiers; functions defined without a prototype are
  not entered (`parser.y:259`); an error before `)` undoes `close_params` twice
  (`parser.y:288`); `int (*f ()) (int b) {` keeps `b`. `odd` in
  `DeclaredNames` excuses these files from `NamesAsInC`, and only these.
- `driver.c`: `-MD` without `-MF` when linking puts the dependencies among the
  intermediate files, which are then removed; their name is cut at the last `.`
  of the whole path; `-translate a.c b.c` has written `a.c` when `b.c` fails.
- `lzw.c`: the dictionary has no room for code 4095; an empty text is reported
  as an encoding error.
- `geotiff.c`: the SHORT entries of big-endian files are read with the
  padding that follows them, so such files are refused; a last strip with fewer
  rows is an error. `filemap.c` compares a mapping that failed with NULL instead
  of MAP_FAILED.
- `ws.c`: a PING to all, holding the table's mutex, may wait for a client's lock
  held by a PING to that client which closes it and wants the mutex
  (`OnlyPingsEmbrace` allows this pair and no other). Calls with an id that has
  become stale reach whoever is in the slot: a single PING becomes one to all, a
  close begins on the new client, a frame may be sent to it. So do calls with a
  descriptor that was closed (`ws.c:376`) and given to a new client after
  `client_sock` was read: a send, a read or a second `close ()`. A send to all
  ends at the first client that cannot be reached. Without `timeout_ms` a
  `send ()` may keep `mutex` for ever, and then no slot comes back. `ws_close_client`'s comment gives
  status 1002 for a timeout, of which nothing is sent.

## 8. Abstractions, and what is not modelled

Abstractions of what is modelled:

- Running out of memory ends the program in `libb-amr`, and is not a behaviour
  here; nor is a failing `malloc` elsewhere. Pools are unbounded but for the
  named bounds.
- `AmrTree`: the layers are the set of allocated indices (`MemIndex` has their
  tables); the position of the domain box and flags used by nobody are left out.
  `Create` is only taken without a tree: `grid_init ()` stops the program when
  there is one (`tree.c:255-259`).
- `Adapt` has an error per index and call, in three classes (above the
  threshold, below it by 1.5, between), instead of values; errors do not change
  as the tree does within a call. So `ComesToRest` is about the decisions, for
  a field whose errors at an index do not depend on the mesh around it.
- `BlockValues` computes exactly, in a prime field; rounding is not modelled.
- `MemIndex`: `mem_new ()` is called from nowhere and `foreach_mem` is not
  compiled.
- `DeclaredNames`, `BlockMacros`: expressions, members, labels, tags and
  line markers are left out; a definition leaves no name free; a loop used in
  its own definition, a parameter typed by another that is listed, and a
  parameter called `arg0` are left out.
- `Declarations`: forward jumps past a declaration and `longjmp` are left out
  (the first is section 7's), and so are tentative definitions repeated in one
  file, thread-local scalars, caches passed by value, and a `scalar_free` of a
  numbered scalar; the linker keeps the order of the text. `ids` run out by
  aborting.
- `Driver`: flags are sets; their order among each other does not matter to
  gcc for those the model has.
- `FlowNetwork`: patches are named by their first cell in the order of the scan
  instead of a running number; the two breadth-first gradients are the distances
  they compute, which `SearchesFindSteps` compares with the searches as coded.
  The second ring of ghosts, which is filled and copied too, decides nothing:
  patches and searches stop at the first. Pictures are not written.
- `Lzw`: codes are three and four bits wide; the encoder is external.
- `GeoTiff`: coordinates are half pixels; conversions between geodetic and
  projected coordinates and the tags that describe them are left out, and so are
  truncated files, files of one tile (their offset stands in the entry itself),
  and windows of no open file. `geotiff_elevation` is asked for one point; with
  several it stops at the first one outside, the earlier ones written.
- `WsServer`: locks that are never held while another is taken make one step of
  what they guard. Destroyed locks behave as those of glibc. UTF-8 validation is
  compiled out; contexts and `ws_get_state` are left out. A frame is sent whole or
  not at all: what a partial `send ()` leaves on the way is not told apart from a
  loss. `mtx_snd` is not modelled: who waits for it waits for a `send ()`, that
  ends or not like one's own. `accept ()` gives the next connection any number
  that is free. When a slot or a descriptor is given out while a thread still
  works with it for an earlier client, the new client is marked `crossed`, and so
  is the earlier one if the thread is its own; they are excused from two of the
  properties, and section 7 says what happens to them.

Not modelled, and why:

- `libb-amr`: `foreach_leaf ()` and its parallel form, with the table of blocks
  they run over: the table is the Morton walk's visits, and the loop over it a
  plain one. `tree_shift_resize ()` sets four numbers that no control reads.
- `libc-pp`: the grammar of expressions, diagnostics and line numbers: text in,
  text out. Its arenas and those of `liballoc` bump a pointer; the reuse
  allocator is used by no program of the repository.
- `libflow-network`: `pits ()`, `pit_color ()` and `DInfty ()`, called from
  nowhere.
- `libgeotiff/geodetic.c`: formulas in floating point.
- `libgeojson`, `libview`: file formats; the parsers are generated.
- `libpinn`: tensors handed to Python; the traversals it uses are modelled.
- `libws/handshake.c` with base64 and SHA-1, and sockets.
- `libwebgl/lru.js`: imported by no file.

## 9. What could follow

In the order of what it would add:

1. More than two connections in `WsServer`, and proofs of `MessagesAsSent` and
   `CloseAnswered` for any number of them.

## 10. Running it

    tlc -workers 2 -config AmrTree1D.cfg AmrTree    # and likewise for each run
    tlapm AmrTreeTheorems.tla

| run | module and configuration |
|---|---|
| `tree_1d`, `tree_2d` | `AmrTree` `AmrTree1D.cfg`, `MCBlockGhosts` `AmrTree2D.cfg` |
| `blocks`, `memory` | `MCBlocks` `Blocks.cfg`, `MCMemory` `Memory.cfg` |
| `names`, `flow_network` | `MCDeclaredNames` `DeclaredNames.cfg`, `MCFlowNetwork` `FlowNetwork.cfg` |
| `ws_server`, `ws_slots` | `MCWsServer` `WsServer.cfg`, `MCWsServer` `WsSlots.cfg` |
| `pool_cold`, `ws_onclose` | `MCPool` `PoolCold.cfg`, `MCWsServer` `WsOnClose.cfg` |
| `loop_hidden`, `geotiff_predictor` | `BlockMacros` `LoopHidden.cfg`, `MCGeoTiff` `GeoTiffPredictor.cfg` |

The pairs of faulty variants and properties, the lines behind each definition
and the list of hazards are in `PROJECT.json`. Each run finishes within four
minutes on two cores.
