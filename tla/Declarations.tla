---------------------------- MODULE Declarations ----------------------------
(***************************************************************************)
(* What cwrap makes of the scalars and the caches that a program declares  *)
(* (translate.c), and how their ids and arrays live when it runs           *)
(* (scalar.h, scalar.c, cache.h).                                          *)
(*                                                                         *)
(* A program is a text of items: the declarations at file scope and then,  *)
(* from 'main' on, one function, which may call itself.  A variable is     *)
(* <<item, position in its declaration>>.  gcc is external: it runs the    *)
(* cleanups of the variables that a jump leaves, the last declared first.  *)
(***************************************************************************)
EXTENDS Integers, Sequences, FiniteSets, SequencesExt

CONSTANTS
  Dimension,    \* -dimension=, or 0
  NScalars,     \* NSCALAR_MAX
  CacheMin, IntMax,
  Programs,     \* [text, main]
  Refills,      \* how many elements an update may leave in a cache
  MaxDepth      \* model bound: calls at a time

ConstantsOK ==
  Dimension \in 0..3 /\ NScalars \in Nat /\ CacheMin \in 1..IntMax /\ MaxDepth \in Nat /\ Refills \subseteq Nat

VARIABLES
  text, main,
  phase,        \* "translate", "rejected", "start", "run", "aborted"
  warned,       \* cwrap reported an assignment to a scalar
  inUse,         \* the ids in use
  taken,        \* of them, those the program took and will free itself
  fixed,        \* [ids, cache] of the variables that last for the whole run
  frames,       \* of the calls: where each is, and its variables, oldest first
  heap          \* the sizes of the arrays

vars == <<text, main, phase, warned, inUse, taken, fixed, frames, heap>>
-----------------------------------------------------------------------------
(* Scopes of the text, as scope_find () sees them.                          *)
Depth(i) == Cardinality({j \in 1..(i - 1) : text[j].op \in {"open", "foreach"}})
            - Cardinality({j \in 1..(i - 1) : text[j].op = "close"})

Declares(j) == text[j].op \in {"decl", "foreach"}
DeclDepth(j) == IF text[j].op = "foreach" THEN Depth(j) + 1 ELSE Depth(j)
Specs(v) == text[v[1]]
Declarator(v) == text[v[1]].names[v[2]]
AtFileScope(v) == v[1] < main

Declared == UNION {{<<j, k>> : k \in DOMAIN text[j].names} : j \in {i \in DOMAIN text : Declares(i)}}

Undeclared == <<0, 0>>

Lookup(i, name) ==
  LET seen == {v \in Declared : /\ v[1] < i /\ Declarator(v).name = name
                                /\ \A m \in (v[1] + 1)..i : Depth(m) >= DeclDepth(v[1])}
      newest == {v \in seen : \A w \in seen : w[1] < v[1] \/ (w[1] = v[1] /\ w[2] <= v[2])}
  IN  IF seen = {} THEN Undeclared ELSE CHOOSE v \in newest : TRUE

(* where the block that is closed at i was opened                           *)
Opener(i) == CHOOSE j \in 1..(i - 1) : /\ text[j].op \in {"open", "foreach"} /\ Depth(j) = Depth(i) - 1
                                       /\ \A m \in (j + 1)..i : Depth(m) > Depth(j)
-----------------------------------------------------------------------------
(* Scalars in the text: their types, parts, cleanups and slots.             *)
ScalarTypes == CASE Dimension = 0 -> {} [] Dimension = 1 -> {"scalar"} [] OTHER -> {"scalar", "vector", "tensor"}
IsScalar(v) == Specs(v).type \in ScalarTypes
ScalarParts(type) == CASE type = "scalar" -> 1 [] type = "vector" -> Dimension [] OTHER -> Dimension * Dimension
PlainName(v) == Declarator(v).form = "plain"

\* Faulty variant for a mutation run: every scalar of a block gets a cleanup,
\* those with a value of their own included.
LocalScalar_AnyForm(v) == ~AtFileScope(v) /\ IsScalar(v) /\ Specs(v).storage = ""

(* local_scalars (): `scalar x;` becomes `scalar x = scalar_new ();`, with  *)
(* a cleanup; static ones get slots; the rest is left alone                 *)
LocalScalar(v) == ~AtFileScope(v) /\ IsScalar(v) /\ PlainName(v) /\ Specs(v).storage = ""
StaticScalar(v) == ~AtFileScope(v) /\ IsScalar(v) /\ PlainName(v) /\ Specs(v).storage = "static"
RegisteredScalar(v) ==
  AtFileScope(v) /\ IsScalar(v) /\ PlainName(v) /\ Specs(v).storage \notin {"typedef", "extern"}

(* the section "scalars"; the linker may have another order                 *)
InTextOrder(S) == SetToSortSeq(S, LAMBDA v, w : v[1] < w[1] \/ (v[1] = w[1] /\ v[2] < w[2]))
Slots ==
  LET numbered == InTextOrder({v \in Declared : StaticScalar(v) \/ RegisteredScalar(v)})
  IN  FlattenSeq([i \in DOMAIN numbered |->
                    [k \in 1..ScalarParts(Specs(numbered[i]).type) |-> <<numbered[i], k>>]])

(* check_scalar_assignment (): t, t.x or t.x.y, of a variable of these types *)
MembersOf(type) == CASE type = "scalar" -> 0 [] type = "vector" -> 1 [] OTHER -> 2
ChangesScalar(i) ==
  LET v == Lookup(i, text[i].to)
  IN  /\ v # Undeclared /\ text[v[1]].op = "decl"
      /\ IsScalar(v) /\ Specs(v).storage # "typedef" /\ Declarator(v).form # "pointer"
      /\ text[i].members <= MembersOf(Specs(v).type)

(* Caches in the text: their structs, cleanups, and what is an error.       *)
IsCache(v) == Specs(v).type = "cache"

\* Faulty variant for a mutation run: those with braces of their own get none.
LocalCache_PlainOnly(v) ==
  ~AtFileScope(v) /\ IsCache(v) /\ Specs(v).storage = "" /\ PlainName(v)

LocalCache(v) ==
  ~AtFileScope(v) /\ IsCache(v) /\ Specs(v).storage = "" /\ Declarator(v).form \in {"plain", "braces"}

InitializedByValue(v) ==
  ~AtFileScope(v) /\ IsCache(v) /\ Specs(v).storage = "" /\ Declarator(v).form = "value"

CacheVariable(i, name) ==
  LET v == Lookup(i, name)
  IN  /\ v # Undeclared /\ text[v[1]].op = "decl"
      /\ IsCache(v) /\ Specs(v).storage # "typedef" /\ Declarator(v).form # "pointer"

CopiesCache(i) ==
  \/ text[i].op = "assign" /\ (CacheVariable(i, text[i].to) \/ CacheVariable(i, text[i].from))
  \/ text[i].op = "return" /\ CacheVariable(i, text[i].name)

(* struct cache_T, its tag from the words of T, a star as p; a word is the  *)
(* sequence of what its underscores separate                                *)
Tag(T) == <<"cache">> \o FlattenSeq([i \in DOMAIN T |-> IF T[i] = <<"*">> THEN <<"p">> ELSE T[i]])

(* the uses of cache (T), the inner first, each in its external declaration *)
CacheUses ==
  FlattenSeq([j \in DOMAIN text |->
    IF text[j].op # "decl" \/ text[j].type # "cache" THEN <<>>
    ELSE [k \in DOMAIN text[j].elements |->
            [ext |-> IF j < main THEN j ELSE main, tag |-> Tag(text[j].elements[k]), of |-> text[j].elements[k]]]])

SharedTag == \E h, i \in DOMAIN CacheUses : CacheUses[h].tag = CacheUses[i].tag /\ CacheUses[h].of # CacheUses[i].of

(* define_caches (): before the external declaration of its first use       *)
Definitions ==
  LET uses == CacheUses
      first == {i \in DOMAIN uses : \A h \in 1..(i - 1) : uses[h].tag # uses[i].tag}
  IN  {[at |-> i, before |-> uses[i].ext, tag |-> uses[i].tag, of |-> uses[i].of] : i \in first}

Rejected ==
  \/ SharedTag
  \/ \E i \in DOMAIN text : CopiesCache(i)
  \/ \E v \in Declared : InitializedByValue(v) \/ (IsCache(v) /\ Specs(v).storage = "typedef")
-----------------------------------------------------------------------------
(* The run of the program.                                                  *)
Lowest(ids) == CHOOSE s \in ids : \A r \in ids : s <= r
Free(u) == (0..(NScalars - 1)) \ u

(* scalar_new () as often as vector_new () and tensor_new () call it        *)
New(u, parts) ==
  LET got[k \in 0..parts] == IF k = 0 THEN <<>> ELSE Append(got[k - 1], Lowest(Free(u \union Range(got[k - 1]))))
  IN  got[parts]

EmptyCache == [a |-> 0, n |-> 0, cap |-> 0, is_dirty |-> FALSE, update |-> FALSE]
CacheAtFirst(v) == [EmptyCache EXCEPT !.update = Declarator(v).form = "braces"]

Fixed == {v \in Declared : /\ text[v[1]].op = "decl" /\ Specs(v).storage \notin {"typedef", "extern"}
                           /\ AtFileScope(v) \/ Specs(v).storage = "static"}

Translate ==
  /\ phase = "translate"
  /\ phase' = IF Rejected THEN "rejected" ELSE "start"
  /\ warned' = \E i \in DOMAIN text : text[i].op = "assign" /\ ChangesScalar(i)
  /\ UNCHANGED <<text, main, inUse, taken, fixed, frames, heap>>

(* number_global_scalars (), and the call of the function                   *)
NumberGlobalScalars ==
  /\ phase = "start"
  /\ LET slots == Slots
         id(v, k) == Len(SelectSeq(slots, LAMBDA s : s[1][1] < v[1] \/ (s[1][1] = v[1] /\ s[1][2] < v[2])
                                                     \/ (s[1] = v /\ s[2] < k)))
         numbered == {slots[i][1] : i \in DOMAIN slots}
     IN  IF Len(slots) > NScalars THEN phase' = "aborted" /\ UNCHANGED <<inUse, fixed, frames>>
         ELSE /\ phase' = "run"
              /\ inUse' = 0..(Len(slots) - 1)
              /\ fixed' = [v \in Fixed |->
                             [ids |-> IF v \notin numbered THEN <<>>
                                      ELSE [k \in 1..ScalarParts(Specs(v).type) |-> id(v, k)],
                              cache |-> CacheAtFirst(v)]]
              /\ frames' = <<[at |-> main, locals |-> <<>>]>>
  /\ UNCHANGED <<text, main, warned, taken, heap>>

Top == frames[Len(frames)]
Here == text[Top.at]
Running(op) == phase = "run" /\ frames # <<>> /\ Top.at \in DOMAIN text /\ Here.op = op
SetTop(f) == frames' = [frames EXCEPT ![Len(frames)] = f]
Skip == SetTop([Top EXCEPT !.at = @ + 1])

(* A jump to 'to': the variables it leaves go, with their cleanups, which   *)
(* free ids and arrays.                                                     *)
Leaves(x, to) == DeclDepth(x.var[1]) > Depth(to) \/ (DeclDepth(x.var[1]) = Depth(to) /\ x.var[1] >= to)

CleanUp(gone) ==
  /\ inUse' = inUse \ UNION {Range(x.ids) : x \in {y \in gone : LocalScalar(y.var)}}
  /\ heap' = LET arrays == {x.cache.a : x \in {y \in gone : LocalCache(y.var)}}
             IN  [a \in DOMAIN heap \ arrays |-> heap[a]]

JumpTo(to) ==
  /\ SetTop([at |-> to, locals |-> SelectSeq(Top.locals, LAMBDA x : ~Leaves(x, to))])
  /\ CleanUp({x \in Range(Top.locals) : Leaves(x, to)})

Open == Running("open") /\ Skip /\ UNCHANGED <<text, main, phase, warned, inUse, taken, fixed, heap>>

(* The names of a declaration in turn; a value of the program's own is      *)
(* scalar_new () or the like.  LocalCache () of a static is its cleanup.    *)
DeclareOne(state, v) ==
  LET own == IsScalar(v) /\ Declarator(v).form = "value"
      ids == IF LocalScalar(v) \/ own THEN New(state.used, ScalarParts(Specs(v).type)) ELSE <<>>
  IN  IF state.short \/ Cardinality(Free(state.used)) < ScalarParts(Specs(v).type) * (IF LocalScalar(v) \/ own THEN 1 ELSE 0)
      THEN [state EXCEPT !.short = TRUE]
      ELSE [state EXCEPT !.used = @ \union Range(ids),
                         !.taken = IF own THEN @ \union Range(ids) ELSE @,
                         !.locals = Append(@, [var |-> v, ids |-> ids, cache |-> CacheAtFirst(v), index |-> 0])]

Declare ==
  /\ Running("decl")
  /\ IF Here.storage \in {"typedef", "extern", "static"}
     THEN Skip /\ UNCHANGED <<phase, inUse, taken>>
     ELSE LET after == FoldLeft(LAMBDA s, k : DeclareOne(s, <<Top.at, k>>),
                                [used |-> inUse, taken |-> taken, locals |-> Top.locals, short |-> FALSE],
                                [k \in DOMAIN Here.names |-> k])
          IN  IF after.short THEN phase' = "aborted" /\ UNCHANGED <<inUse, taken, frames>>
              ELSE /\ SetTop([at |-> Top.at + 1, locals |-> after.locals])
                   /\ inUse' = after.used /\ taken' = after.taken /\ UNCHANGED phase
  /\ UNCHANGED <<text, main, warned, fixed, heap>>

(* where a variable is: among the fixed ones, or in the frame               *)
Position(v) == CHOOSE p \in DOMAIN Top.locals : Top.locals[p].var = v
ValueOf(v) == IF v \in Fixed THEN fixed[v] ELSE Top.locals[Position(v)]
Store(v, value, at) ==
  IF v \in Fixed
  THEN /\ fixed' = [fixed EXCEPT ![v].ids = value.ids, ![v].cache = value.cache]
       /\ SetTop([Top EXCEPT !.at = at])
  ELSE /\ SetTop([at |-> at, locals |-> [Top.locals EXCEPT ![Position(v)] = value]])
       /\ UNCHANGED fixed

(* if (...) goto, break, continue or return: taken or not                   *)
Goto ==
  /\ Running("goto")
  /\ \/ JumpTo(Here.to)
     \/ Skip /\ UNCHANGED <<inUse, heap>>
  /\ UNCHANGED <<text, main, phase, warned, taken, fixed>>

Return ==
  /\ Running("return")
  /\ JumpTo(Len(text) + 1)
  /\ UNCHANGED <<text, main, phase, warned, taken, fixed>>

Call ==
  /\ Running("call")
  /\ \/ /\ Len(frames) < MaxDepth
        /\ frames' = Append([frames EXCEPT ![Len(frames)].at = @ + 1], [at |-> main, locals |-> <<>>])
     \/ Skip
  /\ UNCHANGED <<text, main, phase, warned, inUse, taken, fixed, heap>>

EndOfFunction ==
  /\ phase = "run" /\ frames # <<>> /\ Top.at = Len(text) + 1
  /\ frames' = SubSeq(frames, 1, Len(frames) - 1)
  /\ UNCHANGED <<text, main, phase, warned, inUse, taken, fixed, heap>>

(* scalar_free () of what the program took                                  *)
Drop ==
  /\ Running("drop")
  /\ LET ids == Range(ValueOf(Lookup(Top.at, Here.name)).ids)
     IN  inUse' = inUse \ ids /\ taken' = taken \ ids
  /\ Skip
  /\ UNCHANGED <<text, main, phase, warned, fixed, heap>>

(* An assignment gives a scalar, or a part of a vector or tensor, the id of *)
(* another scalar; between caches it would copy all fields.                 *)
Assign ==
  /\ Running("assign")
  /\ LET to == Lookup(Top.at, Here.to)
         from == Lookup(Top.at, Here.from)
         value == ValueOf(to)
     IN  IF IsScalar(to) /\ value.ids # <<>>
         THEN Store(to, [value EXCEPT !.ids[Here.part] = ValueOf(from).ids[1]], Top.at + 1)
         ELSE IF IsCache(to) /\ IsCache(from)
         THEN Store(to, [value EXCEPT !.cache = ValueOf(from).cache], Top.at + 1)
         ELSE Skip /\ UNCHANGED fixed
  /\ UNCHANGED <<text, main, phase, warned, inUse, taken, heap>>
-----------------------------------------------------------------------------
(* Caches.                                                                  *)
(* __cwrap_cache_grow (): the capacity doubles until it is enough; 0 when   *)
(* there is none that fits an int                                           *)
Grown(cap, need) ==
  LET doubled[n \in Nat] == IF n < need /\ n <= IntMax \div 2 THEN doubled[n * 2] ELSE n
      new == doubled[IF cap > 0 THEN cap ELSE CacheMin]
  IN  IF new < need THEN 0 ELSE new

Unused == CHOOSE a \in 1..(Cardinality(DOMAIN heap) + 1) : a \notin DOMAIN heap

(* realloc () may move the array                                            *)
Realloc(a, size) ==
  {[a |-> b, heap |-> [x \in (DOMAIN heap \ {a}) \union {b} |-> IF x = b THEN size ELSE heap[x]]] :
     b \in {Unused} \union ({a} \ {0})}

(* n elements more; calls 'go' with the cache and the heap after, or aborts *)
Room(cache, more) ==
  IF cache.n + more <= cache.cap THEN {[a |-> cache.a, heap |-> heap, cap |-> cache.cap]}
  ELSE LET cap == Grown(cache.cap, cache.n + more)
       IN  IF cap = 0 THEN {} ELSE {[a |-> r.a, heap |-> r.heap, cap |-> cap] : r \in Realloc(cache.a, cap)}

CachePush ==
  /\ Running("push")
  /\ LET v == Lookup(Top.at, Here.name)
         value == ValueOf(v)
     IN  IF Room(value.cache, 1) = {} THEN phase' = "aborted" /\ UNCHANGED <<fixed, frames, heap>>
         ELSE \E r \in Room(value.cache, 1) :
                /\ heap' = r.heap
                /\ Store(v, [value EXCEPT !.cache.a = r.a, !.cache.cap = r.cap, !.cache.n = @ + 1], Top.at + 1)
                /\ UNCHANGED phase
  /\ UNCHANGED <<text, main, warned, inUse, taken>>

CacheFree ==
  /\ Running("free")
  /\ LET v == Lookup(Top.at, Here.name)
         value == ValueOf(v)
     IN  /\ heap' = [a \in DOMAIN heap \ {value.cache.a} |-> heap[a]]
         /\ Store(v, [value EXCEPT !.cache.a = 0, !.cache.n = 0, !.cache.cap = 0], Top.at + 1)
  /\ UNCHANGED <<text, main, phase, warned, inUse, taken>>

MarkDirty ==
  /\ Running("dirty")
  /\ LET v == Lookup(Top.at, Here.name)
     IN  Store(v, [ValueOf(v) EXCEPT !.cache.is_dirty = TRUE], Top.at + 1)
  /\ UNCHANGED <<text, main, phase, warned, inUse, taken, heap>>

(* foreach (x in V), foreach_to_for (): a dirty cache is updated once: by a *)
(* function of the program that fills it anew, and may mark it again.       *)
Enters(v, cache, opener) ==
  LET at == IF cache.n = 0 THEN Min({i \in DOMAIN text : text[i].op = "close" /\ Opener(i) = opener}) + 1
            ELSE Top.at + 1
      x == [var |-> <<opener, 1>>, ids |-> <<>>, cache |-> EmptyCache, index |-> 0]
      locals == IF v \in Fixed THEN Top.locals ELSE [Top.locals EXCEPT ![Position(v)].cache = cache]
  IN  /\ SetTop([at |-> at, locals |-> IF cache.n = 0 THEN locals ELSE Append(locals, x)])
      /\ fixed' = IF v \in Fixed THEN [fixed EXCEPT ![v].cache = cache] ELSE fixed

ForeachBegin ==
  /\ Running("foreach")
  /\ LET v == Lookup(Top.at, Here.in)
         cache == ValueOf(v).cache
         cleared == [cache EXCEPT !.n = 0]
     IN  IF cache.update /\ cache.is_dirty
         THEN \E n \in Refills, again \in BOOLEAN : \E r \in Room(cleared, n) :
                /\ heap' = r.heap
                /\ Enters(v, [cache EXCEPT !.a = r.a, !.cap = r.cap, !.n = n, !.is_dirty = again], Top.at)
         ELSE Enters(v, cache, Top.at) /\ UNCHANGED heap
  /\ UNCHANGED <<text, main, phase, warned, inUse, taken>>

(* The end of a block; that of a foreach goes on with the next element.     *)
Close ==
  /\ Running("close")
  /\ LET j == Opener(Top.at)
         next == ValueOf(<<j, 1>>).index + 1
     IN  IF text[j].op = "foreach" /\ next < ValueOf(Lookup(j, text[j].in)).cache.n
         THEN LET kept == Position(<<j, 1>>)
              IN  /\ SetTop([at |-> j + 1,
                             locals |-> [SubSeq(Top.locals, 1, kept) EXCEPT ![kept].index = next]])
                  /\ CleanUp({Top.locals[p] : p \in (kept + 1)..Len(Top.locals)})
         ELSE JumpTo(Top.at + 1)
  /\ UNCHANGED <<text, main, phase, warned, taken, fixed>>
-----------------------------------------------------------------------------
Init ==
  /\ \E p \in Programs : text = p.text /\ main = p.main
  /\ phase = "translate" /\ warned = FALSE
  /\ inUse = {} /\ taken = {} /\ fixed = <<>> /\ frames = <<>> /\ heap = <<>>

(* the program has come to its end                                          *)
Ended == (phase \in {"rejected", "aborted"} \/ (phase = "run" /\ frames = <<>>)) /\ UNCHANGED vars

Next ==
  \/ Ended
  \/ Translate \/ NumberGlobalScalars
  \/ Open \/ Declare \/ Close \/ Goto \/ Return \/ Call \/ EndOfFunction
  \/ Drop \/ Assign \/ CachePush \/ CacheFree \/ MarkDirty \/ ForeachBegin

Spec == Init /\ [][Next]_vars
-----------------------------------------------------------------------------
(* the variables there are, of every call                                   *)
Locals == UNION {{[frame |-> f, var |-> frames[f].locals[p].var, ids |-> frames[f].locals[p].ids,
                   cache |-> frames[f].locals[p].cache] : p \in DOMAIN frames[f].locals} : f \in DOMAIN frames}
Live == Locals \union {[frame |-> 0, var |-> v, ids |-> fixed[v].ids, cache |-> fixed[v].cache] : v \in DOMAIN fixed}

(* The ids in use are those of the variables that live and are cwrap's to   *)
(* number, each part of each its own, and those the program took; the ones  *)
(* of the whole run are the first: however scopes are left, unless cwrap    *)
(* warned that the program changes one (local_scalars (), scalar.h).        *)
IdsOfTheLiving ==
  phase = "run" /\ ~warned =>
    LET numbered == {x \in Live : IsScalar(x.var) /\ PlainName(x.var) /\ Specs(x.var).storage \in {"", "static"}}
        parts(S) == UNION {{<<x.frame, x.var, k>> : k \in 1..ScalarParts(Specs(x.var).type)} : x \in S}
        lasting == {x \in numbered : x.frame = 0}
        held(S) == UNION {Range(x.ids) : x \in S}
    IN  /\ inUse = held(numbered) \union taken
        /\ Cardinality(inUse) = Cardinality(parts(numbered)) + Cardinality(taken)
        /\ held(lasting) = 0..(Cardinality(parts(lasting)) - 1)

(* No two caches that live share an array, none has lost its own or thinks  *)
(* it larger than it is, and an array is freed with its cache               *)
(* (check_cache_copy (), local_caches (), __cwrap_cache_grow ()); two       *)
(* element types are not one struct (cache_specifier ()).                   *)
CachesApart ==
  phase = "run" =>
    LET caches == {x \in Live : IsCache(x.var) /\ Declarator(x.var).form # "pointer"}
    IN  /\ DOMAIN heap = {x.cache.a : x \in caches} \ {0}
        /\ \A x, y \in caches : x.cache.a = y.cache.a /\ x.cache.a # 0 => x = y
        /\ \A x \in caches : /\ x.cache.n <= x.cache.cap
                             /\ x.cache.cap = IF x.cache.a = 0 THEN 0 ELSE heap[x.cache.a]
        /\ \A i \in DOMAIN CacheUses :
             \E d \in Definitions : /\ d.tag = CacheUses[i].tag /\ d.of = CacheUses[i].of
                                    /\ d.at <= i /\ d.before <= CacheUses[i].ext
=============================================================================
