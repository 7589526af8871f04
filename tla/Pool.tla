-------------------------------- MODULE Pool --------------------------------
(***************************************************************************)
(* The pool of libb-amr/pool.c: fresh objects cut from mapped chunks, and  *)
(* two lists of freed ones, hot and cold, linked through the first word of *)
(* the objects themselves.  Memory is modelled as far as the lists and the *)
(* promise of zeros depend on it: the first word of an object, the rest of *)
(* it, and which of its pages are in memory.                               *)
(*                                                                         *)
(* Objects are numbered in the order in which they are first handed out.   *)
(* The loop of pool_trim () is one step per object.                        *)
(***************************************************************************)
EXTENDS Integers, FiniteSets, Sequences

CONSTANTS
  MaxObjects,   \* model bound: no object after this one is cut
  Sizes,        \* the sizes given to pool_new ()
  HotLimits     \* the numbers given to pool_set_hot_max () and pool_trim ()

ASSUME MaxObjectsAssumption == MaxObjects \in Nat \ {0}
ASSUME SizesAssumption == Sizes \subseteq Nat \ {0}
ASSUME HotLimitsAssumption == HotLimits \subseteq Nat

Objects == 1..MaxObjects
Null == 0
Dirt == -1               \* what an owner writes, neither zero nor a pointer
HotAll == MaxObjects     \* (size_t) -1: more than the list ever holds
NotTrimming == -1

VARIABLES
  large,      \* TRUE if the objects are whole pages
  perChunk,   \* objects per chunk, 0 while there is no pool
  mapped,     \* objects in the chunks mapped so far
  made,       \* objects cut from them so far: next stands after the last
  word,       \* the first word of each object
  rest,       \* "zero" or "dirty": the rest of each object
  touched,    \* the pages of each object that are in memory
  hot, cold,  \* the free lists: the object on top and a count
  hotMax,     \* how many large objects the hot list may hold
  used,       \* how many objects are handed out, as the pool counts them
  trimming,   \* the bound of a running pool_trim (), or NotTrimming
  held,       \* the objects its users hold
  clean       \* history: those from pool_alloc () not written since

memory == <<word, rest, touched>>
chunks == <<large, perChunk, mapped, made>>
users == <<used, held, clean>>
vars == <<chunks, memory, hot, cold, hotMax, users, trimming>>

Pages == {"first", "others"}
FreeList == [top : Objects \cup {Null}, n : 0..MaxObjects]
Empty == [top |-> Null, n |-> 0]

TypeOK ==
  /\ large \in BOOLEAN
  /\ perChunk \in Nat /\ mapped \in Nat
  /\ made \in 0..MaxObjects
  /\ word \in [Objects -> Objects \cup {Null, Dirt}]
  /\ rest \in [Objects -> {"zero", "dirty"}]
  /\ touched \in [Objects -> SUBSET Pages]
  /\ hot \in FreeList /\ cold \in FreeList
  /\ hotMax \in Nat
  /\ used \in Int
  /\ trimming \in HotLimits \cup {NotTrimming}
  /\ held \subseteq Objects /\ clean \subseteq held

Init ==
  /\ large = FALSE /\ perChunk = 0 /\ mapped = 0 /\ made = 0
  /\ word = [o \in Objects |-> Null]
  /\ rest = [o \in Objects |-> "zero"]
  /\ touched = [o \in Objects |-> {}]
  /\ hot = Empty /\ cold = Empty
  /\ hotMax = HotAll
  /\ used = 0 /\ held = {} /\ clean = {}
  /\ trimming = NotTrimming

Exists == perChunk > 0
Ready == Exists /\ trimming = NotTrimming
-----------------------------------------------------------------------------
(***************************************************************************)
(* pool_new () and pool_destroy ().                                        *)
(***************************************************************************)
Page == 4096
PoolLarge == 16 * 1024
PoolChunk == 2 ^ 20
RoundUp(n, a) == ((n + a - 1) \div a) * a

ObjectSize(size) ==
  LET s == IF size < 8 THEN 8 ELSE size IN
  RoundUp(s, IF s >= PoolLarge THEN Page ELSE IF s >= 64 THEN 64 ELSE 16)

\* A chunk has room for one object at least, and ends at its last whole one.
ObjectsPerChunk(size) ==
  LET n == PoolChunk \div size IN
  RoundUp((IF n = 0 THEN 1 ELSE n) * size, Page) \div size

PoolNew(size) ==
  /\ ~Exists
  /\ large' = (size >= PoolLarge)
  /\ perChunk' = ObjectsPerChunk(ObjectSize(size))
  /\ hotMax' = HotAll
  /\ UNCHANGED <<mapped, made, memory, hot, cold, users, trimming>>

\* Every chunk is unmapped; the objects of a later pool are in new ones.
PoolDestroy ==
  /\ Ready
  /\ large' = FALSE /\ perChunk' = 0 /\ mapped' = 0 /\ made' = 0
  /\ word' = [o \in Objects |-> Null]
  /\ rest' = [o \in Objects |-> "zero"]
  /\ touched' = [o \in Objects |-> {}]
  /\ hot' = Empty /\ cold' = Empty
  /\ hotMax' = HotAll
  /\ used' = 0 /\ held' = {} /\ clean' = {}
  /\ trimming' = NotTrimming
-----------------------------------------------------------------------------
(***************************************************************************)
(* The free lists: push () writes the link into the object, pop () reads   *)
(* it back.                                                                *)
(***************************************************************************)
Pushed(l, o) == [top |-> o, n |-> l.n + 1]

Popped(l) == [top |-> word[l.top], n |-> l.n - 1]

\* The object to cut next; a chunk is mapped first if none has room.
Fresh(o) ==
  /\ o = made + 1
  /\ o \in Objects
  /\ made' = o
  /\ mapped' = IF made = mapped THEN mapped + perChunk ELSE mapped
  /\ UNCHANGED <<large, perChunk, hot, cold>>

HandOut(o) ==
  /\ used' = used + 1
  /\ held' = held \cup {o}

\* Faulty variant for a mutation run: the link is left in a cold object.
PoolAlloc_LinkLeft(o) ==
  /\ Ready
  /\ \/ /\ cold.n > 0 /\ o = cold.top
        /\ cold' = Popped(cold)
        /\ UNCHANGED <<chunks, memory, hot>>
     \/ /\ cold.n = 0 /\ hot.n > 0 /\ o = hot.top
        /\ hot' = Popped(hot)
        /\ word' = [word EXCEPT ![o] = Null]
        /\ rest' = [rest EXCEPT ![o] = "zero"]
        /\ touched' = [touched EXCEPT ![o] = Pages]
        /\ UNCHANGED <<chunks, cold>>
     \/ /\ cold.n = 0 /\ hot.n = 0
        /\ Fresh(o)
        /\ UNCHANGED memory
  /\ HandOut(o)
  /\ clean' = clean \cup {o}
  /\ UNCHANGED <<hotMax, trimming>>

\* pool_alloc (): a cold object, its link cleared; or a hot one, cleared
\* whole; or a fresh one.
PoolAlloc(o) ==
  /\ Ready
  /\ \/ /\ cold.n > 0 /\ o = cold.top
        /\ cold' = Popped(cold)
        /\ word' = [word EXCEPT ![o] = Null]
        /\ touched' = [touched EXCEPT ![o] = @ \cup {"first"}]
        /\ UNCHANGED <<chunks, rest, hot>>
     \/ /\ cold.n = 0 /\ hot.n > 0 /\ o = hot.top
        /\ hot' = Popped(hot)
        /\ word' = [word EXCEPT ![o] = Null]
        /\ rest' = [rest EXCEPT ![o] = "zero"]
        /\ touched' = [touched EXCEPT ![o] = Pages]
        /\ UNCHANGED <<chunks, cold>>
     \/ /\ cold.n = 0 /\ hot.n = 0
        /\ Fresh(o)
        /\ UNCHANGED memory
  /\ HandOut(o)
  /\ clean' = clean \cup {o}
  /\ UNCHANGED <<hotMax, trimming>>

\* pool_alloc_uninit (): a hot object first, as it is; no clearing.
PoolAllocUninit(o) ==
  /\ Ready
  /\ \/ /\ hot.n > 0 /\ o = hot.top
        /\ hot' = Popped(hot)
        /\ UNCHANGED <<chunks, cold>>
     \/ /\ hot.n = 0 /\ cold.n > 0 /\ o = cold.top
        /\ cold' = Popped(cold)
        /\ UNCHANGED <<chunks, hot>>
     \/ /\ hot.n = 0 /\ cold.n = 0
        /\ Fresh(o)
  /\ HandOut(o)
  /\ UNCHANGED <<memory, clean, hotMax, trimming>>
-----------------------------------------------------------------------------
(***************************************************************************)
(* pool_free (), pool_set_hot_max (), pool_trim ().                        *)
(***************************************************************************)
\* Faulty variant for a mutation run: the object is pushed, then its pages go.
MakeCold_PushedFirst(o, given) ==
  /\ cold' = Pushed(cold, o)
  /\ word' = [word EXCEPT ![o] = Null]
  /\ rest' = [rest EXCEPT ![o] = "zero"]
  /\ touched' = [touched EXCEPT ![o] = IF given THEN {} ELSE Pages]

\* make_cold (): the pages go back if the system takes them and are zeroed
\* here if not; then the link is written, which brings the first page back.
MakeCold(o, given) ==
  /\ cold' = Pushed(cold, o)
  /\ word' = [word EXCEPT ![o] = cold.top]
  /\ rest' = [rest EXCEPT ![o] = "zero"]
  /\ touched' = [touched EXCEPT ![o] = IF given THEN {"first"} ELSE Pages]

MakeHot(o) ==
  /\ hot' = Pushed(hot, o)
  /\ word' = [word EXCEPT ![o] = hot.top]
  /\ touched' = [touched EXCEPT ![o] = @ \cup {"first"}]
  /\ UNCHANGED <<rest, cold>>

PoolFree(o) ==
  /\ Ready
  /\ o \in held
  /\ IF large /\ hot.n >= hotMax
     THEN (\E given \in BOOLEAN : MakeCold(o, given)) /\ UNCHANGED hot
     ELSE MakeHot(o)
  /\ used' = used - 1
  /\ held' = held \ {o}
  /\ clean' = clean \ {o}
  /\ UNCHANGED <<chunks, hotMax, trimming>>

\* Small objects share pages: pool_trim () leaves them alone.
StartTrim(keep) == trimming' = IF large THEN keep ELSE NotTrimming

PoolTrim(keep) ==
  /\ Ready
  /\ StartTrim(keep)
  /\ UNCHANGED <<chunks, memory, hot, cold, hotMax, users>>

PoolSetHotMax(n) ==
  /\ Ready
  /\ hotMax' = n
  /\ StartTrim(n)
  /\ UNCHANGED <<chunks, memory, hot, cold, users>>

TrimStep ==
  /\ trimming # NotTrimming
  /\ IF hot.n > trimming
     THEN /\ hot' = Popped(hot)
          /\ \E given \in BOOLEAN : MakeCold(hot.top, given)
          /\ UNCHANGED trimming
     ELSE /\ trimming' = NotTrimming
          /\ UNCHANGED <<memory, hot, cold>>
  /\ UNCHANGED <<chunks, hotMax, users>>

\* An owner writes its object: the first word and the rest.
Write(o) ==
  /\ o \in held
  /\ trimming = NotTrimming
  /\ word' = [word EXCEPT ![o] = Dirt]
  /\ rest' = [rest EXCEPT ![o] = "dirty"]
  /\ touched' = [touched EXCEPT ![o] = Pages]
  /\ clean' = clean \ {o}
  /\ UNCHANGED <<chunks, hot, cold, hotMax, used, held, trimming>>

Next ==
  \/ \E size \in Sizes : PoolNew(size)
  \/ PoolDestroy
  \/ \E o \in Objects : PoolAlloc(o)
  \/ \E o \in Objects : PoolAllocUninit(o)
  \/ \E o \in Objects : PoolFree(o)
  \/ \E o \in Objects : Write(o)
  \/ \E n \in HotLimits : PoolSetHotMax(n)
  \/ \E n \in HotLimits : PoolTrim(n)
  \/ TrimStep

Spec == Init /\ [][Next]_vars
-----------------------------------------------------------------------------
(***************************************************************************)
(* Properties.                                                             *)
(***************************************************************************)
\* f lists the objects of l from its top, as the links in their first words
\* lead from one to the next.
Lists(f, l) ==
  /\ f \in [1..l.n -> 1..made]
  /\ l.top = (IF l.n = 0 THEN Null ELSE f[1])
  /\ \A i \in 1..l.n : word[f[i]] = (IF i = l.n THEN Null ELSE f[i + 1])
  /\ \A i, j \in 1..l.n : f[i] = f[j] => i = j

\* Nothing is lost and nothing is shared: both lists are intact chains of as
\* many objects as they count, and each object cut from a chunk is on one of
\* them or in the hands of a user, and in one place only.
NothingLostOrShared ==
  \E h \in [1..hot.n -> Objects], c \in [1..cold.n -> Objects] :
    /\ Lists(h, hot) /\ Lists(c, cold)
    /\ {h[i] : i \in 1..hot.n} \cap {c[i] : i \in 1..cold.n} = {}
    /\ {h[i] : i \in 1..hot.n} \cup {c[i] : i \in 1..cold.n} = (1..made) \ held
    /\ held \subseteq 1..made

\* pool.h of the objects on the cold list, "whose pages went back to the
\* system": "they use no memory, and read as zero".
ColdUsesNoMemory ==
  cold.n > 0 /\ "others" \notin touched[cold.top] => touched[cold.top] = {}

\* The pool keeps the promise of an allocator.
Content == (Objects \cup {Null, Dirt}) \X {"zero", "dirty"}

Allocator == INSTANCE ObjectAllocator WITH
  Objects <- Objects,
  Contents <- Content,
  Zero <- <<Null, "zero">>,
  held <- held,
  clean <- clean,
  contents <- [o \in held |-> <<word[o], rest[o]>>]

KeepsPromise == Allocator!Spec
=============================================================================
