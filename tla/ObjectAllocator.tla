-------------------------- MODULE ObjectAllocator --------------------------
(***************************************************************************)
(* What pool.h promises of a pool, with no lists and no pages: an object   *)
(* handed out is nobody else's, reads as zero when pool_alloc () gave it,  *)
(* and holds what its owner wrote until its owner gives it back.           *)
(***************************************************************************)
CONSTANTS
  Objects,     \* the objects a pool may ever hand out
  Contents,    \* what an object may hold
  Zero         \* the content of an object of zeros

VARIABLES
  held,        \* the objects handed out and not given back
  clean,       \* those from pool_alloc () that were not written since
  contents     \* what each object handed out holds

vars == <<held, clean, contents>>

Init == held = {} /\ clean = {} /\ contents = [o \in {} |-> Zero]

HandOut(o, c) ==
  /\ o \notin held
  /\ held' = held \cup {o}
  /\ contents' = [x \in held' |-> IF x = o THEN c ELSE contents[x]]

\* pool_alloc (): zeroed memory.
Alloc(o) == HandOut(o, Zero) /\ clean' = clean \cup {o}

\* pool_alloc_uninit (): any content.
AllocUninit(o, c) == HandOut(o, c) /\ UNCHANGED clean

Free(o) ==
  /\ o \in held
  /\ held' = held \ {o}
  /\ clean' = clean \ {o}
  /\ contents' = [x \in held' |-> contents[x]]

Write(o, c) ==
  /\ o \in held
  /\ contents' = [contents EXCEPT ![o] = c]
  /\ clean' = clean \ {o}
  /\ UNCHANGED held

\* pool_destroy (): every object at once.
FreeAll ==
  /\ held' = {} /\ clean' = {}
  /\ contents' = [o \in {} |-> Zero]

Next ==
  \/ \E o \in Objects : Alloc(o) \/ Free(o)
  \/ \E o \in Objects, c \in Contents : AllocUninit(o, c) \/ Write(o, c)
  \/ FreeAll

Spec == Init /\ [][Next]_vars
=============================================================================
