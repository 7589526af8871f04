----------------------------- MODULE ScopeTable -----------------------------
(***************************************************************************)
(* The table of names of libc-pp/src/scope.c: a stack of scopes, each with *)
(* a hash table of its own that doubles as it fills, and the scope of the  *)
(* parameters of a function, kept from the `)' to the body.  Tables that   *)
(* no scope uses wait in free lists, linked through their first slot; the  *)
(* arena they come from takes nothing back.                                *)
(*                                                                         *)
(* The operators take the state of the table, a record, and return it.     *)
(***************************************************************************)
EXTENDS Integers, Sequences, SequencesExt

CONSTANTS
  Names,
  BuiltinTypes, \* types that gcc knows without a declaration, in the code's order
  Hash,         \* hash_name: Names -> Nat
  MinBuckets,   \* MIN_BUCKETS, a power of two
  MaxBuckets    \* MAX_BUCKETS, another

ASSUME BuiltinsAssumption == BuiltinTypes \in Seq(Names)
ASSUME HashAssumption == Hash \in [Names -> Nat]
ASSUME BucketsAssumption ==
  /\ MinBuckets \in Nat \ {0} /\ MaxBuckets \in Nat
  /\ \E k \in 0..15 : MaxBuckets = MinBuckets * 2^k

Sizes == {n \in MinBuckets..MaxBuckets : \E k \in 0..15 : n = MinBuckets * 2^k}

\* A scope without a table, and no scope at all.
EmptyScope == [table |-> 0, n |-> 0]
NoScope == [table |-> 0, n |-> -1]

NoVar == [name |-> "", kind |-> "none", decl |-> 0]

NoBuckets == <<>>
EmptyBuckets(n) == [b \in 0..(n - 1) |-> {}]

\* tables: every table made so far; free: the first free table of each size,
\* 0 if there is none.
EmptyTable ==
  [scopes |-> <<EmptyScope>>, fn_params |-> NoScope, param_depth |-> 0,
   typedef_seen |-> FALSE, declaring |-> "variable",
   free |-> [n \in Sizes |-> 0], tables |-> <<>>]

Top(st) == st.scopes[Len(st.scopes)]
SizeOf(st, t) == IF t = 0 THEN 0 ELSE st.tables[t].size

\* The entry of name in a scope: a set with one member, or none.
FindIn(st, sc, name) ==
  IF sc.table = 0 THEN {}
  ELSE {v \in st.tables[sc.table].bucket[Hash[name] % SizeOf(st, sc.table)] : v.name = name}

Find(st, name) ==
  LET at == {i \in 1..Len(st.scopes) : FindIn(st, st.scopes[i], name) # {}}
  IN  IF at = {} THEN NoVar
      ELSE CHOOSE v \in FindIn(st, st.scopes[Max(at)], name) : TRUE
-----------------------------------------------------------------------------
\* Faulty variant for a mutation run: a free table comes back with what its
\* slots, all but the first, still hold.
TakeTable_NotCleared(st, n) ==
  LET t == st.free[n]
  IN  IF t = 0
      THEN [st EXCEPT !.tables = Append(@, [size |-> n, bucket |-> EmptyBuckets(n), next |-> 0])]
      ELSE [st EXCEPT !.free[n] = st.tables[t].next, !.tables[t].next = 0]

\* An empty table of n buckets: the first free one if there is any.
TakeTable(st, n) ==
  LET t == st.free[n]
  IN  IF t = 0
      THEN [st EXCEPT !.tables = Append(@, [size |-> n, bucket |-> EmptyBuckets(n), next |-> 0])]
      ELSE [st EXCEPT !.free[n] = st.tables[t].next,
                      !.tables[t].bucket = EmptyBuckets(n), !.tables[t].next = 0]

Taken(st, n) == IF st.free[n] = 0 THEN Len(st.tables) + 1 ELSE st.free[n]

\* The link overwrites the first slot.
ReleaseTable(st, t) ==
  IF t = 0 THEN st
  ELSE [st EXCEPT !.tables[t] = [@ EXCEPT !.next = st.free[SizeOf(st, t)], !.bucket[0] = {}],
                  !.free[SizeOf(st, t)] = t]

\* The top scope moves to a table twice as large, up to the largest.
Grow(st) ==
  LET old == Top(st).table
      n == IF old = 0 THEN MinBuckets ELSE 2 * SizeOf(st, old)
      new == Taken(st, n)
      held == IF old = 0 THEN {} ELSE UNION {st.tables[old].bucket[b] : b \in DOMAIN st.tables[old].bucket}
      moved == [TakeTable(st, n) EXCEPT
                  !.tables[new].bucket = [b \in 0..(n - 1) |-> @[b] \cup {v \in held : Hash[v.name] % n = b}]]
  IN  IF n > MaxBuckets THEN st
      ELSE [ReleaseTable(moved, old) EXCEPT !.scopes[Len(st.scopes)].table = new]

\* Declares name in the top scope, in place of an earlier declaration there.
Add(st, name, kind, decl) ==
  LET old == FindIn(st, Top(st), name)
      room == IF old = {} /\ Top(st).n >= SizeOf(st, Top(st).table) THEN Grow(st) ELSE st
      sc == Top(room)
      b == Hash[name] % SizeOf(room, sc.table)
  IN  [room EXCEPT
         !.tables[sc.table].bucket[b] = (@ \ old) \cup {[name |-> name, kind |-> kind, decl |-> decl]},
         !.scopes[Len(st.scopes)].n = IF old = {} THEN @ + 1 ELSE @]

\* scope_table_new: the built-in types are in the file scope.
NewTable ==
  LET with[i \in 0..Len(BuiltinTypes)] ==
        IF i = 0 THEN EmptyTable ELSE Add(with[i - 1], BuiltinTypes[i], "typedef", 0)
  IN  with[Len(BuiltinTypes)]

Push(st) == [st EXCEPT !.scopes = Append(@, EmptyScope)]

\* The file scope stays.
Pop(st) ==
  IF Len(st.scopes) = 1 THEN st
  ELSE [ReleaseTable(st, Top(st).table) EXCEPT !.scopes = Front(@)]

PushParams(st) == [Push(st) EXCEPT !.param_depth = @ + 1]

\* Faulty variant for a mutation run: the scope that is kept gives its table
\* back all the same.
PopParams_Released(st) ==
  IF st.param_depth = 1 /\ st.fn_params = NoScope
  THEN [Pop(st) EXCEPT !.param_depth = 0, !.fn_params = Top(st)]
  ELSE Pop([st EXCEPT !.param_depth = IF @ > 0 THEN @ - 1 ELSE 0])

\* The outermost list of parameters, if it is the first, is kept for the body.
PopParams(st) ==
  IF st.param_depth = 1 /\ st.fn_params = NoScope
  THEN [st EXCEPT !.param_depth = 0, !.fn_params = Top(st), !.scopes = Front(@)]
  ELSE Pop([st EXCEPT !.param_depth = IF @ > 0 THEN @ - 1 ELSE 0])

ResumeParams(st) ==
  [st EXCEPT !.scopes = Append(@, IF st.fn_params = NoScope THEN EmptyScope ELSE st.fn_params),
             !.fn_params = NoScope]

AbandonParams(st) == Pop([st EXCEPT !.param_depth = IF @ > 0 THEN @ - 1 ELSE 0])

\* Faulty variant for a mutation run: the parameters of a prototype stay.
DropParams_NotDropped(st) == st

\* The parameters kept were those of a prototype: no body comes for them.
DropParams(st) ==
  IF st.param_depth = 0 /\ st.fn_params # NoScope
  THEN [ReleaseTable(st, st.fn_params.table) EXCEPT !.fn_params = NoScope]
  ELSE st

DeclaratorNamed(st) == DropParams(st)
ErrorRecovered(st) == DropParams([st EXCEPT !.typedef_seen = FALSE, !.declaring = "variable"])

TypedefSeen(st) == [st EXCEPT !.typedef_seen = TRUE]
SpecifiersDone(st) ==
  [st EXCEPT !.declaring = IF st.typedef_seen THEN "typedef" ELSE "variable", !.typedef_seen = FALSE]
SpecifiersReset(st) == [st EXCEPT !.typedef_seen = FALSE]
-----------------------------------------------------------------------------
\* The free tables of size n, following the links; more than there are tables,
\* should the links lead round.
FreeTables(st, n) ==
  LET after[k \in 0..(Len(st.tables) + 1)] ==
        IF k = 0 THEN <<>>
        ELSE LET s == after[k - 1]
                 t == IF s = <<>> THEN st.free[n] ELSE st.tables[Last(s)].next
             IN  IF t = 0 THEN s ELSE Append(s, t)
  IN  after[Len(st.tables) + 1]

\* The table of each scope on the stack, and of the kept parameters.
InUse(st) ==
  [i \in 0..Len(st.scopes) |-> IF i = 0 THEN st.fn_params.table ELSE st.scopes[i].table]

\* "Tables no scope uses", and "a table waiting for the function body must not
\* go to another scope" (tests/scope_test.c): each table belongs to one scope,
\* or to the kept parameters, or is once in the free list of its size.
OneOwnerEach(st) ==
  LET used == {InUse(st)[i] : i \in DOMAIN InUse(st)} \ {0}
      listed(n) == {FreeTables(st, n)[i] : i \in DOMAIN FreeTables(st, n)}
  IN  /\ \A i, j \in DOMAIN InUse(st) : InUse(st)[i] = InUse(st)[j] /\ InUse(st)[i] # 0 => i = j
      /\ \A n \in Sizes : /\ IsInjective(FreeTables(st, n))
                         /\ \A t \in listed(n) : SizeOf(st, t) = n /\ t \notin used
      /\ DOMAIN st.tables = used \cup UNION {listed(n) : n \in Sizes}
=============================================================================
