------------------------------- MODULE Adapt -------------------------------
(***************************************************************************)
(* adapt_wavelet () of libb-amr/adapt.c, over the tree of AmrTree: the     *)
(* leaves are flagged, the flagged ones refined, coarsest first, each by a *)
(* call of tree_refine () with all of its recursion, and families merged,  *)
(* finest first, by tree_coarsen ().                                       *)
(*                                                                         *)
(* The fields are abstract: block_wavelet () of every scalar at a node is  *)
(* compared with its threshold only, so a node's error is of one of three  *)
(* classes.  A field gives one to each index, leaf or not.  Which field a  *)
(* call sees is free, until the fields stop changing (steady).             *)
(***************************************************************************)
EXTENDS AmrTree

CONSTANTS
  Fields,    \* the fields: functions from Positions to classes of error
  Bounds     \* the pairs <<minlevel, maxlevel>> that calls are given

\* big: some error > max.  small: every error < max / 1.5.
Classes == {"small", "middling", "big"}

ASSUME FieldsAssumption == \A f \in Fields : f \in [Positions -> Classes]
ASSUME BoundsAssumption == Bounds \subseteq Int \X Int

VARIABLES
  phase,       \* what the running call does, or "idle"
  field,       \* the field it sees
  bounds,      \* minlevel and maxlevel, clamped
  toRefine,    \* flagged leaves it has still to refine
  coarsenable, \* the nodes flagged BAMR_NODE_COARSEN
  toMerge,     \* families it has still to merge
  refined, coarsened,   \* its AdaptStats
  steady,      \* TRUE once fields and bounds have stopped changing
  started,     \* history: the nodes when the call began
  chosen       \* history: all of the families it chose to merge

call == <<phase, field, bounds, toRefine, coarsenable, toMerge, refined,
          coarsened, steady, started, chosen>>
allVars == <<vars, call>>

NoField == [p \in Positions |-> "small"]

AdaptInit ==
  /\ Init
  /\ phase = "idle" /\ field = NoField /\ bounds = <<0, 0>>
  /\ toRefine = {} /\ coarsenable = {} /\ toMerge = {}
  /\ refined = 0 /\ coarsened = 0 /\ steady = FALSE
  /\ started = {} /\ chosen = {}
-----------------------------------------------------------------------------
(***************************************************************************)
(* 1. Flags.                                                               *)
(***************************************************************************)
Big(p, f) == f[p] = "big"
Small(p, f) == f[p] = "small"

ClampBounds(b) ==
  << IF b[1] < 0 THEN 0 ELSE b[1], IF b[2] > depthmax THEN depthmax ELSE b[2] >>

FlaggedToRefine(f, b) ==
  {p \in leaf : p.level < b[2] /\ (Big(p, f) \/ p.level < b[1])}

FlaggedToCoarsen(f, b) ==
  {p \in leaf \ FlaggedToRefine(f, b) :
     p.level > b[2] \/ (Small(p, f) /\ p.level > b[1])}

\* A call begins.  Once steady, it sees what the last one saw.
Begin(f, b) ==
  /\ phase = "idle" /\ Idle /\ Exists
  /\ phase' = "refine"
  /\ steady => f = field /\ b = bounds
  /\ steady' \in {TRUE, steady}
  /\ field' = f /\ bounds' = ClampBounds(b)
  /\ toRefine' = FlaggedToRefine(f, ClampBounds(b))
  /\ coarsenable' = FlaggedToCoarsen(f, ClampBounds(b))
  /\ started' = nodes
  /\ UNCHANGED <<vars, toMerge, refined, coarsened, chosen>>

-----------------------------------------------------------------------------
(***************************************************************************)
(* 2. Refine, coarsest first; leaves of one level in any order, as qsort   *)
(* () leaves it open.  A leaf that another one's cascade has divided is    *)
(* left alone by tree_refine ().                                           *)
(***************************************************************************)
RefineNext(p) ==
  /\ phase = "refine" /\ Idle
  /\ p \in toRefine /\ \A q \in toRefine : p.level =< q.level
  /\ toRefine' = toRefine \ {p}
  /\ IF Refinable(p) THEN RefineCall(p) ELSE UNCHANGED vars
  /\ UNCHANGED <<phase, field, bounds, coarsenable, toMerge, refined, coarsened,
                 steady, started, chosen>>

\* tree_refine () runs, and its count goes to the statistics as it returns.
RefineRuns ==
  /\ RefineStep
  /\ refined' = IF stack' = <<>> THEN refined + Top.count + 1 ELSE refined
  /\ UNCHANGED <<phase, field, bounds, toRefine, coarsenable, toMerge, coarsened,
                 steady, started, chosen>>
-----------------------------------------------------------------------------
(***************************************************************************)
(* 3. Coarsen, finest first: the families whose children are all leaves    *)
(* flagged, under a parent that would not be refined again.                *)
(***************************************************************************)
\* Faulty variant for a mutation run: the parent's own error is not looked at.
Mergeable_ParentUnseen(p) ==
  /\ p.level >= bounds[1]
  /\ Children(p) \subseteq leaf \cap coarsenable

Mergeable(p) ==
  /\ p.level >= bounds[1]
  /\ Children(p) \subseteq leaf \cap coarsenable
  /\ p.level + 1 =< bounds[2] => ~Big(p, field)

Collect ==
  /\ phase = "refine" /\ Idle /\ toRefine = {}
  /\ phase' = "merge"
  /\ chosen' = {p \in hasChildren : Mergeable(p)}
  /\ toMerge' = chosen'
  /\ UNCHANGED <<vars, field, bounds, toRefine, coarsenable, refined, coarsened,
                 steady, started>>

\* Faulty variant for a mutation run: coarsest first.
MergeNext_CoarsestFirst(p) ==
  /\ phase = "merge"
  /\ p \in toMerge /\ \A q \in toMerge : p.level =< q.level
  /\ toMerge' = toMerge \ {p}
  /\ IF CanCoarsen(p)
     THEN /\ Coarsen(p)
          /\ coarsened' = coarsened + 1
          /\ coarsenable' = coarsenable \ Children(p)
     ELSE UNCHANGED <<vars, coarsened, coarsenable>>
  /\ UNCHANGED <<phase, field, bounds, toRefine, refined, steady, started, chosen>>

\* Faulty variant for a mutation run: a family that becomes one of leaves as
\* the finer ones are merged is merged as well.
MergeNext_GoesOn(p) ==
  /\ phase = "merge"
  /\ p \in toMerge /\ \A q \in toMerge : p.level >= q.level
  /\ IF CanCoarsen(p)
     THEN /\ Coarsen(p)
          /\ coarsened' = coarsened + 1
          /\ coarsenable' = coarsenable \ Children(p)
          /\ toMerge' = (toMerge \ {p}) \cup
               {q \in hasChildren : Children(q) \subseteq leaf' /\ p \in Children(q)}
     ELSE /\ UNCHANGED <<vars, coarsened, coarsenable>>
          /\ toMerge' = toMerge \ {p}
  /\ UNCHANGED <<phase, field, bounds, toRefine, refined, steady, started, chosen>>

MergeNext(p) ==
  /\ phase = "merge"
  /\ p \in toMerge /\ \A q \in toMerge : p.level >= q.level
  /\ toMerge' = toMerge \ {p}
  /\ IF CanCoarsen(p)
     THEN /\ Coarsen(p)
          /\ coarsened' = coarsened + 1
          /\ coarsenable' = coarsenable \ Children(p)
     ELSE UNCHANGED <<vars, coarsened, coarsenable>>
  /\ UNCHANGED <<phase, field, bounds, toRefine, refined, steady, started, chosen>>

-----------------------------------------------------------------------------
\* 4. The flags are cleared and the call returns.  The field and the bounds
\* stay for the next call once steady.
Return ==
  /\ phase = "merge" /\ toMerge = {}
  /\ phase' = "idle"
  /\ coarsenable' = {} /\ refined' = 0 /\ coarsened' = 0
  /\ started' = {} /\ chosen' = {}
  /\ IF steady THEN UNCHANGED <<field, bounds>>
     ELSE field' = NoField /\ bounds' = <<0, 0>>
  /\ UNCHANGED <<vars, toRefine, toMerge, steady>>

AdaptStep ==
  \/ \E p \in toRefine : RefineNext(p)
  \/ RefineRuns
  \/ Collect
  \/ \E p \in toMerge : MergeNext(p)
  \/ Return

Calls == IF steady THEN Begin(field, bounds)
         ELSE \E f \in Fields, b \in Bounds : Begin(f, b)

AdaptNext ==
  \/ Create(MaxDepth) /\ UNCHANGED call
  \/ Calls
  \/ AdaptStep

\* The program calls adapt_wavelet () once per step of its own, and a call
\* that has begun runs on until it returns.
AdaptFairness == WF_allVars(Calls \/ AdaptStep)

AdaptSpec == AdaptInit /\ [][AdaptNext]_allVars /\ AdaptFairness
-----------------------------------------------------------------------------
(***************************************************************************)
(* Properties.                                                             *)
(***************************************************************************)

\* adapt.h: "One call moves a leaf by one level at most", the leaves divided
\* for the balance of others included.
OneLevelPerCall ==
  phase # "idle" =>
    \A p \in leaf, q \in started :
      /\ Children(q) \cap started = {}
      /\ Covers(p, q) \/ Covers(q, p)
      => p.level - q.level \in {-1, 0, 1}

\* The order of merging loses nothing: when the call returns, a family that it
\* chose and has not merged is one that tree_coarsen () still refuses.
MergesExhausted ==
  phase = "merge" /\ toMerge = {} =>
    \A p \in chosen \cap hasChildren : ~CanCoarsen(p)

\* adapt.h: "a refinement is not undone the next step".  While the fields stay
\* what they are, the calls bring the tree to rest: they do not go on dividing
\* and merging the same leaves.
ComesToRest == <>[][steady => nodes' = nodes]_allVars
=============================================================================
