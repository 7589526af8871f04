---------------------------- MODULE MortonTheorems ----------------------------
(***************************************************************************)
(* The array of morton () is large enough for every tree: its stack holds  *)
(* at most NChildren entries for each level between the root of the walk   *)
(* and the node reached.  The inductive invariant says the same of each    *)
(* entry: what lies under it on the stack is bounded by its own level, so  *)
(* that the bound survives taking it off.                                  *)
(*                                                                         *)
(* And the walk is right: the body sees every node of the subtree, once,   *)
(* in Morton order.  The invariant splits the subtree into the nodes seen  *)
(* and the span of each entry of the stack, in order from the first node   *)
(* seen to the bottom of the stack.                                        *)
(*                                                                         *)
(* And so are the loops over the cells of a block (BlockLoops): what has   *)
(* been visited is what the loop has come to, in the order of storage.     *)
(***************************************************************************)
EXTENDS MortonTraversal, BlockLoops, TreeIndexTheorems, SequenceTheorems

\* Room(l): how many entries may lie on the stack at level l.
Room(l) == NChildren * (l - root.level)

StackInv ==
  /\ WalkTypeOK
  /\ Len(walkStack) =< Room(cur.level)
  /\ \A i \in 1..Len(walkStack) : i - 1 =< Room(walkStack[i].p.level)

\* What is said of the levels: no node reached or left for later is beyond the
\* last one.
LevelInv ==
  /\ cur.level =< MaxDepth
  /\ \A i \in 1..Len(walkStack) : walkStack[i].p.level =< MaxDepth

LEMMA RoomOfLevels ==
  ASSUME NEW r \in Int, NEW l \in Int
  PROVE  /\ NChildren \in Nat \ {0}
         /\ NChildren * (l - r) \in Int
         /\ NChildren * ((l + 1) - r) = NChildren * (l - r) + NChildren
         /\ r >= 0 /\ l =< MaxDepth => NChildren * (l - r) =< NChildren * MaxDepth
<1>1. MaxDepth \in Int
  BY MaxDepthAssumption
<1>2. CASE NChildren = 2
  BY <1>1, <1>2
<1>3. CASE NChildren = 4
  BY <1>1, <1>3
<1>4. CASE NChildren = 8
  BY <1>1, <1>4
<1>5. QED
  BY <1>2, <1>3, <1>4, DimensionAssumption DEF NChildren, BitWeight

LEMMA ChildType ==
  ASSUME NEW p \in Index, NEW c \in 0..(NChildren - 1)
  PROVE  IndexChild(p, c) \in Index /\ IndexChild(p, c).level = p.level + 1
BY ChildOfParent DEF Children

\* What a step down leaves for later.
LEMMA LaterType ==
  ASSUME NEW p \in Index
  PROVE  /\ Later(p) \in Seq(Entry) /\ Len(Later(p)) = NChildren
         /\ Later(p)[1].p = p
         /\ \A i \in 2..NChildren : Later(p)[i].p.level = p.level + 1
<1>1. NChildren \in Nat \ {0}
  BY RoomOfLevels
<1>2. ASSUME NEW i \in 1..NChildren
      PROVE  /\ Later(p)[i] \in Entry
             /\ i = 1 => Later(p)[i].p = p
             /\ i # 1 => Later(p)[i].p.level = p.level + 1
  <2>1. CASE i = 1
    BY <2>1 DEF Later, Entry
  <2>2. CASE i # 1
    <3>1. NChildren - i + 1 \in 0..(NChildren - 1)
      BY <1>1, <2>2
    <3>2. Later(p)[i] = [p |-> IndexChild(p, NChildren - i + 1), visited |-> FALSE]
      BY <2>2 DEF Later
    <3>3. QED
      BY <2>2, <3>1, <3>2, ChildType DEF Entry
  <2>3. QED
    BY <2>1, <2>2
<1>3. Later(p) \in [1..NChildren -> Entry]
  BY <1>2 DEF Later
<1>4. Later(p) \in Seq(Entry) /\ Len(Later(p)) = NChildren
  BY <1>1, <1>3
<1>5. 1 \in 1..NChildren /\ \A i \in 2..NChildren : i \in 1..NChildren /\ i # 1
  BY <1>1
<1>6. QED
  BY <1>2, <1>4, <1>5

\* What lies where after a concatenation.
LEMMA AppendedEntries ==
  ASSUME NEW s \in Seq(Entry), NEW t \in Seq(Entry)
  PROVE  /\ s \o t \in Seq(Entry)
         /\ Len(s \o t) = Len(s) + Len(t)
         /\ \A i \in 1..Len(s) : (s \o t)[i] = s[i]
         /\ \A i \in 1..Len(t) : (s \o t)[Len(s) + i] = t[i]
OBVIOUS

LEMMA InitStackInv == WalkInit => StackInv /\ LevelInv
<1>1. SUFFICES ASSUME WalkInit PROVE StackInv /\ LevelInv
  OBVIOUS
<1>2. /\ root \in Index /\ root.level \in Nat /\ root.level =< MaxDepth
  BY <1>1, MaxDepthAssumption DEF WalkInit, Positions, Index, Levels
<1>3. WalkTypeOK
  <2>1. IsTree(parents) /\ cur \in Index
    BY <1>1, <1>2, TreesAssumption DEF WalkInit
  <2>2. visited \in BOOLEAN /\ done \in BOOLEAN
    BY <1>1, Zenon DEF WalkInit
  <2>3. walkStack \in Seq(Entry) /\ visits \in Seq(Index)
    BY <1>1, EmptySeq DEF WalkInit
  <2>4. QED
    BY <1>2, <2>1, <2>2, <2>3 DEF WalkTypeOK
<1>4. Room(cur.level) = 0
  <2>1. cur.level - root.level = 0
    BY <1>1, <1>2 DEF WalkInit
  <2>2. NChildren * 0 = 0
    BY RoomOfLevels
  <2>3. QED
    BY <2>1, <2>2 DEF Room
<1>5. Len(walkStack) = 0
  BY <1>1 DEF WalkInit
<1>6. QED
  BY <1>1, <1>2, <1>3, <1>4, <1>5 DEF WalkInit, StackInv, LevelInv

LEMMA DownStackInv == StackInv /\ LevelInv /\ Down => (StackInv /\ LevelInv)'
<1>1. SUFFICES ASSUME StackInv, LevelInv, Down
               PROVE  StackInv' /\ LevelInv'
  OBVIOUS
<1> DEFINE n == Len(walkStack)
           k == Len(Later(cur))
           r == root.level
           l == cur.level
<1>2. /\ walkStack \in Seq(Entry) /\ n \in Nat /\ cur \in Index /\ root \in Index
      /\ r \in Nat /\ l \in Nat /\ root' = root
  BY <1>1 DEF StackInv, WalkTypeOK, Down, Index, tree
<1>3. l < MaxDepth
  BY <1>1 DEF StackInv, WalkTypeOK, IsTree, Down
<1>4. /\ Later(cur) \in Seq(Entry) /\ k = NChildren
      /\ Later(cur)[1].p = cur
      /\ \A i \in 2..NChildren : Later(cur)[i].p.level = l + 1
  BY <1>2, LaterType
<1>5. NChildren \in Nat \ {0} /\ Room(l) \in Int /\ Room(l + 1) = Room(l) + NChildren
  <2>1. r \in Int /\ l \in Int
    BY <1>2
  <2> HIDE DEF r, l
  <2>2. /\ NChildren \in Nat \ {0}
        /\ NChildren * (l - r) \in Int
        /\ NChildren * ((l + 1) - r) = NChildren * (l - r) + NChildren
    BY <2>1, RoomOfLevels
  <2>3. \A x : Room(x) = NChildren * (x - r)
    BY DEF Room, r
  <2>4. QED
    BY <2>2, <2>3
<1>6. /\ walkStack' \in Seq(Entry) /\ Len(walkStack') = n + NChildren
      /\ \A i \in 1..n : walkStack'[i] = walkStack[i]
      /\ \A i \in 1..NChildren : walkStack'[n + i] = Later(cur)[i]
  <2>1. walkStack' = walkStack \o Later(cur)
    BY <1>1 DEF Down
  <2> DEFINE t == Later(cur)
  <2>2. walkStack \in Seq(Entry) /\ t \in Seq(Entry) /\ Len(t) = NChildren
    BY <1>2, <1>4
  <2> HIDE DEF t
  <2>3. /\ walkStack \o t \in Seq(Entry) /\ Len(walkStack \o t) = Len(walkStack) + Len(t)
        /\ \A i \in 1..Len(walkStack) : (walkStack \o t)[i] = walkStack[i]
        /\ \A i \in 1..Len(t) : (walkStack \o t)[Len(walkStack) + i] = t[i]
    BY <2>2, AppendedEntries
  <2>4. QED
    BY <2>1, <2>2, <2>3 DEF t
<1>7. cur' \in Index /\ cur'.level = l + 1
  <2>1. 0 \in 0..(NChildren - 1)
    BY <1>5
  <2>2. QED
    BY <1>1, <1>2, <2>1, ChildType DEF Down
<1>8. WalkTypeOK'
  BY <1>1, <1>6, <1>7 DEF Down, StackInv, WalkTypeOK, tree
<1>9. n =< Room(l) /\ \A i \in 1..n : i - 1 =< Room(walkStack[i].p.level)
  BY <1>1 DEF StackInv
<1> HIDE DEF n, k, r, l
<1>10. ASSUME NEW i \in 1..(n + NChildren)
       PROVE  /\ i - 1 =< Room(walkStack'[i].p.level)
              /\ walkStack'[i].p.level =< MaxDepth
  <2>1. CASE i \in 1..n
    BY <1>1, <1>6, <1>9, <2>1 DEF LevelInv, n
  <2>2. CASE i = n + 1
    <3>1. walkStack'[i].p = cur
      BY <1>4, <1>5, <1>6, <2>2
    <3>2. i - 1 = n
      BY <1>2, <2>2
    <3>3. QED
      BY <1>1, <1>9, <3>1, <3>2 DEF LevelInv, l
  <2>3. CASE i \in (n + 2)..(n + NChildren)
    <3>1. i - n \in 2..NChildren /\ i = n + (i - n)
      BY <1>2, <1>5, <2>3
    <3>2. walkStack'[i] = Later(cur)[i - n]
      BY <1>6, <3>1
    <3>3. walkStack'[i].p.level = l + 1
      BY <1>4, <3>1, <3>2
    <3>4. i - 1 =< Room(l + 1)
      BY <1>2, <1>5, <1>9, <2>3
    <3>5. l + 1 =< MaxDepth
      BY <1>2, <1>3, MaxDepthAssumption
    <3>6. QED
      BY <3>3, <3>4, <3>5
  <2>4. QED
    BY <1>2, <1>5, <2>1, <2>2, <2>3
<1>11. \A x : Room(x)' = Room(x)
  BY <1>2 DEF Room
<1>12. n + NChildren =< Room(l + 1)
  BY <1>2, <1>5, <1>9
<1>13. StackInv'
  BY <1>6, <1>7, <1>8, <1>10, <1>12, <1>2 DEF StackInv, Room
<1>14. LevelInv'
  <2>1. l + 1 =< MaxDepth
    BY <1>2, <1>3, MaxDepthAssumption
  <2>2. QED
    BY <1>6, <1>7, <1>10, <2>1 DEF LevelInv
<1>15. QED
  BY <1>13, <1>14

LEMMA VisitStackInv == StackInv /\ LevelInv /\ Visit => (StackInv /\ LevelInv)'
<1>1. SUFFICES ASSUME StackInv, LevelInv, Visit
               PROVE  StackInv' /\ LevelInv'
  OBVIOUS
<1> DEFINE n == Len(walkStack)
<1>2. /\ walkStack \in Seq(Entry) /\ n \in Nat /\ root' = root
      /\ visits' \in Seq(Index)
  BY <1>1 DEF StackInv, WalkTypeOK, Visit, tree
<1>3. CASE walkStack = <<>>
  <2>1. UNCHANGED <<parents, root, cur, visited, walkStack>> /\ done' = TRUE
    BY <1>1, <1>3 DEF Visit, tree
  <2>2. WalkTypeOK'
    BY <1>1, <1>2, <2>1 DEF StackInv, WalkTypeOK
  <2>3. QED
    BY <1>1, <2>1, <2>2 DEF StackInv, LevelInv, Room
<1>4. CASE walkStack # <<>>
  <2>1. /\ cur' = walkStack[n].p /\ visited' = walkStack[n].visited
        /\ walkStack' = SubSeq(walkStack, 1, n - 1)
        /\ UNCHANGED <<parents, root, done>>
    BY <1>1, <1>4 DEF Visit, tree
  <2>2. n \in 1..n /\ n - 1 \in Nat
    BY <1>2, <1>4
  <2> HIDE DEF n
  <2>3. walkStack[n] \in Entry
    BY <1>2, <2>2 DEF n
  <2>4. /\ walkStack' \in Seq(Entry) /\ Len(walkStack') = n - 1
        /\ \A i \in 1..(n - 1) : walkStack'[i] = walkStack[i]
    <3>1. /\ 1 \in Int /\ n - 1 \in Int
          /\ \A i \in 1..(n - 1) : walkStack[i] \in Entry
      BY <1>2, <2>2 DEF n
    <3>2. /\ SubSeq(walkStack, 1, n - 1) \in Seq(Entry)
          /\ Len(SubSeq(walkStack, 1, n - 1)) = (IF 1 =< n - 1 THEN (n - 1) - 1 + 1 ELSE 0)
          /\ \A i \in 1..((n - 1) - 1 + 1) : SubSeq(walkStack, 1, n - 1)[i] = walkStack[1 + i - 1]
      BY <3>1, SubSeqProperties
    <3>3. (1 =< n - 1 \/ n - 1 = 0) /\ (n - 1) - 1 + 1 = n - 1 /\ \A i \in 1..(n - 1) : 1 + i - 1 = i
      BY <2>2
    <3>4. QED
      BY <2>1, <3>2, <3>3
  <2>5. WalkTypeOK'
    BY <1>1, <1>2, <2>1, <2>3, <2>4 DEF StackInv, WalkTypeOK, Entry
  <2>6. n - 1 =< Room(cur'.level)
    BY <1>1, <2>1, <2>2 DEF StackInv, n
  <2>7. \A i \in 1..(n - 1) : i \in 1..n
    BY <2>2
  <2>8. StackInv'
    BY <1>1, <1>2, <2>4, <2>5, <2>6, <2>7 DEF StackInv, Room, n
  <2>9. LevelInv'
    BY <1>1, <2>1, <2>2, <2>4, <2>7 DEF LevelInv, n
  <2>10. QED
    BY <2>8, <2>9
<1>5. QED
  BY <1>3, <1>4

\* The two together are an invariant of the walk.
THEOREM StackInvHolds == WalkSpec => [](StackInv /\ LevelInv)
<1>1. WalkInit => StackInv /\ LevelInv
  BY InitStackInv
<1>2. StackInv /\ LevelInv /\ [WalkNext]_walkVars => (StackInv /\ LevelInv)'
  <2>1. SUFFICES ASSUME StackInv, LevelInv, [WalkNext]_walkVars
                 PROVE  (StackInv /\ LevelInv)'
    OBVIOUS
  <2>2. CASE Down
    BY <2>1, <2>2, DownStackInv
  <2>3. CASE Visit
    BY <2>1, <2>3, VisitStackInv
  <2>4. CASE UNCHANGED walkVars
    BY <2>1, <2>4 DEF walkVars, StackInv, LevelInv, WalkTypeOK, Room
  <2>5. QED
    BY <2>1, <2>2, <2>3, <2>4 DEF WalkNext
<1>3. QED
  BY <1>1, <1>2, PTL DEF WalkSpec

\* The walk keeps to its types, for every tree.
THEOREM MortonTypes == WalkSpec => []WalkTypeOK
<1>1. StackInv => WalkTypeOK
  BY DEF StackInv
<1>2. QED
  BY <1>1, StackInvHolds, PTL

\* The stack of morton () never holds more than NChildren entries per level,
\* so stack [TREE_NCHILDREN * BAMR_MAX_DEPTH + 1] is never overrun, however
\* deep the tree.
THEOREM StackAlwaysFits == WalkSpec => []StackFits
<1>1. StackInv /\ LevelInv => StackFits
  <2>1. SUFFICES ASSUME StackInv, LevelInv PROVE StackFits
    OBVIOUS
  <2>2. /\ root.level \in Nat /\ cur.level \in Int /\ cur.level =< MaxDepth
        /\ Len(walkStack) \in Nat /\ MaxDepth \in Int
        /\ Len(walkStack) =< NChildren * (cur.level - root.level)
    <3>1. root.level \in Nat /\ cur.level \in Int /\ cur.level =< MaxDepth /\ Len(walkStack) \in Nat
      BY <2>1 DEF LevelInv, StackInv, WalkTypeOK, Index
    <3>2. Len(walkStack) =< NChildren * (cur.level - root.level)
      BY <2>1 DEF StackInv, Room
    <3>3. QED
      BY <3>1, <3>2, MaxDepthAssumption
  <2>3. /\ NChildren * (cur.level - root.level) =< NChildren * MaxDepth
        /\ NChildren * (cur.level - root.level) \in Int
    <3> DEFINE r == root.level
               l == cur.level
    <3>1. r \in Int /\ l \in Int /\ r >= 0 /\ l =< MaxDepth
      BY <2>2
    <3> HIDE DEF r, l
    <3>2. NChildren * (l - r) =< NChildren * MaxDepth /\ NChildren * (l - r) \in Int
      BY <3>1, RoomOfLevels
    <3>3. QED
      BY <3>2 DEF r, l
  <2>4. NChildren * MaxDepth \in Int
    <3>1. NChildren * (MaxDepth - 0) \in Int
      BY <2>2, RoomOfLevels
    <3>2. QED
      BY <2>2, <3>1
  <2>5. QED
    BY <2>2, <2>3, <2>4 DEF StackFits
<1>2. QED
  BY <1>1, StackInvHolds, PTL

-----------------------------------------------------------------------------
(* The order of the visits. *)

\* What an entry of the stack stands for: a node, if it has been down to its
\* children; else it and all that lies below it.
Span(e) == IF e.visited THEN {e.p} ELSE {q \in Nodes : Covers(e.p, q)}

\* The stack, and the node reached on top of it.
Line == Append(walkStack, [p |-> cur, visited |-> visited])

Subtree == {q \in Nodes : Covers(root, q)}

Seen == {visits[i] : i \in 1..Len(visits)}

\* Each node of the subtree has been seen or is in the span of an entry; and from
\* the nodes seen to the top of the stack and down to its bottom, all is in order.
OrderInv ==
  /\ VisitsInOrder
  /\ done => Seen = Subtree
  /\ ~done =>
       /\ \A k \in 1..Len(Line) : Line[k].p \in Nodes
       /\ \A k \in 1..Len(Line) : \A x \in Seen, y \in Span(Line[k]) : Before(x, y)
       /\ \A k, l \in 1..Len(Line) :
            k < l => \A x \in Span(Line[l]), y \in Span(Line[k]) : Before(x, y)
       /\ \A x : x \in Subtree <=> x \in Seen \/ \E k \in 1..Len(Line) : x \in Span(Line[k])

\* A set of nodes with children is one tree.
LEMMA NodesOfTree ==
  ASSUME IsTree(parents)
  PROVE  /\ Root \in Nodes /\ parents \subseteq Nodes
         /\ \A q \in Nodes : /\ q \in Index /\ q.level =< 30
                             /\ q.level > 0 => Parent(q) \in parents
<1>1. \A p \in parents : p \in Index /\ p.level < MaxDepth /\ p.level \in Nat
  BY MaxDepthAssumption DEF IsTree, Positions, Levels, Index
<1>2. \A p \in parents : p.level = 0 => p = Root
  <2>1. ASSUME NEW p \in parents, p.level = 0
        PROVE  p = Root
    <3>1. PICK l \in Levels : p \in [level : {l}, ijk : [Axes -> 0..(2^l - 1)]]
      BY DEF IsTree, Positions
    <3>2. l = 0 /\ 2^0 = 1
      BY <2>1, <3>1
    <3>3. \A a \in Axes : p.ijk[a] = 0
      BY <3>1, <3>2
    <3>4. p \in Index /\ Root \in Index /\ Root.level = 0 /\ \A a \in Axes : Root.ijk[a] = 0
      BY <1>1, OnlyRootAtTop DEF Root
    <3>5. QED
      BY <2>1, <3>3, <3>4, IndexEquality
  <2>2. QED
    BY <2>1
<1>3. parents \subseteq Nodes
  <2>1. ASSUME NEW p \in parents, p.level > 0
        PROVE  p \in Nodes
    BY <1>1, <2>1, ChildOfItsParent DEF IsTree, Nodes
  <2>2. QED
    BY <1>1, <1>2, <2>1 DEF Nodes
<1>4. ASSUME NEW q \in Nodes
      PROVE  q \in Index /\ q.level =< 30 /\ (q.level > 0 => Parent(q) \in parents)
  <2>1. CASE q = Root
    BY <2>1, OnlyRootAtTop
  <2>2. ASSUME NEW p \in parents, q \in Children(p)
        PROVE  q \in Index /\ q.level =< 30 /\ Parent(q) \in parents
    BY <1>1, <2>2, ChildOfParent, MaxDepthAssumption
  <2>3. QED
    BY <2>1, <2>2 DEF Nodes
<1>5. QED
  BY <1>3, <1>4 DEF Nodes

\* What a node covers: itself, and what its children cover.
LEMMA SpanOfChildren ==
  ASSUME IsTree(parents), NEW c \in Nodes, NEW q \in Nodes
  PROVE  /\ Covers(c, q) <=>
              q = c \/ (c \in parents /\ \E b \in 0..(NChildren - 1) : Covers(IndexChild(c, b), q))
         /\ \A b \in 0..(NChildren - 1) : ~Covers(IndexChild(c, b), c)
<1>1. /\ c \in Index /\ c.level =< 30 /\ q \in Index /\ q.level =< 30
      /\ c.level \in Nat /\ q.level \in Nat
      /\ \A x \in Nodes : x.level > 0 => Parent(x) \in Nodes
  BY NodesOfTree DEF Index
<1>2. ASSUME NEW b \in 0..(NChildren - 1)
      PROVE  /\ IndexChild(c, b) \in Index /\ IndexChild(c, b).level = c.level + 1
             /\ Parent(IndexChild(c, b)) = c
  <2>1. IndexChild(c, b) \in Children(c)
    BY DEF Children
  <2>2. QED
    BY <1>1, <2>1, ChildOfParent
<1>3. ASSUME NEW b \in 0..(NChildren - 1), Covers(IndexChild(c, b), q)
      PROVE  Covers(c, q)
  <2>1. IndexChild(c, b).level > 0
    BY <1>1, <1>2
  <2>2. QED
    BY <1>1, <1>2, <1>3, <2>1, CoversFromParent
<1>4. Covers(c, c)
  BY <1>1, CoversItself
<1>5. ASSUME Covers(c, q), q # c
      PROVE  c \in parents /\ \E b \in 0..(NChildren - 1) : Covers(IndexChild(c, b), q)
  <2>1. PICK d \in 0..29 : /\ d < q.level /\ q.level - d = c.level + 1
                           /\ Ancestor(q, d) \in Children(c)
                           /\ Covers(Ancestor(q, d), q)
    BY <1>1, <1>5, CoveredFromAChild
  <2>2. PICK b \in 0..(NChildren - 1) : Ancestor(q, d) = IndexChild(c, b)
    BY <2>1 DEF Children
  <2>3. Ancestor(q, d) \in Nodes
    <3>1. d \in 0..30 /\ d =< q.level /\ 0 \in 0..d /\ Ancestor(q, 0) \in Nodes
      BY <1>1, <2>1, OwnAncestor
    <3>2. QED
      BY <1>1, <3>1, AncestorsInside
  <2>4. c \in parents
    <3>1. Parent(Ancestor(q, d)) = c /\ Ancestor(q, d).level > 0
      BY <1>1, <1>2, <2>2
    <3>2. QED
      BY <2>3, <3>1, NodesOfTree
  <2>5. QED
    BY <2>1, <2>2, <2>4
<1>6. \A b \in 0..(NChildren - 1) : ~Covers(IndexChild(c, b), c)
  BY <1>1, <1>2 DEF Covers
<1>7. QED
  BY <1>3, <1>4, <1>5, <1>6

\* The line of entries.
LEMMA LineEntries ==
  ASSUME WalkTypeOK
  PROVE  /\ Len(walkStack) \in Nat /\ Len(Line) = Len(walkStack) + 1
         /\ \A i \in 1..Len(walkStack) : Line[i] = walkStack[i]
         /\ Line[Len(walkStack) + 1] = [p |-> cur, visited |-> visited]
<1>1. walkStack \in Seq(Entry) /\ [p |-> cur, visited |-> visited] \in Entry
  BY DEF WalkTypeOK, Entry
<1>2. QED
  BY <1>1 DEF Line

LEMMA InitOrderInv == WalkInit => OrderInv
<1> SUFFICES ASSUME WalkInit PROVE OrderInv
  OBVIOUS
<1>1. /\ WalkTypeOK /\ IsTree(parents) /\ Len(walkStack) = 0 /\ Len(visits) = 0 /\ cur = root /\ ~visited
  BY InitStackInv DEF WalkInit, StackInv, WalkTypeOK
<1>2. Seen = {} /\ VisitsInOrder
  BY <1>1 DEF Seen, VisitsInOrder
<1>3. CASE root \notin Nodes
  <2>1. done = TRUE
    BY <1>3 DEF WalkInit
  <2>2. Subtree = {}
    <3>1. SUFFICES ASSUME NEW q \in Nodes, Covers(root, q) PROVE FALSE
      BY DEF Subtree
    <3>2. /\ q \in Index /\ q.level =< 30 /\ root \in Index /\ q.level \in Nat
          /\ \A x \in Nodes : x.level > 0 => Parent(x) \in Nodes
      BY <1>1, NodesOfTree DEF WalkTypeOK, Index
    <3>3. PICK e \in 0..30 : e =< q.level /\ root = Ancestor(q, e)
      BY <3>1, <3>2, CoveringIsAncestor
    <3>4. 0 \in 0..e /\ Ancestor(q, 0) \in Nodes
      BY <3>2, OwnAncestor
    <3>5. QED
      BY <1>3, <3>2, <3>3, <3>4, AncestorsInside
  <2>3. QED
    BY <1>2, <2>1, <2>2 DEF OrderInv
<1>4. CASE root \in Nodes
  <2>1. done = FALSE
    BY <1>4 DEF WalkInit
  <2>2. Len(Line) = 1 /\ Line[1] = [p |-> root, visited |-> FALSE]
    BY <1>1, LineEntries DEF WalkInit
  <2>3. Span(Line[1]) = Subtree
    BY <2>2 DEF Span, Subtree
  <2>4. Line[1].p \in Nodes /\ 1 \in 1..Len(Line) /\ \A k \in 1..Len(Line) : k = 1
    <3>1. Line[1].p = root
      BY <2>2
    <3>2. ASSUME NEW m, m = 1 PROVE 1 \in 1..m /\ \A k \in 1..m : k = 1
      BY <3>2
    <3>3. QED
      BY <1>4, <2>2, <3>1, <3>2
  <2> DEFINE m == Len(Line)
             z(k) == Line[k]
  <2>5. /\ z(1).p \in Nodes /\ 1 \in 1..m /\ \A k \in 1..m : k = 1
        /\ Span(z(1)) = Subtree
    BY <2>3, <2>4
  <2>6. \A k, l \in 1..m : ~(k < l)
    BY <2>5
  <2> HIDE DEF m, z
  <2>7. /\ \A k \in 1..m : z(k).p \in Nodes
        /\ \A x : x \in Subtree <=> \E k \in 1..m : x \in Span(z(k))
    BY <2>5, Zenon
  <2>8. QED
    BY <1>2, <2>1, <2>6, <2>7 DEF OrderInv, m, z
<1>5. QED
  BY <1>3, <1>4

\* What does not change while the walk goes on.
LEMMA TreeStays ==
  ASSUME tree' = tree
  PROVE  /\ Nodes' = Nodes /\ Subtree' = Subtree
         /\ \A e : Span(e)' = Span(e)
         /\ \A x, y : Before(x, y)' <=> Before(x, y)
<1>1. parents' = parents /\ root' = root
  BY DEF tree
<1>2. Nodes' = Nodes
  BY <1>1 DEF Nodes
<1>3. QED
  BY <1>1, <1>2 DEF Subtree, Span, Before

\* A step down splits the span on top into its parts, in order.
LEMMA DownOrderInv ==
  ASSUME WalkTypeOK, WalkTypeOK', OrderInv, Down
  PROVE  OrderInv'
<1> DEFINE n == Len(walkStack)
           N == NChildren
           New(j) == IF j = 1 THEN [p |-> cur, visited |-> TRUE]
                     ELSE [p |-> IndexChild(cur, N - j + 1), visited |-> FALSE]
<1>1. /\ ~done /\ ~done' /\ ~visited /\ ~visited' /\ cur \in parents /\ visits' = visits
      /\ tree' = tree /\ IsTree(parents) /\ cur \in Index
      /\ walkStack' = walkStack \o Later(cur) /\ cur' = IndexChild(cur, 0)
  BY DEF Down, WalkTypeOK
<1>2. N \in Nat \ {0} /\ n \in Nat /\ walkStack \in Seq(Entry)
  BY RoomOfLevels DEF WalkTypeOK
<1>3. /\ Len(Line) = n + 1
      /\ \A i \in 1..n : Line[i] = walkStack[i]
      /\ Line[n + 1] = [p |-> cur, visited |-> FALSE]
  <2>1. visited = FALSE
    BY <1>1 DEF WalkTypeOK
  <2>2. QED
    BY <2>1, LineEntries
<1>4. /\ Len(Line') = n + N + 1
      /\ \A i \in 1..n : Line'[i] = Line[i]
      /\ \A j \in 1..(N + 1) : Line'[n + j] = New(j)
  <2>1. /\ Later(cur) \in Seq(Entry) /\ Len(Later(cur)) = N
        /\ \A j \in 1..N : Later(cur)[j] = New(j)
    BY <1>1, <1>2, LaterType DEF Later
  <2> HIDE DEF n, N, New
  <2>2. /\ Len(walkStack') = n + N
        /\ \A i \in 1..n : walkStack'[i] = walkStack[i]
        /\ \A j \in 1..N : walkStack'[n + j] = New(j)
    BY <1>1, <1>2, <2>1, AppendedEntries DEF n
  <2>3. /\ Len(Line') = (n + N) + 1
        /\ \A i \in 1..(n + N) : Line'[i] = walkStack'[i]
        /\ Line'[(n + N) + 1] = [p |-> cur', visited |-> visited']
    <3>1. /\ Len(walkStack') \in Nat /\ Len(Line') = Len(walkStack') + 1
          /\ \A i \in 1..Len(walkStack') : Line'[i] = walkStack'[i]
          /\ Line'[Len(walkStack') + 1] = [p |-> cur', visited |-> visited']
      <4>1. (WalkTypeOK => /\ Len(walkStack) \in Nat /\ Len(Line) = Len(walkStack) + 1
                           /\ \A i \in 1..Len(walkStack) : Line[i] = walkStack[i]
                           /\ Line[Len(walkStack) + 1] = [p |-> cur, visited |-> visited])'
        BY LineEntries, PTL
      <4>2. QED
        BY <4>1
    <3>2. QED
      BY <2>2, <3>1
  <2>4. visited' = FALSE
    BY <1>1 DEF WalkTypeOK
  <2>5. New(N + 1) = [p |-> IndexChild(cur, 0), visited |-> FALSE]
    <3>1. N + 1 # 1 /\ N - (N + 1) + 1 = 0
      BY <1>2
    <3>2. QED
      BY <3>1 DEF New
  <2>6. \A j \in 1..(N + 1) : Line'[n + j] = New(j)
    <3>1. ASSUME NEW j \in 1..(N + 1)
          PROVE  Line'[n + j] = New(j)
      <4>1. CASE j = N + 1
        <5>1. n + j = (n + N) + 1
          BY <1>2, <4>1
        <5>2. QED
          BY <1>1, <2>3, <2>4, <2>5, <4>1, <5>1
      <4>2. CASE j # N + 1
        <5>1. j \in 1..N /\ n + j \in 1..(n + N)
          BY <1>2, <4>2
        <5>2. QED
          BY <2>2, <2>3, <5>1
      <4>3. QED
        BY <4>1, <4>2
    <3>2. QED
      BY <3>1
  <2>7. \A i \in 1..n : Line'[i] = Line[i]
    <3>1. \A i \in 1..n : i \in 1..(n + N)
      BY <1>2
    <3>2. QED
      BY <1>3, <2>2, <2>3, <3>1
  <2>8. QED
    BY <1>2, <2>3, <2>6, <2>7
<1> HIDE DEF n, N
<1> DEFINE Old == Span(Line[n + 1])
<1>5. /\ cur \in Nodes /\ Old = {q \in Nodes : Covers(cur, q)}
  BY <1>1, <1>3, NodesOfTree DEF Span
<1>6. ASSUME NEW j \in 2..(N + 1)
      PROVE  /\ N - j + 1 \in 0..(NChildren - 1)
             /\ New(j).p = IndexChild(cur, N - j + 1)
             /\ Span(New(j)) = {q \in Nodes : Covers(IndexChild(cur, N - j + 1), q)}
             /\ New(j).p \in Nodes
  <2>1. N - j + 1 \in 0..(NChildren - 1) /\ j # 1
    BY <1>2 DEF N
  <2>2. New(j) = [p |-> IndexChild(cur, N - j + 1), visited |-> FALSE]
    BY <2>1
  <2>3. IndexChild(cur, N - j + 1) \in Nodes
    BY <1>1, <2>1 DEF Nodes, Children
  <2>4. QED
    BY <2>1, <2>2, <2>3 DEF Span
<1>7. Span(New(1)) = {cur} /\ New(1).p = cur
  BY DEF Span
<1> HIDE DEF New
<1>8. \A x : x \in Old <=> \E j \in 1..(N + 1) : x \in Span(New(j))
  <2>1. ASSUME NEW x \in Nodes, NEW b \in 0..(NChildren - 1), Covers(IndexChild(cur, b), x)
        PROVE  \E j \in 1..(N + 1) : x \in Span(New(j))
    <3>1. N - b + 1 \in 2..(N + 1) /\ N - (N - b + 1) + 1 = b
      BY <1>2 DEF N
    <3>2. x \in Span(New(N - b + 1))
      BY <1>6, <2>1, <3>1
    <3>3. QED
      BY <1>2, <3>1, <3>2
  <2>2. ASSUME NEW x \in Old
        PROVE  \E j \in 1..(N + 1) : x \in Span(New(j))
    <3>1. x \in Nodes /\ Covers(cur, x)
      BY <1>5, <2>2
    <3>2. CASE x = cur
      BY <1>2, <1>7, <3>2
    <3>3. CASE x # cur
      BY <1>1, <1>5, <2>1, <3>1, <3>3, SpanOfChildren
    <3>4. QED
      BY <3>2, <3>3
  <2>3. ASSUME NEW j \in 1..(N + 1), NEW x \in Span(New(j))
        PROVE  x \in Old
    <3>1. CASE j = 1
      BY <1>1, <1>5, <1>7, <2>3, <3>1, SpanOfChildren
    <3>2. CASE j # 1
      <4>1. j \in 2..(N + 1)
        BY <1>2, <3>2
      <4>2. x \in Nodes /\ Covers(IndexChild(cur, N - j + 1), x)
        BY <1>6, <2>3, <4>1
      <4>3. Covers(cur, x)
        BY <1>1, <1>5, <1>6, <4>1, <4>2, SpanOfChildren
      <4>4. QED
        BY <1>5, <4>2, <4>3
    <3>3. QED
      BY <3>1, <3>2
  <2>4. QED
    BY <2>2, <2>3
<1>9. ASSUME NEW j \in 1..(N + 1), NEW i \in 1..(N + 1), i < j,
             NEW x \in Span(New(j)), NEW y \in Span(New(i))
      PROVE  Before(x, y)
  <2>1. j \in 2..(N + 1)
    BY <1>2, <1>9
  <2>2. x \in Nodes /\ Covers(IndexChild(cur, N - j + 1), x)
    BY <1>6, <1>9, <2>1
  <2>3. CASE i = 1
    <3>1. y = cur /\ Covers(cur, x) /\ x # cur
      BY <1>1, <1>5, <1>6, <1>7, <1>9, <2>1, <2>2, <2>3, SpanOfChildren
    <3>2. QED
      BY <3>1 DEF Before
  <2>4. CASE i # 1
    <3>1. i \in 2..(N + 1)
      BY <1>2, <2>4
    <3>2. y \in Nodes /\ Covers(IndexChild(cur, N - i + 1), y)
      BY <1>6, <1>9, <3>1
    <3>3. N - j + 1 < N - i + 1
      BY <1>2, <1>9
    <3>4. QED
      BY <1>5, <1>6, <2>1, <2>2, <3>1, <3>2, <3>3 DEF Before
  <2>5. QED
    BY <2>3, <2>4
\* Every entry of the new line lies in an entry of the old one.
<1> DEFINE Of(k) == IF k =< n THEN k ELSE n + 1
<1>10. ASSUME NEW k \in 1..(n + N + 1)
       PROVE  /\ Of(k) \in 1..(n + 1) /\ Line'[k].p \in Nodes
              /\ \A x \in Span(Line'[k]) : x \in Span(Line[Of(k)])
              /\ k > n => k - n \in 1..(N + 1) /\ Line'[k] = New(k - n)
  <2>1. CASE k =< n
    <3>1. k \in 1..n /\ k \in 1..(n + 1) /\ Of(k) = k
      BY <1>2, <2>1
    <3>2. Line[k].p \in Nodes
      BY <1>1, <1>3, <3>1 DEF OrderInv
    <3>3. QED
      BY <1>2, <1>4, <2>1, <3>1, <3>2
  <2>2. CASE k > n
    <3>1. k - n \in 1..(N + 1) /\ n + (k - n) = k /\ Of(k) = n + 1 /\ n + 1 \in 1..(n + 1)
      BY <1>2, <2>2
    <3>2. Line'[k] = New(k - n)
      BY <1>4, <3>1
    <3>3. New(k - n).p \in Nodes
      <4>1. k - n = 1 \/ k - n \in 2..(N + 1)
        BY <1>2, <3>1
      <4>2. QED
        BY <1>5, <1>6, <1>7, <4>1
    <3>4. \A x \in Span(New(k - n)) : x \in Old
      BY <1>8, <3>1
    <3>5. QED
      BY <3>1, <3>2, <3>3, <3>4
  <2>3. QED
    BY <1>2, <2>1, <2>2
<1>11. ASSUME NEW x
       PROVE  (\E k \in 1..(n + N + 1) : x \in Span(Line'[k]))
                <=> \E k \in 1..(n + 1) : x \in Span(Line[k])
  <2>1. ASSUME NEW k \in 1..(n + 1), x \in Span(Line[k])
        PROVE  \E l \in 1..(n + N + 1) : x \in Span(Line'[l])
    <3>1. CASE k \in 1..n
      <4>1. k \in 1..(n + N + 1)
        BY <1>2, <3>1
      <4>2. QED
        BY <1>4, <2>1, <3>1, <4>1
    <3>2. CASE k = n + 1
      <4>1. PICK j \in 1..(N + 1) : x \in Span(New(j))
        BY <1>8, <2>1, <3>2
      <4>2. n + j \in 1..(n + N + 1)
        BY <1>2
      <4>3. QED
        BY <1>4, <4>1, <4>2
    <3>3. QED
      BY <1>2, <3>1, <3>2
  <2>2. QED
    BY <1>10, <2>1
<1>12. ASSUME NEW k \in 1..(n + N + 1), NEW l \in 1..(n + N + 1), k < l,
              NEW x \in Span(Line'[l]), NEW y \in Span(Line'[k])
       PROVE  Before(x, y)
  <2>1. CASE k > n
    <3>1. l > n /\ k - n < l - n
      BY <1>2, <1>12, <2>1
    <3>2. QED
      BY <1>9, <1>10, <1>12, <2>1, <3>1
  <2>2. CASE k =< n
    <3>1. Of(k) = k /\ Of(k) < Of(l)
      BY <1>2, <1>12, <2>2
    <3>2. Of(k) \in 1..(n + 1) /\ Of(l) \in 1..(n + 1)
          /\ x \in Span(Line[Of(l)]) /\ y \in Span(Line[Of(k)])
      BY <1>10, <1>12
    <3> HIDE DEF Of
    <3>3. QED
      BY <1>1, <1>3, <3>1, <3>2 DEF OrderInv
  <2>3. QED
    BY <1>2, <2>1, <2>2
<1> HIDE DEF Of, Old
<1>13. Seen' = Seen /\ (VisitsInOrder' <=> VisitsInOrder)
  BY <1>1, TreeStays DEF Seen, VisitsInOrder
<1>14. \A k \in 1..(n + N + 1) : \A x \in Seen, y \in Span(Line'[k]) : Before(x, y)
  <2>1. \A k \in 1..(n + 1) : \A x \in Seen, y \in Span(Line[k]) : Before(x, y)
    BY <1>1, <1>3 DEF OrderInv
  <2>2. QED
    BY <1>10, <2>1
<1>15. \A x : x \in Subtree <=> x \in Seen \/ \E k \in 1..(n + N + 1) : x \in Span(Line'[k])
  <2>1. \A x : x \in Subtree <=> x \in Seen \/ \E k \in 1..(n + 1) : x \in Span(Line[k])
    BY <1>1, <1>3 DEF OrderInv
  <2>2. QED
    BY <1>11, <2>1
<1>16. /\ Nodes' = Nodes /\ Subtree' = Subtree
       /\ \A e : Span(e)' = Span(e)
       /\ \A x, y : Before(x, y)' <=> Before(x, y)
  BY <1>1, TreeStays
<1>17. OrderInv'
  <2>1. VisitsInOrder
    BY DEF OrderInv
  <2>2. QED
    BY <1>1, <1>4, <1>10, <1>12, <1>13, <1>14, <1>15, <1>16, <2>1 DEF OrderInv
<1>18. QED
  BY <1>17

\* A visit takes the node on top, alone in its span, and puts it after the
\* nodes seen.
LEMMA VisitOrderInv ==
  ASSUME WalkTypeOK, WalkTypeOK', OrderInv, Visit
  PROVE  OrderInv'
<1> DEFINE n == Len(walkStack)
           v == Len(visits)
<1>1. /\ ~done /\ (visited \/ cur \notin parents) /\ visits' = Append(visits, cur)
      /\ tree' = tree /\ IsTree(parents) /\ cur \in Index
      /\ walkStack \in Seq(Entry) /\ visits \in Seq(Index) /\ n \in Nat /\ v \in Nat
      /\ visited \in BOOLEAN
  BY DEF Visit, WalkTypeOK
<1>2. /\ Len(Line) = n + 1
      /\ \A i \in 1..n : Line[i] = walkStack[i]
      /\ Line[n + 1] = [p |-> cur, visited |-> visited]
  BY LineEntries
<1>3. /\ Len(visits') = v + 1 /\ visits'[v + 1] = cur
      /\ \A i \in 1..v : visits'[i] = visits[i]
  BY <1>1
<1> HIDE DEF n, v
<1>4. /\ \A k \in 1..(n + 1) : Line[k].p \in Nodes
      /\ \A k \in 1..(n + 1) : \A x \in Seen, y \in Span(Line[k]) : Before(x, y)
      /\ \A k, l \in 1..(n + 1) :
           k < l => \A x \in Span(Line[l]), y \in Span(Line[k]) : Before(x, y)
      /\ \A x : x \in Subtree <=> x \in Seen \/ \E k \in 1..(n + 1) : x \in Span(Line[k])
      /\ VisitsInOrder
  BY <1>1, <1>2 DEF OrderInv
<1>5. Span(Line[n + 1]) = {cur}
  <2>1. cur \in Nodes
    <3>1. n + 1 \in 1..(n + 1) /\ Line[n + 1].p = cur
      BY <1>1, <1>2
    <3>2. QED
      BY <1>4, <3>1
  <2>2. CASE visited
    BY <1>2, <2>2 DEF Span
  <2>3. CASE ~visited
    <3>1. Span(Line[n + 1]) = {q \in Nodes : Covers(cur, q)}
      BY <1>2, <2>3 DEF Span
    <3>2. \A q \in Nodes : Covers(cur, q) <=> q = cur
      BY <1>1, <2>1, <2>3, SpanOfChildren
    <3>3. QED
      BY <2>1, <3>1, <3>2
  <2>4. QED
    BY <1>1, <2>2, <2>3
<1>6. Seen' = Seen \cup {cur}
  <2>1. ASSUME NEW i \in 1..(v + 1)
        PROVE  visits'[i] \in Seen \cup {cur}
    <3>1. CASE i = v + 1
      BY <1>3, <3>1
    <3>2. CASE i # v + 1
      <4>1. i \in 1..v
        BY <1>1, <3>2 DEF v
      <4>2. QED
        BY <1>3, <4>1 DEF Seen, v
    <3>3. QED
      BY <3>1, <3>2
  <2>2. ASSUME NEW i \in 1..v
        PROVE  i \in 1..(v + 1) /\ visits'[i] = visits[i]
    BY <1>1, <1>3, <2>2 DEF v
  <2>3. v + 1 \in 1..(v + 1)
    BY <1>1 DEF v
  <2>4. Seen' = {visits'[i] : i \in 1..(v + 1)} /\ Seen = {visits[i] : i \in 1..v}
    BY <1>3 DEF Seen, v
  <2>5. QED
    BY <1>3, <2>1, <2>2, <2>3, <2>4
<1>7. \A x \in Seen : Before(x, cur)
  <2>1. n + 1 \in 1..(n + 1)
    BY <1>1 DEF n
  <2>2. QED
    BY <1>4, <1>5, <2>1
<1>8. /\ Nodes' = Nodes /\ Subtree' = Subtree
      /\ \A e : Span(e)' = Span(e)
      /\ \A x, y : Before(x, y)' <=> Before(x, y)
  BY <1>1, TreeStays
<1>9. \A i, j \in 1..(v + 1) : i < j => Before(visits'[i], visits'[j])
  <2>1. SUFFICES ASSUME NEW i \in 1..(v + 1), NEW j \in 1..(v + 1), i < j
                 PROVE  Before(visits'[i], visits'[j])
    OBVIOUS
  <2>2. i \in 1..v /\ visits'[i] = visits[i]
    BY <1>1, <1>3, <2>1 DEF v
  <2>3. CASE j = v + 1
    <3>1. visits[i] \in Seen
      BY <2>2 DEF Seen, v
    <3>2. QED
      BY <1>3, <1>7, <2>2, <2>3, <3>1
  <2>4. CASE j # v + 1
    <3>1. j \in 1..v /\ visits'[j] = visits[j]
      BY <1>1, <1>3, <2>4 DEF v
    <3>2. QED
      BY <1>4, <2>1, <2>2, <3>1 DEF VisitsInOrder, v
  <2>5. QED
    BY <2>3, <2>4
<1>10. VisitsInOrder'
  BY <1>3, <1>8, <1>9 DEF VisitsInOrder
<1>11. CASE walkStack = <<>>
  <2>1. n = 0 /\ done'
    BY <1>1, <1>11 DEF Visit, n
  <2>2. \A k \in 1..(n + 1) : k = n + 1
    BY <2>1
  <2>3. n + 1 \in 1..(n + 1)
    BY <2>1
  <2>4. \A x : x \in Subtree <=> x \in Seen \/ x = cur
    BY <1>4, <1>5, <2>2, <2>3
  <2>5. Seen' = Subtree'
    BY <1>6, <1>8, <2>4
  <2>6. QED
    BY <1>10, <2>1, <2>5 DEF OrderInv
<1>12. CASE walkStack # <<>>
  <2>1. /\ cur' = walkStack[n].p /\ visited' = walkStack[n].visited
        /\ walkStack' = SubSeq(walkStack, 1, n - 1) /\ ~done'
    BY <1>1, <1>12 DEF Visit, n
  <2>2. n \in 1..n /\ n - 1 \in Nat /\ n \in Nat
    BY <1>1, <1>12 DEF n
  <2>3. walkStack[n] \in Entry
    BY <1>1, <2>2 DEF n
  <2>4. Len(walkStack') = n - 1 /\ \A i \in 1..(n - 1) : walkStack'[i] = walkStack[i]
    <3>1. /\ 1 \in Int /\ n - 1 \in Int
          /\ \A i \in 1..(n - 1) : walkStack[i] \in Entry
      BY <1>1, <2>2 DEF n
    <3>2. /\ Len(SubSeq(walkStack, 1, n - 1)) = (IF 1 =< n - 1 THEN (n - 1) - 1 + 1 ELSE 0)
          /\ \A i \in 1..((n - 1) - 1 + 1) : SubSeq(walkStack, 1, n - 1)[i] = walkStack[1 + i - 1]
      BY <3>1, SubSeqProperties
    <3>3. (1 =< n - 1 \/ n - 1 = 0) /\ (n - 1) - 1 + 1 = n - 1 /\ \A i \in 1..(n - 1) : 1 + i - 1 = i
      BY <2>2
    <3>4. QED
      BY <2>1, <3>2, <3>3
  <2>5. /\ Len(Line') = Len(walkStack') + 1
        /\ \A i \in 1..Len(walkStack') : Line'[i] = walkStack'[i]
        /\ Line'[Len(walkStack') + 1] = [p |-> cur', visited |-> visited']
    <3>1. (WalkTypeOK => /\ Len(Line) = Len(walkStack) + 1
                         /\ \A i \in 1..Len(walkStack) : Line[i] = walkStack[i]
                         /\ Line[Len(walkStack) + 1] = [p |-> cur, visited |-> visited])'
      BY LineEntries, PTL
    <3>2. QED
      BY <3>1
  <2>6. Len(Line') = n /\ \A k \in 1..n : Line'[k] = Line[k] /\ k \in 1..(n + 1)
    <3>1. Len(Line') = n /\ Line'[n] = [p |-> walkStack[n].p, visited |-> walkStack[n].visited]
      <4>1. (n - 1) + 1 = n
        BY <2>2
      <4>2. QED
        BY <2>1, <2>4, <2>5, <4>1
    <3>2. walkStack[n] = [p |-> walkStack[n].p, visited |-> walkStack[n].visited]
      BY <2>3 DEF Entry
    <3>3. ASSUME NEW k \in 1..n
          PROVE  Line'[k] = Line[k] /\ k \in 1..(n + 1)
      <4>1. CASE k = n
        BY <1>2, <2>2, <3>1, <3>2, <4>1
      <4>2. CASE k # n
        <5>1. k \in 1..(n - 1) /\ k \in 1..n
          BY <2>2, <4>2
        <5>2. QED
          BY <1>2, <2>2, <2>4, <2>5, <5>1
      <4>3. QED
        BY <4>1, <4>2
    <3>4. QED
      BY <3>1, <3>3
  <2>7. n + 1 \in 1..(n + 1) /\ \A k \in 1..(n + 1) : k \in 1..n \/ k = n + 1
    BY <2>2
  <2>8. \A k \in 1..n : k < n + 1
    BY <2>2
  <2>9. \A k \in 1..n : \A x \in Seen', y \in Span(Line'[k]) : Before(x, y)
    <3>1. \A k \in 1..n : \A y \in Span(Line[k]) : Before(cur, y)
      BY <1>4, <1>5, <2>6, <2>7, <2>8
    <3>2. \A k \in 1..n : \A x \in Seen, y \in Span(Line[k]) : Before(x, y)
      BY <1>4, <2>6
    <3>3. QED
      BY <1>6, <2>6, <3>1, <3>2
  <2>10. \A x : x \in Subtree <=> x \in Seen' \/ \E k \in 1..n : x \in Span(Line'[k])
    <3>1. ASSUME NEW x
          PROVE  (\E k \in 1..(n + 1) : x \in Span(Line[k]))
                   <=> x = cur \/ \E k \in 1..n : x \in Span(Line[k])
      BY <1>5, <2>6, <2>7
    <3>2. ASSUME NEW x
          PROVE  (\E k \in 1..n : x \in Span(Line'[k])) <=> (\E k \in 1..n : x \in Span(Line[k]))
      BY <2>6
    <3>3. QED
      BY <1>4, <1>6, <3>1, <3>2
  <2>11. \A k, l \in 1..n : k < l => \A x \in Span(Line'[l]), y \in Span(Line'[k]) : Before(x, y)
    BY <1>4, <2>6
  <2>12. \A k \in 1..n : Line'[k].p \in Nodes
    BY <1>4, <2>6
  <2>13. QED
    BY <1>8, <1>10, <2>1, <2>6, <2>9, <2>10, <2>11, <2>12 DEF OrderInv
<1>13. QED
  BY <1>11, <1>12

\* The order of the walk, with what lies ahead, is kept by every step.
THEOREM OrderInvHolds == WalkSpec => []OrderInv
<1>1. WalkInit => OrderInv
  BY InitOrderInv
<1>2. WalkTypeOK /\ WalkTypeOK' /\ OrderInv /\ [WalkNext]_walkVars => OrderInv'
  <2>1. SUFFICES ASSUME WalkTypeOK, WalkTypeOK', OrderInv, [WalkNext]_walkVars
                 PROVE  OrderInv'
    OBVIOUS
  <2>2. CASE Down
    BY <2>1, <2>2, DownOrderInv
  <2>3. CASE Visit
    BY <2>1, <2>3, VisitOrderInv
  <2>4. CASE UNCHANGED walkVars
    <3>1. /\ UNCHANGED <<cur, visited, walkStack, visits, done>> /\ tree' = tree
      BY <2>4 DEF walkVars, tree
    <3>2. Line' = Line /\ Seen' = Seen
      BY <3>1 DEF Line, Seen
    <3>3. /\ Nodes' = Nodes /\ Subtree' = Subtree
          /\ \A e : Span(e)' = Span(e)
          /\ \A x, y : Before(x, y)' <=> Before(x, y)
      BY <3>1, TreeStays
    <3>4. VisitsInOrder' <=> VisitsInOrder
      BY <3>1, <3>3 DEF VisitsInOrder
    <3>5. QED
      BY <2>1, <3>1, <3>2, <3>3, <3>4 DEF OrderInv
  <2>5. QED
    BY <2>1, <2>2, <2>3, <2>4 DEF WalkNext
<1>3. QED
  BY <1>1, <1>2, MortonTypes, PTL DEF WalkSpec

\* "Children come in Morton (Z) order": of the nodes the body of morton () has
\* seen, each comes before all those after it, on every tree; a parent only
\* after all of its children.  "Runs the block once for every node of the
\* subtree": morton () ends only when the body has seen the nodes at or below
\* root, and no others.
THEOREM VisitsInMortonOrder == WalkSpec => []InMortonOrder
<1>1. OrderInv => VisitsInOrder
  BY DEF OrderInv
<1>2. OrderInv => SeesTheSubtree
  BY DEF OrderInv, SeesTheSubtree, Seen, Subtree
<1>3. OrderInv => InMortonOrder
  BY <1>1, <1>2 DEF InMortonOrder
<1>4. QED
  BY <1>3, OrderInvHolds, PTL

LEMMA ChildNumbers ==
  ASSUME NEW p \in Index, NEW b \in 0..(NChildren - 1), NEW c \in 0..(NChildren - 1),
         IndexChild(p, b) = IndexChild(p, c)
  PROVE  b = c
<1>0. b \in Nat /\ c \in Nat
  BY DimensionAssumption DEF NChildren, BitWeight
<1>1. \A a \in Axes : /\ (b \div BitWeight(a)) % 2 \in 0..1
                      /\ (c \div BitWeight(a)) % 2 \in 0..1
                      /\ p.ijk[a] \in Int
  <2>1. \A x \in Nat : \A a \in Axes : (x \div BitWeight(a)) % 2 \in 0..1
    BY DimensionAssumption DEF BitWeight, Axes
  <2>2. \A a \in Axes : p.ijk[a] \in Int
    BY DEF Index
  <2>3. QED
    BY <1>0, <2>1, <2>2
<1>2. \A a \in Axes : IndexChild(p, b).ijk[a] = IndexChild(p, c).ijk[a]
  OBVIOUS
<1>3. \A a \in Axes : 2 * p.ijk[a] + ((b \div BitWeight(a)) % 2)
                        = 2 * p.ijk[a] + ((c \div BitWeight(a)) % 2)
  BY <1>2 DEF IndexChild
<1>4. \A a \in Axes : (b \div BitWeight(a)) % 2 = (c \div BitWeight(a)) % 2
  BY <1>1, <1>3
<1>5. CASE Dimension = 1
  BY <1>4, <1>5 DEF BitWeight, Axes, NChildren
<1>6. CASE Dimension = 2
  BY <1>4, <1>6 DEF BitWeight, Axes, NChildren
<1>7. CASE Dimension = 3
  <2>1. (b \div 1) % 2 = (c \div 1) % 2 /\ (b \div 2) % 2 = (c \div 2) % 2
        /\ (b \div 4) % 2 = (c \div 4) % 2
    BY <1>4, <1>7 DEF BitWeight, Axes
  <2>2. b \in 0..7 /\ c \in 0..7
    BY <1>7 DEF NChildren, BitWeight
  <2>3. QED
    BY <2>1, <2>2
<1>8. QED
  BY <1>5, <1>6, <1>7, DimensionAssumption

\* Before is an order without a circle of one: two children of one node cover
\* nothing in common.
LEMMA NeverBeforeItself ==
  ASSUME IsTree(parents), NEW p \in Nodes
  PROVE  ~Before(p, p)
<1>1. SUFFICES ASSUME NEW a \in Nodes, NEW b \in 0..(NChildren - 1), NEW c \in 0..(NChildren - 1),
                      b < c, Covers(IndexChild(a, b), p), Covers(IndexChild(a, c), p)
               PROVE  FALSE
  BY DEF Before
<1>2. p \in Index /\ p.level =< 30 /\ a \in Index
  BY NodesOfTree
<1>3. /\ IndexChild(a, b) \in Index /\ IndexChild(a, b).level = a.level + 1
      /\ IndexChild(a, c) \in Index /\ IndexChild(a, c).level = a.level + 1
  BY <1>2, ChildType
<1>4. \E e \in 0..30 : e = p.level - (a.level + 1) /\ IndexChild(a, b) = Ancestor(p, e)
  BY <1>1, <1>2, <1>3, CoveringIsAncestor
<1>5. \E e \in 0..30 : e = p.level - (a.level + 1) /\ IndexChild(a, c) = Ancestor(p, e)
  BY <1>1, <1>2, <1>3, CoveringIsAncestor
<1>6. IndexChild(a, b) = IndexChild(a, c)
  BY <1>4, <1>5
<1>7. b = c
  BY <1>2, <1>6, ChildNumbers
<1>8. QED
  BY <1>1, <1>7

SeenOnce == \A i, j \in 1..Len(visits) : visits[i] = visits[j] => i = j

\* No node is given to the body of morton () twice.
THEOREM EachNodeOnce == WalkSpec => []SeenOnce
<1>1. ASSUME WalkTypeOK, OrderInv
      PROVE  SeenOnce
  <2>1. \A i \in 1..Len(visits) : visits[i] \in Nodes
    <3>1. \A x : x \in Seen => x \in Subtree
      BY <1>1 DEF OrderInv
    <3>2. QED
      BY <3>1 DEF Seen, Subtree
  <2>2. ASSUME NEW i \in 1..Len(visits), NEW j \in 1..Len(visits), visits[i] = visits[j], i < j
        PROVE  FALSE
    <3>1. Before(visits[i], visits[j])
      BY <1>1, <2>2 DEF OrderInv, VisitsInOrder
    <3>2. QED
      BY <1>1, <2>1, <2>2, <3>1, NeverBeforeItself DEF WalkTypeOK
  <2>3. Len(visits) \in Nat
    BY <1>1 DEF WalkTypeOK
  <2>4. QED
    <3>1. SUFFICES ASSUME NEW i \in 1..Len(visits), NEW j \in 1..Len(visits),
                          visits[i] = visits[j], i # j
                   PROVE  FALSE
      BY DEF SeenOnce
    <3>2. i < j \/ j < i
      BY <2>3, <3>1
    <3>3. QED
      BY <2>2, <3>1, <3>2
<1>2. WalkTypeOK /\ OrderInv => SeenOnce
  BY <1>1
<1>3. QED
  BY <1>2, MortonTypes, OrderInvHolds, PTL

-----------------------------------------------------------------------------
(* The places of the cells.                                                *)

\* The lowest Real of c among those of all blocks.
PlaceOfCell(c) == c.blk * shape.cells + CellIndex(shape, c)

\* The order of storage.
Sooner(c, d) ==
  \/ c.blk < d.blk
  \/ /\ c.blk = d.blk
     /\ \/ c.k < d.k
        \/ c.k = d.k /\ (c.j < d.j \/ (c.j = d.j /\ c.i < d.i))

Blocks == IF loop = "gpu" THEN NBlocks ELSE 1

ShapeInv ==
  /\ \E l \in Layouts : shape = ShapeOf(l.m, l.g, l.v) /\ lanes = l.v
  /\ loop \in {"cells", "rows", "tiled", "simd", "threads", "gpu"}
  /\ halo \in 0..shape.g
  /\ tile \in Nat

LEMMA RoundedUp ==
  ASSUME NEW n \in Nat, NEW a \in Nat \ {0}
  PROVE  \E q \in Nat : RoundUp(n, a) = q * a /\ q * a >= n
<1>1. PICK c \in Int, r \in 0..(a - 1) : c = (n + a - 1) \div a /\ r = (n + a - 1) % a /\ n + a - 1 = a * c + r
  <2>1. PICK x \in Nat : x = n + a - 1
    OBVIOUS
  <2>2. x \div a \in Int /\ x % a \in 0..(a - 1) /\ x = a * (x \div a) + (x % a)
    OBVIOUS
  <2>3. QED
    BY <2>1, <2>2
<1>2. a * c = c * a /\ c * a \in Int /\ a * c >= n
  BY <1>1
<1>3. c >= 0
  <2>1. SUFFICES ASSUME c =< -1 PROVE FALSE
    BY <1>1
  <2>2. a * c =< -a
    BY <2>1
  <2>3. QED
    BY <1>2, <2>2
<1>4. QED
  BY <1>1, <1>2, <1>3 DEF RoundUp

\* What is said of a shape: rows begin and are as long as whole vectors, and the
\* block with its ghosts has room in them.
LEMMA ShapeFacts ==
  ASSUME ShapeInv
  PROVE  /\ shape.m \in Nat \ {0} /\ shape.g \in Nat /\ shape.ox \in Nat /\ shape.nx \in Nat \ {0}
         /\ lanes \in Nat \ {0}
         /\ shape.ox >= shape.g /\ shape.ox + shape.m + shape.g =< shape.nx
         /\ shape.sy = shape.nx
         /\ shape.sz = shape.nx * (shape.m + 2 * shape.g)
         /\ shape.cells = shape.nx * (shape.m + 2 * shape.g) * (shape.m + 2 * shape.g)
         /\ \E q \in Nat : shape.ox = q * lanes
         /\ \E q \in Nat : shape.nx = q * lanes
<1>1. PICK l \in Layouts : shape = ShapeOf(l.m, l.g, l.v) /\ lanes = l.v
  BY DEF ShapeInv
<1>2. PICK m \in Nat \ {0}, g \in Nat, v \in Nat \ {0} : m = l.m /\ g = l.g /\ v = l.v
  BY LoopAssumption
<1>3. PICK ox \in Nat : ox = RoundUp(g, v) /\ ox >= g /\ \E q \in Nat : ox = q * v
  <2>1. PICK q \in Nat : RoundUp(g, v) = q * v /\ q * v >= g
    BY RoundedUp
  <2>2. q * v \in Nat
    OBVIOUS
  <2>3. QED
    BY <2>1, <2>2
<1>4. PICK nx \in Nat : nx = RoundUp(ox + m + g, v) /\ nx >= ox + m + g /\ \E q \in Nat : nx = q * v
  <2>1. PICK n \in Nat : n = ox + m + g
    OBVIOUS
  <2>2. PICK q \in Nat : RoundUp(n, v) = q * v /\ q * v >= n
    BY RoundedUp
  <2>3. q * v \in Nat
    OBVIOUS
  <2>4. QED
    BY <2>1, <2>2, <2>3
<1>5. shape = [m |-> m, g |-> g, ox |-> ox, nx |-> nx, sy |-> nx, sz |-> nx * (m + 2 * g),
               cells |-> nx * (m + 2 * g) * (m + 2 * g)]
  BY <1>1, <1>2, <1>3, <1>4 DEF ShapeOf
<1>6. /\ shape.m = m /\ shape.g = g /\ shape.ox = ox /\ shape.nx = nx /\ shape.sy = nx
      /\ shape.sz = nx * (m + 2 * g) /\ shape.cells = nx * (m + 2 * g) * (m + 2 * g) /\ lanes = v
  BY <1>1, <1>2, <1>5
<1>7. nx \in Nat \ {0}
  BY <1>4
<1>8. /\ shape.m \in Nat \ {0} /\ shape.g \in Nat /\ shape.ox \in Nat /\ shape.nx \in Nat \ {0}
      /\ lanes \in Nat \ {0}
      /\ shape.ox >= shape.g /\ shape.ox + shape.m + shape.g =< shape.nx
  BY <1>3, <1>4, <1>6, <1>7
<1>9. (\E q \in Nat : shape.ox = q * lanes) /\ (\E q \in Nat : shape.nx = q * lanes)
  BY <1>3, <1>4, <1>6
<1>10. QED
  BY <1>6, <1>8, <1>9

\* Of numbers written with two digits, the one with the larger first digit is
\* larger, by the width of what is counted at least.
LEMMA DigitsOrder ==
  ASSUME NEW X \in Nat \ {0}, NEW a \in Nat, NEW w \in Nat \ {0}, a + w =< X, NEW b \in Nat,
         NEW c \in Nat, NEW d \in Nat, b < d
  PROVE  b * X + a + w =< d * X + c
<1>1. PICK e \in Nat : d = b + 1 + e
  <2>1. d - b - 1 \in Nat /\ d = b + 1 + (d - b - 1)
    OBVIOUS
  <2>2. QED
    BY <2>1
<1>2. d * X = b * X + X + e * X /\ e * X \in Nat /\ b * X \in Nat
  BY <1>1
<1>3. QED
  BY <1>2

LEMMA DigitsRoom ==
  ASSUME NEW X \in Nat \ {0}, NEW a \in Nat, NEW w \in Nat \ {0}, a + w =< X, NEW b \in Nat,
         NEW N \in Nat, b < N
  PROVE  b * X + a \in Nat /\ b * X + a + w =< N * X
<1>1. b * X \in Nat
  OBVIOUS
<1>2. b * X + a + w =< N * X + 0
  BY DigitsOrder
<1>3. N * X \in Nat
  OBVIOUS
<1>4. QED
  BY <1>1, <1>2, <1>3

\* The ends of a loop are in the block with its ghosts.
LEMMA Ends ==
  ASSUME ShapeInv
  PROVE  /\ ILo \in Nat /\ IHi \in Nat /\ ILo < IHi /\ IHi =< shape.nx
         /\ JLo \in Nat /\ JHi \in Nat /\ JLo < JHi /\ JHi =< shape.m + 2 * shape.g
         /\ Blocks \in Nat \ {0}
<1>1. halo \in Nat /\ halo =< shape.g
  BY ShapeFacts DEF ShapeInv
<1>2. Blocks \in Nat \ {0}
  BY LoopAssumption DEF Blocks
<1>3. QED
  BY <1>1, <1>2, ShapeFacts DEF ILo, IHi, JLo, JHi

LEMMA CellFacts ==
  ASSUME ShapeInv, NEW c \in LoopCells
  PROVE  /\ c.i \in Nat /\ c.j \in Nat /\ c.k \in Nat /\ c.blk \in Nat
         /\ ILo =< c.i /\ c.i + 1 =< IHi
         /\ JLo =< c.j /\ c.j + 1 =< JHi /\ JLo =< c.k /\ c.k + 1 =< JHi
         /\ c.blk + 1 =< Blocks
<1>1. /\ c.i \in ILo..(IHi - 1) /\ c.j \in JLo..(JHi - 1) /\ c.k \in JLo..(JHi - 1)
      /\ c.blk \in IF loop = "gpu" THEN 0..(NBlocks - 1) ELSE {0}
  BY DEF LoopCells
<1>2. c.blk \in Nat /\ c.blk + 1 =< Blocks
  BY <1>1, LoopAssumption DEF Blocks
<1>3. PICK a \in Nat, b \in Nat, d \in Nat, e \in Nat : a = ILo /\ b = IHi /\ d = JLo /\ e = JHi
  BY Ends
<1>4. c.i \in a..(b - 1) /\ c.j \in d..(e - 1) /\ c.k \in d..(e - 1)
  BY <1>1, <1>3
<1>5. /\ c.i \in Nat /\ a =< c.i /\ c.i + 1 =< b
      /\ c.j \in Nat /\ d =< c.j /\ c.j + 1 =< e /\ c.k \in Nat /\ d =< c.k /\ c.k + 1 =< e
  BY <1>4
<1>6. QED
  BY <1>2, <1>3, <1>5

\* No two cells are at one place.
LEMMA OneIsSooner ==
  ASSUME ShapeInv, NEW c \in LoopCells, NEW d \in LoopCells, c # d
  PROVE  Sooner(c, d) \/ Sooner(d, c)
<1>1. ~(c.i = d.i /\ c.j = d.j /\ c.k = d.k /\ c.blk = d.blk)
  BY DEF LoopCells
<1>2. QED
  BY <1>1, CellFacts DEF Sooner

LEMMA SoonerOrder ==
  ASSUME ShapeInv
  PROVE  /\ \A c, d \in LoopCells : Sooner(c, d) => ~Sooner(d, c) /\ c # d
         /\ \A c, d, e \in LoopCells : Sooner(c, d) /\ Sooner(d, e) => Sooner(c, e)
<1>1. \A c \in LoopCells : c.i \in Nat /\ c.j \in Nat /\ c.k \in Nat /\ c.blk \in Nat
  BY CellFacts
<1>2. ASSUME NEW c \in LoopCells, NEW d \in LoopCells, Sooner(c, d) PROVE ~Sooner(d, c) /\ c # d
  BY <1>1, <1>2 DEF Sooner
<1>3. ASSUME NEW c \in LoopCells, NEW d \in LoopCells, NEW e \in LoopCells, Sooner(c, d), Sooner(d, e)
      PROVE  Sooner(c, e)
  BY <1>1, <1>3 DEF Sooner
<1>4. QED
  BY <1>2, <1>3

\* A cell that is visited, and the Reals of the visit.
LEMMA VisitFacts ==
  ASSUME ShapeInv
  PROVE  /\ ToVisit \subseteq LoopCells
         /\ Length \in Nat \ {0}
         /\ \A c \in ToVisit : c.i + Length =< shape.nx
         /\ \A c, d \in ToVisit : c.i < d.i => Length = 1
<1>1. ToVisit \subseteq LoopCells
  BY DEF ToVisit
<1>2. Length \in Nat \ {0}
  BY Ends DEF Length
<1>3. ASSUME NEW c \in ToVisit PROVE c.i + Length =< shape.nx
  <2>1. c.i \in Nat /\ c.i + 1 =< IHi /\ ILo \in Nat /\ IHi \in Nat /\ shape.nx \in Nat /\ IHi =< shape.nx
    BY <1>1, CellFacts, Ends, ShapeFacts
  <2>2. CASE loop = "rows"
    BY <2>1, <2>2 DEF ToVisit, Length
  <2>3. CASE loop # "rows"
    BY <2>1, <2>3 DEF Length
  <2>4. QED
    BY <2>2, <2>3
<1>4. ASSUME NEW c \in ToVisit, NEW d \in ToVisit, c.i < d.i PROVE Length = 1
  <2>1. c.i \in Nat
    BY <1>1, CellFacts
  <2>2. loop # "rows"
    BY <1>4, <2>1 DEF ToVisit
  <2>3. QED
    BY <2>2 DEF Length
<1>5. QED
  BY <1>1, <1>2, <1>3, <1>4

\* A place, by digits.
LEMMA PlaceDigits ==
  ASSUME ShapeInv, NEW c \in ToVisit
  PROVE  /\ PlaceOfCell(c) \in Nat
         /\ PlaceOfCell(c) + Length =< Blocks * shape.cells
         /\ \A d \in ToVisit : Sooner(c, d) => PlaceOfCell(c) + Length =< PlaceOfCell(d)
<1>1. PICK X \in Nat \ {0}, N \in Nat \ {0}, w \in Nat \ {0}, B \in Nat \ {0} :
        X = shape.nx /\ N = shape.m + 2 * shape.g /\ w = Length /\ B = Blocks
  <2>1. shape.m + 2 * shape.g \in Nat \ {0} /\ shape.nx \in Nat \ {0}
    <3>1. shape.m \in Nat \ {0} /\ shape.g \in Nat /\ shape.nx \in Nat \ {0}
      BY ShapeFacts
    <3>2. QED
      BY <3>1
  <2>2. Length \in Nat \ {0} /\ Blocks \in Nat \ {0}
    BY VisitFacts, Ends
  <2>3. QED
    BY <2>1, <2>2
<1>2. PICK Y \in Nat \ {0}, Z \in Nat \ {0} : Y = N * X /\ Z = N * Y
  <2>1. \A x, y \in Nat \ {0} : x * y \in Nat \ {0}
    OBVIOUS
  <2>2. QED
    BY <2>1
<1>3. shape.sy = X /\ shape.sz = Y /\ shape.cells = Z
  <2>1. X * N = N * X /\ X * N * N = N * (N * X)
    OBVIOUS
  <2>2. QED
    BY <1>1, <1>2, <2>1, ShapeFacts
<1> DEFINE Digits(i, j, k, b) == b * Z + (k * Y + (j * X + i))
<1>4. \A x \in ToVisit :
        /\ x.i \in Nat /\ x.j \in Nat /\ x.k \in Nat /\ x.blk \in Nat
        /\ x.i + w =< X /\ x.j < N /\ x.k < N /\ x.blk < B
        /\ PlaceOfCell(x) = Digits(x.i, x.j, x.k, x.blk)
  <2>1. TAKE x \in ToVisit
  <2>2. /\ x.i \in Nat /\ x.j \in Nat /\ x.k \in Nat /\ x.blk \in Nat
        /\ x.i + w =< X /\ x.j < N /\ x.k < N /\ x.blk < B
    BY <1>1, VisitFacts, CellFacts, Ends
  <2>3. PlaceOfCell(x) = x.blk * Z + (x.i + x.j * X + x.k * Y)
    BY <1>3 DEF PlaceOfCell, CellIndex
  <2>4. x.blk * Z \in Nat /\ x.j * X \in Nat /\ x.k * Y \in Nat
    BY <2>2
  <2>5. QED
    BY <2>2, <2>3, <2>4
<1>5. PICK i \in Nat, j \in Nat, k \in Nat, b \in Nat :
        /\ i = c.i /\ j = c.j /\ k = c.k /\ b = c.blk
        /\ i + w =< X /\ j < N /\ k < N /\ b < B
        /\ PlaceOfCell(c) = Digits(i, j, k, b)
  BY <1>4
<1>6. PICK q \in Nat : q = j * X + i /\ q + w =< Y
  <2>1. j * X + i \in Nat /\ j * X + i + w =< Y
    BY <1>2, <1>5, DigitsRoom
  <2>2. QED
    BY <2>1
<1>7. PICK p \in Nat : p = k * Y + q /\ p + w =< Z
  <2>1. k * Y + q \in Nat /\ k * Y + q + w =< Z
    BY <1>2, <1>5, <1>6, DigitsRoom
  <2>2. QED
    BY <2>1
<1>8. b * Z + p \in Nat /\ b * Z + p + w =< B * Z
  BY <1>5, <1>7, DigitsRoom
<1>9. ASSUME NEW d \in ToVisit, Sooner(c, d) PROVE PlaceOfCell(c) + w =< PlaceOfCell(d)
  <2>1. PICK e \in Nat, f \in Nat, g \in Nat, h \in Nat :
          /\ e = d.i /\ f = d.j /\ g = d.k /\ h = d.blk
          /\ e + w =< X /\ f < N /\ g < N /\ h < B
          /\ PlaceOfCell(d) = Digits(e, f, g, h)
    BY <1>4
  <2>2. PICK s \in Nat : s = f * X + e /\ s + w =< Y
    <3>1. f * X + e \in Nat /\ f * X + e + w =< Y
      BY <1>2, <2>1, DigitsRoom
    <3>2. QED
      BY <3>1
  <2>3. PICK t \in Nat : t = g * Y + s /\ t + w =< Z
    <3>1. g * Y + s \in Nat /\ g * Y + s + w =< Z
      BY <1>2, <2>1, <2>2, DigitsRoom
    <3>2. QED
      BY <3>1
  <2>4. b < h \/ (b = h /\ (k < g \/ (k = g /\ (j < f \/ (j = f /\ i < e)))))
    BY <1>5, <1>9, <2>1 DEF Sooner
  <2>5. b < h => b * Z + p + w =< h * Z + t
    BY <1>7, DigitsOrder
  <2>6. k < g => p + w =< t
    BY <1>6, <1>7, <2>3, DigitsOrder
  <2>7. j < f => q + w =< s
    BY <1>5, <1>6, <2>2, DigitsOrder
  <2>8. i < e => w = 1
    BY <1>1, <1>5, <1>9, <2>1, VisitFacts
  <2>9. /\ b * Z \in Nat /\ h * Z \in Nat /\ k * Y \in Nat /\ g * Y \in Nat /\ j * X \in Nat /\ f * X \in Nat
    OBVIOUS
  <2>10. CASE b < h
    BY <1>5, <1>6, <1>7, <2>1, <2>2, <2>3, <2>5, <2>10
  <2>11. CASE b = h /\ k < g
    BY <1>5, <1>6, <1>7, <2>1, <2>2, <2>3, <2>6, <2>9, <2>11
  <2>12. CASE b = h /\ k = g /\ j < f
    BY <1>5, <1>6, <1>7, <2>1, <2>2, <2>3, <2>7, <2>9, <2>12
  <2>13. CASE b = h /\ k = g /\ j = f /\ i < e
    BY <1>5, <1>6, <1>7, <2>1, <2>2, <2>3, <2>8, <2>9, <2>13
  <2>14. QED
    BY <2>4, <2>10, <2>11, <2>12, <2>13
<1>10. QED
  BY <1>1, <1>3, <1>5, <1>6, <1>7, <1>8, <1>9

-----------------------------------------------------------------------------
(* The loops.                                                              *)

\* Visits in the order of storage; in tiles, no cell twice.
Ordered(s) ==
  \A k, n \in 1..Len(s) : k < n => IF loop = "tiled" THEN s[k] # s[n] ELSE Sooner(s[k], s[n])

\* The loops have come to c before what is next.
Reached(c) ==
  \/ pc = "done"
  \/ /\ loop # "tiled"
     /\ \/ c.blk < cell.blk
        \/ /\ c.blk = cell.blk
           /\ \/ pc = "block" \/ c.k < cell.k
              \/ /\ c.k = cell.k
                 /\ \/ pc = "plane" \/ c.j < cell.j
                    \/ c.j = cell.j /\ (pc = "row" \/ c.i < cell.i)
  \/ /\ loop = "tiled"
     /\ \/ c.k < corner.k
        \/ /\ c.k < corner.k + Side
           /\ \/ c.j < corner.j
              \/ /\ c.j < corner.j + Side
                 /\ \/ c.k < cell.k
                    \/ /\ c.k = cell.k
                       /\ c.j < cell.j \/ (c.j = cell.j /\ (pc = "tile" \/ c.i < cell.i))

TeamLoop == loop \in {"simd", "threads"}

\* A loop of one thread has visited what it has come to, and after a break it
\* only leaves.
PassInv ==
  /\ pc \in {"body", "row", "plane", "tile", "block", "done"}
  /\ pc \in {"row", "plane"} => loop # "tiled"
  /\ pc = "tile" => loop = "tiled"
  /\ pc = "block" => loop = "gpu"
  /\ \A t \in Threads : team[t] = {}
  /\ loop = "rows" => cell.i = ILo
  /\ broken => pc # "body" /\ loop \in {"cells", "rows"}
  /\ ~broken => Range(seen) = {c \in ToVisit : Reached(c)}
  /\ loop = "tiled" /\ pc # "done" =>
       /\ JLo =< corner.j /\ corner.j =< cell.j /\ cell.j < corner.j + Side
       /\ JLo =< corner.k /\ corner.k =< cell.k /\ cell.k < corner.k + Side

\* A row is one thread's, and is begun as a whole.
TeamInv ==
  /\ pc \in {"team", "done"} /\ ~broken
  /\ \A t \in Threads : team[t] \subseteq LoopCells /\ team[t] \intersect Range(seen) = {}
  /\ \A t, u \in Threads : t # u => team[t] \intersect team[u] = {}
  /\ \A c, d \in LoopCells : d \in RowOf(c) /\ c \in Begun => d \in Begun
  /\ pc = "done" => Range(seen) = LoopCells /\ \A t \in Threads : team[t] = {}

LoopInv ==
  /\ ShapeInv
  /\ cell \in LoopCells /\ stop \in {0, 1} /\ broken \in BOOLEAN
  /\ stop = 1 <=> broken
  /\ corner = [j |-> corner.j, k |-> corner.k] /\ corner.j \in Int /\ corner.k \in Int
  /\ team = [t \in Threads |-> team[t]]
  /\ seen \in Seq(ToVisit) /\ Ordered(seen)
  /\ IF TeamLoop THEN TeamInv ELSE PassInv

LEMMA GivenStays ==
  ASSUME UNCHANGED given
  PROVE  /\ (ShapeInv' <=> ShapeInv) /\ LoopCells' = LoopCells /\ ToVisit' = ToVisit
         /\ ILo' = ILo /\ IHi' = IHi /\ JLo' = JLo /\ JHi' = JHi /\ Side' = Side
         /\ (TeamLoop' <=> TeamLoop) /\ \A s : Ordered(s)' <=> Ordered(s)
<1>1. loop' = loop /\ lanes' = lanes /\ shape' = shape /\ halo' = halo /\ tile' = tile
  BY DEF given
<1>2. ILo' = ILo /\ IHi' = IHi /\ JLo' = JLo /\ JHi' = JHi /\ Side' = Side /\ (TeamLoop' <=> TeamLoop)
  BY <1>1 DEF ILo, IHi, JLo, JHi, Side, TeamLoop
<1>3. LoopCells' = LoopCells
  BY <1>1, <1>2 DEF LoopCells
<1>4. ToVisit' = ToVisit
  BY <1>1, <1>2, <1>3 DEF ToVisit
<1>5. ShapeInv' <=> ShapeInv
  BY <1>1 DEF ShapeInv
<1>6. \A s : Ordered(s)' <=> Ordered(s)
  BY <1>1 DEF Ordered, Sooner
<1>7. QED
  BY <1>2, <1>3, <1>4, <1>5, <1>6

\* One more visit, later than all before.
LEMMA OneMoreVisit ==
  ASSUME NEW s \in Seq(ToVisit), Ordered(s), NEW c \in ToVisit,
         \A d \in Range(s) : IF loop = "tiled" THEN d # c ELSE Sooner(d, c)
  PROVE  /\ Append(s, c) \in Seq(ToVisit) /\ Ordered(Append(s, c))
         /\ Range(Append(s, c)) = Range(s) \union {c}
<1> DEFINE t == Append(s, c)
<1>1. /\ t \in Seq(ToVisit) /\ Len(t) = Len(s) + 1 /\ Len(s) \in Nat
      /\ \A n \in 1..Len(s) : t[n] = s[n]
      /\ t[Len(s) + 1] = c
  OBVIOUS
<1>2. Range(s) = {s[n] : n \in 1..Len(s)} /\ Range(t) = {t[n] : n \in 1..Len(t)}
  BY <1>1 DEF Range
<1>3. Range(t) = Range(s) \union {c}
  <2>1. \A n \in 1..Len(t) : n \in 1..Len(s) \/ n = Len(s) + 1
    BY <1>1
  <2>2. 1..Len(s) \subseteq 1..Len(t) /\ Len(s) + 1 \in 1..Len(t)
    BY <1>1
  <2>3. QED
    BY <1>1, <1>2, <2>1, <2>2
<1>4. ASSUME NEW k \in 1..Len(t), NEW n \in 1..Len(t), k < n
      PROVE  IF loop = "tiled" THEN t[k] # t[n] ELSE Sooner(t[k], t[n])
  <2>1. k \in 1..Len(s) /\ t[k] = s[k] /\ s[k] \in Range(s)
    BY <1>1, <1>2, <1>4
  <2>2. CASE n \in 1..Len(s)
    BY <1>1, <1>4, <2>1, <2>2 DEF Ordered
  <2>3. CASE n = Len(s) + 1
    BY <1>1, <2>1, <2>3
  <2>4. QED
    BY <1>1, <2>2, <2>3
<1>5. QED
  BY <1>1, <1>3, <1>4 DEF Ordered

LEMMA InitLoopInv ==
  ASSUME LoopInit
  PROVE  LoopInv
<1>1. ShapeInv
  <2>1. tile \in Nat
    BY LoopAssumption DEF LoopInit
  <2>2. QED
    BY <2>1 DEF LoopInit, ShapeInv
<1>2. /\ ILo \in Nat /\ IHi \in Nat /\ ILo < IHi /\ JLo \in Nat /\ JHi \in Nat /\ JLo < JHi
  BY <1>1, Ends
<1>3. /\ cell = [i |-> ILo, j |-> JLo, k |-> JLo, blk |-> 0] /\ corner = [j |-> JLo, k |-> JLo]
      /\ stop = 0 /\ seen = <<>> /\ broken = FALSE /\ team = [t \in Threads |-> {}]
      /\ pc = IF loop \in {"simd", "threads"} THEN "team" ELSE "body"
  BY DEF LoopInit
<1>4. cell \in LoopCells
  <2>1. 0 \in IF loop = "gpu" THEN 0..(NBlocks - 1) ELSE {0}
    BY LoopAssumption
  <2>2. QED
    BY <1>2, <1>3, <2>1 DEF LoopCells
<1>5. seen \in Seq(ToVisit) /\ Ordered(seen) /\ Range(seen) = {}
  BY <1>3 DEF Ordered, Range
<1>6. ASSUME TeamLoop PROVE TeamInv
  <2>1. Begun = {}
    BY <1>3, <1>5 DEF Begun, Visited, Range
  <2>2. QED
    BY <1>3, <1>5, <1>6, <2>1 DEF TeamInv, TeamLoop
<1>7. ASSUME ~TeamLoop PROVE PassInv
  <2>1. pc = "body"
    BY <1>3, <1>7 DEF TeamLoop
  <2>2. Side \in Nat \ {0}
    BY <1>1 DEF Side, ShapeInv
  <2>3. \A c \in ToVisit : ~Reached(c)
    <3>1. TAKE c \in ToVisit
    <3>2. /\ c.i \in Nat /\ c.j \in Nat /\ c.k \in Nat /\ c.blk \in Nat /\ ILo =< c.i /\ JLo =< c.j /\ JLo =< c.k
      BY <1>1, VisitFacts, CellFacts
    <3>3. QED
      BY <1>2, <1>3, <2>1, <3>2 DEF Reached
  <2>4. QED
    BY <1>2, <1>3, <1>5, <2>1, <2>2, <2>3 DEF PassInv
<1>8. /\ stop \in {0, 1} /\ broken \in BOOLEAN /\ (stop = 1 <=> broken)
      /\ corner = [j |-> corner.j, k |-> corner.k] /\ corner.j \in Int /\ corner.k \in Int
      /\ team = [t \in Threads |-> team[t]]
  <2>1. stop \in {0, 1} /\ broken \in BOOLEAN /\ (stop = 1 <=> broken)
    <3>1. stop \in {0, 1} /\ stop # 1
      BY <1>3
    <3>2. broken \in BOOLEAN /\ ~broken
      BY <1>3, Zenon
    <3>3. QED
      BY <3>1, <3>2
  <2>2. corner = [j |-> corner.j, k |-> corner.k] /\ corner.j \in Int /\ corner.k \in Int
    BY <1>2, <1>3
  <2>3. team = [t \in Threads |-> team[t]]
    BY <1>3
  <2>4. QED
    BY <2>1, <2>2, <2>3
<1>9. QED
  BY <1>1, <1>4, <1>5, <1>6, <1>7, <1>8 DEF LoopInv

\* A step of a loop of one thread that visits nothing.
LEMMA PassStays ==
  ASSUME LoopInv, ~TeamLoop, UNCHANGED <<given, stop, team, seen, broken>>,
         cell' \in LoopCells,
         corner' = [j |-> corner'.j, k |-> corner'.k], corner'.j \in Int, corner'.k \in Int,
         PassInv'
  PROVE  LoopInv'
<1>1. ShapeInv' /\ ~TeamLoop' /\ LoopCells' = LoopCells /\ seen' \in Seq(ToVisit')
  BY GivenStays DEF LoopInv
<1>2. Ordered(seen)'
  <2>1. Ordered(seen) /\ loop' = loop /\ seen' = seen
    BY DEF LoopInv, given
  <2>2. QED
    BY <2>1 DEF Ordered, Sooner
<1>3. /\ stop' \in {0, 1} /\ broken' \in BOOLEAN /\ (stop' = 1 <=> broken')
      /\ team' = [t \in Threads |-> team'[t]]
  BY DEF LoopInv
<1>4. QED
  BY <1>1, <1>2, <1>3 DEF LoopInv

LEMMA CellAt ==
  ASSUME ShapeInv, NEW c \in LoopCells
  PROVE  /\ c = [i |-> c.i, j |-> c.j, k |-> c.k, blk |-> c.blk]
         /\ \A i \in ILo..(IHi - 1) : [c EXCEPT !.i = i] \in LoopCells
         /\ \A i \in ILo..(IHi - 1), j \in JLo..(JHi - 1) : [c EXCEPT !.i = i, !.j = j] \in LoopCells
         /\ \A i \in ILo..(IHi - 1), j \in JLo..(JHi - 1), k \in JLo..(JHi - 1) :
              [c EXCEPT !.i = i, !.j = j, !.k = k] \in LoopCells
BY DEF LoopCells

\* The body of a loop: a cell that was not visited before.
LEMMA BodyVisits ==
  ASSUME LoopInv, pc = "body"
  PROVE  /\ ~TeamLoop /\ PassInv /\ ~broken /\ cell \in ToVisit
         /\ Append(seen, cell) \in Seq(ToVisit) /\ Ordered(Append(seen, cell))
         /\ Range(Append(seen, cell)) = {c \in ToVisit : Reached(c) \/ c = cell}
<1>1. ~TeamLoop /\ PassInv /\ ~broken
  BY DEF LoopInv, TeamInv, PassInv
<1>2. cell \in ToVisit
  BY <1>1 DEF LoopInv, PassInv, ToVisit
<1>3. Range(seen) = {c \in ToVisit : Reached(c)}
  BY <1>1 DEF PassInv
<1>4. ASSUME NEW d \in Range(seen) PROVE IF loop = "tiled" THEN d # cell ELSE Sooner(d, cell)
  <2>1. d \in ToVisit /\ Reached(d)
    BY <1>3
  <2>2. /\ d.i \in Nat /\ d.j \in Nat /\ d.k \in Nat /\ d.blk \in Nat
        /\ cell.i \in Nat /\ cell.j \in Nat /\ cell.k \in Nat /\ cell.blk \in Nat
    BY <2>1, CellFacts, VisitFacts DEF LoopInv
  <2>3. CASE loop # "tiled"
    BY <2>1, <2>2, <2>3 DEF Reached, Sooner
  <2>4. CASE loop = "tiled"
    <3>1. corner.j =< cell.j /\ corner.k =< cell.k /\ corner.j \in Int /\ corner.k \in Int
      BY <1>1, <2>4 DEF LoopInv, PassInv
    <3>2. ~Reached(cell)
      BY <2>2, <2>4, <3>1 DEF Reached
    <3>3. QED
      BY <2>1, <2>4, <3>2
  <2>5. QED
    BY <2>3, <2>4
<1>5. QED
  BY <1>1, <1>2, <1>3, <1>4, OneMoreVisit DEF LoopInv

\* A step of the body of a loop.
LEMMA BodyStep ==
  ASSUME LoopInv, pc = "body", UNCHANGED <<given, corner, team>>, seen' = Append(seen, cell),
         cell' \in LoopCells, stop' \in {0, 1}, broken' \in BOOLEAN, stop' = 1 <=> broken',
         PassInv'
  PROVE  LoopInv'
<1>1. ~TeamLoop /\ Append(seen, cell) \in Seq(ToVisit) /\ Ordered(Append(seen, cell))
  BY BodyVisits
<1>2. ShapeInv' /\ ~TeamLoop' /\ LoopCells' = LoopCells /\ seen' \in Seq(ToVisit')
  BY <1>1, GivenStays DEF LoopInv
<1>3. Ordered(seen)'
  <2>1. Ordered(Append(seen, cell)) /\ loop' = loop /\ seen' = Append(seen, cell)
    BY <1>1 DEF given
  <2>2. QED
    BY <2>1 DEF Ordered, Sooner
<1>4. /\ corner' = [j |-> corner'.j, k |-> corner'.k] /\ corner'.j \in Int /\ corner'.k \in Int
      /\ team' = [t \in Threads |-> team'[t]]
  BY DEF LoopInv
<1>5. QED
  BY <1>2, <1>3, <1>4 DEF LoopInv

\* The numbers of a state.
LEMMA Numbers ==
  ASSUME LoopInv
  PROVE  /\ ILo \in Nat /\ IHi \in Nat /\ JLo \in Nat /\ JHi \in Nat /\ ILo < IHi /\ JLo < JHi
         /\ cell.i \in Nat /\ cell.j \in Nat /\ cell.k \in Nat /\ cell.blk \in Nat
         /\ ILo =< cell.i /\ cell.i < IHi /\ JLo =< cell.j /\ cell.j < JHi
         /\ JLo =< cell.k /\ cell.k < JHi /\ cell.blk < Blocks /\ Blocks \in Nat
         /\ corner.j \in Int /\ corner.k \in Int /\ Side \in Nat \ {0}
         /\ cell = [i |-> cell.i, j |-> cell.j, k |-> cell.k, blk |-> cell.blk]
<1>1. Side \in Nat \ {0}
  BY DEF Side, ShapeInv, LoopInv
<1>2. ShapeInv /\ cell \in LoopCells
  BY DEF LoopInv
<1>3. cell = [i |-> cell.i, j |-> cell.j, k |-> cell.k, blk |-> cell.blk]
  BY <1>2, CellAt
<1>4. /\ ILo \in Nat /\ IHi \in Nat /\ JLo \in Nat /\ JHi \in Nat /\ ILo < IHi /\ JLo < JHi
      /\ Blocks \in Nat
  BY <1>2, Ends
<1>5. /\ cell.i \in Nat /\ cell.j \in Nat /\ cell.k \in Nat /\ cell.blk \in Nat
      /\ ILo =< cell.i /\ cell.i < IHi /\ JLo =< cell.j /\ cell.j < JHi
      /\ JLo =< cell.k /\ cell.k < JHi /\ cell.blk < Blocks
  BY <1>2, <1>4, CellFacts
<1>6. QED
  BY <1>1, <1>3, <1>4, <1>5 DEF LoopInv

LEMMA VisitNumbers ==
  ASSUME ShapeInv, NEW c \in ToVisit
  PROVE  /\ c.i \in Nat /\ c.j \in Nat /\ c.k \in Nat /\ c.blk \in Nat
         /\ ILo =< c.i /\ c.i < IHi /\ JLo =< c.j /\ c.j < JHi /\ JLo =< c.k /\ c.k < JHi
         /\ c.blk < Blocks
         /\ c = [i |-> c.i, j |-> c.j, k |-> c.k, blk |-> c.blk]
         /\ loop = "rows" => c.i = ILo
<1>1. c \in LoopCells
  BY VisitFacts
<1>2. loop = "rows" => c.i = ILo
  BY DEF ToVisit
<1>3. IHi \in Nat /\ JHi \in Nat /\ ILo \in Nat /\ JLo \in Nat /\ Blocks \in Nat
  BY Ends
<1>4. /\ c.i \in Nat /\ c.j \in Nat /\ c.k \in Nat /\ c.blk \in Nat
      /\ ILo =< c.i /\ c.i < IHi /\ JLo =< c.j /\ c.j < JHi /\ JLo =< c.k /\ c.k < JHi
      /\ c.blk < Blocks
  <2>1. /\ c.i \in Nat /\ c.j \in Nat /\ c.k \in Nat /\ c.blk \in Nat
        /\ ILo =< c.i /\ c.i + 1 =< IHi
        /\ JLo =< c.j /\ c.j + 1 =< JHi /\ JLo =< c.k /\ c.k + 1 =< JHi
        /\ c.blk + 1 =< Blocks
    BY <1>1, CellFacts
  <2>2. QED
    BY <1>3, <2>1
<1>5. c = [i |-> c.i, j |-> c.j, k |-> c.k, blk |-> c.blk]
  BY <1>1, CellAt
<1>6. QED
  BY <1>2, <1>4, <1>5

LEMMA OneBlock ==
  ASSUME LoopInv, loop # "gpu", NEW c \in ToVisit
  PROVE  c.blk = cell.blk
<1>1. c \in LoopCells /\ cell \in LoopCells
  BY VisitFacts DEF LoopInv
<1>2. QED
  BY <1>1 DEF LoopCells

LEMMA ContinueStep ==
  ASSUME LoopInv, Continue
  PROVE  LoopInv'
<1>1. /\ pc = "body" /\ seen' = Append(seen, cell) /\ stop' = 0
      /\ UNCHANGED <<given, corner, team, broken>>
  BY DEF Continue
<1>2. ~TeamLoop /\ PassInv /\ ~broken
  BY <1>1, BodyVisits
<1>3. /\ ToVisit' = ToVisit /\ ILo' = ILo /\ JLo' = JLo /\ Side' = Side
      /\ loop' = loop /\ corner' = corner /\ team' = team /\ broken' = broken
  BY <1>1, GivenStays DEF given
<1>4. Range(seen)' = {c \in ToVisit : Reached(c) \/ c = cell}
  BY <1>1, BodyVisits
<1>5. ASSUME cell' \in LoopCells, \A c \in ToVisit : Reached(c)' <=> Reached(c) \/ c = cell,
             pc' \in {"body", "row", "tile"}, pc' = "row" => loop # "tiled", pc' = "tile" => loop = "tiled",
             loop = "rows" => cell' = cell, cell'.j = cell.j /\ cell'.k = cell.k
      PROVE  LoopInv'
  <2>1. PassInv'
    <3>1. JLo' = JLo
      BY <1>1, GivenStays
    <3>2. QED
      BY <1>1, <1>2, <1>3, <1>4, <1>5, <3>1 DEF PassInv
  <2>2. stop' \in {0, 1} /\ stop' # 1
    BY <1>1
  <2>3. broken' \in BOOLEAN /\ ~broken'
    BY <1>2, <1>3 DEF LoopInv
  <2>4. QED
    BY <1>1, <1>5, <2>1, <2>2, <2>3, BodyStep
<1>6. CASE loop # "rows" /\ cell.i + 1 < IHi
  <2>1. cell' = [cell EXCEPT !.i = @ + 1] /\ pc' = "body"
    BY <1>1, <1>6 DEF Continue
  <2>2. cell.i + 1 \in ILo..(IHi - 1)
    BY <1>6, Numbers
  <2>3. cell' \in LoopCells
    BY <2>1, <2>2, CellAt DEF LoopInv
  <2>4. /\ cell'.i = cell.i + 1 /\ cell'.j = cell.j /\ cell'.k = cell.k /\ cell'.blk = cell.blk
    BY <2>1, Numbers
  <2>5. ASSUME NEW c \in ToVisit PROVE Reached(c)' <=> Reached(c) \/ c = cell
    <3>1. /\ c.i \in Nat /\ cell.i \in Nat
          /\ c = cell <=> (c.i = cell.i /\ c.j = cell.j /\ c.k = cell.k /\ c.blk = cell.blk)
          /\ c.j \in Nat /\ c.k \in Nat /\ c.blk \in Nat
      BY VisitNumbers, Numbers DEF LoopInv
    <3>2. c.i < cell.i + 1 <=> c.i < cell.i \/ c.i = cell.i
      BY <3>1
    <3>3. CASE loop # "tiled"
      BY <1>1, <1>3, <2>1, <2>4, <3>1, <3>2, <3>3 DEF Reached
    <3>4. CASE loop = "tiled"
      <4>1. corner.j =< cell.j /\ cell.j < corner.j + Side /\ corner.k =< cell.k /\ cell.k < corner.k + Side
        BY <1>1, <1>2, <3>4 DEF PassInv
      <4>2. /\ cell.j \in Nat /\ cell.k \in Nat /\ corner.j \in Int /\ corner.k \in Int /\ Side \in Nat
            /\ c.blk = cell.blk
        BY <3>4, Numbers, OneBlock DEF LoopInv
      <4>3. QED
        BY <1>1, <1>3, <2>1, <2>4, <3>1, <3>2, <3>4, <4>1, <4>2 DEF Reached
    <3>5. QED
      BY <3>3, <3>4
  <2>6. QED
    BY <1>5, <1>6, <2>1, <2>3, <2>4, <2>5
<1>7. CASE ~(loop # "rows" /\ cell.i + 1 < IHi)
  <2>1. cell' = cell /\ pc' = IF loop = "tiled" THEN "tile" ELSE "row"
    BY <1>1, <1>7 DEF Continue
  <2>2. ASSUME NEW c \in ToVisit PROVE Reached(c)' <=> Reached(c) \/ c = cell
    <3>1. /\ c.i \in Nat /\ cell.i \in Nat
          /\ c = cell <=> (c.i = cell.i /\ c.j = cell.j /\ c.k = cell.k /\ c.blk = cell.blk)
          /\ c.j \in Nat /\ c.k \in Nat /\ c.blk \in Nat
      BY VisitNumbers, Numbers DEF LoopInv
    <3>2. c.i < cell.i \/ c.i = cell.i
      <4>1. CASE loop = "rows"
        BY <1>2, <4>1, VisitNumbers DEF LoopInv, PassInv
      <4>2. CASE loop # "rows"
        BY <1>7, <3>1, <4>2, VisitNumbers, Numbers DEF LoopInv
      <4>3. QED
        BY <4>1, <4>2
    <3>3. CASE loop # "tiled"
      BY <1>1, <1>3, <2>1, <3>1, <3>2, <3>3 DEF Reached
    <3>4. CASE loop = "tiled"
      <4>1. corner.j =< cell.j /\ cell.j < corner.j + Side /\ corner.k =< cell.k /\ cell.k < corner.k + Side
        BY <1>1, <1>2, <3>4 DEF PassInv
      <4>2. /\ cell.j \in Nat /\ cell.k \in Nat /\ corner.j \in Int /\ corner.k \in Int /\ Side \in Nat
            /\ c.blk = cell.blk
        BY <3>4, Numbers, OneBlock DEF LoopInv
      <4>3. QED
        BY <1>1, <1>3, <2>1, <3>1, <3>2, <3>4, <4>1, <4>2 DEF Reached
    <3>5. QED
      BY <3>3, <3>4
  <2>3. QED
    BY <1>5, <2>1, <2>2 DEF LoopInv
<1>8. QED
  BY <1>6, <1>7

LEMMA BreakStep ==
  ASSUME LoopInv, Break
  PROVE  LoopInv'
<1>1. /\ pc = "body" /\ loop \in {"cells", "rows"} /\ seen' = Append(seen, cell)
      /\ stop' = 1 /\ broken' = TRUE /\ pc' \in {"row", "plane"}
      /\ UNCHANGED <<given, cell, corner, team>>
  BY DEF Break
<1>2. PassInv
  BY <1>1, BodyVisits
<1>3. ILo' = ILo /\ loop' = loop /\ cell' = cell /\ corner' = corner /\ team' = team
  BY <1>1, GivenStays DEF given
<1>4. PassInv'
  BY <1>1, <1>2, <1>3 DEF PassInv
<1>5. cell' \in LoopCells /\ stop' \in {0, 1} /\ broken' \in BOOLEAN /\ (stop' = 1 <=> broken')
  BY <1>1 DEF LoopInv
<1>6. QED
  BY <1>1, <1>4, <1>5, BodyStep

\* From one loop to the step of another: nothing is visited and nothing left out.
LEMMA OnwardStep ==
  ASSUME LoopInv, ~TeamLoop, UNCHANGED <<given, stop, team, seen, broken>>,
         cell' \in LoopCells, loop = "rows" => cell'.i = ILo,
         corner' = [j |-> corner'.j, k |-> corner'.k], corner'.j \in Int, corner'.k \in Int,
         pc' \in {"body", "row", "plane", "tile", "block", "done"},
         pc' \in {"row", "plane"} => loop # "tiled", pc' = "tile" => loop = "tiled",
         pc' = "block" => loop = "gpu", broken => pc' # "body",
         loop = "tiled" /\ pc' # "done" =>
           /\ JLo =< corner'.j /\ corner'.j =< cell'.j /\ cell'.j < corner'.j + Side
           /\ JLo =< corner'.k /\ corner'.k =< cell'.k /\ cell'.k < corner'.k + Side,
         ~broken => \A c \in ToVisit : Reached(c)' <=> Reached(c)
  PROVE  LoopInv'
<1>1. /\ ToVisit' = ToVisit /\ ILo' = ILo /\ JLo' = JLo /\ Side' = Side
      /\ loop' = loop /\ team' = team /\ broken' = broken /\ seen' = seen
  BY GivenStays DEF given
<1>2. PassInv
  BY DEF LoopInv
<1>3. ~broken => Range(seen)' = {c \in ToVisit : Reached(c)'}
  BY <1>1, <1>2 DEF PassInv
<1>4. PassInv'
  BY <1>1, <1>2, <1>3 DEF PassInv
<1>5. QED
  BY <1>4, PassStays

LEMMA NextRowStep ==
  ASSUME LoopInv, NextRow
  PROVE  LoopInv'
<1>1. pc = "row" /\ UNCHANGED <<given, corner, stop, team, seen, broken>>
  BY DEF NextRow
<1>2. ~TeamLoop /\ PassInv /\ loop # "tiled"
  BY <1>1 DEF LoopInv, TeamInv, PassInv
<1>3. loop' = loop /\ corner' = corner
  BY <1>1 DEF given
<1>4. /\ cell.i \in Nat /\ cell.j \in Nat /\ cell.k \in Nat /\ cell.blk \in Nat
      /\ cell = [i |-> cell.i, j |-> cell.j, k |-> cell.k, blk |-> cell.blk]
      /\ ILo \in Nat /\ IHi \in Nat /\ ILo < IHi /\ JLo \in Nat /\ JHi \in Nat /\ JLo =< cell.j
  BY Numbers
<1>5. CASE GoesOn /\ cell.j + 1 < JHi
  <2>1. cell' = [cell EXCEPT !.i = ILo, !.j = @ + 1] /\ pc' = "body"
    BY <1>1, <1>5 DEF NextRow
  <2>2. ILo \in ILo..(IHi - 1) /\ cell.j + 1 \in JLo..(JHi - 1)
    BY <1>4, <1>5
  <2>3. cell' \in LoopCells
    BY <2>1, <2>2, CellAt DEF LoopInv
  <2>4. cell'.i = ILo /\ cell'.j = cell.j + 1 /\ cell'.k = cell.k /\ cell'.blk = cell.blk
    BY <1>4, <2>1
  <2>5. ~broken
    BY <1>5 DEF LoopInv, GoesOn
  <2>6. ASSUME NEW c \in ToVisit PROVE Reached(c)' <=> Reached(c)
    <3>1. c.i \in Nat /\ c.j \in Nat /\ c.k \in Nat /\ c.blk \in Nat /\ ~(c.i < ILo)
      BY <1>4, VisitNumbers DEF LoopInv
    <3>2. c.j < cell.j + 1 <=> c.j < cell.j \/ c.j = cell.j
      BY <1>4, <3>1
    <3>3. QED
      BY <1>1, <1>2, <1>3, <2>1, <2>4, <3>1, <3>2 DEF Reached
  <2>7. QED
    BY <1>1, <1>2, <1>3, <2>1, <2>3, <2>4, <2>5, <2>6, OnwardStep DEF LoopInv
<1>6. CASE ~(GoesOn /\ cell.j + 1 < JHi)
  <2>1. cell' = cell /\ pc' = "plane"
    BY <1>1, <1>6 DEF NextRow
  <2>2. ASSUME ~broken, NEW c \in ToVisit PROVE Reached(c)' <=> Reached(c)
    <3>1. ~(cell.j + 1 < JHi)
      BY <1>6, <2>2 DEF LoopInv, GoesOn
    <3>2. /\ c.i \in Nat /\ c.j \in Nat /\ c.k \in Nat /\ c.blk \in Nat
          /\ c.j < cell.j \/ c.j = cell.j
      <4>1. c.i \in Nat /\ c.j \in Nat /\ c.k \in Nat /\ c.blk \in Nat /\ c.j < JHi
        BY VisitNumbers DEF LoopInv
      <4>2. QED
        BY <1>4, <3>1, <4>1
    <3>3. QED
      BY <1>1, <1>2, <1>3, <2>1, <3>2 DEF Reached
  <2>3. loop = "rows" => cell.i = ILo
    BY <1>2 DEF PassInv
  <2>4. QED
    BY <1>1, <1>2, <1>3, <2>1, <2>2, <2>3, OnwardStep DEF LoopInv
<1>7. QED
  BY <1>5, <1>6

LEMMA NextPlaneStep ==
  ASSUME LoopInv, NextPlane
  PROVE  LoopInv'
<1>1. pc = "plane" /\ UNCHANGED <<given, corner, stop, team, seen, broken>>
  BY DEF NextPlane
<1>2. ~TeamLoop /\ PassInv /\ loop # "tiled"
  BY <1>1 DEF LoopInv, TeamInv, PassInv
<1>3. loop' = loop /\ corner' = corner
  BY <1>1 DEF given
<1>4. /\ cell.i \in Nat /\ cell.j \in Nat /\ cell.k \in Nat /\ cell.blk \in Nat
      /\ cell = [i |-> cell.i, j |-> cell.j, k |-> cell.k, blk |-> cell.blk]
      /\ ILo \in Nat /\ IHi \in Nat /\ ILo < IHi /\ JLo \in Nat /\ JHi \in Nat /\ JLo < JHi
      /\ JLo =< cell.k
  BY Numbers
<1>5. CASE GoesOn /\ cell.k + 1 < JHi
  <2>1. cell' = [cell EXCEPT !.i = ILo, !.j = JLo, !.k = @ + 1] /\ pc' = "body"
    BY <1>1, <1>5 DEF NextPlane
  <2>2. ILo \in ILo..(IHi - 1) /\ JLo \in JLo..(JHi - 1) /\ cell.k + 1 \in JLo..(JHi - 1)
    BY <1>4, <1>5
  <2>3. cell' \in LoopCells
    BY <2>1, <2>2, CellAt DEF LoopInv
  <2>4. cell'.i = ILo /\ cell'.j = JLo /\ cell'.k = cell.k + 1 /\ cell'.blk = cell.blk
    BY <1>4, <2>1
  <2>5. ~broken
    BY <1>5 DEF LoopInv, GoesOn
  <2>6. ASSUME NEW c \in ToVisit PROVE Reached(c)' <=> Reached(c)
    <3>1. /\ c.i \in Nat /\ c.j \in Nat /\ c.k \in Nat /\ c.blk \in Nat
          /\ ~(c.i < ILo) /\ ~(c.j < JLo)
      BY <1>4, VisitNumbers DEF LoopInv
    <3>2. c.k < cell.k + 1 <=> c.k < cell.k \/ c.k = cell.k
      BY <1>4, <3>1
    <3>3. QED
      BY <1>1, <1>2, <1>3, <2>1, <2>4, <3>1, <3>2 DEF Reached
  <2>7. QED
    BY <1>1, <1>2, <1>3, <2>1, <2>3, <2>4, <2>5, <2>6, OnwardStep DEF LoopInv
<1>6. CASE ~(GoesOn /\ cell.k + 1 < JHi)
  <2>1. cell' = cell /\ pc' = IF loop = "gpu" THEN "block" ELSE "done"
    BY <1>1, <1>6 DEF NextPlane
  <2>2. ASSUME ~broken, NEW c \in ToVisit PROVE Reached(c)' <=> Reached(c)
    <3>1. ~(cell.k + 1 < JHi)
      BY <1>6, <2>2 DEF LoopInv, GoesOn
    <3>2. /\ c.i \in Nat /\ c.j \in Nat /\ c.k \in Nat /\ c.blk \in Nat
          /\ c.k < cell.k \/ c.k = cell.k
      <4>1. c.i \in Nat /\ c.j \in Nat /\ c.k \in Nat /\ c.blk \in Nat /\ c.k < JHi
        BY VisitNumbers DEF LoopInv
      <4>2. QED
        BY <1>4, <3>1, <4>1
    <3>3. loop # "gpu" => c.blk = cell.blk
      BY OneBlock
    <3>4. CASE loop = "gpu"
      BY <1>1, <1>2, <1>3, <2>1, <3>2, <3>4 DEF Reached
    <3>5. CASE loop # "gpu"
      BY <1>1, <1>2, <1>3, <2>1, <3>2, <3>3, <3>5 DEF Reached
    <3>6. QED
      BY <3>4, <3>5
  <2>3. loop = "rows" => cell.i = ILo
    BY <1>2 DEF PassInv
  <2>4. QED
    BY <1>1, <1>2, <1>3, <2>1, <2>2, <2>3, OnwardStep DEF LoopInv
<1>7. QED
  BY <1>5, <1>6

LEMMA NextBlockStep ==
  ASSUME LoopInv, NextBlock
  PROVE  LoopInv'
<1>1. pc = "block" /\ UNCHANGED <<given, corner, stop, team, seen, broken>>
  BY DEF NextBlock
<1>2. ~TeamLoop /\ PassInv /\ loop = "gpu" /\ ~broken
  BY <1>1 DEF LoopInv, TeamInv, PassInv
<1>3. loop' = loop /\ corner' = corner
  BY <1>1 DEF given
<1>4. /\ cell.blk \in Nat /\ NBlocks \in Nat /\ Blocks = NBlocks
      /\ ILo \in Nat /\ IHi \in Nat /\ ILo < IHi /\ JLo \in Nat /\ JHi \in Nat /\ JLo < JHi
  BY <1>2, Numbers, LoopAssumption DEF Blocks
<1>5. CASE cell.blk + 1 < NBlocks
  <2>1. cell' = [i |-> ILo, j |-> JLo, k |-> JLo, blk |-> cell.blk + 1] /\ pc' = "body"
    BY <1>1, <1>5 DEF NextBlock
  <2>2. cell' \in LoopCells
    BY <1>2, <1>4, <1>5, <2>1 DEF LoopCells
  <2>3. cell'.i = ILo /\ cell'.j = JLo /\ cell'.k = JLo /\ cell'.blk = cell.blk + 1
    BY <2>1
  <2>4. ASSUME NEW c \in ToVisit PROVE Reached(c)' <=> Reached(c)
    <3>1. /\ c.i \in Nat /\ c.j \in Nat /\ c.k \in Nat /\ c.blk \in Nat
          /\ ~(c.i < ILo) /\ ~(c.j < JLo) /\ ~(c.k < JLo)
      BY <1>4, VisitNumbers DEF LoopInv
    <3>2. c.blk < cell.blk + 1 <=> c.blk < cell.blk \/ c.blk = cell.blk
      BY <1>4, <3>1
    <3>3. QED
      BY <1>1, <1>2, <1>3, <2>1, <2>3, <3>1, <3>2 DEF Reached
  <2>5. QED
    BY <1>1, <1>2, <1>3, <2>1, <2>2, <2>3, <2>4, OnwardStep DEF LoopInv
<1>6. CASE ~(cell.blk + 1 < NBlocks)
  <2>1. cell' = cell /\ pc' = "done"
    BY <1>1, <1>6 DEF NextBlock
  <2>2. ASSUME NEW c \in ToVisit PROVE Reached(c)' <=> Reached(c)
    <3>1. c.blk \in Nat /\ (c.blk < cell.blk \/ c.blk = cell.blk)
      <4>1. c.blk \in Nat /\ c.blk < Blocks
        BY VisitNumbers DEF LoopInv
      <4>2. QED
        BY <1>4, <1>6, <4>1
    <3>2. QED
      BY <1>1, <1>2, <1>3, <2>1, <3>1 DEF Reached
  <2>3. QED
    BY <1>1, <1>2, <1>3, <2>1, <2>2, OnwardStep DEF LoopInv
<1>7. QED
  BY <1>5, <1>6

LEMMA NextInTileStep ==
  ASSUME LoopInv, NextInTile
  PROVE  LoopInv'
<1>1. pc = "tile" /\ UNCHANGED <<given, stop, team, seen, broken>>
  BY DEF NextInTile
<1>2. ~TeamLoop /\ PassInv /\ loop = "tiled" /\ ~broken
  BY <1>1 DEF LoopInv, TeamInv, PassInv
<1>3. loop' = loop /\ Side' = Side
  BY <1>1, GivenStays DEF given
<1>4. PICK lo \in Nat, il \in Nat, hi \in Nat, S \in Nat \ {0}, cj \in Nat, ck \in Nat, kj \in Nat, kk \in Nat :
        /\ lo = JLo /\ il = ILo /\ hi = JHi /\ S = Side /\ lo < hi
        /\ cj = cell.j /\ ck = cell.k /\ kj = corner.j /\ kk = corner.k
        /\ lo =< kj /\ kj =< cj /\ cj < kj + S /\ lo =< kk /\ kk =< ck /\ ck < kk + S
        /\ cj < hi /\ ck < hi
  <2>1. /\ ILo \in Nat /\ JLo \in Nat /\ JHi \in Nat /\ Side \in Nat \ {0} /\ JLo < JHi
        /\ cell.j \in Nat /\ cell.k \in Nat /\ cell.j < JHi /\ cell.k < JHi
        /\ corner.j \in Int /\ corner.k \in Int
    BY Numbers
  <2>2. /\ JLo =< corner.j /\ corner.j =< cell.j /\ cell.j < corner.j + Side
        /\ JLo =< corner.k /\ corner.k =< cell.k /\ cell.k < corner.k + Side
    BY <1>1, <1>2 DEF PassInv
  <2>3. corner.j \in Nat /\ corner.k \in Nat
    BY <2>1, <2>2
  <2>4. QED
    BY <2>1, <2>2, <2>3
<1>5. /\ cell = [i |-> cell.i, j |-> cell.j, k |-> cell.k, blk |-> cell.blk]
      /\ corner = [j |-> corner.j, k |-> corner.k]
      /\ ILo \in ILo..(IHi - 1) /\ cell.i \in Nat
  <2>1. ILo \in Nat /\ IHi \in Nat /\ ILo < IHi /\ cell.i \in Nat
    BY Numbers
  <2>2. cell = [i |-> cell.i, j |-> cell.j, k |-> cell.k, blk |-> cell.blk]
    BY Numbers
  <2>3. corner = [j |-> corner.j, k |-> corner.k]
    BY DEF LoopInv
  <2>4. ILo \in ILo..(IHi - 1)
    BY <2>1
  <2>5. QED
    BY <2>1, <2>2, <2>3, <2>4
<1>6. \A c \in ToVisit : /\ c.i \in Nat /\ c.j \in Nat /\ c.k \in Nat
                         /\ ~(c.i < il) /\ lo =< c.j /\ c.j < hi /\ lo =< c.k /\ c.k < hi
  <2>1. TAKE c \in ToVisit
  <2>2. c.i \in Nat /\ c.j \in Nat /\ c.k \in Nat /\ ILo =< c.i /\ JLo =< c.j /\ c.j < JHi /\ JLo =< c.k /\ c.k < JHi
    BY VisitNumbers DEF LoopInv
  <2>3. QED
    BY <1>4, <2>2
<1>7. ASSUME NEW x \in lo..(hi - 1), NEW y \in lo..(hi - 1), cell' = [cell EXCEPT !.i = ILo, !.j = x, !.k = y]
      PROVE  /\ cell' \in LoopCells
             /\ cell'.i = il /\ cell'.j = x /\ cell'.k = y
  <2>1. x \in JLo..(JHi - 1) /\ y \in JLo..(JHi - 1)
    BY <1>4
  <2>2. ShapeInv /\ cell \in LoopCells
    BY DEF LoopInv
  <2>3. [cell EXCEPT !.i = ILo, !.j = x, !.k = y] \in LoopCells
    BY <1>5, <2>1, <2>2, CellAt
  <2>4. cell' = [i |-> ILo, j |-> x, k |-> y, blk |-> cell.blk]
    BY <1>5, <1>7
  <2>5. QED
    BY <1>4, <1>7, <2>3, <2>4
<1>8. \A c \in ToVisit : Reached(c) <=>
        \/ c.k < kk
        \/ /\ c.k < kk + S
           /\ c.j < kj \/ (c.j < kj + S /\ (c.k < ck \/ (c.k = ck /\ (c.j < cj \/ c.j = cj))))
  BY <1>1, <1>2, <1>4 DEF Reached
<1>9. ASSUME pc' = "body"
      PROVE  \A c \in ToVisit : Reached(c)' <=>
        \/ c.k < corner'.k
        \/ /\ c.k < corner'.k + S
           /\ \/ c.j < corner'.j
              \/ /\ c.j < corner'.j + S
                 /\ c.k < cell'.k \/ (c.k = cell'.k /\ (c.j < cell'.j \/ (c.j = cell'.j /\ c.i < cell'.i)))
  BY <1>2, <1>3, <1>4, <1>9 DEF Reached
<1> DEFINE MoreRows == cj + 1 < kj + S /\ cj + 1 < hi
           MorePlanes == ck + 1 < kk + S /\ ck + 1 < hi
<1>10. \/ /\ MoreRows
          /\ cell' = [cell EXCEPT !.i = ILo, !.j = cj + 1]
          /\ pc' = "body" /\ corner' = corner
       \/ /\ ~MoreRows /\ MorePlanes
          /\ cell' = [cell EXCEPT !.i = ILo, !.j = kj, !.k = ck + 1]
          /\ pc' = "body" /\ corner' = corner
       \/ /\ ~MoreRows /\ ~MorePlanes
          /\ corner' = IF kj + S < hi THEN [corner EXCEPT !.j = kj + S] ELSE [j |-> lo, k |-> kk + S]
          /\ IF corner'.k < hi
             THEN cell' = [cell EXCEPT !.i = ILo, !.j = corner'.j, !.k = corner'.k] /\ pc' = "body"
             ELSE pc' = "done" /\ cell' = cell
  BY <1>4, <1>5 DEF NextInTile
<1>11. CASE /\ MoreRows
            /\ cell' = [cell EXCEPT !.i = ILo, !.j = cj + 1]
            /\ pc' = "body" /\ corner' = corner
  <2>1. cell' = [cell EXCEPT !.i = ILo, !.j = cj + 1, !.k = ck] /\ corner'.j = kj /\ corner'.k = kk
    BY <1>4, <1>5, <1>11
  <2>2. cj + 1 \in lo..(hi - 1) /\ ck \in lo..(hi - 1)
    BY <1>4, <1>11
  <2>3. cell' \in LoopCells /\ cell'.i = il /\ cell'.j = cj + 1 /\ cell'.k = ck
    BY <1>7, <2>1, <2>2
  <2>4. ASSUME NEW c \in ToVisit PROVE Reached(c)' <=> Reached(c)
    <3>1. PICK i \in Nat, j \in Nat, k \in Nat : i = c.i /\ j = c.j /\ k = c.k /\ ~(i < il)
      BY <1>6
    <3>2. j < cj + 1 <=> j < cj \/ j = cj
      BY <1>4, <3>1
    <3>3. QED
      BY <1>8, <1>9, <1>11, <2>1, <2>3, <3>1, <3>2
  <2>5. JLo =< corner'.j /\ corner'.j =< cell'.j /\ cell'.j < corner'.j + Side
    BY <1>4, <1>11, <2>1, <2>3
  <2>6. JLo =< corner'.k /\ corner'.k =< cell'.k /\ cell'.k < corner'.k + Side
    BY <1>4, <2>1, <2>3
  <2>7. QED
    BY <1>1, <1>2, <1>11, <2>3, <2>4, <2>5, <2>6, OnwardStep DEF LoopInv
<1>12. CASE /\ ~MoreRows /\ MorePlanes
            /\ cell' = [cell EXCEPT !.i = ILo, !.j = kj, !.k = ck + 1]
            /\ pc' = "body" /\ corner' = corner
  <2>1. corner'.j = kj /\ corner'.k = kk
    BY <1>4, <1>12
  <2>2. kj \in lo..(hi - 1) /\ ck + 1 \in lo..(hi - 1)
    BY <1>4, <1>12
  <2>3. cell' \in LoopCells /\ cell'.i = il /\ cell'.j = kj /\ cell'.k = ck + 1
    BY <1>7, <1>12, <2>2
  <2>4. ASSUME NEW c \in ToVisit PROVE Reached(c)' <=> Reached(c)
    <3>1. PICK i \in Nat, j \in Nat, k \in Nat : i = c.i /\ j = c.j /\ k = c.k /\ ~(i < il) /\ j < hi
      BY <1>6
    <3>2. k < ck + 1 <=> k < ck \/ k = ck
      BY <1>4, <3>1
    <3>3. j < kj + S => j < cj \/ j = cj
      BY <1>4, <1>12, <3>1
    <3>4. j < kj => j < kj + S
      BY <1>4, <3>1
    <3>5. Reached(c) <=> k < kk \/ (k < kk + S /\ (j < kj \/ (j < kj + S /\ (k < ck \/ k = ck))))
      BY <1>8, <3>1, <3>3
    <3>6. Reached(c)' <=> k < kk \/ (k < kk + S /\ (j < kj \/ (j < kj + S /\ k < ck + 1)))
      BY <1>9, <1>12, <2>1, <2>3, <3>1, <3>4
    <3>7. QED
      BY <3>2, <3>5, <3>6
  <2>5. JLo =< corner'.j /\ corner'.j =< cell'.j /\ cell'.j < corner'.j + Side
    BY <1>4, <2>1, <2>3
  <2>6. JLo =< corner'.k /\ corner'.k =< cell'.k /\ cell'.k < corner'.k + Side
    BY <1>4, <1>12, <2>1, <2>3
  <2>7. QED
    BY <1>1, <1>2, <1>12, <2>3, <2>4, <2>5, <2>6, OnwardStep DEF LoopInv
<1>13. CASE /\ ~MoreRows /\ ~MorePlanes
            /\ corner' = IF kj + S < hi THEN [corner EXCEPT !.j = kj + S] ELSE [j |-> lo, k |-> kk + S]
            /\ IF corner'.k < hi
               THEN cell' = [cell EXCEPT !.i = ILo, !.j = corner'.j, !.k = corner'.k] /\ pc' = "body"
               ELSE pc' = "done" /\ cell' = cell
  <2>1. \A c \in ToVisit : Reached(c) <=> c.k < kk \/ (c.k < kk + S /\ c.j < kj + S)
    <3>1. TAKE c \in ToVisit
    <3>2. PICK j \in Nat, k \in Nat : j = c.j /\ k = c.k /\ j < hi /\ k < hi
      BY <1>6
    <3>3. j < kj + S => j < cj \/ j = cj
      BY <1>4, <1>13, <3>2
    <3>4. k < kk + S => k < ck \/ k = ck
      BY <1>4, <1>13, <3>2
    <3>5. j < kj => j < kj + S
      BY <1>4, <3>2
    <3>6. Reached(c) <=>
            k < kk \/ (k < kk + S /\ (j < kj \/ (j < kj + S /\ (k < ck \/ (k = ck /\ (j < cj \/ j = cj))))))
      BY <1>8, <3>2
    <3>7. Reached(c) <=> k < kk \/ (k < kk + S /\ j < kj + S)
      BY <3>3, <3>4, <3>5, <3>6
    <3>8. QED
      BY <3>2, <3>7
  <2>2. CASE kj + S < hi
    <3>1. corner' = [j |-> kj + S, k |-> kk] /\ corner'.j = kj + S /\ corner'.k = kk /\ kk < hi
      BY <1>4, <1>5, <1>13, <2>2
    <3>2. cell' = [cell EXCEPT !.i = ILo, !.j = kj + S, !.k = kk] /\ pc' = "body"
      BY <1>13, <3>1
    <3>3. kj + S \in lo..(hi - 1) /\ kk \in lo..(hi - 1)
      BY <1>4, <2>2, <3>1
    <3>4. cell' \in LoopCells /\ cell'.i = il /\ cell'.j = kj + S /\ cell'.k = kk
      BY <1>7, <3>2, <3>3
    <3>5. ASSUME NEW c \in ToVisit PROVE Reached(c)' <=> Reached(c)
      <4>1. PICK i \in Nat, j \in Nat, k \in Nat : i = c.i /\ j = c.j /\ k = c.k /\ ~(i < il)
        BY <1>6
      <4>2. Reached(c)' <=> \/ k < kk
                            \/ /\ k < kk + S
                               /\ \/ j < kj + S
                                  \/ /\ j < kj + S + S
                                     /\ k < kk \/ (k = kk /\ (j < kj + S \/ (j = kj + S /\ i < il)))
        BY <1>9, <3>1, <3>2, <3>4, <4>1
      <4>3. Reached(c)' <=> k < kk \/ (k < kk + S /\ j < kj + S)
        BY <4>1, <4>2
      <4>4. QED
        BY <2>1, <4>1, <4>3
    <3>6. JLo =< corner'.j /\ corner'.j =< cell'.j /\ cell'.j < corner'.j + Side
      BY <1>4, <3>1, <3>4
    <3>7. JLo =< corner'.k /\ corner'.k =< cell'.k /\ cell'.k < corner'.k + Side
      BY <1>4, <3>1, <3>4
    <3>8. corner' = [j |-> corner'.j, k |-> corner'.k] /\ corner'.j \in Int /\ corner'.k \in Int
      BY <3>1
    <3>9. QED
      BY <1>1, <1>2, <3>2, <3>4, <3>5, <3>6, <3>7, <3>8, OnwardStep
  <2>3. CASE ~(kj + S < hi)
    <3>1. corner' = [j |-> lo, k |-> kk + S] /\ corner'.j = lo /\ corner'.k = kk + S
      BY <1>13, <2>3
    <3>2. \A c \in ToVisit : Reached(c) <=> c.k < kk + S
      <4>1. TAKE c \in ToVisit
      <4>2. PICK j \in Nat, k \in Nat : j = c.j /\ k = c.k /\ j < hi
        BY <1>6
      <4>3. j < kj + S /\ (k < kk => k < kk + S)
        BY <1>4, <2>3, <4>2
      <4>4. QED
        BY <2>1, <4>2, <4>3
    <3>3. corner' = [j |-> corner'.j, k |-> corner'.k] /\ corner'.j \in Int /\ corner'.k \in Int
      BY <3>1
    <3>4. CASE kk + S < hi
      <4>1. cell' = [cell EXCEPT !.i = ILo, !.j = lo, !.k = kk + S] /\ pc' = "body"
        BY <1>13, <3>1, <3>4
      <4>2. lo \in lo..(hi - 1) /\ kk + S \in lo..(hi - 1)
        BY <1>4, <3>4
      <4>3. cell' \in LoopCells /\ cell'.i = il /\ cell'.j = lo /\ cell'.k = kk + S
        BY <1>7, <4>1, <4>2
      <4>4. ASSUME NEW c \in ToVisit PROVE Reached(c)' <=> Reached(c)
        <5>1. PICK i \in Nat, j \in Nat, k \in Nat : i = c.i /\ j = c.j /\ k = c.k /\ ~(i < il) /\ ~(j < lo)
          BY <1>4, <1>6
        <5>2. Reached(c)' <=> \/ k < kk + S
                              \/ /\ k < kk + S + S
                                 /\ \/ j < lo
                                    \/ /\ j < lo + S
                                       /\ k < kk + S \/ (k = kk + S /\ (j < lo \/ (j = lo /\ i < il)))
          BY <1>9, <3>1, <4>1, <4>3, <5>1
        <5>3. Reached(c)' <=> k < kk + S
          BY <5>1, <5>2
        <5>4. QED
          BY <3>2, <5>1, <5>3
      <4>5. JLo =< corner'.j /\ corner'.j =< cell'.j /\ cell'.j < corner'.j + Side
        BY <1>4, <3>1, <4>3
      <4>6. JLo =< corner'.k /\ corner'.k =< cell'.k /\ cell'.k < corner'.k + Side
        BY <1>4, <3>1, <4>3
      <4>7. QED
        BY <1>1, <1>2, <3>3, <4>1, <4>3, <4>4, <4>5, <4>6, OnwardStep
    <3>5. CASE ~(kk + S < hi)
      <4>1. cell' = cell /\ pc' = "done"
        BY <1>13, <3>1, <3>5
      <4>2. ASSUME NEW c \in ToVisit PROVE Reached(c)' <=> Reached(c)
        <5>1. c.k < kk + S
          <6>1. PICK k \in Nat : k = c.k /\ k < hi
            BY <1>6
          <6>2. QED
            BY <1>4, <3>5, <6>1
        <5>2. QED
          BY <3>2, <4>1, <5>1 DEF Reached
      <4>3. QED
        BY <1>1, <1>2, <3>3, <4>1, <4>2, OnwardStep DEF LoopInv
    <3>6. QED
      BY <3>4, <3>5
  <2>4. QED
    BY <2>2, <2>3
<1>14. QED
  BY <1>10, <1>11, <1>12, <1>13

-----------------------------------------------------------------------------
(* The loops of a team.                                                    *)

\* What is visited or in the hands of a thread.
LEMMA BegunMeans ==
  ASSUME team = [t \in Threads |-> team[t]], NEW c
  PROVE  c \in Begun <=> c \in Range(seen) \/ \E t \in Threads : c \in team[t]
<1>1. UNION Range(team) = UNION {team[t] : t \in Threads}
  BY Zenon DEF Range
<1>2. QED
  BY <1>1 DEF Begun, Visited

LEMMA TeamVisitsAll ==
  ASSUME LoopInv, TeamLoop
  PROVE  TeamInv /\ ToVisit = LoopCells /\ loop # "tiled" /\ loop # "gpu"
BY DEF LoopInv, TeamLoop, ToVisit

LEMMA IndexType ==
  ASSUME ShapeInv, NEW c \in LoopCells
  PROVE  CellIndex(shape, c) \in Int
<1>1. /\ c.i \in Nat /\ c.j \in Nat /\ c.k \in Nat /\ shape.nx \in Nat /\ shape.m \in Nat /\ shape.g \in Nat
  BY CellFacts, ShapeFacts
<1>2. shape.sy \in Nat /\ shape.sz \in Nat
  BY <1>1, ShapeFacts
<1>3. c.i + c.j * shape.sy + c.k * shape.sz \in Int
  BY <1>1, <1>2
<1>4. QED
  BY <1>3 DEF CellIndex

\* In one block the order of storage is that of the indices.
LEMMA IndexOrder ==
  ASSUME ShapeInv, loop # "gpu", NEW c \in ToVisit, NEW d \in ToVisit, c # d
  PROVE  Sooner(c, d) <=> CellIndex(shape, c) < CellIndex(shape, d)
<1>1. c \in LoopCells /\ d \in LoopCells
  BY VisitFacts
<1>2. c.blk = 0 /\ d.blk = 0
  BY <1>1 DEF LoopCells
<1>3. shape.cells \in Nat
  <2>1. shape.nx \in Nat /\ shape.m \in Nat /\ shape.g \in Nat
    BY ShapeFacts
  <2>2. shape.nx * (shape.m + 2 * shape.g) * (shape.m + 2 * shape.g) \in Nat
    BY <2>1
  <2>3. QED
    BY <2>2, ShapeFacts
<1>4. /\ PlaceOfCell(c) \in Nat /\ PlaceOfCell(d) \in Nat
      /\ PlaceOfCell(c) = 0 * shape.cells + CellIndex(shape, c)
      /\ PlaceOfCell(d) = 0 * shape.cells + CellIndex(shape, d)
  BY <1>2, PlaceDigits DEF PlaceOfCell
<1>5. PICK a \in Int, b \in Int : a = CellIndex(shape, c) /\ b = CellIndex(shape, d)
  BY <1>1, IndexType
<1>6. PlaceOfCell(c) = a /\ PlaceOfCell(d) = b
  BY <1>3, <1>4, <1>5
<1>7. Length \in Nat \ {0}
  BY VisitFacts
<1>8. Sooner(c, d) => PlaceOfCell(c) + Length =< PlaceOfCell(d)
  BY PlaceDigits
<1>9. Sooner(d, c) => PlaceOfCell(d) + Length =< PlaceOfCell(c)
  BY PlaceDigits
<1>10. Sooner(c, d) \/ Sooner(d, c)
  BY <1>1, OneIsSooner
<1>11. QED
  BY <1>5, <1>6, <1>7, <1>8, <1>9, <1>10

\* A step of a team's loop.
LEMMA TeamStep ==
  ASSUME LoopInv, TeamLoop, UNCHANGED <<given, cell, corner, stop, broken>>,
         team' = [t \in Threads |-> team'[t]],
         seen' \in Seq(ToVisit), Ordered(seen'), TeamInv'
  PROVE  LoopInv'
<1>1. ShapeInv' /\ TeamLoop' /\ LoopCells' = LoopCells /\ seen' \in Seq(ToVisit')
  BY GivenStays DEF LoopInv
<1>2. Ordered(seen)'
  <2>1. loop' = loop
    BY DEF given
  <2>2. QED
    BY <2>1 DEF Ordered, Sooner
<1>3. /\ cell' \in LoopCells' /\ stop' \in {0, 1} /\ broken' \in BOOLEAN /\ (stop' = 1 <=> broken')
      /\ corner' = [j |-> corner'.j, k |-> corner'.k] /\ corner'.j \in Int /\ corner'.k \in Int
  BY <1>1 DEF LoopInv
<1>4. QED
  BY <1>1, <1>2, <1>3 DEF LoopInv

LEMMA TakeRowStep ==
  ASSUME LoopInv, NEW t \in Threads, TakeRow(t)
  PROVE  LoopInv'
<1>1. PICK c \in RowsToTake : team' = [team EXCEPT ![t] = RowOf(c)]
  BY DEF TakeRow
<1>2. pc = "team" /\ team[t] = {} /\ UNCHANGED <<given, cell, corner, stop, pc, seen, broken>>
  BY DEF TakeRow
<1>3. TeamLoop
  BY <1>2 DEF LoopInv, PassInv
<1>4. TeamInv /\ seen \in Seq(ToVisit) /\ Ordered(seen) /\ team = [u \in Threads |-> team[u]]
  BY <1>3 DEF LoopInv
<1>5. c \in LoopCells /\ c \notin Begun
  BY <1>1 DEF RowsToTake
<1>6. LoopCells' = LoopCells /\ \A d : RowOf(d)' = RowOf(d)
  <2>1. LoopCells' = LoopCells
    BY <1>2, GivenStays
  <2>2. QED
    BY <2>1 DEF RowOf
<1>7. /\ team' = [u \in Threads |-> team'[u]]
      /\ team'[t] = RowOf(c)
      /\ \A u \in Threads : u # t => team'[u] = team[u]
  BY <1>1, <1>4
<1>8. RowOf(c) \subseteq LoopCells
  BY DEF RowOf
<1>9. ASSUME NEW d \in RowOf(c) PROVE d \notin Begun
  <2>1. c \in RowOf(d) /\ d \in LoopCells
    BY <1>5, <1>9 DEF RowOf
  <2>2. QED
    BY <1>4, <1>5, <2>1 DEF TeamInv
<1>10. \A d : d \in Begun <=> d \in Range(seen) \/ \E u \in Threads : d \in team[u]
  BY <1>4, BegunMeans
<1>11. \A d : d \in Begun' <=> d \in Range(seen) \/ \E u \in Threads : d \in team'[u]
  <2>1. \A d : d \in Begun' <=> d \in Range(seen)' \/ \E u \in Threads : d \in team'[u]
    <3>1. UNION Range(team') = UNION {team'[u] : u \in Threads}
      BY <1>7, Zenon DEF Range
    <3>2. QED
      BY <3>1 DEF Begun, Visited
  <2>2. Range(seen)' = Range(seen)
    BY <1>2
  <2>3. QED
    BY <2>1, <2>2
<1>12. \A d : d \in Begun' <=> d \in Begun \/ d \in RowOf(c)
  BY <1>2, <1>7, <1>10, <1>11
<1>13. TeamInv'
  <2>1. pc' \in {"team", "done"} /\ ~broken'
    BY <1>2, <1>4 DEF TeamInv
  <2>2. \A u \in Threads : team'[u] \subseteq LoopCells /\ team'[u] \intersect Range(seen) = {}
    BY <1>4, <1>7, <1>8, <1>9, <1>10 DEF TeamInv
  <2>3. \A u, w \in Threads : u # w => team'[u] \intersect team'[w] = {}
    BY <1>4, <1>7, <1>9, <1>10 DEF TeamInv
  <2>4. \A x, d \in LoopCells : d \in RowOf(x) /\ x \in Begun' => d \in Begun'
    <3>1. TAKE x, d \in LoopCells
    <3>2. HAVE d \in RowOf(x) /\ x \in Begun'
    <3>3. CASE x \in Begun
      BY <1>4, <1>12, <3>2, <3>3 DEF TeamInv
    <3>4. CASE x \in RowOf(c)
      <4>1. d \in RowOf(c)
        BY <3>2, <3>4 DEF RowOf
      <4>2. QED
        BY <1>12, <4>1
    <3>5. QED
      BY <1>12, <3>2, <3>3, <3>4
  <2>5. pc' # "done" /\ Range(seen)' = Range(seen)
    BY <1>2
  <2>6. QED
    BY <1>6, <2>1, <2>2, <2>3, <2>4, <2>5 DEF TeamInv
<1>14. QED
  BY <1>2, <1>3, <1>4, <1>7, <1>13, TeamStep

\* What is inserted.
LEMMA Inserted ==
  ASSUME NEW S, NEW s \in Seq(S), NEW c \in S, NEW n \in 1..(Len(s) + 1)
  PROVE  /\ InsertAt(s, n, c) \in Seq(S) /\ Len(InsertAt(s, n, c)) = Len(s) + 1
         /\ \A m \in 1..(n - 1) : InsertAt(s, n, c)[m] = s[m]
         /\ InsertAt(s, n, c)[n] = c
         /\ \A m \in (n + 1)..(Len(s) + 1) : InsertAt(s, n, c)[m] = s[m - 1]
         /\ Range(InsertAt(s, n, c)) = Range(s) \union {c}
<1> DEFINE a == SubSeq(s, 1, n - 1)
           b == SubSeq(s, n, Len(s))
           t == InsertAt(s, n, c)
<1>1. Len(s) \in Nat /\ n \in Nat /\ n >= 1 /\ n - 1 =< Len(s)
  OBVIOUS
<1>2. /\ a \in Seq(S) /\ Len(a) = n - 1 /\ \A m \in 1..(n - 1) : a[m] = s[m]
      /\ b \in Seq(S) /\ Len(b) = Len(s) - n + 1 /\ \A m \in 1..(Len(s) - n + 1) : b[m] = s[n + m - 1]
  <2>1. \A m \in 1..(n - 1) : s[m] \in S
    BY <1>1
  <2>2. \A m \in n..Len(s) : s[m] \in S
    BY <1>1
  <2>3. a \in Seq(S) /\ Len(a) = n - 1 /\ \A m \in 1..(n - 1) : a[m] = s[m]
    BY <1>1, <2>1
  <2>4. b \in Seq(S) /\ Len(b) = Len(s) - n + 1 /\ \A m \in 1..(Len(s) - n + 1) : b[m] = s[n + m - 1]
    BY <1>1, <2>2
  <2>5. QED
    BY <2>3, <2>4
<1>3. t = (a \o <<c>>) \o b
  BY DEF InsertAt
<1> HIDE DEF a, b, t
<1>4. PICK u \in Seq(S) : u = a \o <<c>>
  <2>1. <<c>> \in Seq(S) /\ a \in Seq(S)
    BY <1>2
  <2>2. a \o <<c>> \in Seq(S)
    BY <2>1
  <2>3. QED
    BY <2>2
<1>5. Len(u) = n /\ (\A m \in 1..(n - 1) : u[m] = s[m]) /\ u[n] = c
  BY <1>1, <1>2, <1>4
<1>6. t \in Seq(S) /\ Len(t) = Len(s) + 1
  BY <1>1, <1>2, <1>3, <1>4, <1>5
<1>7. \A m \in 1..n : t[m] = u[m]
  BY <1>1, <1>2, <1>3, <1>4, <1>5
<1>8. \A m \in (n + 1)..(Len(s) + 1) : t[m] = s[m - 1]
  <2>1. TAKE m \in (n + 1)..(Len(s) + 1)
  <2>2. t[m] = b[m - n]
    <3>1. t = u \o b /\ Len(u) = n /\ u \in Seq(S) /\ b \in Seq(S) /\ Len(b) = Len(s) - n + 1
      BY <1>2, <1>3, <1>4, <1>5
    <3>2. m \in (Len(u) + 1)..(Len(u) + Len(b))
      BY <1>1, <3>1
    <3>3. QED
      BY <3>1, <3>2
  <2>3. m - n \in 1..(Len(s) - n + 1) /\ n + (m - n) - 1 = m - 1
    BY <1>1
  <2>4. QED
    BY <1>2, <2>2, <2>3
<1>9. (\A m \in 1..(n - 1) : t[m] = s[m]) /\ t[n] = c
  BY <1>1, <1>5, <1>7
<1>10. Range(s) = {s[m] : m \in 1..Len(s)} /\ Range(t) = {t[m] : m \in 1..(Len(s) + 1)}
  BY <1>6 DEF Range
<1>11. Range(t) = Range(s) \union {c}
  <2>1. ASSUME NEW m \in 1..(Len(s) + 1) PROVE t[m] \in Range(s) \union {c}
    <3>1. CASE m < n
      <4>1. m \in 1..(n - 1) /\ m \in 1..Len(s)
        BY <1>1, <3>1
      <4>2. QED
        BY <1>9, <1>10, <4>1
    <3>2. CASE m = n
      BY <1>9, <3>2
    <3>3. CASE m > n
      <4>1. m \in (n + 1)..(Len(s) + 1) /\ m - 1 \in 1..Len(s)
        BY <1>1, <3>3
      <4>2. QED
        BY <1>8, <1>10, <4>1
    <3>4. QED
      BY <1>1, <3>1, <3>2, <3>3
  <2>2. ASSUME NEW m \in 1..Len(s) PROVE s[m] \in Range(t)
    <3>1. CASE m < n
      <4>1. m \in 1..(n - 1) /\ m \in 1..(Len(s) + 1)
        BY <1>1, <3>1
      <4>2. QED
        BY <1>9, <1>10, <4>1
    <3>2. CASE m >= n
      <4>1. PICK p \in (n + 1)..(Len(s) + 1) : p \in 1..(Len(s) + 1) /\ p - 1 = m
        <5>1. m + 1 \in (n + 1)..(Len(s) + 1) /\ m + 1 \in 1..(Len(s) + 1) /\ (m + 1) - 1 = m
          BY <1>1, <3>2
        <5>2. QED
          BY <5>1
      <4>2. t[p] = s[m]
        BY <1>8, <4>1
      <4>3. QED
        BY <1>10, <4>1, <4>2
    <3>3. QED
      BY <1>1, <3>1, <3>2
  <2>3. c \in Range(t)
    BY <1>1, <1>9, <1>10
  <2>4. QED
    BY <1>10, <2>1, <2>2, <2>3
<1>12. QED
  BY <1>6, <1>8, <1>9, <1>11 DEF t

LEMMA RunCellStep ==
  ASSUME LoopInv, NEW t \in Threads, RunCell(t)
  PROVE  LoopInv'
<1>1. PICK c \in team[t], n \in 1..(Len(seen) + 1) :
        /\ team' = [team EXCEPT ![t] = @ \ {c}]
        /\ \A m \in 1..Len(seen) : m >= n <=> CellIndex(shape, c) < CellIndex(shape, seen[m])
        /\ seen' = InsertAt(seen, n, c)
  BY DEF RunCell
<1>2. UNCHANGED <<given, cell, corner, stop, pc, broken>>
  BY DEF RunCell
<1>3. TeamLoop
  BY <1>1 DEF LoopInv, PassInv
<1>4. /\ TeamInv /\ ToVisit = LoopCells /\ loop # "tiled" /\ loop # "gpu" /\ ShapeInv
      /\ seen \in Seq(ToVisit) /\ Ordered(seen) /\ team = [u \in Threads |-> team[u]]
  BY <1>3, TeamVisitsAll DEF LoopInv
<1>5. c \in ToVisit /\ c \notin Range(seen)
  BY <1>1, <1>4 DEF TeamInv
<1>6. /\ seen' \in Seq(ToVisit) /\ Len(seen') = Len(seen) + 1
      /\ \A m \in 1..(n - 1) : seen'[m] = seen[m]
      /\ seen'[n] = c
      /\ \A m \in (n + 1)..(Len(seen) + 1) : seen'[m] = seen[m - 1]
      /\ Range(seen') = Range(seen) \union {c}
  BY <1>1, <1>4, <1>5, Inserted
<1>7. Len(seen) \in Nat /\ n \in Nat
  BY <1>4
<1>8. \A m \in 1..Len(seen) :
        /\ seen[m] \in ToVisit /\ seen[m] # c
        /\ m < n => Sooner(seen[m], c)
        /\ m >= n => Sooner(c, seen[m])
  <2>1. TAKE m \in 1..Len(seen)
  <2>2. seen[m] \in ToVisit /\ seen[m] \in LoopCells /\ c \in LoopCells
    BY <1>4, <1>5
  <2>3. seen[m] # c
    BY <1>4, <1>5 DEF Range
  <2>4. Sooner(c, seen[m]) <=> CellIndex(shape, c) < CellIndex(shape, seen[m])
    BY <1>4, <1>5, <2>2, <2>3, IndexOrder
  <2>5. Sooner(seen[m], c) \/ Sooner(c, seen[m])
    BY <1>4, <2>2, <2>3, OneIsSooner
  <2>6. m >= n <=> CellIndex(shape, c) < CellIndex(shape, seen[m])
    BY <1>1
  <2>7. m < n => ~(m >= n)
    BY <1>7
  <2>8. QED
    BY <2>2, <2>3, <2>4, <2>5, <2>6, <2>7
<1>9. \A k, m \in 1..Len(seen) : k < m => Sooner(seen[k], seen[m])
  BY <1>4 DEF Ordered
<1>10. ASSUME NEW k \in 1..(Len(seen) + 1), NEW m \in 1..(Len(seen) + 1), k < m
       PROVE  Sooner(seen'[k], seen'[m])
  <2>1. CASE m < n
    <3>1. k \in 1..(n - 1) /\ m \in 1..(n - 1) /\ k \in 1..Len(seen) /\ m \in 1..Len(seen)
      BY <1>7, <1>10, <2>1
    <3>2. QED
      BY <1>6, <1>9, <1>10, <3>1
  <2>2. CASE m = n
    <3>1. k \in 1..(n - 1) /\ k \in 1..Len(seen) /\ k < n
      BY <1>7, <1>10, <2>2
    <3>2. QED
      BY <1>6, <1>8, <2>2, <3>1
  <2>3. CASE m > n
    <3>1. PICK q \in 1..Len(seen) : q = m - 1 /\ q >= n /\ seen'[m] = seen[q]
      <4>1. m - 1 \in 1..Len(seen) /\ m - 1 >= n /\ m \in (n + 1)..(Len(seen) + 1)
        BY <1>7, <2>3
      <4>2. QED
        BY <1>6, <4>1
    <3>2. CASE k < n
      <4>1. k \in 1..(n - 1) /\ k \in 1..Len(seen) /\ k < q
        BY <1>7, <3>1, <3>2
      <4>2. QED
        BY <1>6, <1>9, <3>1, <4>1
    <3>3. CASE k = n
      BY <1>6, <1>8, <3>1, <3>3
    <3>4. CASE k > n
      <4>1. PICK p \in 1..Len(seen) : p = k - 1 /\ seen'[k] = seen[p]
        <5>1. k - 1 \in 1..Len(seen) /\ k \in (n + 1)..(Len(seen) + 1)
          BY <1>7, <3>4
        <5>2. QED
          BY <1>6, <5>1
      <4>2. p < q
        BY <1>7, <1>10, <3>1, <4>1
      <4>3. QED
        BY <1>9, <3>1, <4>1, <4>2
    <3>5. QED
      BY <1>7, <3>2, <3>3, <3>4
  <2>4. QED
    BY <1>7, <2>1, <2>2, <2>3
<1>11. Ordered(seen')
  BY <1>4, <1>6, <1>10 DEF Ordered
<1>12. /\ team' = [u \in Threads |-> team'[u]]
       /\ team'[t] = team[t] \ {c}
       /\ \A u \in Threads : u # t => team'[u] = team[u]
  BY <1>1, <1>4
<1>13. LoopCells' = LoopCells /\ \A d : RowOf(d)' = RowOf(d)
  <2>1. LoopCells' = LoopCells
    BY <1>2, GivenStays
  <2>2. QED
    BY <2>1 DEF RowOf
<1>14. \A d : d \in Begun <=> d \in Range(seen) \/ \E u \in Threads : d \in team[u]
  BY <1>4, BegunMeans
<1>15. \A d : d \in Begun' <=> d \in Range(seen)' \/ \E u \in Threads : d \in team'[u]
  <2>1. UNION Range(team') = UNION {team'[u] : u \in Threads}
    BY <1>12, Zenon DEF Range
  <2>2. QED
    BY <2>1 DEF Begun, Visited
<1>16. \A d : d \in Begun' <=> d \in Begun
  <2>1. Range(seen)' = Range(seen) \union {c}
    BY <1>6
  <2>2. QED
    BY <1>1, <1>12, <1>14, <1>15, <2>1
<1>17. TeamInv'
  <2>1. pc' \in {"team", "done"} /\ ~broken' /\ pc' # "done"
    BY <1>1, <1>2, <1>4 DEF TeamInv
  <2>2. \A u \in Threads : team'[u] \subseteq LoopCells /\ team'[u] \intersect Range(seen') = {}
    <3>1. \A u \in Threads : u # t => c \notin team[u]
      BY <1>1, <1>4 DEF TeamInv
    <3>2. QED
      BY <1>4, <1>6, <1>12, <3>1 DEF TeamInv
  <2>3. \A u, w \in Threads : u # w => team'[u] \intersect team'[w] = {}
    BY <1>4, <1>12 DEF TeamInv
  <2>4. \A x, d \in LoopCells : d \in RowOf(x) /\ x \in Begun' => d \in Begun'
    BY <1>4, <1>16 DEF TeamInv
  <2>5. QED
    BY <1>13, <2>1, <2>2, <2>3, <2>4 DEF TeamInv
<1>18. QED
  BY <1>2, <1>3, <1>6, <1>11, <1>12, <1>17, TeamStep

\* If no row is left to take, all of the cells have been begun.
LEMMA NoRowLeft ==
  ASSUME LoopInv, TeamLoop, RowsToTake = {}
  PROVE  LoopCells \subseteq Begun
<1> DEFINE first == {c \in LoopCells \ Begun : c.i = ILo}
<1>1. TeamInv /\ ToVisit = LoopCells /\ loop # "gpu" /\ ShapeInv
  BY TeamVisitsAll DEF LoopInv
<1>2. first = {}
  <2>1. CASE loop = "threads"
    BY <2>1 DEF RowsToTake
  <2>2. CASE loop # "threads"
    <3>1. SUFFICES ASSUME NEW f \in first PROVE FALSE
      OBVIOUS
    <3>2. \A c \in first : c \in ToVisit /\ c \in LoopCells
      BY <1>1
    <3>3. \A c, d \in first : c # d => (Sooner(c, d) <=> CellIndex(shape, c) < CellIndex(shape, d))
      BY <1>1, <3>2, IndexOrder
    <3>4. PICK c \in first : \A d \in first : ~Sooner(d, c)
      <4>1. PICK S \in SUBSET Nat : S = {PlaceOfCell(x) : x \in first}
        BY <1>1, <3>2, PlaceDigits
      <4>2. PICK p \in S : \A q \in S : p =< q
        <5>1. S # {}
          BY <3>1, <4>1
        <5>2. QED
          BY <5>1, LeastNatural
      <4>3. PICK c \in first : PlaceOfCell(c) = p
        BY <4>1, <4>2
      <4>4. ASSUME NEW d \in first, Sooner(d, c) PROVE FALSE
        <5>1. PlaceOfCell(d) + Length =< PlaceOfCell(c)
          BY <1>1, <3>2, <4>4, PlaceDigits
        <5>2. Length \in Nat \ {0} /\ PlaceOfCell(d) \in Nat /\ PlaceOfCell(c) \in Nat
          BY <1>1, <3>2, VisitFacts, PlaceDigits
        <5>3. PlaceOfCell(c) =< PlaceOfCell(d)
          BY <4>1, <4>2, <4>3
        <5>4. QED
          BY <5>1, <5>2, <5>3
      <4>5. QED
        BY <4>3, <4>4
    <3>5. \A d \in first : CellIndex(shape, c) =< CellIndex(shape, d)
      <4>1. TAKE d \in first
      <4>2. c # d => CellIndex(shape, c) < CellIndex(shape, d)
        <5>1. c # d => Sooner(c, d)
          BY <1>1, <3>2, <3>4, OneIsSooner
        <5>2. QED
          BY <3>3, <5>1
      <4>3. CellIndex(shape, c) \in Int /\ CellIndex(shape, d) \in Int
        BY <1>1, <3>2, IndexType
      <4>4. QED
        BY <4>2, <4>3
    <3>6. c \in RowsToTake
      BY <2>2, <3>5 DEF RowsToTake
    <3>7. QED
      BY <3>6
  <2>3. QED
    BY <2>1, <2>2
<1>3. ASSUME NEW c \in LoopCells PROVE c \in Begun
  <2>1. ILo \in ILo..(IHi - 1)
    BY <1>1, Ends
  <2>2. PICK f \in LoopCells : f = [c EXCEPT !.i = ILo]
    BY <1>1, <2>1, CellAt
  <2>3. f.i = ILo /\ f.j = c.j /\ f.k = c.k /\ f.blk = c.blk
    BY <1>1, <2>2, CellAt
  <2>4. f \in Begun
    BY <1>2, <2>3
  <2>5. c \in RowOf(f)
    BY <2>3 DEF RowOf
  <2>6. QED
    BY <1>1, <2>4, <2>5 DEF TeamInv
<1>4. QED
  BY <1>3

LEMMA JoinStep ==
  ASSUME LoopInv, Join
  PROVE  LoopInv'
<1>1. /\ pc = "team" /\ RowsToTake = {} /\ UNION Range(team) = {} /\ pc' = "done"
      /\ UNCHANGED <<given, cell, corner, stop, team, seen, broken>>
  BY DEF Join
<1>2. TeamLoop
  BY <1>1 DEF LoopInv, PassInv
<1>3. /\ TeamInv /\ ToVisit = LoopCells /\ seen \in Seq(ToVisit) /\ Ordered(seen)
      /\ team = [u \in Threads |-> team[u]]
  BY <1>2, TeamVisitsAll DEF LoopInv
<1>4. \A t \in Threads : team[t] = {}
  <2>1. UNION Range(team) = UNION {team[u] : u \in Threads}
    BY <1>3, Zenon DEF Range
  <2>2. QED
    BY <1>1, <2>1
<1>5. Range(seen) = LoopCells
  <2>1. LoopCells \subseteq Begun
    BY <1>1, <1>2, NoRowLeft
  <2>2. \A c \in LoopCells : c \in Range(seen)
    BY <1>3, <1>4, <2>1, BegunMeans
  <2>3. Range(seen) \subseteq LoopCells
    <3>1. Range(seen) = {seen[m] : m \in 1..Len(seen)}
      BY <1>3 DEF Range
    <3>2. \A m \in 1..Len(seen) : seen[m] \in LoopCells
      BY <1>3
    <3>3. QED
      BY <3>1, <3>2
  <2>4. QED
    BY <2>2, <2>3
<1>6. LoopCells' = LoopCells /\ (\A d : RowOf(d)' = RowOf(d)) /\ Begun' = Begun
  <2>1. LoopCells' = LoopCells
    BY <1>1, GivenStays
  <2>2. Begun' = Begun
    BY <1>1 DEF Begun, Visited
  <2>3. QED
    BY <2>1, <2>2 DEF RowOf
<1>7. TeamInv'
  BY <1>1, <1>3, <1>4, <1>5, <1>6 DEF TeamInv
<1>8. QED
  BY <1>1, <1>2, <1>3, <1>7, TeamStep

LEMMA LoopStutter ==
  ASSUME LoopInv, UNCHANGED loopVars
  PROVE  LoopInv'
<1>1. /\ UNCHANGED given
      /\ cell' = cell /\ corner' = corner /\ stop' = stop /\ pc' = pc /\ team' = team
      /\ seen' = seen /\ broken' = broken /\ loop' = loop
  BY DEF loopVars, given
<1>2. CASE TeamLoop
  <2>1. TeamInv'
    <3>1. TeamInv /\ LoopCells' = LoopCells /\ Begun' = Begun
      BY <1>1, <1>2, GivenStays DEF LoopInv, Begun, Visited
    <3>2. \A d : RowOf(d)' = RowOf(d)
      BY <3>1 DEF RowOf
    <3>3. QED
      BY <1>1, <3>1, <3>2 DEF TeamInv
  <2>2. /\ team' = [t \in Threads |-> team'[t]] /\ seen' \in Seq(ToVisit) /\ Ordered(seen')
    BY <1>1 DEF LoopInv
  <2>3. QED
    BY <1>1, <1>2, <2>1, <2>2, TeamStep
<1>3. CASE ~TeamLoop
  <2>1. PassInv /\ cell \in LoopCells
    BY <1>3 DEF LoopInv
  <2>2. ILo' = ILo /\ JLo' = JLo /\ Side' = Side /\ ToVisit' = ToVisit
    BY <1>1, GivenStays
  <2>3. \A c : Reached(c)' <=> Reached(c)
    BY <1>1, <2>2 DEF Reached
  <2>4. PassInv'
    BY <1>1, <2>1, <2>2, <2>3 DEF PassInv
  <2>5. /\ cell' \in LoopCells /\ corner' = [j |-> corner'.j, k |-> corner'.k]
        /\ corner'.j \in Int /\ corner'.k \in Int
    BY <1>1, <2>1 DEF LoopInv
  <2>6. QED
    BY <1>1, <1>3, <2>4, <2>5, PassStays
<1>4. QED
  BY <1>2, <1>3

LEMMA LoopStep ==
  ASSUME LoopInv, [LoopNext]_loopVars
  PROVE  LoopInv'
<1>1. CASE Continue
  BY <1>1, ContinueStep
<1>2. CASE Break
  BY <1>2, BreakStep
<1>3. CASE NextRow
  BY <1>3, NextRowStep
<1>4. CASE NextPlane
  BY <1>4, NextPlaneStep
<1>5. CASE NextInTile
  BY <1>5, NextInTileStep
<1>6. CASE NextBlock
  BY <1>6, NextBlockStep
<1>7. ASSUME NEW t \in Threads, TakeRow(t) PROVE LoopInv'
  BY <1>7, TakeRowStep
<1>8. ASSUME NEW t \in Threads, RunCell(t) PROVE LoopInv'
  BY <1>8, RunCellStep
<1>9. CASE Join
  BY <1>9, JoinStep
<1>10. CASE UNCHANGED loopVars
  BY <1>10, LoopStutter
<1>11. QED
  BY <1>1, <1>2, <1>3, <1>4, <1>5, <1>6, <1>7, <1>8, <1>9, <1>10 DEF LoopNext

-----------------------------------------------------------------------------
(* The cells of a stored block and the boundaries of vectors.              *)

\* Rows are as long as whole vectors and begin with one.
LEMMA RowsAligned ==
  ASSUME ShapeInv, NEW c \in Interior, c.i = shape.ox
  PROVE  CellIndex(shape, c) % lanes = 0
<1>1. PICK v \in Nat \ {0}, p \in Nat, q \in Nat, N \in Nat, ox \in Nat, nx \in Nat :
        /\ v = lanes /\ ox = shape.ox /\ nx = shape.nx /\ ox = p * v /\ nx = q * v
        /\ N = shape.m + 2 * shape.g
  <2>1. shape.m + 2 * shape.g \in Nat
    <3>1. shape.m \in Nat /\ shape.g \in Nat
      BY ShapeFacts
    <3>2. QED
      BY <3>1
  <2>2. QED
    BY <2>1, ShapeFacts
<1>2. PICK j \in Nat, k \in Nat : j = c.j /\ k = c.k
  <2>1. shape.m \in Nat \ {0} /\ shape.g \in Nat
    BY ShapeFacts
  <2>2. c.j \in shape.g..(shape.g + shape.m - 1) /\ c.k \in shape.g..(shape.g + shape.m - 1)
    BY DEF Interior
  <2>3. c.j \in Nat /\ c.k \in Nat
    BY <2>1, <2>2
  <2>4. QED
    BY <2>3
<1>3. shape.sy = nx /\ shape.sz = nx * N
  BY <1>1, ShapeFacts
<1>4. CellIndex(shape, c) = ox + j * nx + k * (nx * N)
  BY <1>1, <1>2, <1>3 DEF CellIndex
<1>5. PICK x \in Nat : x = p + j * q + k * (q * N)
  <2>1. j * q \in Nat /\ k * (q * N) \in Nat
    OBVIOUS
  <2>2. p + j * q + k * (q * N) \in Nat
    BY <2>1
  <2>3. QED
    BY <2>2
<1>6. ox + j * nx + k * (nx * N) = x * v
  <2>1. j * nx = (j * q) * v
    BY <1>1
  <2>2. k * (nx * N) = (k * (q * N)) * v
    BY <1>1
  <2>3. (p + j * q + k * (q * N)) * v = p * v + (j * q) * v + (k * (q * N)) * v
    OBVIOUS
  <2>4. QED
    BY <1>1, <1>5, <2>1, <2>2, <2>3
<1>7. (x * v) % v = 0
  <2>1. PICK y \in Int, r \in 0..(v - 1) : y = (x * v) \div v /\ r = (x * v) % v /\ x * v = v * y + r
    OBVIOUS
  <2>2. y = x
    <3>1. x * v = v * x /\ v * x \in Int
      OBVIOUS
    <3>2. v * x =< x * v /\ x * v < v * x + v
      BY <3>1
    <3>3. QED
      BY <2>1, <3>2, QuotientUnique
  <2>3. QED
    BY <2>1, <2>2
<1>8. QED
  BY <1>1, <1>4, <1>6, <1>7

\* A quotient has fewer values than its multiples.
LEMMA DigitBounds ==
  ASSUME NEW X \in Nat \ {0}, NEW N \in Nat, NEW q \in Int, NEW r \in 0..(X - 1),
         NEW n \in Nat, n = X * q + r, n < N * X
  PROVE  q >= 0 /\ q < N
<1>1. q >= 0
  <2>1. SUFFICES ASSUME q =< -1 PROVE FALSE
    OBVIOUS
  <2>2. X * q =< -X
    BY <2>1
  <2>3. QED
    BY <2>2
<1>2. q < N
  <2>1. SUFFICES ASSUME q >= N PROVE FALSE
    OBVIOUS
  <2>2. PICK e \in Nat : q = N + e
    <3>1. q - N \in Nat /\ q = N + (q - N)
      BY <2>1
    <3>2. QED
      BY <3>1
  <2>3. X * q = N * X + X * e /\ X * e \in Nat /\ N * X \in Nat
    BY <2>2
  <2>4. QED
    BY <2>3
<1>3. QED
  BY <1>1, <1>2

\* The interior fills a stored block.
LEMMA InteriorStored ==
  ASSUME ShapeInv
  PROVE  {StoredIndex(shape, c) : c \in Interior} = 0..(shape.m * shape.m * shape.m - 1)
<1>1. PICK m \in Nat \ {0}, ox \in Nat, g \in Nat : m = shape.m /\ ox = shape.ox /\ g = shape.g
  BY ShapeFacts
<1>2. PICK M \in Nat \ {0} : M = m * m
  <2>1. m * m \in Nat \ {0}
    OBVIOUS
  <2>2. QED
    BY <2>1
<1>3. m * m * m = m * M
  BY <1>2
<1>4. ASSUME NEW c \in Interior PROVE StoredIndex(shape, c) \in 0..(m * M - 1)
  <2>1. c.i \in ox..(ox + m - 1) /\ c.j \in g..(g + m - 1) /\ c.k \in g..(g + m - 1)
    BY <1>1 DEF Interior
  <2>2. PICK i \in Nat, j \in Nat, k \in Nat :
          i = c.i - ox /\ j = c.j - g /\ k = c.k - g /\ i < m /\ j < m /\ k < m
    <3>1. /\ c.i - ox \in Nat /\ c.j - g \in Nat /\ c.k - g \in Nat
          /\ c.i - ox < m /\ c.j - g < m /\ c.k - g < m
      BY <2>1
    <3>2. QED
      BY <3>1
  <2>3. StoredIndex(shape, c) = i + j * m + k * m * m
    BY <1>1, <2>2 DEF StoredIndex
  <2>4. k * m * m = k * M
    BY <1>2
  <2>5. PICK r \in Nat : r = j * m + i /\ r + 1 =< M
    <3>1. j * m + i \in Nat /\ j * m + i + 1 =< m * m
      BY <2>2, DigitsRoom
    <3>2. QED
      BY <1>2, <3>1
  <2>6. k * M + r \in Nat /\ k * M + r + 1 =< m * M
    BY <2>2, <2>5, DigitsRoom
  <2>7. StoredIndex(shape, c) = k * M + r
    <3>1. k * M \in Nat /\ j * m \in Nat
      OBVIOUS
    <3>2. QED
      BY <2>3, <2>4, <2>5, <3>1
  <2>8. m * M \in Nat
    OBVIOUS
  <2>9. QED
    BY <2>6, <2>7, <2>8
<1>5. ASSUME NEW n \in 0..(m * M - 1) PROVE \E c \in Interior : StoredIndex(shape, c) = n
  <2>1. m * M \in Nat /\ n \in Nat /\ n < m * M
    OBVIOUS
  <2>2. PICK k \in Int, r \in 0..(M - 1) : n = M * k + r
    <3>1. n \div M \in Int /\ n % M \in 0..(M - 1) /\ n = M * (n \div M) + (n % M)
      BY <2>1
    <3>2. QED
      BY <3>1
  <2>3. PICK j \in Int, i \in 0..(m - 1) : r = m * j + i
    <3>1. r \div m \in Int /\ r % m \in 0..(m - 1) /\ r = m * (r \div m) + (r % m)
      BY <2>2
    <3>2. QED
      BY <3>1
  <2>4. k >= 0 /\ k < m
    BY <2>1, <2>2, DigitBounds
  <2>5. j >= 0 /\ j < m
    BY <1>2, <2>2, <2>3, DigitBounds
  <2>6. PICK c \in Interior : c.i = ox + i /\ c.j = g + j /\ c.k = g + k
    <3>1. /\ ox + i \in ox..(ox + m - 1) /\ g + j \in g..(g + m - 1) /\ g + k \in g..(g + m - 1)
      BY <2>2, <2>3, <2>4, <2>5
    <3>2. [i |-> ox + i, j |-> g + j, k |-> g + k] \in Interior
      BY <1>1, <3>1 DEF Interior
    <3>3. QED
      BY <3>2
  <2>7. StoredIndex(shape, c) = i + j * m + k * m * m
    <3>1. c.i - shape.ox = i /\ c.j - shape.g = j /\ c.k - shape.g = k
      BY <1>1, <2>2, <2>3, <2>6
    <3>2. QED
      BY <1>1, <3>1 DEF StoredIndex
  <2>8. j * m = m * j /\ k * m * m = M * k /\ m * j \in Int /\ M * k \in Int
    BY <1>2, <2>2, <2>3
  <2>9. QED
    BY <2>2, <2>3, <2>7, <2>8
<1>6. QED
  BY <1>1, <1>3, <1>4, <1>5

-----------------------------------------------------------------------------
\* The loops over the cells of blocks (cell_*, row_*, gpu_*, and those of tiles, of
\* vectors and of threads), for every layout of a block, halo, size of tiles, number
\* of blocks and of threads: each Real is visited once, none outside of the blocks,
\* in the order of storage but for tiles; all of them unless the body breaks, and
\* none after it has; and rows begin on a boundary of vectors.
THEOREM CellsAreVisitedOnce == LoopSpec => []EachCellOnce
<1>1. LoopInit => LoopInv
  BY InitLoopInv
<1>2. LoopInv /\ [LoopNext]_loopVars => LoopInv'
  BY LoopStep
<1>3. LoopInv => EachCellOnce
  <2>1. SUFFICES ASSUME LoopInv PROVE EachCellOnce
    OBVIOUS
  <2>2. ShapeInv /\ seen \in Seq(ToVisit) /\ Ordered(seen)
    BY <2>1 DEF LoopInv
  <2>3. Len(seen) \in Nat /\ \A n \in 1..Len(seen) : seen[n] \in ToVisit /\ seen[n] \in LoopCells
    BY <2>2, VisitFacts
  <2>4. \A n \in 1..Len(seen) : First(n) = PlaceOfCell(seen[n])
    BY DEF First, PlaceOfCell
  <2>5. Length \in Nat \ {0}
    BY <2>2, VisitFacts
  <2>6. ASSUME NEW n \in 1..Len(seen)
        PROVE  First(n) >= 0 /\ First(n) + Length =< (IF loop = "gpu" THEN NBlocks ELSE 1) * shape.cells
    <3>1. PlaceOfCell(seen[n]) \in Nat /\ PlaceOfCell(seen[n]) + Length =< Blocks * shape.cells
      BY <2>2, <2>3, PlaceDigits
    <3>2. PICK x \in Nat : x = First(n) /\ x + Length =< Blocks * shape.cells
      BY <2>4, <3>1
    <3>3. x >= 0
      OBVIOUS
    <3>4. QED
      BY <3>2, <3>3 DEF Blocks
  <2>7. ASSUME NEW n \in 1..(Len(seen) - 1)
        PROVE  IF loop = "tiled" THEN \A k \in 1..n : First(k) # First(n + 1)
               ELSE First(n) + Length =< First(n + 1)
    <3>1. n \in 1..Len(seen) /\ n + 1 \in 1..Len(seen) /\ n < n + 1
      BY <2>3
    <3>2. CASE loop = "tiled"
      <4>1. SUFFICES ASSUME NEW k \in 1..n PROVE First(k) # First(n + 1)
        BY <3>2
      <4>2. k \in 1..Len(seen) /\ k < n + 1
        BY <2>3
      <4>3. seen[k] # seen[n + 1]
        BY <2>2, <3>1, <3>2, <4>2 DEF Ordered
      <4>4. Sooner(seen[k], seen[n + 1]) \/ Sooner(seen[n + 1], seen[k])
        BY <2>2, <2>3, <3>1, <4>2, <4>3, OneIsSooner
      <4>5. /\ Sooner(seen[k], seen[n + 1]) => PlaceOfCell(seen[k]) + Length =< PlaceOfCell(seen[n + 1])
            /\ Sooner(seen[n + 1], seen[k]) => PlaceOfCell(seen[n + 1]) + Length =< PlaceOfCell(seen[k])
            /\ PlaceOfCell(seen[k]) \in Nat /\ PlaceOfCell(seen[n + 1]) \in Nat
        BY <2>2, <2>3, <3>1, <4>2, PlaceDigits
      <4>6. PlaceOfCell(seen[k]) # PlaceOfCell(seen[n + 1])
        BY <2>5, <4>4, <4>5
      <4>7. QED
        BY <2>4, <3>1, <4>2, <4>6
    <3>3. CASE loop # "tiled"
      <4>1. Sooner(seen[n], seen[n + 1])
        BY <2>2, <3>1, <3>3 DEF Ordered
      <4>2. PlaceOfCell(seen[n]) + Length =< PlaceOfCell(seen[n + 1])
        BY <2>2, <2>3, <3>1, <4>1, PlaceDigits
      <4>3. QED
        BY <2>4, <3>1, <3>3, <4>2
    <3>4. QED
      BY <3>2, <3>3
  <2>8. broken => pc # "body"
    BY <2>1 DEF LoopInv, PassInv, TeamInv
  <2>9. ASSUME pc = "done", ~broken PROVE Visited = ToVisit
    <3>1. CASE TeamLoop
      BY <2>1, <2>9, <3>1, TeamVisitsAll DEF TeamInv, Visited
    <3>2. CASE ~TeamLoop
      <4>1. PassInv
        BY <2>1, <3>2 DEF LoopInv
      <4>2. Range(seen) = {c \in ToVisit : Reached(c)}
        BY <2>9, <4>1 DEF PassInv
      <4>3. \A c : Reached(c)
        BY <2>9 DEF Reached
      <4>4. QED
        BY <4>2, <4>3 DEF Visited
    <3>3. QED
      BY <3>1, <3>2
  <2>10. \A c \in Interior : c.i = shape.ox => CellIndex(shape, c) % lanes = 0
    BY <2>2, RowsAligned
  <2>11. {StoredIndex(shape, c) : c \in Interior} = 0..(shape.m * shape.m * shape.m - 1)
    BY <2>2, InteriorStored
  <2>12. QED
    BY <2>6, <2>7, <2>8, <2>9, <2>10, <2>11 DEF EachCellOnce
<1>4. QED
  BY <1>1, <1>2, <1>3, PTL DEF LoopSpec
=============================================================================
