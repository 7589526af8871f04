-------------------------- MODULE TreeIndexTheorems --------------------------
(***************************************************************************)
(* What the index arithmetic of TreeIndex means: children and parent are   *)
(* inverse, the box loop visits exactly the indices at distance one, and   *)
(* halving keeps neighbours neighbours.  The proofs about the tree rest on *)
(* these facts and never open the arithmetic again.                        *)
(*                                                                         *)
(* And what sums over finite sets are, SumFunction being a fold: by parts, *)
(* under other names, and modulo a number.                                 *)
(***************************************************************************)
EXTENDS TreeIndex, Functions, WellFoundedInduction, FiniteSetTheorems, TLAPS

\* 1 << (l + 1) is twice 1 << l, for the levels an int has room for.
LEMMA PowerStep ==
  ASSUME NEW l \in 0..29
  PROVE  2^l \in Nat /\ 2^(l + 1) = 2 * 2^l
<1>1. CASE l = 0 BY <1>1
<1>2. CASE l = 1 BY <1>2
<1>3. CASE l = 2 BY <1>3
<1>4. CASE l = 3 BY <1>4
<1>5. CASE l = 4 BY <1>5
<1>6. CASE l = 5 BY <1>6
<1>7. CASE l = 6 BY <1>7
<1>8. CASE l = 7 BY <1>8
<1>9. CASE l = 8 BY <1>9
<1>10. CASE l = 9 BY <1>10
<1>11. CASE l = 10 BY <1>11
<1>12. CASE l = 11 BY <1>12
<1>13. CASE l = 12 BY <1>13
<1>14. CASE l = 13 BY <1>14
<1>15. CASE l = 14 BY <1>15
<1>16. CASE l = 15 BY <1>16
<1>17. CASE l = 16 BY <1>17
<1>18. CASE l = 17 BY <1>18
<1>19. CASE l = 18 BY <1>19
<1>20. CASE l = 19 BY <1>20
<1>21. CASE l = 20 BY <1>21
<1>22. CASE l = 21 BY <1>22
<1>23. CASE l = 22 BY <1>23
<1>24. CASE l = 23 BY <1>24
<1>25. CASE l = 24 BY <1>25
<1>26. CASE l = 25 BY <1>26
<1>27. CASE l = 26 BY <1>27
<1>28. CASE l = 27 BY <1>28
<1>29. CASE l = 28 BY <1>29
<1>30. CASE l = 29 BY <1>30
<1>31. QED
    BY <1>1, <1>2, <1>3, <1>4, <1>5, <1>6, <1>7, <1>8, <1>9, <1>10, <1>11,
     <1>12, <1>13, <1>14, <1>15, <1>16, <1>17, <1>18, <1>19, <1>20, <1>21,
     <1>22, <1>23, <1>24, <1>25, <1>26, <1>27, <1>28, <1>29, <1>30

LEMMA IndexEquality ==
  ASSUME NEW p \in Index, NEW q \in Index, p.level = q.level,
         \A a \in Axes : p.ijk[a] = q.ijk[a]
  PROVE  p = q
BY DEF Index

LEMMA ChildOfParent ==
  ASSUME NEW p \in Index, NEW q \in Children(p)
  PROVE  /\ q \in Index
         /\ q.level = p.level + 1
         /\ Parent(q) = p
<1>1. PICK c \in 0..(NChildren - 1) : q = IndexChild(p, c)
  BY DEF Children
<1>2. c \in Nat
  BY <1>1, DimensionAssumption DEF NChildren, BitWeight
<1>3. \A a \in Axes : /\ (c \div BitWeight(a)) % 2 \in 0..1
                      /\ p.ijk[a] \in Int
  BY <1>2, DimensionAssumption DEF Axes, BitWeight, Index
<1>4. q \in Index /\ q.level = p.level + 1
  BY <1>1, <1>3 DEF IndexChild, Index
<1>5. \A a \in Axes : q.ijk[a] \div 2 = p.ijk[a]
  BY <1>1, <1>3 DEF IndexChild
<1>6. Parent(q) \in Index /\ Parent(q).level = p.level
  BY <1>3, <1>4, <1>5 DEF Parent, Index
<1>7. \A a \in Axes : Parent(q).ijk[a] = p.ijk[a]
  BY <1>5 DEF Parent
<1>8. QED
  BY <1>4, <1>6, <1>7, IndexEquality

LEMMA ParentIndex ==
  ASSUME NEW q \in Index, q.level > 0
  PROVE  /\ Parent(q) \in Index
         /\ Parent(q).level = q.level - 1
         /\ \A a \in Axes : Parent(q).ijk[a] = q.ijk[a] \div 2
BY DEF Parent, Index

\* Every combination of bits is the number of some child.
LEMMA BitsOfChild ==
  ASSUME NEW b \in [Axes -> 0..1]
  PROVE  \E c \in 0..(NChildren - 1) :
           \A a \in Axes : (c \div BitWeight(a)) % 2 = b[a]
<1> DEFINE c == (IF 1 \in Axes THEN b[1] ELSE 0)
                + 2 * (IF 2 \in Axes THEN b[2] ELSE 0)
                + 4 * (IF 3 \in Axes THEN b[3] ELSE 0)
<1>1. \A a \in Axes : b[a] \in 0..1
  OBVIOUS
<1>2. c \in 0..(NChildren - 1)
  BY <1>1, DimensionAssumption DEF Axes, NChildren, BitWeight
<1>3. \A a \in Axes : (c \div BitWeight(a)) % 2 = b[a]
  BY <1>1, DimensionAssumption DEF Axes, BitWeight
<1>4. QED
  BY <1>2, <1>3

\* A node below the root is among the children of its parent.
LEMMA ChildOfItsParent ==
  ASSUME NEW q \in Index, q.level > 0
  PROVE  q \in Children(Parent(q))
<1> DEFINE b == [a \in Axes |-> q.ijk[a] % 2]
<1>1. \A a \in Axes : q.ijk[a] \in Int
  BY DEF Index
<1>2. b \in [Axes -> 0..1]
  BY <1>1
<1>3. PICK c \in 0..(NChildren - 1) :
        \A a \in Axes : (c \div BitWeight(a)) % 2 = b[a]
  BY <1>2, BitsOfChild
<1>4. IndexChild(Parent(q), c) \in Children(Parent(q))
  BY <1>3 DEF Children
<1>5. IndexChild(Parent(q), c) \in Index
  BY <1>4, ParentIndex, ChildOfParent
<1>6. \A a \in Axes : IndexChild(Parent(q), c).ijk[a] = q.ijk[a]
  BY <1>1, <1>3 DEF IndexChild, Parent
<1>7. IndexChild(Parent(q), c).level = q.level
  BY DEF IndexChild, Parent, Index
<1>8. QED
  BY <1>4, <1>5, <1>6, <1>7, IndexEquality

\* Children (p) are exactly the indices whose parent is p.
LEMMA ChildrenAreThoseOfParent ==
  ASSUME NEW p \in Index, NEW q \in Index, q.level > 0
  PROVE  q \in Children(p) <=> Parent(q) = p
BY ChildOfParent, ChildOfItsParent

LEMMA BoxIndexType ==
  ASSUME NEW p \in Index, NEW m \in 0..(BoxSize - 1)
  PROVE  /\ IndexInBox(p, m) \in Index
         /\ IndexInBox(p, m).level = p.level
         /\ \A a \in Axes : /\ IndexInBox(p, m).ijk[a] \in Int
                            /\ p.ijk[a] \in Int
                            /\ IndexInBox(p, m).ijk[a] - p.ijk[a] \in -1..1
<1>1. m \in Nat
  BY DimensionAssumption DEF BoxSize, BoxWeight
<1>2. \A a \in Axes : /\ (m \div BoxWeight(a)) % 3 \in 0..2
                      /\ p.ijk[a] \in Int
  BY <1>1, DimensionAssumption DEF Axes, BoxWeight, Index
<1>3. QED
  BY <1>2 DEF IndexInBox, Index

\* The loop over the box meets every index at distance one or less.
LEMMA BoxComplete ==
  ASSUME NEW p \in Index, NEW q \in Index, p.level = q.level,
         \A a \in Axes : q.ijk[a] - p.ijk[a] \in -1..1
  PROVE  \E m \in 0..(BoxSize - 1) : q = IndexInBox(p, m)
<1> DEFINE o(a) == IF a \in Axes THEN q.ijk[a] - p.ijk[a] + 1 ELSE 0
           m == o(1) + 3 * o(2) + 9 * o(3)
<1>1. \A a \in Axes : q.ijk[a] \in Int /\ p.ijk[a] \in Int
  BY DEF Index
<1>2. \A a \in 1..3 : o(a) \in 0..2
  BY <1>1
<1>3. m \in 0..(BoxSize - 1)
  BY <1>2, DimensionAssumption DEF Axes, BoxSize, BoxWeight
<1>4. \A a \in Axes : (m \div BoxWeight(a)) % 3 = o(a)
  <2> HIDE DEF o
  <2>1. QED
    BY <1>2, DimensionAssumption DEF Axes, BoxWeight
<1>5. \A a \in Axes : IndexInBox(p, m).ijk[a] = q.ijk[a]
  BY <1>1, <1>4 DEF IndexInBox
<1>6. IndexInBox(p, m) \in Index /\ IndexInBox(p, m).level = p.level
  BY <1>3, BoxIndexType
<1>7. QED
  BY <1>3, <1>5, <1>6, IndexEquality

\* Only the middle slot of the box is the index itself.
LEMMA MiddleOfBox ==
  ASSUME NEW p \in Index, NEW m \in 0..(BoxSize - 1)
  PROVE  IndexInBox(p, m) = p <=> m = BoxSize \div 2
<1>1. m \in Nat
  BY DimensionAssumption DEF BoxSize, BoxWeight
<1>2. \A a \in Axes : p.ijk[a] \in Int
  BY DEF Index
<1>3. IndexInBox(p, m) = p <=> \A a \in Axes : IndexInBox(p, m).ijk[a] = p.ijk[a]
  BY BoxIndexType, IndexEquality
<1>4. \A a \in Axes : IndexInBox(p, m).ijk[a] = p.ijk[a]
                        <=> (m \div BoxWeight(a)) % 3 = 1
  BY <1>1, <1>2, DimensionAssumption DEF IndexInBox, Axes, BoxWeight
<1>5. (\A a \in Axes : (m \div BoxWeight(a)) % 3 = 1) <=> m = BoxSize \div 2
  <2>1. CASE Dimension = 1
    <3>1. Axes = {1} /\ BoxSize = 3 /\ BoxWeight(1) = 1
      BY <2>1 DEF Axes, BoxSize, BoxWeight
    <3>2. QED
      BY <1>1, <3>1
  <2>2. CASE Dimension = 2
    <3>1. /\ Axes = {1, 2} /\ BoxSize = 9
          /\ BoxWeight(1) = 1 /\ BoxWeight(2) = 3
      BY <2>2 DEF Axes, BoxSize, BoxWeight
    <3>2. QED
      BY <1>1, <3>1
  <2>3. CASE Dimension = 3
    <3>1. /\ Axes = {1, 2, 3} /\ BoxSize = 27
          /\ BoxWeight(1) = 1 /\ BoxWeight(2) = 3 /\ BoxWeight(3) = 9
      BY <2>3 DEF Axes, BoxSize, BoxWeight
    <3>2. QED
      BY <1>1, <3>1
  <2>4. QED
    BY <2>1, <2>2, <2>3, DimensionAssumption
<1>6. QED
  BY <1>3, <1>4, <1>5

\* neighbors_of (p, 1) visits exactly the other indices at distance one.
LEMMA NeighborMeaning ==
  ASSUME NEW p \in Index, NEW q
  PROVE  q \in Neighbors(p) <=>
           /\ q \in Index
           /\ q.level = p.level
           /\ q # p
           /\ \A a \in Axes : q.ijk[a] - p.ijk[a] \in -1..1
<1>1. ASSUME q \in Neighbors(p)
      PROVE  /\ q \in Index
             /\ q.level = p.level
             /\ q # p
             /\ \A a \in Axes : q.ijk[a] - p.ijk[a] \in -1..1
  <2>1. PICK m \in NeighborSlots : q = IndexInBox(p, m)
    BY <1>1 DEF Neighbors
  <2>2. QED
    BY <2>1, BoxIndexType, MiddleOfBox DEF NeighborSlots
<1>2. ASSUME q \in Index, q.level = p.level, q # p,
             \A a \in Axes : q.ijk[a] - p.ijk[a] \in -1..1
      PROVE  q \in Neighbors(p)
  <2>1. PICK m \in 0..(BoxSize - 1) : q = IndexInBox(p, m)
    BY <1>2, BoxComplete
  <2>2. m \in NeighborSlots
    BY <1>2, <2>1, MiddleOfBox DEF NeighborSlots
  <2>3. QED
    BY <2>1, <2>2 DEF Neighbors
<1>3. QED
  BY <1>1, <1>2

LEMMA NeighborSymmetric ==
  ASSUME NEW p \in Index, NEW q \in Neighbors(p)
  PROVE  q \in Index /\ p \in Neighbors(q)
<1>1. /\ q \in Index
      /\ q.level = p.level
      /\ q # p
      /\ \A a \in Axes : q.ijk[a] - p.ijk[a] \in -1..1
  BY NeighborMeaning
<1>2. \A a \in Axes : p.ijk[a] - q.ijk[a] \in -1..1
  BY <1>1 DEF Index
<1>3. QED
  BY <1>1, <1>2, NeighborMeaning

\* Halving keeps neighbours neighbours, or makes them siblings' parent.
LEMMA ParentsOfNeighbors ==
  ASSUME NEW p \in Index, NEW q \in Neighbors(p), p.level > 0
  PROVE  Parent(q) = Parent(p) \/ Parent(q) \in Neighbors(Parent(p))
<1>1. /\ q \in Index
      /\ q.level = p.level
      /\ \A a \in Axes : q.ijk[a] - p.ijk[a] \in -1..1
  BY NeighborMeaning
<1>2. \A a \in Axes : p.ijk[a] \in Int /\ q.ijk[a] \in Int
  BY <1>1 DEF Index
<1>3. /\ Parent(p) \in Index /\ Parent(q) \in Index
      /\ Parent(p).level = Parent(q).level
  BY <1>1, ParentIndex
<1>4. \A a \in Axes : Parent(q).ijk[a] - Parent(p).ijk[a] \in -1..1
  BY <1>1, <1>2, ParentIndex
<1>5. QED
  BY <1>3, <1>4, NeighborMeaning

-----------------------------------------------------------------------------
(* The domain. *)

\* A child of an index inside the domain is inside.
LEMMA ChildInside ==
  ASSUME NEW p \in Index, NEW q \in Children(p), p.level =< 29, Inside(p)
  PROVE  Inside(q)
<1>1. /\ q \in Index /\ q.level = p.level + 1 /\ Parent(q) = p
  BY ChildOfParent
<1>2. 2^p.level \in Nat /\ 2^q.level = 2 * 2^p.level
  <2>1. p.level \in 0..29
    BY DEF Index
  <2>2. QED
    BY <1>1, <2>1, PowerStep
<1>3. \A a \in Axes : q.ijk[a] \in Int /\ p.ijk[a] = q.ijk[a] \div 2
  BY <1>1, ParentIndex DEF Index
<1>4. \A a \in Axes : p.ijk[a] >= 0 /\ p.ijk[a] < 2^p.level
  BY DEF Inside
<1>5. \A a \in Axes : q.ijk[a] >= 0 /\ q.ijk[a] < 2^q.level
  BY <1>2, <1>3, <1>4
<1>6. QED
  BY <1>5 DEF Inside

\* The parent of an index inside the domain is inside.
LEMMA ParentInside ==
  ASSUME NEW q \in Index, q.level \in 1..30, Inside(q)
  PROVE  Inside(Parent(q))
<1>1. Parent(q).level \in 0..29 /\ q.level = Parent(q).level + 1
  BY ParentIndex
<1>2. 2^Parent(q).level \in Nat /\ 2^q.level = 2 * 2^Parent(q).level
  BY <1>1, PowerStep
<1>3. \A a \in Axes : q.ijk[a] \in Int /\ Parent(q).ijk[a] = q.ijk[a] \div 2
  BY ParentIndex DEF Index
<1>4. \A a \in Axes : q.ijk[a] >= 0 /\ q.ijk[a] < 2^q.level
  BY DEF Inside
<1>5. \A a \in Axes : Parent(q).ijk[a] >= 0 /\ Parent(q).ijk[a] < 2^Parent(q).level
  BY <1>2, <1>3, <1>4
<1>6. QED
  BY <1>5 DEF Inside

\* The root is the only index of level 0 inside the domain.
LEMMA OnlyRootAtTop ==
  /\ Root \in Index /\ Root.level = 0 /\ Inside(Root)
  /\ \A q \in Index : q.level = 0 /\ Inside(q) => q = Root
<1>1. 2^0 = 1
  OBVIOUS
<1>2. Root \in Index /\ Root.level = 0 /\ \A a \in Axes : Root.ijk[a] = 0
  BY DEF Root, Index
<1>3. Inside(Root)
  BY <1>1, <1>2 DEF Inside
<1>4. ASSUME NEW q \in Index, q.level = 0, Inside(q)
      PROVE  q = Root
  <2>1. \A a \in Axes : q.ijk[a] \in Int /\ q.ijk[a] = 0
    BY <1>1, <1>4 DEF Inside, Index
  <2>2. QED
    BY <1>2, <1>4, <2>1, IndexEquality
<1>5. QED
  BY <1>2, <1>3, <1>4

-----------------------------------------------------------------------------
(* Halving again and again: the ancestors of an index.                         *)

LEMMA QuotientUnique ==
  ASSUME NEW x \in Int, NEW y \in Nat \ {0}, NEW q \in Int, y * q =< x, x < y * q + y
  PROVE  x \div y = q
OBVIOUS

LEMMA QuotientMeaning ==
  ASSUME NEW x \in Int, NEW y \in Nat \ {0}
  PROVE  x \div y \in Int /\ y * (x \div y) =< x /\ x < y * (x \div y) + y
OBVIOUS

LEMMA HalveTwice ==
  ASSUME NEW x \in Int, NEW y \in Nat \ {0}
  PROVE  (x \div y) \div 2 = x \div (2 * y)
<1>1. PICK q \in Int : q = x \div y
  BY QuotientMeaning
<1>2. PICK h \in Int : h = q \div 2
  BY QuotientMeaning
<1>3. q = 2 * h \/ q = 2 * h + 1
  BY <1>2
<1>4. y * q =< x /\ x < y * q + y
  BY <1>1, QuotientMeaning
<1>5. PICK z \in Int : z = y * h
  OBVIOUS
<1>6. y * q = 2 * z \/ y * q = 2 * z + y
  BY <1>3, <1>5
<1>7. (2 * y) * h = 2 * z
  BY <1>5
<1>8. (2 * y) * h =< x /\ x < (2 * y) * h + 2 * y
  BY <1>4, <1>6, <1>7
<1>9. x \div (2 * y) = h
  <2>1. 2 * y \in Nat \ {0}
    OBVIOUS
  <2>2. QED
    BY <1>8, <2>1, QuotientUnique
<1>10. QED
  BY <1>1, <1>2, <1>9

\* The ancestor d levels up.
Ancestor(p, d) == [level |-> p.level - d, ijk |-> [a \in Axes |-> p.ijk[a] \div 2^d]]

LEMMA PowerPositive ==
  ASSUME NEW l \in 0..30
  PROVE  2^l \in Nat \ {0}
<1>1. CASE l = 0
  BY <1>1
<1>2. CASE l = 1
  BY <1>2
<1>3. CASE l = 2
  BY <1>3
<1>4. CASE l = 3
  BY <1>4
<1>5. CASE l = 4
  BY <1>5
<1>6. CASE l = 5
  BY <1>6
<1>7. CASE l = 6
  BY <1>7
<1>8. CASE l = 7
  BY <1>8
<1>9. CASE l = 8
  BY <1>9
<1>10. CASE l = 9
  BY <1>10
<1>11. CASE l = 10
  BY <1>11
<1>12. CASE l = 11
  BY <1>12
<1>13. CASE l = 12
  BY <1>13
<1>14. CASE l = 13
  BY <1>14
<1>15. CASE l = 14
  BY <1>15
<1>16. CASE l = 15
  BY <1>16
<1>17. CASE l = 16
  BY <1>17
<1>18. CASE l = 17
  BY <1>18
<1>19. CASE l = 18
  BY <1>19
<1>20. CASE l = 19
  BY <1>20
<1>21. CASE l = 20
  BY <1>21
<1>22. CASE l = 21
  BY <1>22
<1>23. CASE l = 22
  BY <1>23
<1>24. CASE l = 23
  BY <1>24
<1>25. CASE l = 24
  BY <1>25
<1>26. CASE l = 25
  BY <1>26
<1>27. CASE l = 26
  BY <1>27
<1>28. CASE l = 27
  BY <1>28
<1>29. CASE l = 28
  BY <1>29
<1>30. CASE l = 29
  BY <1>30
<1>31. CASE l = 30
  BY <1>31
<1>32. QED
  BY <1>1, <1>2, <1>3, <1>4, <1>5, <1>6, <1>7, <1>8, <1>9, <1>10, <1>11, <1>12, <1>13, <1>14, <1>15, <1>16, <1>17, <1>18, <1>19, <1>20, <1>21, <1>22, <1>23, <1>24, <1>25, <1>26, <1>27, <1>28, <1>29, <1>30, <1>31

LEMMA AncestorIndex ==
  ASSUME NEW p \in Index, NEW d \in 0..30, d =< p.level
  PROVE  /\ Ancestor(p, d) \in Index
         /\ Ancestor(p, d).level = p.level - d
         /\ \A a \in Axes : Ancestor(p, d).ijk[a] = p.ijk[a] \div 2^d
         /\ 2^d \in Nat \ {0}
<1>1. 2^d \in Nat \ {0}
  BY PowerPositive
<1>2. QED
  BY <1>1, QuotientMeaning DEF Ancestor, Index

LEMMA AncestorsByParents ==
  ASSUME NEW p \in Index, NEW d \in 0..29, d < p.level
  PROVE  Ancestor(p, 0) = p /\ Parent(Ancestor(p, d)) = Ancestor(p, d + 1)
<1>1. Ancestor(p, 0) = p
  <2>1. 2^0 = 1 /\ \A x \in Int : x \div 1 = x
    OBVIOUS
  <2>2. \A a \in Axes : Ancestor(p, 0).ijk[a] = p.ijk[a]
    BY <2>1 DEF Ancestor, Index
  <2>3. Ancestor(p, 0) \in Index /\ Ancestor(p, 0).level = p.level
    BY AncestorIndex DEF Index
  <2>4. QED
    BY <2>2, <2>3, IndexEquality
<1>2. Parent(Ancestor(p, d)) = Ancestor(p, d + 1)
  <2>0. /\ d \in 0..30 /\ d =< p.level
        /\ d + 1 \in 0..30 /\ d + 1 =< p.level
    BY DEF Index
  <2>1. /\ Ancestor(p, d) \in Index /\ Ancestor(p, d).level = p.level - d
        /\ \A a \in Axes : Ancestor(p, d).ijk[a] = p.ijk[a] \div 2^d
        /\ 2^d \in Nat \ {0}
    BY <2>0, AncestorIndex
  <2>2. /\ Ancestor(p, d + 1) \in Index /\ Ancestor(p, d + 1).level = p.level - (d + 1)
        /\ \A a \in Axes : Ancestor(p, d + 1).ijk[a] = p.ijk[a] \div 2^(d + 1)
    BY <2>0, AncestorIndex
  <2>3. 2^(d + 1) = 2 * 2^d
    BY PowerStep
  <2>4. /\ Parent(Ancestor(p, d)) \in Index /\ Parent(Ancestor(p, d)).level = p.level - (d + 1)
        /\ \A a \in Axes : Parent(Ancestor(p, d)).ijk[a] = Ancestor(p, d).ijk[a] \div 2
    BY <2>1, ParentIndex DEF Index
  <2>5. \A a \in Axes : (p.ijk[a] \div 2^d) \div 2 = p.ijk[a] \div (2 * 2^d)
    BY <2>1, HalveTwice DEF Index
  <2>6. \A a \in Axes : Parent(Ancestor(p, d)).ijk[a] = Ancestor(p, d + 1).ijk[a]
    BY <2>1, <2>2, <2>3, <2>4, <2>5
  <2>7. QED
    BY <2>2, <2>4, <2>6, IndexEquality
<1>3. QED
  BY <1>1, <1>2

\* Cubes that touch: the ancestor of the smaller one, half as wide as the larger,
\* is a child of the larger or lies beside one.
LEMMA TouchedChild ==
  ASSUME NEW p \in Index, NEW q \in Index, NEW d \in 1..29, p.level = q.level + 1 + d, Touch(p, q)
  PROVE  \E r \in Children(q) : r = Ancestor(p, d) \/ r \in Neighbors(Ancestor(p, d))
<1> DEFINE A == Ancestor(p, d)
<1>1. p.level \in Nat /\ q.level \in Nat /\ \A a \in Axes : p.ijk[a] \in Int /\ q.ijk[a] \in Int
  BY DEF Index
<1>2. /\ A \in Index /\ A.level = q.level + 1 /\ 2^d \in Nat \ {0}
      /\ \A a \in Axes : A.ijk[a] = p.ijk[a] \div 2^d
  <2>1. d \in 0..30 /\ d =< p.level /\ p.level - d = q.level + 1
    BY <1>1
  <2>2. QED
    BY <2>1, AncestorIndex
<1>3. Scale(p, p.level) = 1 /\ Scale(q, p.level) = 2 * 2^d
  <2>1. p.level - p.level = 0 /\ p.level - q.level = d + 1 /\ 2^0 = 1
    BY <1>1
  <2>2. d \in 0..29
    OBVIOUS
  <2>3. 2^(d + 1) = 2 * 2^d
    BY <2>2, PowerStep
  <2>4. QED
    BY <2>1, <2>3 DEF Scale
<1>4. ASSUME NEW a \in Axes PROVE A.ijk[a] \in (2 * q.ijk[a] - 1)..(2 * q.ijk[a] + 2)
  <2>1. PICK x \in Int, y \in Int, z \in Nat \ {0} : x = p.ijk[a] /\ y = q.ijk[a] /\ z = 2^d
    BY <1>1, <1>2
  <2>2. x * 1 =< (y + 1) * (2 * z) /\ y * (2 * z) =< (x + 1) * 1
    BY <1>1, <1>3, <2>1 DEF Touch
  <2>3. PICK w \in Int : w = x \div z
    BY QuotientMeaning
  <2>4. z * w =< x /\ x < z * w + z
    BY <2>3, QuotientMeaning
  <2>5. z * w =< z * (2 * y + 2) /\ z * (2 * y) =< z * (w + 1)
    BY <2>2, <2>4
  <2>6. \A s, t \in Int : z * s =< z * t => s =< t
    OBVIOUS
  <2>7. w =< 2 * y + 2 /\ 2 * y =< w + 1
    BY <2>5, <2>6
  <2>8. QED
    BY <1>2, <2>1, <2>3, <2>7
<1>5. PICK b \in [Axes -> 0..1] : \A a \in Axes : b[a] = IF A.ijk[a] =< 2 * q.ijk[a] THEN 0 ELSE 1
  <2>1. [a \in Axes |-> IF A.ijk[a] =< 2 * q.ijk[a] THEN 0 ELSE 1] \in [Axes -> 0..1]
    OBVIOUS
  <2>2. QED
    BY <2>1
<1>6. PICK c \in 0..(NChildren - 1) : \A a \in Axes : (c \div BitWeight(a)) % 2 = b[a]
  BY BitsOfChild
<1> DEFINE r == IndexChild(q, c)
<1>7. r \in Children(q) /\ \A a \in Axes : r.ijk[a] = 2 * q.ijk[a] + b[a]
  BY <1>6 DEF Children, IndexChild
<1>8. r \in Index /\ r.level = A.level
  BY <1>2, <1>7, ChildOfParent
<1> HIDE DEF A, r
<1>9. \A a \in Axes : r.ijk[a] - A.ijk[a] \in -1..1
  <2>1. SUFFICES ASSUME NEW a \in Axes PROVE r.ijk[a] - A.ijk[a] \in -1..1
    OBVIOUS
  <2>2. q.ijk[a] \in Int /\ A.ijk[a] \in Int /\ r.ijk[a] \in Int
    BY <1>1, <1>2, <1>8 DEF Index
  <2>3. PICK x \in Int, y \in Int, z \in Int : x = A.ijk[a] /\ y = q.ijk[a] /\ z = r.ijk[a]
    BY <2>2
  <2>4. x \in (2 * y - 1)..(2 * y + 2)
    BY <1>4, <2>3
  <2>5. z = 2 * y + b[a] /\ b[a] = IF x =< 2 * y THEN 0 ELSE 1
    BY <1>5, <1>7, <2>3
  <2>6. z - x \in -1..1
    BY <2>4, <2>5
  <2>7. QED
    BY <2>3, <2>6
<1>10. r = A \/ r \in Neighbors(A)
  BY <1>2, <1>8, <1>9, NeighborMeaning
<1>11. QED
  BY <1>7, <1>10 DEF A

-----------------------------------------------------------------------------
(* Covering. *)

LEMMA LeastNatural ==
  ASSUME NEW S \in SUBSET Nat, S # {}
  PROVE  \E x \in S : \A y \in S : x =< y
<1>1. \E x \in S : \A y \in S : ~(<<y, x>> \in OpToRel(<, Nat))
  BY NatLessThanWellFounded, WFMin
<1>2. PICK x \in S : \A y \in S : ~(<<y, x>> \in OpToRel(<, Nat))
  BY <1>1
<1>3. \A y \in S : ~(y < x)
  BY <1>2 DEF OpToRel
<1>4. QED
  BY <1>3

LEMMA OwnAncestor ==
  ASSUME NEW p \in Index
  PROVE  Ancestor(p, 0) = p
<1>1. 2^0 = 1 /\ \A x \in Int : x \div 1 = x
  OBVIOUS
<1>2. \A a \in Axes : Ancestor(p, 0).ijk[a] = p.ijk[a]
  BY <1>1 DEF Ancestor, Index
<1>3. 0 \in 0..30 /\ 0 =< p.level /\ p.level - 0 = p.level
  BY DEF Index
<1>4. Ancestor(p, 0) \in Index /\ Ancestor(p, 0).level = p.level
  BY <1>3, AncestorIndex
<1>5. QED
  BY <1>2, <1>4, IndexEquality

\* What covers an index is an ancestor of it, or it.
LEMMA CoveringIsAncestor ==
  ASSUME NEW a \in Index, NEW q \in Index, q.level =< 30
  PROVE  Covers(a, q) <=>
           \E e \in 0..30 : e =< q.level /\ e = q.level - a.level /\ a = Ancestor(q, e)
<1>1. a.level \in Nat /\ q.level \in Nat
  BY DEF Index
<1>2. ASSUME Covers(a, q)
      PROVE  \E e \in 0..30 : e =< q.level /\ e = q.level - a.level /\ a = Ancestor(q, e)
  <2>1. PICK e \in 0..30 : e = q.level - a.level /\ e =< q.level /\ a.level = q.level - e
    <3>1. a.level =< q.level
      BY <1>2 DEF Covers
    <3>2. /\ q.level - a.level \in 0..30 /\ q.level - a.level =< q.level
          /\ a.level = q.level - (q.level - a.level)
      BY <1>1, <3>1
    <3>3. QED
      BY <3>2
  <2>2. /\ Ancestor(q, e) \in Index /\ Ancestor(q, e).level = q.level - e
        /\ \A x \in Axes : Ancestor(q, e).ijk[x] = q.ijk[x] \div 2^e
    BY <2>1, AncestorIndex
  <2>3. \A x \in Axes : a.ijk[x] = q.ijk[x] \div 2^e
    BY <1>2, <2>1 DEF Covers
  <2>4. \A x \in Axes : Ancestor(q, e).ijk[x] = a.ijk[x]
    BY <2>2, <2>3
  <2>5. Ancestor(q, e) = a
    BY <2>1, <2>2, <2>4, IndexEquality
  <2>6. QED
    BY <2>1, <2>5
<1>3. ASSUME NEW e \in 0..30, e =< q.level, e = q.level - a.level, a = Ancestor(q, e)
      PROVE  Covers(a, q)
  <2>1. a.level =< q.level
    BY <1>1, <1>3
  <2>2. \A x \in Axes : a.ijk[x] = q.ijk[x] \div 2^e
    BY <1>3 DEF Ancestor
  <2>3. QED
    BY <1>3, <2>1, <2>2 DEF Covers
<1>4. QED
  BY <1>2, <1>3

LEMMA CoversItself ==
  ASSUME NEW p \in Index, p.level =< 30
  PROVE  Covers(p, p)
<1>1. p.level \in Nat /\ 0 \in 0..30 /\ 0 =< p.level /\ 0 = p.level - p.level
  BY DEF Index
<1>2. QED
  BY <1>1, OwnAncestor, CoveringIsAncestor

LEMMA CoversFromParent ==
  ASSUME NEW a \in Index, NEW q \in Index, q.level =< 30, a.level > 0, Covers(a, q)
  PROVE  Covers(Parent(a), q)
<1>1. PICK e \in 0..30 : e =< q.level /\ e = q.level - a.level /\ a = Ancestor(q, e)
  BY CoveringIsAncestor
<1>2. Parent(a) \in Index /\ Parent(a).level = a.level - 1
  BY ParentIndex
<1>3. /\ e \in 0..29 /\ e < q.level /\ e + 1 \in 0..30 /\ e + 1 =< q.level
      /\ e + 1 = q.level - Parent(a).level
  BY <1>1, <1>2 DEF Index
<1>4. Parent(a) = Ancestor(q, e + 1)
  BY <1>1, <1>3, AncestorsByParents
<1>5. QED
  BY <1>2, <1>3, <1>4, CoveringIsAncestor

\* Going up from a cell, one stays among cells whose parents are cells.
LEMMA AncestorsInside ==
  ASSUME NEW S, \A q \in S : q.level > 0 => Parent(q) \in S,
         NEW p \in Index, p.level =< 30, NEW d \in 0..30, d =< p.level,
         NEW e \in 0..d, Ancestor(p, e) \in S
  PROVE  Ancestor(p, d) \in S
<1> DEFINE Astray == {k \in e..d : Ancestor(p, k) \notin S}
<1>1. p.level \in Nat
  BY DEF Index
<1>2. SUFFICES ASSUME Astray # {} PROVE FALSE
  OBVIOUS
<1>3. PICK k \in Astray : \A x \in Astray : k =< x
  <2>1. Astray \subseteq Nat
    OBVIOUS
  <2>2. QED
    BY <1>2, <2>1, LeastNatural
<1>4. /\ k - 1 \in 0..29 /\ k - 1 \in 0..30 /\ k - 1 < p.level /\ (k - 1) + 1 = k
      /\ k - 1 \in e..d /\ ~(k =< k - 1)
  BY <1>1, <1>3
<1>5. Ancestor(p, k - 1) \in S
  BY <1>3, <1>4
<1>6. Ancestor(p, k - 1).level > 0
  <2>1. Ancestor(p, k - 1).level = p.level - (k - 1)
    BY DEF Ancestor
  <2>2. QED
    BY <1>1, <1>4, <2>1
<1>7. Parent(Ancestor(p, k - 1)) = Ancestor(p, k)
  BY <1>4, AncestorsByParents
<1>8. QED
  BY <1>3, <1>5, <1>6, <1>7

\* An index that covers another one is it, or has a child on the way to it.
LEMMA CoveredFromAChild ==
  ASSUME NEW a \in Index, NEW q \in Index, q.level =< 30, Covers(a, q)
  PROVE  a = q \/ \E d \in 0..29 : /\ d < q.level /\ q.level - d = a.level + 1
                                   /\ Ancestor(q, d) \in Children(a)
                                   /\ Covers(Ancestor(q, d), q)
<1>1. a.level \in Nat /\ q.level \in Nat
  BY DEF Index
<1>2. PICK e \in 0..30 : e =< q.level /\ e = q.level - a.level /\ a = Ancestor(q, e)
  BY CoveringIsAncestor
<1>3. CASE e = 0
  BY <1>2, <1>3, OwnAncestor
<1>4. CASE e # 0
  <2>1. /\ e - 1 \in 0..29 /\ e - 1 < q.level /\ (e - 1) + 1 = e /\ e - 1 \in 0..30
        /\ e - 1 =< q.level /\ q.level - (e - 1) = a.level + 1
    BY <1>1, <1>2, <1>4
  <2>2. Parent(Ancestor(q, e - 1)) = a
    BY <1>2, <2>1, AncestorsByParents
  <2>3. /\ Ancestor(q, e - 1) \in Index /\ Ancestor(q, e - 1).level = q.level - (e - 1)
        /\ Ancestor(q, e - 1).level > 0
    <3>1. Ancestor(q, e - 1) \in Index /\ Ancestor(q, e - 1).level = q.level - (e - 1)
      BY <2>1, AncestorIndex
    <3>2. QED
      BY <1>1, <2>1, <3>1
  <2>4. Ancestor(q, e - 1) \in Children(a)
    BY <2>2, <2>3, ChildrenAreThoseOfParent
  <2>5. e - 1 = q.level - Ancestor(q, e - 1).level
    BY <1>1, <1>2, <2>3
  <2>6. Covers(Ancestor(q, e - 1), q)
    BY <2>1, <2>3, <2>5, CoveringIsAncestor
  <2>7. QED
    BY <2>1, <2>4, <2>6
<1>5. QED
  BY <1>3, <1>4

-----------------------------------------------------------------------------
(* How many children a node has. *)

LEMMA NChildrenType == NChildren \in Nat
BY DimensionAssumption DEF NChildren, BitWeight

LEMMA ChildrenDiffer ==
  ASSUME NEW p \in Index, NEW c \in 0..(NChildren - 1), NEW d \in 0..(NChildren - 1),
         IndexChild(p, c) = IndexChild(p, d)
  PROVE  c = d
<1>1. \A a \in Axes : (c \div BitWeight(a)) % 2 = (d \div BitWeight(a)) % 2
  <2>1. SUFFICES ASSUME NEW a \in Axes
                 PROVE  (c \div BitWeight(a)) % 2 = (d \div BitWeight(a)) % 2
    OBVIOUS
  <2>2. IndexChild(p, c).ijk[a] = IndexChild(p, d).ijk[a]
    OBVIOUS
  <2>3. 2 * p.ijk[a] + ((c \div BitWeight(a)) % 2) = 2 * p.ijk[a] + ((d \div BitWeight(a)) % 2)
    BY <2>2 DEF IndexChild
  <2>4. /\ p.ijk[a] \in Int
        /\ (c \div BitWeight(a)) % 2 \in Int /\ (d \div BitWeight(a)) % 2 \in Int
    BY SMTT(30), DimensionAssumption DEF Index, Axes, BitWeight, NChildren
  <2>5. QED
    BY <2>3, <2>4
<1>2. CASE Dimension = 1
  BY <1>1, <1>2 DEF Axes, BitWeight, NChildren
<1>3. CASE Dimension = 2
  BY <1>1, <1>3 DEF Axes, BitWeight, NChildren
<1>4. CASE Dimension = 3
  BY <1>1, <1>4 DEF Axes, BitWeight, NChildren
<1>5. QED
  BY <1>2, <1>3, <1>4, DimensionAssumption

LEMMA FamilySize ==
  ASSUME NEW p \in Index
  PROVE  IsFiniteSet(Children(p)) /\ Cardinality(Children(p)) = NChildren
<1> DEFINE numbers == 0..(NChildren - 1)
           f == [c \in numbers |-> IndexChild(p, c)]
<1>1. NChildren \in Nat
  BY NChildrenType
<1>2. IsFiniteSet(numbers) /\ Cardinality(numbers) = NChildren
  BY <1>1, FS_Interval
<1>3. f \in Injection(numbers, Children(p))
  BY ChildrenDiffer DEF Injection, IsInjective, Children
<1>4. f \in Surjection(numbers, Children(p))
  BY DEF Surjection, Children
<1>5. QED
  BY <1>2, <1>3, <1>4, FS_Surjection

-----------------------------------------------------------------------------
(* Counting sets with nothing in common, and what is left of a set. *)

LEMMA DisjointUnion ==
  ASSUME NEW S, NEW T, IsFiniteSet(S), IsFiniteSet(T), S \cap T = {}
  PROVE  /\ IsFiniteSet(S \cup T)
         /\ Cardinality(S \cup T) = Cardinality(S) + Cardinality(T)
<1>1. Cardinality(S) \in Nat /\ Cardinality(T) \in Nat
  BY FS_CardinalityType
<1>2. Cardinality(S \cap T) = 0
  BY FS_EmptySet, Zenon
<1>3. /\ IsFiniteSet(S \cup T)
      /\ Cardinality(S \cup T) = Cardinality(S) + Cardinality(T) - Cardinality(S \cap T)
  BY FS_Union, Zenon
<1>4. QED
  BY <1>1, <1>2, <1>3

LEMMA PartRemoved ==
  ASSUME NEW S, NEW T, IsFiniteSet(S), T \subseteq S
  PROVE  /\ IsFiniteSet(S \ T)
         /\ Cardinality(S \ T) = Cardinality(S) - Cardinality(T)
<1>1. S \cap T = T
  OBVIOUS
<1>2. IsFiniteSet(S \ T) /\ Cardinality(S \ T) = Cardinality(S) - Cardinality(S \cap T)
  BY FS_Difference, Zenon
<1>3. QED
  BY <1>1, <1>2, Zenon

-----------------------------------------------------------------------------
(* Sums over finite sets. *)

\* A set of subsets of a finite set has one from which no element can be taken.
LEMMA MinimalSubset ==
  ASSUME NEW S, IsFiniteSet(S), NEW B \in SUBSET (SUBSET S), B # {}
  PROVE  \E T \in B : \A x \in T : T \ {x} \notin B
<1>1. \A T \in B : IsFiniteSet(T) /\ Cardinality(T) \in Nat
  BY FS_Subset, FS_CardinalityType
<1>2. PICK N \in SUBSET Nat : N = {Cardinality(T) : T \in B}
  BY <1>1
<1>3. N # {}
  BY <1>2
<1>4. PICK n \in N : \A m \in N : n =< m
  BY <1>3, LeastNatural
<1>5. PICK T \in B : Cardinality(T) = n
  BY <1>2, <1>4
<1>6. ASSUME NEW x \in T, T \ {x} \in B PROVE FALSE
  <2>1. Cardinality(T \ {x}) = n - 1
    BY <1>1, <1>5, FS_RemoveElement
  <2>2. n =< Cardinality(T \ {x})
    BY <1>2, <1>4, <1>6
  <2>3. n \in Nat
    BY <1>4
  <2>4. QED
    BY <2>1, <2>2, <2>3
<1>7. QED
  BY <1>6

SumEquation(g, f, S) ==
  \A s \in SUBSET S : g[s] = IF s = {} THEN 0 ELSE f[CHOOSE x \in s : TRUE] + g[s \ {CHOOSE x \in s : TRUE}]

\* The fold is what its equation says.
LEMMA FoldSolves ==
  ASSUME NEW f, NEW S, S = DOMAIN f, NEW h, h = [s \in SUBSET S |-> h[s]], SumEquation(h, f, S)
  PROVE  \E g : g = [s \in SUBSET S |-> g[s]] /\ SumEquation(g, f, S) /\ SumFunction(f) = g[S]
<1> DEFINE iter == CHOOSE g : g = [s \in SUBSET S |->
                      IF s = {} THEN 0 ELSE f[CHOOSE x \in s : TRUE] + g[s \ {CHOOSE x \in s : TRUE}]]
<1>1. h = [s \in SUBSET S |-> IF s = {} THEN 0 ELSE f[CHOOSE x \in s : TRUE] + h[s \ {CHOOSE x \in s : TRUE}]]
  BY DEF SumEquation
<1>2. iter = [s \in SUBSET S |-> IF s = {} THEN 0 ELSE f[CHOOSE x \in s : TRUE] + iter[s \ {CHOOSE x \in s : TRUE}]]
  BY <1>1
<1>3. SumFunction(f) = iter[S]
  BY DEF SumFunction, SumFunctionOnSet, FoldFunctionOnSet, MapThenFoldSet
<1> HIDE DEF iter
<1>4. SumEquation(iter, f, S)
  BY <1>2 DEF SumEquation
<1>5. iter = [s \in SUBSET S |-> iter[s]]
  BY <1>2
<1>6. QED
  BY <1>3, <1>4, <1>5

IsSum(g, f, S) ==
  /\ g \in [SUBSET S -> Int]
  /\ SumEquation(g, f, S)

\* There is one: it is said of sets of one more element, again and again.
LEMMA SumExists ==
  ASSUME NEW S, IsFiniteSet(S), NEW f \in [S -> Int]
  PROVE  \E g : IsSum(g, f, S)
<1> DEFINE Few(n) == {s \in SUBSET S : Cardinality(s) =< n}
           Said(g, n) == /\ g \in [Few(n) -> Int]
                         /\ \A s \in Few(n) : g[s] = IF s = {} THEN 0
                              ELSE f[CHOOSE x \in s : TRUE] + g[s \ {CHOOSE x \in s : TRUE}]
           Bad == {n \in Nat : ~ \E g : Said(g, n)}
<1>1. \A s \in SUBSET S : IsFiniteSet(s) /\ Cardinality(s) \in Nat /\ Cardinality(s) =< Cardinality(S)
  BY FS_Subset, FS_CardinalityType
<1>2. Bad = {}
  <2>1. SUFFICES ASSUME Bad # {} PROVE FALSE
    OBVIOUS
  <2>2. PICK n \in Bad : \A m \in Bad : n =< m
    <3>1. Bad \in SUBSET Nat
      OBVIOUS
    <3> HIDE DEF Bad
    <3>2. QED
      BY <2>1, <3>1, LeastNatural
  <2>3. CASE n = 0
    <3>1. \A s \in Few(0) : s = {}
      <4>1. TAKE s \in Few(0)
      <4>2. Cardinality(s) = 0
        BY <1>1
      <4>3. QED
        BY <1>1, <4>2, FS_EmptySet
    <3>2. Said([s \in Few(0) |-> 0], 0)
      BY <3>1
    <3>3. QED
      BY <2>3, <3>2
  <2>4. CASE n # 0
    <3>1. PICK k \in Nat : n = k + 1
      <4>1. n - 1 \in Nat /\ n = (n - 1) + 1
        BY <2>4
      <4>2. QED
        BY <4>1
    <3>2. PICK g : Said(g, k)
      <4>1. n \in Nat
        OBVIOUS
      <4>2. k \notin Bad
        <5> HIDE DEF Bad
        <5>1. QED
          BY <2>2, <3>1, <4>1
      <4>3. QED
        BY <3>1, <4>2
    <3>3. \A s \in Few(n) : s # {} => /\ (CHOOSE x \in s : TRUE) \in s
                                      /\ s \ {CHOOSE x \in s : TRUE} \in Few(k)
      <4>1. TAKE s \in Few(n)
      <4>2. HAVE s # {}
      <4>3. PICK x \in s : x = CHOOSE y \in s : TRUE
        BY <4>2
      <4>4. Cardinality(s \ {x}) = Cardinality(s) - 1
        BY <1>1, FS_RemoveElement
      <4>5. Cardinality(s) \in Nat /\ Cardinality(s) =< k + 1
        BY <1>1, <3>1
      <4>6. s \ {x} \in Few(k)
        BY <4>4, <4>5
      <4>7. QED
        BY <4>3, <4>6
    <3> DEFINE h == [s \in Few(n) |-> IF s = {} THEN 0
                        ELSE f[CHOOSE x \in s : TRUE] + g[s \ {CHOOSE x \in s : TRUE}]]
    <3>4. \A s \in Few(k) : s \in Few(n) /\ h[s] = g[s]
      <4>1. TAKE s \in Few(k)
      <4>2. s \in Few(n)
        BY <1>1, <3>1
      <4>3. g[s] = IF s = {} THEN 0 ELSE f[CHOOSE x \in s : TRUE] + g[s \ {CHOOSE x \in s : TRUE}]
        BY <3>2
      <4>4. QED
        BY <4>2, <4>3
    <3>5. h \in [Few(n) -> Int]
      <4>1. ASSUME NEW s \in Few(n), s # {} PROVE f[CHOOSE x \in s : TRUE] + g[s \ {CHOOSE x \in s : TRUE}] \in Int
        <5>1. PICK y \in Int : y = f[CHOOSE x \in s : TRUE]
          BY <3>3, <4>1
        <5>2. PICK z \in Int : z = g[s \ {CHOOSE x \in s : TRUE}]
          BY <3>2, <3>3, <4>1
        <5>3. QED
          BY <5>1, <5>2
      <4>2. QED
        BY <4>1
    <3>6. \A s \in Few(n) : h[s] = IF s = {} THEN 0 ELSE f[CHOOSE x \in s : TRUE] + h[s \ {CHOOSE x \in s : TRUE}]
      <4>1. TAKE s \in Few(n)
      <4>2. s # {} => h[s \ {CHOOSE x \in s : TRUE}] = g[s \ {CHOOSE x \in s : TRUE}]
        BY <3>3, <3>4
      <4>3. QED
        BY <4>2
    <3>7. Said(h, n)
      BY <3>5, <3>6
    <3>8. QED
      BY <3>7
  <2>5. QED
    BY <2>3, <2>4
<1>3. PICK n \in Nat : n = Cardinality(S)
  BY <1>1
<1>4. PICK g : Said(g, n)
  BY <1>2
<1>5. Few(n) = SUBSET S
  BY <1>1, <1>3
<1>6. IsSum(g, f, S)
  BY <1>4, <1>5 DEF IsSum, SumEquation
<1>7. QED
  BY <1>6

\* Elements may be added in any order.
LEMMA AnyOrder ==
  ASSUME NEW S, IsFiniteSet(S), NEW f \in [S -> Int], NEW g, IsSum(g, f, S)
  PROVE  \A s \in SUBSET S : \A x \in s : g[s] = f[x] + g[s \ {x}]
<1> DEFINE Bad == {s \in SUBSET S : \E x \in s : g[s] # f[x] + g[s \ {x}]}
<1>1. SUFFICES ASSUME Bad # {} PROVE FALSE
  OBVIOUS
<1>2. PICK s \in Bad : \A x \in s : s \ {x} \notin Bad
  <2>1. Bad \in SUBSET (SUBSET S)
    OBVIOUS
  <2> HIDE DEF Bad
  <2>2. QED
    BY <1>1, <2>1, MinimalSubset
<1>3. PICK x \in s : g[s] # f[x] + g[s \ {x}]
  OBVIOUS
<1>4. PICK y \in s : y = CHOOSE z \in s : TRUE
  BY <1>3
<1>5. g[s] = f[y] + g[s \ {y}]
  BY <1>4 DEF IsSum, SumEquation
<1>6. CASE x = y
  BY <1>3, <1>5, <1>6
<1>7. CASE x # y
  <2>1. g[s \ {y}] = f[x] + g[(s \ {y}) \ {x}]
    BY <1>2, <1>7
  <2>2. g[s \ {x}] = f[y] + g[(s \ {x}) \ {y}]
    BY <1>2, <1>7
  <2>3. (s \ {y}) \ {x} = (s \ {x}) \ {y}
    OBVIOUS
  <2>4. PICK a \in Int, b \in Int, c \in Int : a = f[x] /\ b = f[y] /\ c = g[(s \ {x}) \ {y}]
    <3>1. f[x] \in Int /\ f[y] \in Int
      OBVIOUS
    <3>2. g[(s \ {x}) \ {y}] \in Int
      BY DEF IsSum
    <3>3. QED
      BY <3>1, <3>2
  <2>5. b + (a + c) = a + (b + c)
    OBVIOUS
  <2>6. QED
    BY <1>3, <1>5, <2>1, <2>2, <2>3, <2>4, <2>5
<1>8. QED
  BY <1>6, <1>7

\* Part(f, T): the function f on T only.
Part(f, T) == [x \in T |-> f[x]]

\* Solutions agree: so the fold is any of them.
LEMMA SumsAgree ==
  ASSUME NEW S, IsFiniteSet(S), NEW f \in [S -> Int], NEW g, IsSum(g, f, S),
         NEW T \in SUBSET S, NEW h, SumEquation(h, Part(f, T), T)
  PROVE  \A s \in SUBSET T : h[s] = g[s]
<1> DEFINE Bad == {s \in SUBSET T : h[s] # g[s]}
<1>1. SUFFICES ASSUME Bad # {} PROVE FALSE
  OBVIOUS
<1>2. PICK s \in Bad : \A x \in s : s \ {x} \notin Bad
  <2>1. Bad \in SUBSET (SUBSET S)
    OBVIOUS
  <2> HIDE DEF Bad
  <2>2. QED
    BY <1>1, <2>1, MinimalSubset
<1>3. s \in SUBSET T /\ s \in SUBSET S /\ h[s] # g[s]
  OBVIOUS
<1>4. CASE s = {}
  BY <1>3, <1>4 DEF IsSum, SumEquation
<1>5. CASE s # {}
  <2>1. PICK y \in s : y = CHOOSE z \in s : TRUE
    BY <1>5
  <2>2. g[s] = f[y] + g[s \ {y}]
    BY <1>3, <1>5, <2>1 DEF IsSum, SumEquation
  <2>3. h[s] = Part(f, T)[y] + h[s \ {y}]
    BY <1>3, <1>5, <2>1 DEF SumEquation
  <2>4. Part(f, T)[y] = f[y]
    BY <1>3 DEF Part
  <2>5. h[s \ {y}] = g[s \ {y}]
    BY <1>2, <1>3
  <2>6. QED
    BY <1>3, <2>2, <2>3, <2>4, <2>5
<1>6. QED
  BY <1>4, <1>5

\* A sum over a part is an integer, taken as the sum of the restriction.
LEMMA SumOfPart ==
  ASSUME NEW S, IsFiniteSet(S), NEW f \in [S -> Int], NEW g, IsSum(g, f, S), NEW T \in SUBSET S
  PROVE  SumFunction(Part(f, T)) = g[T]
<1>1. Part(f, T) \in [T -> Int] /\ T = DOMAIN Part(f, T) /\ IsFiniteSet(T)
  BY FS_Subset DEF Part
<1>2. PICK h : IsSum(h, Part(f, T), T)
  BY <1>1, SumExists
<1>3. h = [s \in SUBSET T |-> h[s]] /\ SumEquation(h, Part(f, T), T)
  BY <1>2 DEF IsSum
<1>4. PICK e : /\ SumEquation(e, Part(f, T), T)
               /\ SumFunction(Part(f, T)) = e[T]
  BY <1>1, <1>3, FoldSolves
<1>5. e[T] = g[T]
  BY <1>4, SumsAgree
<1>6. QED
  BY <1>4, <1>5

\* What is used of sums.
LEMMA SumFacts ==
  ASSUME NEW S, IsFiniteSet(S), NEW f \in [S -> Int]
  PROVE  /\ SumFunction(f) \in Int
         /\ S = {} => SumFunction(f) = 0
         /\ \A x \in S : SumFunction(f) = f[x] + SumFunction(Part(f, S \ {x}))
<1>1. PICK g : IsSum(g, f, S)
  BY SumExists
<1>2. \A T \in SUBSET S : SumFunction(Part(f, T)) = g[T]
  BY <1>1, SumOfPart
<1>3. Part(f, S) = f
  BY DEF Part
<1>4. SumFunction(f) = g[S]
  BY <1>2, <1>3
<1>5. g[S] \in Int /\ (S = {} => g[S] = 0)
  BY <1>1 DEF IsSum, SumEquation
<1>6. \A x \in S : g[S] = f[x] + g[S \ {x}]
  BY <1>1, AnyOrder
<1>7. QED
  BY <1>2, <1>4, <1>5, <1>6

-----------------------------------------------------------------------------
(* Sums by parts, in other orders, and modulo a number. *)

\* Nothing, and one more element.
LEMMA SumOfNothing ==
  ASSUME NEW f, f = [x \in {} |-> f[x]]
  PROVE  SumFunction(f) = 0
<1>1. IsFiniteSet({}) /\ f \in [{} -> Int]
  BY FS_EmptySet
<1>2. QED
  BY <1>1, SumFacts

\* One more element adds its value.
LEMMA SumPlusOne ==
  ASSUME NEW S, IsFiniteSet(S), NEW f \in [S -> Int], NEW T \in SUBSET S, NEW x \in T
  PROVE  /\ SumFunction(Part(f, T)) \in Int /\ SumFunction(Part(f, T \ {x})) \in Int
         /\ f[x] \in Int
         /\ SumFunction(Part(f, T)) = f[x] + SumFunction(Part(f, T \ {x}))
<1>1. IsFiniteSet(T) /\ IsFiniteSet(T \ {x}) /\ Part(f, T) \in [T -> Int]
      /\ Part(f, T \ {x}) \in [T \ {x} -> Int]
  BY FS_Subset DEF Part
<1>2. Part(Part(f, T), T \ {x}) = Part(f, T \ {x}) /\ Part(f, T)[x] = f[x]
  BY DEF Part
<1>3. /\ SumFunction(Part(f, T)) \in Int
      /\ SumFunction(Part(f, T)) = Part(f, T)[x] + SumFunction(Part(Part(f, T), T \ {x}))
  <2>1. PICK P \in [T -> Int] : P = Part(f, T)
    BY <1>1
  <2>2. SumFunction(P) \in Int /\ SumFunction(P) = P[x] + SumFunction(Part(P, T \ {x}))
    BY <1>1, SumFacts
  <2>3. QED
    BY <2>1, <2>2
<1>4. SumFunction(Part(f, T \ {x})) \in Int
  BY <1>1, SumFacts
<1>5. f[x] \in Int
  OBVIOUS
<1>6. QED
  BY <1>2, <1>3, <1>4, <1>5

\* Nothing sums to 0.
LEMMA SumOfEmptyPart ==
  ASSUME NEW f
  PROVE  SumFunction(Part(f, {})) = 0
BY SumOfNothing DEF Part

\* Two sets with nothing in common.
LEMMA SumOfUnion ==
  ASSUME NEW S, IsFiniteSet(S), NEW f \in [S -> Int],
         NEW A \in SUBSET S, NEW B \in SUBSET S, A \cap B = {}
  PROVE  SumFunction(Part(f, A \cup B)) = SumFunction(Part(f, A)) + SumFunction(Part(f, B))
<1> DEFINE sum(T) == SumFunction(Part(f, T))
           Bad == {T \in SUBSET B : sum(A \cup T) # sum(A) + sum(T)}
<1>1. \A T \in SUBSET S : sum(T) \in Int
  <2>1. TAKE T \in SUBSET S
  <2>2. IsFiniteSet(T) /\ Part(f, T) \in [T -> Int]
    BY FS_Subset DEF Part
  <2>3. QED
    BY <2>2, SumFacts
<1>2. ASSUME NEW T \in SUBSET S, NEW x \in T
      PROVE  sum(T) = f[x] + sum(T \ {x}) /\ f[x] \in Int
  BY SumPlusOne
<1>3. sum({}) = 0
  BY SumOfEmptyPart
<1> HIDE DEF sum
<1>4. SUFFICES ASSUME Bad # {} PROVE FALSE
  BY DEF sum
<1>5. PICK T \in Bad : \A x \in T : T \ {x} \notin Bad
  <2>1. IsFiniteSet(B) /\ Bad \in SUBSET (SUBSET B)
    BY FS_Subset
  <2> HIDE DEF Bad
  <2>2. QED
    BY <1>4, <2>1, MinimalSubset
<1>6. T \in SUBSET B /\ sum(A \cup T) # sum(A) + sum(T)
  OBVIOUS
<1>7. T # {}
  <2>1. SUFFICES ASSUME T = {} PROVE FALSE
    OBVIOUS
  <2>2. A \cup T = A /\ sum(A) \in Int
    BY <1>1, <2>1
  <2>3. QED
    BY <1>3, <1>6, <2>1, <2>2
<1>8. PICK x \in T : TRUE
  BY <1>7
<1>9. sum(A \cup (T \ {x})) = sum(A) + sum(T \ {x})
  BY <1>5, <1>6
<1>10. sum(A \cup T) = f[x] + sum(A \cup (T \ {x})) /\ sum(T) = f[x] + sum(T \ {x})
  <2>1. (A \cup T) \ {x} = A \cup (T \ {x}) /\ x \in A \cup T /\ A \cup T \in SUBSET S /\ T \in SUBSET S
    BY <1>6
  <2>2. QED
    BY <1>2, <2>1
<1>11. PICK a \in Int, b \in Int, c \in Int : a = sum(A) /\ b = f[x] /\ c = sum(T \ {x})
  <2>1. sum(A) \in Int /\ f[x] \in Int /\ sum(T \ {x}) \in Int
    BY <1>1, <1>6
  <2>2. QED
    BY <2>1
<1>12. b + (a + c) = a + (b + c)
  OBVIOUS
<1>13. QED
  BY <1>6, <1>9, <1>10, <1>11, <1>12

\* The same numbers under other names.
OneToOne(m, K) == \A j, k \in K : m[j] = m[k] => j = k
Images(m, K) == {m[k] : k \in K}

Renamed(f, m, K) == [k \in K |-> f[m[k]]]

\* A sum is the same under other names.
LEMMA SumRenamed ==
  ASSUME NEW S, IsFiniteSet(S), NEW f \in [S -> Int], NEW K, IsFiniteSet(K),
         NEW m \in [K -> S], OneToOne(m, K)
  PROVE  SumFunction(Part(f, Images(m, K))) = SumFunction(Renamed(f, m, K))
<1> DEFINE h == [k \in K |-> f[m[k]]]
           left(T) == SumFunction(Part(f, Images(m, T)))
           right(T) == SumFunction(Part(h, T))
           Bad == {T \in SUBSET K : left(T) # right(T)}
<1>1. h \in [K -> Int] /\ Part(h, K) = h
  BY DEF Part
<1>2. ASSUME NEW T \in SUBSET K, NEW x \in T
      PROVE  left(T) = f[m[x]] + left(T \ {x}) /\ right(T) = f[m[x]] + right(T \ {x})
  <2>1. Images(m, T) \in SUBSET S /\ m[x] \in Images(m, T)
        /\ Images(m, T) \ {m[x]} = Images(m, T \ {x})
    BY DEF Images, OneToOne
  <2>2. left(T) = f[m[x]] + left(T \ {x})
    <3>1. PICK I \in SUBSET S : I = Images(m, T) /\ m[x] \in I /\ I \ {m[x]} = Images(m, T \ {x})
      BY <2>1
    <3>2. PICK y \in I : y = m[x]
      BY <3>1
    <3>3. SumFunction(Part(f, I)) = f[y] + SumFunction(Part(f, I \ {y}))
      BY SumPlusOne
    <3>4. QED
      BY <3>1, <3>2, <3>3
  <2>3. right(T) = h[x] + right(T \ {x})
    <3> HIDE DEF h
    <3>1. QED
      BY <1>1, SumPlusOne
  <2>4. h[x] = f[m[x]]
    OBVIOUS
  <2>5. QED
    BY <2>2, <2>3, <2>4
<1>3. left({}) = 0 /\ right({}) = 0
  <2>1. Images(m, {}) = {}
    BY DEF Images
  <2>2. QED
    BY <2>1, SumOfEmptyPart
<1> HIDE DEF left, right
<1>4. SUFFICES ASSUME Bad # {} PROVE FALSE
  BY <1>1 DEF left, right, Renamed
<1>5. PICK T \in Bad : \A x \in T : T \ {x} \notin Bad
  <2>1. Bad \in SUBSET (SUBSET K)
    OBVIOUS
  <2> HIDE DEF Bad
  <2>2. QED
    BY <1>4, <2>1, MinimalSubset
<1>6. T \in SUBSET K /\ left(T) # right(T)
  OBVIOUS
<1>7. PICK x \in T : TRUE
  BY <1>3, <1>6
<1>8. left(T \ {x}) = right(T \ {x})
  BY <1>5, <1>6
<1>9. QED
  BY <1>2, <1>6, <1>7, <1>8

Grouped(f, m, X, K) == [x \in X |-> SumFunction([k \in K |-> f[m[<<x, k>>]]])]

\* Summed group by group: m names each element by its group and its place.
LEMMA SumByGroups ==
  ASSUME NEW S, IsFiniteSet(S), NEW f \in [S -> Int], NEW X, IsFiniteSet(X), NEW K, IsFiniteSet(K),
         NEW m \in [X \X K -> S], OneToOne(m, X \X K), Images(m, X \X K) = S
  PROVE  SumFunction(f) = SumFunction(Grouped(f, m, X, K))
<1> DEFINE group(x) == SumFunction([k \in K |-> f[m[<<x, k>>]]])
           h == [x \in X |-> group(x)]
           left(T) == SumFunction(Part(f, Images(m, T \X K)))
           right(T) == SumFunction(Part(h, T))
           Bad == {T \in SUBSET X : left(T) # right(T)}
<1>1. \A x \in X : group(x) \in Int
  <2>1. TAKE x \in X
  <2>2. [k \in K |-> f[m[<<x, k>>]]] \in [K -> Int]
    OBVIOUS
  <2>3. QED
    BY <2>2, SumFacts
<1>2. ASSUME NEW x \in X
      PROVE  SumFunction(Part(f, Images(m, {x} \X K))) = group(x)
  <2> DEFINE n == [k \in K |-> m[<<x, k>>]]
  <2>1. n \in [K -> S] /\ OneToOne(n, K) /\ Images(n, K) = Images(m, {x} \X K)
    <3>1. n \in [K -> S]
      OBVIOUS
    <3>2. OneToOne(n, K)
      BY DEF OneToOne
    <3>3. Images(n, K) = Images(m, {x} \X K)
      <4>1. \A k \in K : <<x, k>> \in {x} \X K /\ n[k] = m[<<x, k>>]
        OBVIOUS
      <4>2. \A t \in {x} \X K : \E k \in K : t = <<x, k>>
        OBVIOUS
      <4> HIDE DEF n
      <4>3. Images(n, K) \subseteq Images(m, {x} \X K)
        BY <4>1 DEF Images
      <4>4. ASSUME NEW y \in Images(m, {x} \X K) PROVE y \in Images(n, K)
        <5>1. PICK t \in {x} \X K : y = m[t]
          BY DEF Images
        <5>2. PICK k \in K : t = <<x, k>>
          BY <4>2
        <5>3. QED
          BY <4>1, <5>1, <5>2 DEF Images
      <4>5. QED
        BY <4>3, <4>4
    <3>4. QED
      BY <3>1, <3>2, <3>3
  <2>2. Renamed(f, n, K) = [k \in K |-> f[m[<<x, k>>]]]
    BY DEF Renamed
  <2> HIDE DEF n
  <2>3. SumFunction(Part(f, Images(n, K))) = SumFunction(Renamed(f, n, K))
    BY <2>1, SumRenamed
  <2>4. QED
    BY <2>1, <2>2, <2>3
<1> HIDE DEF group
<1>3. h \in [X -> Int] /\ Part(h, X) = h /\ Part(f, S) = f
  BY <1>1 DEF Part
<1>4. ASSUME NEW T \in SUBSET X, NEW x \in T
      PROVE  left(T) = group(x) + left(T \ {x}) /\ right(T) = group(x) + right(T \ {x})
  <2> DEFINE A == Images(m, {x} \X K)
             B == Images(m, (T \ {x}) \X K)
  <2>1. A \in SUBSET S /\ B \in SUBSET S
    BY DEF Images
  <2>2. A \cup B = Images(m, T \X K)
    BY DEF Images
  <2>3. A \cap B = {}
    BY DEF Images, OneToOne
  <2> HIDE DEF A, B
  <2>4. SumFunction(Part(f, A \cup B)) = SumFunction(Part(f, A)) + SumFunction(Part(f, B))
    BY <2>1, <2>3, SumOfUnion
  <2>5. left(T) = group(x) + left(T \ {x})
    BY <1>2, <2>2, <2>4 DEF A, B
  <2>6. right(T) = h[x] + right(T \ {x})
    <3> HIDE DEF h
    <3>1. QED
      BY <1>3, SumPlusOne
  <2>7. h[x] = group(x)
    OBVIOUS
  <2>8. QED
    BY <2>5, <2>6, <2>7
<1>5. left({}) = 0 /\ right({}) = 0
  <2>1. Images(m, {} \X K) = {}
    BY DEF Images
  <2>2. QED
    BY <2>1, SumOfEmptyPart
<1> HIDE DEF left, right
<1>6. SUFFICES ASSUME Bad # {} PROVE FALSE
  BY <1>3 DEF left, right, group, Grouped
<1>7. PICK T \in Bad : \A x \in T : T \ {x} \notin Bad
  <2>1. Bad \in SUBSET (SUBSET X)
    OBVIOUS
  <2> HIDE DEF Bad
  <2>2. QED
    BY <1>6, <2>1, MinimalSubset
<1>8. T \in SUBSET X /\ left(T) # right(T)
  OBVIOUS
<1>9. PICK x \in T : TRUE
  BY <1>5, <1>8
<1>10. left(T \ {x}) = right(T \ {x})
  BY <1>7, <1>8
<1>11. left(T) = group(x) + left(T \ {x}) /\ right(T) = group(x) + right(T \ {x})
  BY <1>4, <1>8
<1>12. QED
  BY <1>8, <1>10, <1>11

-----------------------------------------------------------------------------
(* Congruences. *)

\* Congruent modulo m; if m is 0, equal.
Congruent(m, a, b) == \E z \in Int : a = b + m * z

LEMMA CongruentSame ==
  ASSUME NEW m \in Nat, NEW a \in Int
  PROVE  Congruent(m, a, a)
<1>1. a = a + m * 0 /\ 0 \in Int
  OBVIOUS
<1>2. QED
  BY <1>1 DEF Congruent

\* Congruence goes both ways.
LEMMA CongruentBack ==
  ASSUME NEW m \in Nat, NEW a \in Int, NEW b \in Int, Congruent(m, a, b)
  PROVE  Congruent(m, b, a)
<1>1. PICK z \in Int : a = b + m * z
  BY DEF Congruent
<1>2. -z \in Int /\ m * (-z) = -(m * z) /\ m * z \in Int
  OBVIOUS
<1>3. b = a + m * (-z)
  <2>1. PICK y \in Int : y = m * z
    BY <1>2
  <2>2. b = a + (-y)
    BY <1>1, <2>1
  <2>3. QED
    BY <1>2, <2>1, <2>2
<1>4. QED
  BY <1>2, <1>3 DEF Congruent

\* Congruence is transitive.
LEMMA CongruentOn ==
  ASSUME NEW m \in Nat, NEW a \in Int, NEW b \in Int, NEW c \in Int,
         Congruent(m, a, b), Congruent(m, b, c)
  PROVE  Congruent(m, a, c)
<1>1. PICK z \in Int : a = b + m * z
  BY DEF Congruent
<1>2. PICK y \in Int : b = c + m * y
  BY DEF Congruent
<1>3. m * (z + y) = m * z + m * y /\ m * z \in Int /\ m * y \in Int /\ z + y \in Int
  OBVIOUS
<1>4. a = c + m * (z + y)
  <2>1. PICK s \in Int, t \in Int : s = m * z /\ t = m * y
    BY <1>3
  <2>2. a = c + (s + t)
    BY <1>1, <1>2, <2>1
  <2>3. QED
    BY <1>3, <2>1, <2>2
<1>5. QED
  BY <1>3, <1>4 DEF Congruent

LEMMA CongruentPlus ==
  ASSUME NEW m \in Nat, NEW a \in Int, NEW b \in Int, NEW c \in Int, NEW d \in Int,
         Congruent(m, a, b), Congruent(m, c, d)
  PROVE  Congruent(m, a + c, b + d)
<1>1. PICK z \in Int : a = b + m * z
  BY DEF Congruent
<1>2. PICK y \in Int : c = d + m * y
  BY DEF Congruent
<1>3. m * (z + y) = m * z + m * y /\ m * z \in Int /\ m * y \in Int /\ z + y \in Int
  OBVIOUS
<1>4. a + c = (b + d) + m * (z + y)
  <2>1. PICK s \in Int, t \in Int : s = m * z /\ t = m * y
    BY <1>3
  <2>2. a + c = (b + d) + (s + t)
    BY <1>1, <1>2, <2>1
  <2>3. QED
    BY <1>3, <2>1, <2>2
<1>5. QED
  BY <1>3, <1>4 DEF Congruent

LEMMA CongruentTimes ==
  ASSUME NEW m \in Nat, NEW a \in Int, NEW b \in Int, NEW k \in Int, Congruent(m, a, b)
  PROVE  Congruent(m, k * a, k * b) /\ k * a \in Int /\ k * b \in Int
<1>1. PICK z \in Int : a = b + m * z
  BY DEF Congruent
<1>2. PICK y \in Int : y = m * z
  OBVIOUS
<1>3. k * (b + y) = k * b + k * y
  OBVIOUS
<1>4. k * y = m * (k * z) /\ k * z \in Int
  <2>1. k * (m * z) = m * (k * z)
    OBVIOUS
  <2>2. QED
    BY <1>2, <2>1
<1>5. k * a = k * b + m * (k * z)
  BY <1>1, <1>2, <1>3, <1>4
<1>6. QED
  BY <1>4, <1>5 DEF Congruent

LEMMA CongruentTimesOne ==
  ASSUME NEW m \in Nat, NEW k \in Int, NEW t \in Int, Congruent(m, t, 1)
  PROVE  Congruent(m, k * t, k)
<1>1. PICK o \in Int : o = 1
  OBVIOUS
<1>2. Congruent(m, k * t, k * o)
  BY <1>1, CongruentTimes
<1>3. k * o = k
  BY <1>1
<1>4. QED
  BY <1>2, <1>3

LEMMA CongruentRest ==
  ASSUME NEW m \in Nat \ {0}, NEW a \in Int
  PROVE  Congruent(m, a % m, a) /\ a % m \in 0..(m - 1)
<1>1. a % m \in 0..(m - 1) /\ a \div m \in Int /\ a = m * (a \div m) + (a % m)
  <2>1. a \div m \in Int
    BY QuotientMeaning
  <2>2. a % m \in 0..(m - 1)
    OBVIOUS
  <2>3. a = m * (a \div m) + (a % m)
    OBVIOUS
  <2>4. QED
    BY <2>1, <2>2, <2>3
<1>2. PICK q \in Int, r \in Int : q = a \div m /\ r = a % m
  BY <1>1
<1>3. m * (-q) = -(m * q) /\ m * q \in Int /\ -q \in Int
  OBVIOUS
<1>4. r = a + m * (-q)
  <2>1. PICK y \in Int : y = m * q
    BY <1>3
  <2>2. a = y + r
    BY <1>1, <1>2, <2>1
  <2>3. QED
    BY <1>3, <2>1, <2>2
<1>5. QED
  BY <1>1, <1>2, <1>3, <1>4 DEF Congruent

\* Congruent remainders are equal.
LEMMA CongruentSmall ==
  ASSUME NEW m \in Nat \ {0}, NEW a \in 0..(m - 1), NEW b \in 0..(m - 1), Congruent(m, a, b)
  PROVE  a = b
<1>1. PICK z \in Int : a = b + m * z
  BY DEF Congruent
<1>2. CASE z = 0
  BY <1>1, <1>2
<1>3. CASE z >= 1
  <2>1. m * z >= m
    BY <1>3
  <2>2. PICK y \in Int : y = m * z
    OBVIOUS
  <2>3. QED
    BY <1>1, <2>1, <2>2
<1>4. CASE z =< -1
  <2>1. m * z =< -m
    <3>1. PICK w \in Nat : z = -1 - w
      <4>1. -1 - z \in Nat /\ z = -1 - (-1 - z)
        BY <1>4
      <4>2. QED
        BY <4>1
    <3>2. m * (-1 - w) = -m - m * w /\ m * w \in Nat
      OBVIOUS
    <3>3. QED
      BY <3>1, <3>2
  <2>2. PICK y \in Int : y = m * z
    OBVIOUS
  <2>3. QED
    BY <1>1, <2>1, <2>2
<1>5. QED
  BY <1>2, <1>3, <1>4

\* Numbers that are each c plus k times others.
LEMMA SumAffine ==
  ASSUME NEW m \in Nat, NEW S, IsFiniteSet(S), NEW f \in [S -> Int], NEW h \in [S -> Int],
         NEW c \in Int, NEW k \in Int,
         \A x \in S : Congruent(m, h[x], c + k * f[x])
  PROVE  Congruent(m, SumFunction(h), Cardinality(S) * c + k * SumFunction(f))
<1> DEFINE F(T) == SumFunction(Part(f, T))
           H(T) == SumFunction(Part(h, T))
           Said(T) == Congruent(m, H(T), Cardinality(T) * c + k * F(T))
           Bad == {T \in SUBSET S : ~Said(T)}
<1>1. \A T \in SUBSET S : IsFiniteSet(T) /\ Cardinality(T) \in Nat
  BY FS_Subset, FS_CardinalityType
<1>2. ASSUME NEW T \in SUBSET S, NEW x \in T
      PROVE  /\ F(T) = f[x] + F(T \ {x}) /\ F(T \ {x}) \in Int /\ f[x] \in Int
             /\ H(T) = h[x] + H(T \ {x}) /\ H(T \ {x}) \in Int /\ h[x] \in Int
             /\ Cardinality(T) = Cardinality(T \ {x}) + 1
             /\ Cardinality(T \ {x}) \in Nat
  <2>1. /\ F(T) = f[x] + F(T \ {x}) /\ F(T \ {x}) \in Int /\ f[x] \in Int
    <3>1. F(T) = f[x] + F(T \ {x})
      BY SumPlusOne
    <3>2. F(T \ {x}) \in Int
      BY SumPlusOne
    <3>3. QED
      BY <3>1, <3>2
  <2>2. /\ H(T) = h[x] + H(T \ {x}) /\ H(T \ {x}) \in Int /\ h[x] \in Int
    <3>1. H(T) = h[x] + H(T \ {x})
      BY SumPlusOne
    <3>2. H(T \ {x}) \in Int
      BY SumPlusOne
    <3>3. QED
      BY <3>1, <3>2
  <2>3. Cardinality(T \ {x}) = Cardinality(T) - 1 /\ Cardinality(T) \in Nat
    BY <1>1, FS_RemoveElement
  <2>4. T \ {x} \in SUBSET S
    OBVIOUS
  <2>5. Cardinality(T \ {x}) \in Nat
    BY <1>1, <2>4
  <2> HIDE DEF F, H
  <2>6. Cardinality(T) = Cardinality(T \ {x}) + 1
    BY <2>3, <2>5
  <2>7. QED
    BY <2>1, <2>2, <2>5, <2>6
<1>3. F({}) = 0 /\ H({}) = 0
  BY SumOfEmptyPart
<1>4. Part(f, S) = f /\ Part(h, S) = h
  BY DEF Part
<1> HIDE DEF F, H
<1>5. SUFFICES ASSUME Bad # {} PROVE FALSE
  BY <1>4 DEF F, H
<1>6. PICK T \in Bad : \A x \in T : T \ {x} \notin Bad
  <2>1. Bad \in SUBSET (SUBSET S)
    OBVIOUS
  <2> HIDE DEF Bad
  <2>2. QED
    BY <1>5, <2>1, MinimalSubset
<1>7. T \in SUBSET S /\ ~Said(T)
  OBVIOUS
<1>8. CASE T = {}
  <2>1. Cardinality(T) = 0
    BY <1>8, FS_EmptySet
  <2>2. Cardinality(T) * c + k * F(T) = 0 /\ H(T) = 0
    <3>1. 0 * c = 0 /\ k * 0 = 0
      OBVIOUS
    <3>2. QED
      BY <1>3, <1>8, <2>1, <3>1
  <2>3. Congruent(m, 0, 0)
    BY CongruentSame
  <2>4. QED
    BY <1>7, <2>2, <2>3
<1>9. CASE T # {}
  <2>1. PICK x \in T : TRUE
    BY <1>9
  <2>2. T \ {x} \in SUBSET S /\ Said(T \ {x}) /\ Congruent(m, h[x], c + k * f[x])
    BY <1>6, <1>7
  <2>3. PICK n \in Nat, g \in Int, y \in Int, s \in Int, t \in Int :
          /\ n = Cardinality(T \ {x}) /\ g = f[x] /\ y = h[x]
          /\ s = F(T \ {x}) /\ t = H(T \ {x})
    BY <1>2, <1>7
  <2>4. Cardinality(T) = n + 1 /\ F(T) = g + s /\ H(T) = y + t
    BY <1>2, <1>7, <2>3
  <2>5. Congruent(m, y, c + k * g) /\ Congruent(m, t, n * c + k * s)
    BY <2>2, <2>3
  <2>6. c + k * g \in Int /\ n * c + k * s \in Int
    OBVIOUS
  <2>7. Congruent(m, y + t, (c + k * g) + (n * c + k * s))
    BY <2>5, <2>6, CongruentPlus
  <2>8. (c + k * g) + (n * c + k * s) = (n + 1) * c + k * (g + s)
    <3>1. (n + 1) * c = n * c + c /\ k * (g + s) = k * g + k * s
      OBVIOUS
    <3>2. PICK i \in Int, j \in Int, l \in Int : i = n * c /\ j = k * g /\ l = k * s
      OBVIOUS
    <3>3. (c + j) + (i + l) = (i + c) + (j + l)
      OBVIOUS
    <3>4. QED
      BY <3>1, <3>2, <3>3
  <2>9. QED
    BY <1>7, <2>4, <2>7, <2>8
<1>10. QED
  BY <1>8, <1>9
=============================================================================
