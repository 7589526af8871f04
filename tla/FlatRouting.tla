---------------------------- MODULE FlatRouting ----------------------------
(***************************************************************************)
(* The pure parts of flow.c: the patches of equal elevation (flat_tag ()), *)
(* what their cells are (flat_type ()), and the drains over them           *)
(* (Garbrecht_Martz ()).  Every array is a function of the elevation here; *)
(* a breadth-first search is the distance it computes.  A patch is named   *)
(* by the scan index of its first cell where the code counts patches.      *)
(***************************************************************************)
EXTENDS Raster, Fifo

NoTag == -1

Least(S) == CHOOSE i \in S : \A j \in S : i <= j

(***************************************************************************)
(* flat_tag ().  A search goes on from cells of the domain only; a ghost   *)
(* cell belongs to the first patch that comes to it.                       *)
(***************************************************************************)
Alike(e, p) == {q \in Around(p) : q \in Inside /\ e[q] = e[p] /\ e[p] # NaN}

(* the connected sets of equal elevation of the domain, cell by cell *)
Patches(e) ==
    LET found[n \in 0 .. Width * Height] ==
            IF n = 0 THEN {}
            ELSE LET before == found[n - 1]
                     p == CellAt(n - 1)
                     joined == {P \in before : P \intersect Alike(e, p) # {}}
                 IN  (before \ joined) \union {{p} \union UNION joined}
    IN  found[Width * Height]

First(P) == Least({ScanIndex(p) : p \in P})

(* a ghost cell goes to the first patch it is alike to *)
Ghosts(e, patches, P) ==
    {g \in Halo \ Inside :
        /\ P \intersect Alike(e, g) # {}
        /\ \A Q \in patches : Q \intersect Alike(e, g) # {} => First(P) <= First(Q)}

(* tag [], from the connected sets: a single cell is no patch *)
Tags(e, patches) ==
    LET flats == {P \in patches : Cardinality(P \union Ghosts(e, patches, P)) > 1}
    IN  [p \in Halo |->
            LET mine == {P \in flats : p \in P \union Ghosts(e, patches, P)}
            IN  IF mine = {} THEN NoTag ELSE First(CHOOSE P \in mine : TRUE)]

FlatTag(e) == Tags(e, Patches(e))

(***************************************************************************)
(* flat_type ()                                                            *)
(***************************************************************************)
FlatType(tag, dir, inv) ==
    [p \in Halo |->
        IF tag[p] = NoTag THEN "none"
        ELSE IF p \in Inside /\ dir[p] # NoDir THEN "outlet"
        ELSE IF inv[p] # {} THEN "inlet"
        ELSE IF p \notin Inside THEN "outlet"
        ELSE "flat"]

(***************************************************************************)
(* Garbrecht_Martz ()                                                      *)
(***************************************************************************)

(* Steps from the seeds within their patches, 1 at a seed and 0 out of reach: *)
(* the pairs of a cell and its steps, found up to k steps.                    *)
StepsFrom(seeds, tag) ==
    LET n == Cardinality(Halo)
        found[k \in 1 .. n] ==
            IF k = 1 THEN {<<p, 1>> : p \in seeds}
            ELSE LET before == found[k - 1]
                     seen == {s[1] : s \in before}
                     last == {s[1] : s \in {s \in before : s[2] = k - 1}}
                 IN  before \union {<<p, k>> : p \in
                        {q \in Halo \ seen : \E r \in Around(q) \intersect last : tag[r] = tag[q]}}
        all == found[n]
    IN  [p \in Halo |-> IF \E s \in all : s[1] = p THEN (CHOOSE s \in all : s[1] = p)[2] ELSE 0]

(* a cell of the search: its steps, and its place in the ring *)
Reached(search, p, steps) ==
    [ring |-> QueuePush(search.ring, p), steps |-> [search.steps EXCEPT ![p] = steps]]

(* The same as the code finds it: the seeds in the order of the loops, then *)
(* the cell at the front of the ring and its neighbours in their order.  A  *)
(* cell is visited [] once it has steps.                                    *)
Search(seeds, tag) ==
    LET cells == (Width + 2) * (Height + 2)
        haloAt(i) == <<(i % (Width + 2)) - 1, (i \div (Width + 2)) - 1>>
        beside(p, k) == <<p[1] + (k % 3) - 1, p[2] + (k \div 3) - 1>>
        begun[i \in 0 .. cells] ==
            IF i = 0 THEN [ring |-> QueueInit, steps |-> [p \in Halo |-> 0]]
            ELSE LET before == begun[i - 1]
                 IN  IF haloAt(i - 1) \in seeds THEN Reached(before, haloAt(i - 1), 1) ELSE before
        around(now, p) ==
            LET upTo[k \in 0 .. 9] ==
                    IF k = 0 THEN [now EXCEPT !.ring = QueuePop(@)]
                    ELSE LET before == upTo[k - 1]
                             q == beside(p, k - 1)
                         IN  IF q \in Halo /\ before.steps[q] = 0 /\ tag[q] = tag[p]
                             THEN Reached(before, q, before.steps[p] + 1) ELSE before
            IN  upTo[9]
        goesOn[n \in 0 .. cells] ==
            IF n = 0 THEN begun[cells]
            ELSE LET before == goesOn[n - 1]
                 IN  IF before.ring.count = 0 THEN before ELSE around(before, QueueFront(before.ring))
    IN  goesOn[cells].steps

(* g1 [] away from the inlets *)
Inlets(type) == {p \in Inside : type[p] = "inlet"}
FromInlets(tag, type) == StepsFrom(Inlets(type), tag)

(* inverted, so that the inlets are highest and it falls inwards *)
Inverted(tag, g1) ==
    [p \in Halo |->
        IF tag[p] = NoTag THEN 0
        ELSE LET steps == {g1[q] : q \in {q \in Halo : tag[q] = tag[p]}}
             IN  (CHOOSE m \in steps : \A k \in steps : k <= m) - g1[p] + 1]

(* g2 [] toward the outlets, ghost cells included *)
\* Faulty variant for a mutation run: ghost cells left out.
Outlets_InsideOnly(type) == {p \in Inside : type[p] = "outlet"}

Outlets(type) == {p \in Halo : type[p] = "outlet"}
FromOutlets(tag, type) == StepsFrom(Outlets(type), tag)

(* W1 g1 + W2 g2 *)
Level(g1, g2, p) == g1[p] + 2 * g2[p]

(* where a cell without a lower neighbour drains: down the level in its patch *)
FallbackDir(tag, g1, g2, p) ==
    IF tag[p] = NoTag /\ OnBoundary(p) THEN NoDir
    ELSE LET same == {c \in Dirs : tag[Neighbor(p, c)] = tag[p]}
         IN  Steepest([c \in same |-> Level(g1, g2, p) - Level(g1, g2, Neighbor(p, c))])

(* dir [] of Garbrecht_Martz () *)
Drains(e, tag, g1, g2) ==
    [p \in Inside |-> IF DownhillDir(e, p) # NoDir THEN DownhillDir(e, p)
                      ELSE FallbackDir(tag, g1, g2, p)]

(***************************************************************************)
(* drain_validity (): the cells of the picture it leaves when a cell of no *)
(* patch has no drain downhill.  Its answer is not looked at.              *)
(***************************************************************************)
Stagnant(e, tag) ==
    LET drained == {p \in Inside : OnBoundary(p) \/ DownhillDir(e, p) # NoDir}
        dry == {tag[p] : p \in drained}
        pools == {p \in Inside \ drained : tag[p] = NoTag}
    IN  IF pools = {} THEN {}
        ELSE pools \union {p \in Inside : tag[p] # NoTag /\ tag[p] \notin dry}

(***************************************************************************)
(* DAG_validity (): the assertions on dir [] and invDir [].  A walk goes   *)
(* down from every cell in turn until it comes to a cell of a walk before, *)
(* and must not come back to where it began.  A loop that a walk enters    *)
(* from above is not seen, now or later, as its cells have been visited.   *)
(***************************************************************************)
Complementary(dir, inv) ==
    /\ \A p \in Inside : dir[p] # NoDir => Opposite(dir[p]) \in inv[Neighbor(p, dir[p])]
    /\ \A q \in Inside : \A c \in inv[q] :
          Neighbor(q, c) \in Inside /\ dir[Neighbor(q, c)] = Opposite(c)

(* the walk from a cell: where it ends, and the cells visited by then *)
WalkDown(dir, from, visited) ==
    LET walk[n \in 0 .. Width * Height] ==
            IF n = 0 THEN [at |-> from, visited |-> visited]
            ELSE LET w == walk[n - 1]
                 IN  IF w.at \in w.visited \/ w.at \notin Inside \/ dir[w.at] = NoDir THEN w
                     ELSE [at |-> Neighbor(w.at, dir[w.at]), visited |-> w.visited \union {w.at}]
    IN  walk[Width * Height]

NoWalkComesBack(dir) ==
    LET before[i \in 0 .. Width * Height] ==
            IF i = 0 THEN {}
            ELSE UNION {WalkDown(dir, CellAt(i - 1), seen).visited : seen \in {before[i - 1]}}
    IN  \A i \in 0 .. Width * Height - 1 :
            LET p == CellAt(i)
            IN  p \notin before[i] /\ dir[p] # NoDir => WalkDown(dir, p, before[i]).at # p

DAG_validity(dir, inv) == Complementary(dir, inv) /\ NoWalkComesBack(dir)
=============================================================================
