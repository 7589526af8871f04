--------------------------- MODULE PriorityFlood ---------------------------
(***************************************************************************)
(* flow_remove_pits () of flow.c: the flood from the boundary inwards, the *)
(* lowest cell known first, that raises what it comes to from above.       *)
(* visited [] is reservoir [], the tags flat_tag () gave: the cells of     *)
(* patches of equal elevation are visited before the flood begins.         *)
(***************************************************************************)
EXTENDS FlatRouting, MinHeap

CONSTANT Rasters   \* the elevations to choose from, those of the ghost cells too

ASSUME RastersAssumption == Rasters \subseteq [Halo -> Int \union {NaN}]

VARIABLES
    raster,      \* as it was given, on Halo
    elevation,   \* its copy, that is filled
    visited,     \* the cells with visited [] set
    pq           \* the heap

floodVars == <<raster, elevation, visited, pq>>

NothingYet == [p \in Halo |-> 0]

FloodInit ==
    /\ raster = NothingYet
    /\ elevation = NothingYet
    /\ visited = {}
    /\ pq = PqCreate

(* grid_copy () of the raster, with the elevations geotiff_dem_window () put
   into its ghost cells *)
Load ==
    /\ raster' \in Rasters
    /\ elevation' = raster'
    /\ UNCHANGED <<visited, pq>>

(* the boundary in the order of the two loops: left and right, row by row,
   then top and bottom, column by column *)
BoundaryOrder ==
    [i \in 1 .. 2 * Height |-> <<IF i % 2 = 1 THEN 0 ELSE Width - 1, (i - 1) \div 2>>]
    \o [i \in 1 .. 2 * Width |-> <<(i - 1) \div 2, IF i % 2 = 1 THEN 0 ELSE Height - 1>>]

(* pushes nodes in turn, but those seen, before or in a turn before, and those
   without data *)
PushAll(heap, seen, nodes) ==
    LET pushed[i \in 0 .. Len(nodes)] ==
            IF i = 0 THEN heap
            ELSE LET before == pushed[i - 1]
                 IN  IF \/ nodes[i].key = NaN \/ nodes[i].at \in seen
                        \/ \E j \in 1 .. i - 1 : nodes[j].at = nodes[i].at
                     THEN before ELSE PqPush(before, nodes[i])
    IN  pushed[Len(nodes)]

(* the tags, which count as visited *)
TagReservoirs ==
    /\ visited' = LET tag == FlatTag(elevation) IN {p \in Halo : tag[p] # NoTag}
    /\ UNCHANGED <<raster, elevation, pq>>

PushBoundary ==
    /\ visited' = visited \union {p \in Inside : OnBoundary(p)}
    /\ pq' = PushAll(PqCreate, visited,
                [i \in DOMAIN BoundaryOrder |->
                    [key |-> elevation[BoundaryOrder[i]], at |-> BoundaryOrder[i]]])
    /\ UNCHANGED <<raster, elevation>>

(* one turn of the loop: the lowest cell, and its neighbours in order *)
FloodStep ==
    /\ pq.data # <<>>
    /\ LET low  == PqMin(pq)
           near == [c \in 1 .. 8 |-> Neighbor(low.at, c - 1)]
           shut == visited \union (Halo \ Inside)
           filled(p) == IF elevation[p] # NaN /\ low.key > elevation[p] THEN low.key ELSE elevation[p]
           reached == Around(low.at) \ shut
       IN  /\ visited' = visited \union reached
           /\ elevation' = [p \in Halo |-> IF p \in reached THEN filled(p) ELSE elevation[p]]
           /\ pq' = PushAll(PqPop(pq), shut, [c \in 1 .. 8 |-> [key |-> filled(near[c]), at |-> near[c]]])
           /\ UNCHANGED raster
=============================================================================
