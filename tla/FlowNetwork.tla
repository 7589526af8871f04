---------------------------- MODULE FlowNetwork ----------------------------
(***************************************************************************)
(* flow_network () of flow.c: a raster is copied, its pits are filled, its *)
(* cells are given drains, and the cells that drain through each are       *)
(* counted.  A phase is the part of the call that comes next.              *)
(***************************************************************************)
EXTENDS PriorityFlood, FlowAccumulation

VARIABLES
    phase,
    tag, type, g1, g2,      \* the arrays of Garbrecht_Martz ()
    stagnant,               \* the cells that drain_validity () marks
    dir, invDir             \* the drains, and their inverses

routeVars == <<tag, type, g1, g2, stagnant, dir, invDir>>
vars == <<floodVars, routeVars, countVars, phase>>

NoDrains == [p \in Inside |-> NoDir]

RouteInit ==
    /\ tag = [p \in Halo |-> NoTag]
    /\ type = [p \in Halo |-> "none"]
    /\ g1 = NothingYet
    /\ g2 = NothingYet
    /\ stagnant = {}
    /\ dir = NoDrains
    /\ invDir = InvDirs(NoDrains)

Init == FloodInit /\ RouteInit /\ CountInit /\ phase = "idle"

Goes(from, to) == phase = from /\ phase' = to

CopyRaster  == Goes("idle", "loaded") /\ Load /\ UNCHANGED <<routeVars, countVars>>
SkipFlats   == Goes("loaded", "tagged") /\ TagReservoirs /\ UNCHANGED <<routeVars, countVars>>
StartFlood  == Goes("tagged", "flood") /\ PushBoundary /\ UNCHANGED <<routeVars, countVars>>
Flood       == Goes("flood", "flood") /\ FloodStep /\ UNCHANGED <<routeVars, countVars>>
EndFlood    == Goes("flood", "tag") /\ pq.data = <<>> /\ UNCHANGED <<floodVars, routeVars, countVars>>

TagFlats ==
    /\ Goes("tag", "type")
    /\ tag' = FlatTag(elevation)
    /\ stagnant' = Stagnant(elevation, tag')
    /\ UNCHANGED <<floodVars, countVars, type, g1, g2, dir, invDir>>

TypeFlats ==
    /\ Goes("type", "gradients")
    /\ type' = FlatType(tag, D8(elevation), InvDirs(D8(elevation)))
    /\ UNCHANGED <<floodVars, countVars, tag, g1, g2, stagnant, dir, invDir>>

FindInward ==
    /\ Goes("gradients", "invert")
    /\ g1' = FromInlets(tag, type)
    /\ UNCHANGED <<floodVars, countVars, tag, type, g2, stagnant, dir, invDir>>

Invert ==
    /\ Goes("invert", "outward")
    /\ g1' = Inverted(tag, g1)
    /\ UNCHANGED <<floodVars, countVars, tag, type, g2, stagnant, dir, invDir>>

FindOutward ==
    /\ Goes("outward", "route")
    /\ g2' = FromOutlets(tag, type)
    /\ UNCHANGED <<floodVars, countVars, tag, type, g1, stagnant, dir, invDir>>

Route ==
    /\ Goes("route", "routed")
    /\ dir' = Drains(elevation, tag, g1, g2)
    /\ invDir' = InvDirs(dir')
    /\ UNCHANGED <<floodVars, countVars, tag, type, g1, g2, stagnant>>

(* DAG_validity (): a program that fails its assertions is no more *)
CheckDrains ==
    /\ Goes("routed", IF DAG_validity(dir, invDir) THEN "checked" ELSE "aborted")
    /\ UNCHANGED <<floodVars, routeVars, countVars>>

Start       == Goes("checked", "count") /\ StartCount(invDir) /\ UNCHANGED <<floodVars, routeVars>>

(* with the assertion of its loop *)
Count ==
    /\ queue.count > 0
    /\ Goes("count", IF Awaited(dir) THEN "count" ELSE "aborted")
    /\ CountStep(dir)
    /\ UNCHANGED <<floodVars, routeVars>>

(* the assertion of flow_accumulation (): a program that fails it is no more *)
EndCount ==
    /\ Goes("count", IF counted = Inside THEN "done" ELSE "aborted")
    /\ queue.count = 0
    /\ UNCHANGED <<floodVars, routeVars, countVars>>

(* flow_network_free () *)
Free ==
    /\ Goes("done", "idle")
    /\ raster' = NothingYet /\ elevation' = NothingYet /\ visited' = {} /\ pq' = PqCreate
    /\ tag' = [p \in Halo |-> NoTag] /\ type' = [p \in Halo |-> "none"]
    /\ g1' = NothingYet /\ g2' = NothingYet /\ stagnant' = {}
    /\ dir' = NoDrains /\ invDir' = InvDirs(NoDrains)
    /\ acc' = [p \in Inside |-> 0] /\ in_degree' = [p \in Halo |-> {}]
    /\ queue' = QueueInit /\ counted' = {}

Call == \/ SkipFlats \/ StartFlood \/ Flood \/ EndFlood
        \/ TagFlats \/ TypeFlats \/ FindInward \/ Invert \/ FindOutward \/ Route
        \/ CheckDrains \/ Start \/ Count \/ EndCount

Next == CopyRaster \/ Call \/ Free

Spec == Init /\ [][Next]_vars

-----------------------------------------------------------------------------
(* the cells of flow_remove_pits () that no patch kept the flood from *)
Flooded == {p \in visited : p \in Inside /\ elevation[p] # NaN}

(* cells that 'from' reaches by steps to neighbours in 'through' *)
Reach(from, through) ==
    LET within[n \in 0 .. Width * Height] ==
            IF n = 0 THEN {p : p \in from \intersect through}
            ELSE LET before == within[n - 1]
                 IN  before \union UNION {Around(p) \intersect through : p \in before}
    IN  within[Width * Height]

(* the cells whose water comes by p *)
Above(p) ==
    LET into(q) == {r : r \in {s \in Around(q) \intersect Inside :
                                  dir[s] # NoDir /\ Neighbor(s, dir[s]) = q}}
        within[n \in 0 .. Width * Height] ==
            IF n = 0 THEN into(p)
            ELSE LET before == within[n - 1] IN before \union UNION {into(q) : q \in before}
    IN  within[Width * Height]

-----------------------------------------------------------------------------
(* What the flood leaves is the raster filled to where it spills: a cell it *)
(* came to has the lowest elevation, its own at least, over which it is     *)
(* connected to the boundary without crossing a patch of equal elevation;   *)
(* those patches, and what only they connect, keep what the raster had.     *)
FilledToSpill ==
    phase = "tag" =>
        LET flat == FlatTag(raster)
            open == {p \in Inside : raster[p] # NaN /\ flat[p] = NoTag}
            under(l) == {p \in open : raster[p] <= l}
            wet == [l \in {raster[p] : p \in open} |->
                       Reach({p \in Inside : OnBoundary(p)}, under(l))]
        IN  \A p \in Inside :
              LET spills == {l \in DOMAIN wet : p \in wet[l]}
              IN  elevation[p] = IF spills = {} THEN raster[p] ELSE Least(spills)

(* The searches of Garbrecht_Martz () find the fewest steps: the ring of    *)
(* fifo.c keeps its order when it grows with contents that wrap around its  *)
(* end, and no cell is reached by a longer way first.                       *)
SearchesFindSteps ==
    /\ phase = "invert" => g1 = Search(Inlets(type), tag)
    /\ phase = "route"  => g2 = Search(Outlets(type), tag)

(* Water finds a way: every cell the flood came to has a drain in the end,  *)
(* and so has every cell of a patch with an outlet, also where the outlet   *)
(* is a ghost cell; what Garbrecht_Martz () is for.  The stagnant cells of  *)
(* drain_validity () are rightly called so: their water stays in them.      *)
WaterFindsAWay ==
    phase = "routed" =>
        \A p \in Inside :
            /\ (\/ tag[p] = NoTag /\ p \in Flooded /\ ~OnBoundary(p)
                \/ tag[p] # NoTag /\ \E q \in Halo : tag[q] = tag[p] /\ type[q] = "outlet")
               => dir[p] # NoDir
            /\ p \in stagnant /\ dir[p] # NoDir => Neighbor(p, dir[p]) \in stagnant

(* The drains form a forest, over flats as well, where they follow the sum  *)
(* of two distances: no water comes back (DAG_validity ()).                 *)
DrainsFormForest ==
    phase = "routed" => \A p \in Inside : p \notin Above(p)

(* DAG_validity (), the assertion on in_degree [] and that on the cells     *)
(* counted ("Kahn's topological consistency") never fail, and in the end a  *)
(* cell has counted itself and every cell whose water comes by it,          *)
(* whichever way that water took (flow_accumulation ()).                    *)
CountsExact ==
    /\ phase # "aborted"
    /\ phase = "done" => \A p \in Inside : acc[p] = 1 + Cardinality(Above(p))
=============================================================================
