-------------------------- MODULE FlowAccumulation --------------------------
(***************************************************************************)
(* flow_accumulation () of flow.c: Kahn's order over the drains.  A cell   *)
(* is counted once all that drains into it has been, first come first      *)
(* served by the ring of fifo.c, and adds what it has to the cell it       *)
(* drains into.                                                            *)
(***************************************************************************)
EXTENDS Raster, Fifo

VARIABLES
    acc,         \* how many cells drain through a cell, itself included
    in_degree,   \* the directions from which a cell still waits for water
    queue,       \* of the cells that wait no more
    counted      \* the cells taken from the queue: 'processed' of them

countVars == <<acc, in_degree, queue, counted>>

CountInit ==
    /\ acc = [p \in Inside |-> 0]
    /\ in_degree = [p \in Halo |-> {}]
    /\ queue = QueueInit
    /\ counted = {}

(* the ring with the cells that nothing drains into, in the order of the loops *)
Sources(waits) ==
    LET after[i \in 0 .. Width * Height] ==
            IF i = 0 THEN QueueInit
            ELSE LET before == after[i - 1]
                     p == CellAt(i - 1)
                 IN  IF waits[p] = {} THEN QueuePush(before, p) ELSE before
    IN  after[Width * Height]

StartCount(invDir) ==
    /\ acc' = [p \in Inside |-> 1]
    /\ in_degree' = invDir
    /\ queue' = Sources(invDir)
    /\ counted' = {}

(* what a cell that is counted brings to the one it drains into *)
Brings(p) == acc[p]

\* Faulty variant for a mutation run: the first water that comes will do.
WaitsNoMore_FirstCome(waits) == TRUE

WaitsNoMore(waits) == waits = {}

(* the assertion on in_degree [] *)
Awaited(dir) ==
    LET p == QueueFront(queue)
        q == Neighbor(p, dir[p])
    IN  dir[p] = NoDir \/ q \notin Inside \/ Opposite(dir[p]) \in in_degree[q]

CountStep(dir) ==
    /\ queue.count > 0
    /\ LET p == QueueFront(queue)
           rest == QueuePop(queue)
           q == Neighbor(p, dir[p])
       IN  /\ counted' = counted \union {p}
           /\ IF dir[p] = NoDir \/ q \notin Inside
              THEN /\ queue' = rest
                   /\ UNCHANGED <<acc, in_degree>>
              ELSE LET waits == in_degree[q] \ {Opposite(dir[p])}
                   IN  /\ acc' = [acc EXCEPT ![q] = @ + Brings(p)]
                       /\ in_degree' = [in_degree EXCEPT ![q] = waits]
                       /\ queue' = IF WaitsNoMore(waits) THEN QueuePush(rest, q) ELSE rest
=============================================================================
