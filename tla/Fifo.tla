-------------------------------- MODULE Fifo --------------------------------
(***************************************************************************)
(* The ring of fifo.c: a buffer of cap slots, the slot of the front and    *)
(* the number of pairs in it.  cap is a power of two times Page, itself    *)
(* one, so that '& (cap - 1)' is '% cap'.  malloc () does not fail.        *)
(***************************************************************************)
EXTENDS Integers, Sequences

CONSTANTS Page,   \* the capacity queue_init () starts with
          Junk    \* what an unwritten slot reads as

ASSUME PageAssumption == Page \in Nat \ {0}

Slot(q, i) == (q.head + i) % q.cap

QueueInit == [buf |-> [s \in 0 .. Page - 1 |-> Junk], head |-> 0, count |-> 0, cap |-> Page]

\* Faulty variant for a mutation run: the slots are copied as they are.
QueueGrow_AsStored(q) ==
    [buf   |-> [s \in 0 .. 2 * q.cap - 1 |-> IF s < q.count THEN q.buf[s] ELSE Junk],
     head  |-> 0,
     count |-> q.count,
     cap   |-> 2 * q.cap]

QueueGrow(q) ==
    [buf   |-> [s \in 0 .. 2 * q.cap - 1 |-> IF s < q.count THEN q.buf[Slot(q, s)] ELSE Junk],
     head  |-> 0,
     count |-> q.count,
     cap   |-> 2 * q.cap]

QueuePush(q, e) ==
    LET r == IF q.count = q.cap THEN QueueGrow(q) ELSE q
    IN  [r EXCEPT !.buf[Slot(r, r.count)] = e, !.count = @ + 1]

QueueFront(q) == q.buf[q.head]
QueuePop(q) == [q EXCEPT !.head = Slot(q, 1), !.count = @ - 1]

(* what is in the ring, front first *)
Contents(q) == [i \in 1 .. q.count |-> q.buf[Slot(q, i - 1)]]
=============================================================================
