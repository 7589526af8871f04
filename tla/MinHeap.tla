------------------------------ MODULE MinHeap ------------------------------
(***************************************************************************)
(* The binary heap of min-heap.c: the nodes in use and the capacity of the *)
(* array, C's data[i] being data[i + 1] here; a node is [key, at].  A pop  *)
(* leaves a copy of the last node beyond the end, which nothing reads.     *)
(***************************************************************************)
EXTENDS Integers, Sequences

CONSTANT HeapPage   \* nodes in the page pq_create () asks for

ASSUME HeapPageAssumption == HeapPage \in Nat \ {0}

Swap(d, i, j) == [d EXCEPT ![i] = d[j], ![j] = d[i]]

(* One turn of the loops of sift_up () and of sift_down (), from node b.i;  *)
(* a node that is in its place stays.                                      *)
Rise(b) ==
    LET parent == b.i \div 2
    IN  IF parent = 0 \/ b.d[parent].key <= b.d[b.i].key THEN b
        ELSE [d |-> Swap(b.d, parent, b.i), i |-> parent]

\* Faulty variant for a mutation run: the second child is not looked at.
Sink_OneChild(b) ==
    LET child == 2 * b.i
        smallest == IF child <= Len(b.d) /\ b.d[child].key < b.d[b.i].key THEN child ELSE b.i
    IN  [d |-> Swap(b.d, smallest, b.i), i |-> smallest]

Sink(b) ==
    LET below(c, i) == IF c <= Len(b.d) /\ b.d[c].key < b.d[i].key THEN c ELSE i
        smallest == below(2 * b.i + 1, below(2 * b.i, b.i))
    IN  [d |-> Swap(b.d, smallest, b.i), i |-> smallest]

SiftUp(data) ==
    LET turn[k \in 0 .. Len(data)] ==
            IF k = 0 THEN [d |-> data, i |-> Len(data)] ELSE Rise(turn[k - 1])
    IN  turn[Len(data)].d

SiftDown(data) ==
    LET turn[k \in 0 .. Len(data)] ==
            IF k = 0 THEN [d |-> data, i |-> 1] ELSE Sink(turn[k - 1])
    IN  turn[Len(data)].d

PqCreate == [data |-> <<>>, capacity |-> HeapPage]

PqPush(pq, node) ==
    [data     |-> SiftUp(Append(pq.data, node)),
     capacity |-> IF Len(pq.data) = pq.capacity THEN 2 * pq.capacity ELSE pq.capacity]

PqMin(pq) == pq.data[1]

PqPop(pq) ==
    LET n == Len(pq.data)
    IN  [pq EXCEPT !.data = IF n = 1 THEN <<>>
                            ELSE SiftDown([SubSeq(pq.data, 1, n - 1) EXCEPT ![1] = pq.data[n]])]
=============================================================================
