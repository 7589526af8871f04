------------------------------- MODULE MCPool -------------------------------
\* The pool with objects small and large, two of the large ones to a chunk.
EXTENDS Pool

MCSizes == {24, 400000}
MCHotLimits == {0, 1, 3}
=============================================================================
