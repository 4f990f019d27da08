------------------------------ MODULE MCWorker ------------------------------
EXTENDS Worker, TLC
CONSTANTS a1, a2, b1
\* Bodies of different lengths; one append fits in the hole of another.
MCLength == (a1 :> 2) @@ (a2 :> 1)
MCBody == b1 :> 2
=============================================================================
