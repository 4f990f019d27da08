--------------------------- MODULE MCInlineEngine ---------------------------
EXTENDS InlineEngine, TLC
CONSTANTS a1, a2, a3
\* Bodies of different lengths; one append fits in the hole of another.
MCLength == (a1 :> 2) @@ (a2 :> 1) @@ (a3 :> 2)
=============================================================================
