--------------------------- MODULE MCUploadStaging --------------------------
EXTENDS UploadStaging, TLC
CONSTANTS q1, q2, q3, q4
\* Each of the two parts may be sent twice.
MCPartOf == (q1 :> 1) @@ (q2 :> 1) @@ (q3 :> 2) @@ (q4 :> 2)
\* The first part twice, the second once.
MCPartOfThree == (q1 :> 1) @@ (q2 :> 1) @@ (q3 :> 2)
\* Each part once.
MCPartOfTwo == (q1 :> 1) @@ (q3 :> 2)
=============================================================================
