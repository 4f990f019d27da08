SPECIFICATION Spec
CONSTANTS
    q1 = q1
    q2 = q2
    q3 = q3
    q4 = q4
    TotalSize = 3
    SliceSize = 2
    Inline = FALSE
    Puts = {q1, q3}
    PartOf <- MCPartOfTwo
    Completes = {c1, c2}
    OverlappingPuts = FALSE
    OverlappingCompletes = TRUE
    MaxRestarts = 0
INVARIANTS
    StoredReadable
CHECK_DEADLOCK FALSE
