SPECIFICATION Spec
CONSTANTS
    q1 = q1
    q2 = q2
    q3 = q3
    q4 = q4
    TotalSize = 3
    SliceSize = 2
    Inline = TRUE
    Puts = {q1, q2, q3, q4}
    PartOf <- MCPartOf
    Completes = {c1, c2}
    OverlappingPuts = FALSE
    OverlappingCompletes = FALSE
    MaxRestarts = 1
INVARIANTS
    TypeOK
    StoredExact
    KeptUntilStored
PROPERTIES
    StoredOnce
CHECK_DEADLOCK FALSE
