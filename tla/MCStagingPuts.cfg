SPECIFICATION Spec
CONSTANTS
    q1 = q1
    q2 = q2
    q3 = q3
    q4 = q4
    TotalSize = 3
    SliceSize = 2
    Inline = TRUE
    Puts = {q1, q2, q3}
    PartOf <- MCPartOfThree
    Completes = {c1, c2}
    OverlappingPuts = TRUE
    OverlappingCompletes = FALSE
    MaxRestarts = 0
INVARIANTS
    StoredExact
CHECK_DEADLOCK FALSE
