SPECIFICATION FairSpec
CONSTANTS
    a1 = a1
    a2 = a2
    a3 = a3
    Appends = {a1, a2, a3}
    Length <- MCLength
    MaxRemovals = 1
    MaxCrashes = 1
    EntriesDurable = TRUE
    NoAppend = NoAppend
INVARIANTS
    TypeOK
    AckedIntact
PROPERTIES
    AppendsEnd
CHECK_DEADLOCK FALSE
