SPECIFICATION WorkerSpec
CONSTANTS
    a1 = a1
    a2 = a2
    b1 = b1
    Appends = {a1, a2}
    Writes = {b1}
    Reads = {r1}
    Body <- MCBody
    Length <- MCLength
    MaxRemovals = 2
    MaxCrashes = 1
    EntriesDurable = TRUE
    NoAppend = NoAppend
    NoRead = NoRead
INVARIANTS
    TypeOK
    AckedIntact
    WorkerTypeOK
    BlocksKept
    ReadsExact
PROPERTIES
    AppendsEnd
CHECK_DEADLOCK FALSE
