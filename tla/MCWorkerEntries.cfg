SPECIFICATION WorkerSpec
CONSTANTS
    a1 = a1
    a2 = a2
    b1 = b1
    Appends = {a1, a2}
    Writes = {b1}
    Reads = {r1}
    Body <- MCBody
    Length <- MCLength
    MaxRemovals = 2
    MaxCrashes = 1
    EntriesDurable = FALSE
    NoAppend = NoAppend
    NoRead = NoRead
INVARIANT BlocksKept
CHECK_DEADLOCK FALSE
