SPECIFICATION FairSpec
CONSTANTS
    t1 = t1
    t2 = t2
    t3 = t3
    t4 = t4
    d1 = d1
    d2 = d2
    d3 = d3
    w1 = w1
    w2 = w2
    Uploads = {t1, t2, t3, t4}
    Discs = {d1, d2, d3}
    Workers = {w1, w2}
    Chunks <- MCChunks
    BytesPerMB = 2
    MaxErrors = 1
    NoUpload = NoUpload
    NoRow = NoRow
INVARIANTS
    TypeOK
    DeadlockNeedsTwo
PROPERTIES
    ChargesOnce
    CommitsEnd
CHECK_DEADLOCK FALSE
