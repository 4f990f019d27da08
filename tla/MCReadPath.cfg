SPECIFICATION FairSpec
CONSTANTS
    InlineThreshold = 2
    BlockSize = 8
    DataShards = 2
    ParityShards = 1
    BytesPerMB = 2
    m1 = m1
    m2 = m2
    m3 = m3
    inl = inl
    w1 = w1
    w2 = w2
    w3 = w3
    w4 = w4
    BlockMachines = {m1, m2, m3}
    InlineMachines = {inl}
    CapacityMB = 8
    Uploads = {u1}
    FileSizes <- MCReadSizes
    Workers = {w1, w2, w3, w4}
    WorkerOf <- MCWorkerOf
    MaxFaults = 2
    Downloads = {d1}
    NoBlob = NoBlob
INVARIANTS
    ReadTypeOK
    CatalogBacked
    FailuresExplained
PROPERTIES
    KeepsPromises
    DownloadsEnd
    UploadsEnd
CHECK_DEADLOCK FALSE
