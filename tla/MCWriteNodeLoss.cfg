SPECIFICATION WriteSpec
CONSTANTS
    InlineThreshold = 2
    BlockSize = 8
    DataShards = 2
    ParityShards = 1
    BytesPerMB = 2
    m1 = m1
    m2 = m2
    m3 = m3
    m4 = m4
    m5 = m5
    inl = inl
    w1 = w1
    w2 = w2
    w3 = w3
    BlockMachines = {m1, m2, m3, m4}
    InlineMachines = {inl}
    CapacityMB = 4
    Uploads = {u1}
    FileSizes <- MCFaultSizes
    Workers = {w1, w2, w3}
    WorkerOf <- MCWorkerOf
    MaxFaults = 1
INVARIANTS
    SurvivesNodeLoss
CHECK_DEADLOCK FALSE
