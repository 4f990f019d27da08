SPECIFICATION Spec
CONSTANTS
    DataShards = 3
    ParityShards = 1
    Blocks <- MCBlocks
    Contents <- MCField
    Encode <- MCSum
INVARIANTS
    TypeOK
    PassedIsIntact
    IntactIsPassed
CHECK_DEADLOCK FALSE
