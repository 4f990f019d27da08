SPECIFICATION Spec
CONSTANTS
    DataShards = 3
    ParityShards = 1
    Blocks <- MCBlocks
    Contents <- MCField
    Encode <- MCForgets
INVARIANTS
    EveryLossRebuilds
CHECK_DEADLOCK FALSE
