SPECIFICATION FairSpec
CONSTANTS
    Jobs = {j1, j2, j3}
    Patient = TRUE
    MaxErrors = 1
    Nothing = Nothing
INVARIANTS
    TypeOK
PROPERTIES
    NoCloseInWork
    DialogGoesOn
CHECK_DEADLOCK FALSE
