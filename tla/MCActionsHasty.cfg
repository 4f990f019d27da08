SPECIFICATION FairSpec
CONSTANTS
    Jobs = {j1, j2, j3}
    Patient = FALSE
    MaxErrors = 1
    Nothing = Nothing
PROPERTIES
    NoCloseInWork
CHECK_DEADLOCK FALSE
