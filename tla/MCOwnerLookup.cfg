SPECIFICATION FairOwnerSpec
CONSTANTS
    Calls = {c1, c2, c3}
    MaxErrors = 2
    NoUser = NoUser
INVARIANTS
    OwnerTypeOK
    OwnersAreOne
PROPERTIES
    RetryHelps
CHECK_DEADLOCK FALSE
