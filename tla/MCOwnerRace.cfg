SPECIFICATION OwnerSpec
CONSTANTS
    Calls = {c1, c2}
    MaxErrors = 0
    NoUser = NoUser
INVARIANTS
    LoserIsServed
CHECK_DEADLOCK FALSE
