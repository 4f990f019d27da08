SPECIFICATION Spec
CONSTANTS
    MaxJobs = 2
    Kinds = {"bootstrap", "reset"}
    MachineCount <- MCSmallest
    Uploads = {u1}
    OverlappingJobs = TRUE
    MaxErrors = 0
    MaxMishaps = 0
    NoMachine = NoMachine
INVARIANTS
    LatestStands
CHECK_DEADLOCK FALSE
