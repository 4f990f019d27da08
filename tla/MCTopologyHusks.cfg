SPECIFICATION Spec
CONSTANTS
    MaxJobs = 2
    Kinds = {"bootstrap", "reset"}
    MachineCount <- MCSmallest
    Uploads = {u1, u2}
    OverlappingJobs = FALSE
    MaxErrors = 0
    MaxMishaps = 0
    NoMachine = NoMachine
INVARIANTS
    BlobsKeepTheirRows
CHECK_DEADLOCK FALSE
