SPECIFICATION FairSpec
CONSTANTS
    MaxJobs = 3
    Kinds = {"bootstrap", "reset"}
    MachineCount <- MCTwoDaemons
    Uploads = {u1}
    OverlappingJobs = FALSE
    MaxErrors = 1
    MaxMishaps = 1
    NoMachine = NoMachine
INVARIANTS
    TypeOK
    LatestStands
    ChunksExist
PROPERTIES
    JobsEnd
CHECK_DEADLOCK FALSE
