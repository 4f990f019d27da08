SPECIFICATION Spec
CONSTANTS
    MaxJobs = 2
    Kinds = {"bootstrap"}
    MachineCount <- MCSmallest
    Uploads = {u1}
    OverlappingJobs = TRUE
    MaxErrors = 0
    MaxMishaps = 0
    NoMachine = NoMachine
INVARIANTS
    BootstrapSucceeds
CHECK_DEADLOCK FALSE
