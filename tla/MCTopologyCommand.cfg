SPECIFICATION Spec
CONSTANTS
    MaxJobs = 2
    Kinds = {"bootstrap", "cli_reset"}
    MachineCount <- MCSmallest
    Uploads = {u1}
    OverlappingJobs = FALSE
    MaxErrors = 0
    MaxMishaps = 0
    NoMachine = NoMachine
INVARIANTS
    CliResetSucceeds
CHECK_DEADLOCK FALSE
