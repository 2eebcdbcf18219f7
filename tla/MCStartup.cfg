SPECIFICATION FairStartupSpec
CONSTANTS
    Procs = {p1, p2}
    NumTables = 3
    JobsTable = 2
    NumColumns = 2
    Attempts = 3
    MaxCrashes = 1
    NoKey = NoKey
INVARIANTS
    StartupTypeOK
    ReadySchema
    OneKey
    LossesAreProgress
PROPERTIES
    KeyShared
CHECK_DEADLOCK FALSE
