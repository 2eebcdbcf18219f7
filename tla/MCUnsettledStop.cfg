SPECIFICATION FairSpec
CONSTANTS
    Jobs = {u}
    Sessions = {}
    Workers = {w1}
    NoJob = NoJob
    MaxEntries = 3
    DeleteAudio = FALSE
    Ops = {"create", "cancel"}
    Faults = {}
PROPERTY EveryStopSettles
CHECK_DEADLOCK FALSE
