SPECIFICATION Spec
CONSTANTS
    Jobs = {u}
    Sessions = {}
    Workers = {w1}
    NoJob = NoJob
    MaxEntries = 3
    DeleteAudio = TRUE
    Ops = {"create", "retry", "cancel", "delete"}
    Faults = {}
INVARIANT CanceledKeepsSource
CHECK_DEADLOCK FALSE
