SPECIFICATION Spec
CONSTANTS
    Jobs = {u}
    Sessions = {}
    Workers = {w1}
    NoJob = NoJob
    MaxEntries = 3
    DeleteAudio = FALSE
    Ops = {"create", "cancel"}
    Faults = {}
PROPERTY DoneIsFinal
CHECK_DEADLOCK FALSE
