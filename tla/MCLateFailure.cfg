SPECIFICATION Spec
CONSTANTS
    Jobs = {s}
    Sessions = {s}
    Workers = {w1, w2}
    NoJob = NoJob
    MaxEntries = 3
    DeleteAudio = TRUE
    Ops = {"session", "close", "reopen", "retry", "cancel", "delete"}
    Faults = {"raise"}
INVARIANT EditableAlone
CHECK_DEADLOCK FALSE
