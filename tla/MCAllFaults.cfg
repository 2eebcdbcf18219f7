SPECIFICATION Spec
CONSTANTS
    Jobs = {s, u}
    Sessions = {s}
    Workers = {w1}
    NoJob = NoJob
    MaxEntries = 3
    DeleteAudio = FALSE
    Ops = {"create", "session", "close", "reopen", "retry", "cancel", "delete", "sweep"}
    Faults = {"raise", "native", "spawn", "timeout", "crash", "enqueue", "redis"}
CONSTRAINT OneRecording
INVARIANTS
    SourceKept
PROPERTIES
    NoRevival
CHECK_DEADLOCK FALSE
