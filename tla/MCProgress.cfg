SPECIFICATION FairSpec
CONSTANTS
    Jobs = {u, s}
    Sessions = {s}
    Workers = {w1, w2}
    NoJob = NoJob
    MaxEntries = 2
    DeleteAudio = TRUE
    Ops = {"create", "session", "close", "retry", "cancel", "delete", "sweep", "suspend"}
    Faults = {"spawn", "redis"}
CONSTRAINTS OneRecording SessionOnce
INVARIANTS
    DeletedLeavesNothing
    DoneHasResult
    QueuedHasDelivery
PROPERTIES
    QueuedMovesOn
    SupervisedStopSettles
CHECK_DEADLOCK FALSE
