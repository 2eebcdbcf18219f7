SPECIFICATION Spec
CONSTANTS
    Jobs = {s}
    Sessions = {s}
    Workers = {w1, w2}
    NoJob = NoJob
    MaxEntries = 3
    DeleteAudio = TRUE
    Ops = {"session", "close", "reopen", "retry", "cancel", "delete", "sweep", "suspend"}
    Faults = {"native", "spawn", "timeout", "crash", "redis"}
SYMMETRY WorkerSymmetry
INVARIANTS
    TypeOK
    SingleDecoder
    StopConfirmed
    EditableAlone
    QueuedHasSource
    SuspensionHolds
    ExclusiveInv
PROPERTIES
    FailedIsStable
    ImplementsLifecycle
CHECK_DEADLOCK FALSE
