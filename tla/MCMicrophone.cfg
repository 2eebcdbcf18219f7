SPECIFICATION FairSessionSpec
CONSTANTS
    Clips = {c1}
    Sockets = {s1, s2}
    Utterances = 2
    Workers = {w1}
    MaxAdded = 2
    MaxFiles = 1
    ClientCap = 2
    MaxConcurrent = 1
    MaxQueued = 1
    DeleteAudio = FALSE
    None = None
    SessionFaults = {"enqueue", "raise", "leave", "revoke"}
INVARIANTS
    FinishSaved
    NeverBusy
    RevokedStoresNothing
PROPERTIES
    PendingResolved
    UtteranceSettled
CONSTRAINTS SmallSession OneSource
CHECK_DEADLOCK FALSE
