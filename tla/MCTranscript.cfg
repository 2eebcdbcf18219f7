SPECIFICATION SessionSpec
CONSTANTS
    Clips = {c1, c2}
    Sockets = {s1}
    Utterances = 2
    Workers = {w1}
    MaxAdded = 3
    MaxFiles = 2
    ClientCap = 1
    MaxConcurrent = 1
    MaxQueued = 1
    DeleteAudio = TRUE
    None = None
    SessionFaults = {"enqueue", "raise"}
INVARIANTS
    SessionTypeOK
    TranscriptOrder
    PendingIsAttended
    FilesAccounted
    ResultMatchesTranscript
PROPERTIES
    EditKept
SYMMETRY SessionSymmetry
CONSTRAINTS SmallSession DropsAmongFew
CHECK_DEADLOCK FALSE
