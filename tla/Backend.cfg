\* Two uploads, two workers that also clean.
SPECIFICATION BackendSpec
CONSTANTS
    NumJobs = 2
    Workers = {w1, w2}
    HeartbeatInterval = 1
    StaleAfter = 1
    MaxBeatGap = 1
    MaxSkew = 0
    HeartbeatFaults = FALSE
    LostAcks = FALSE
    Contents = {c1}
    Apis = {p1}
    UploadLostAcks = FALSE
    CleanupEveryNJobs = 1
SYMMETRY BackendSymmetry
INVARIANTS
    MissingInputHasCause
    ReadersKeepInput
PROPERTY
    ImplementsStorage
