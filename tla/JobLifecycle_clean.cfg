\* A completed job keeps the error code recovery wrote.
SPECIFICATION Spec
CONSTANTS
    NumJobs = 1
    Workers = {w1, w2}
    HeartbeatInterval = 1
    StaleAfter = 2
    MaxBeatGap = 2
    MaxSkew = 0
    HeartbeatFaults = FALSE
    LostAcks = FALSE
SYMMETRY WorkerSymmetry
INVARIANT
    CompletedIsClean
