\* Two jobs, three workers, every fault but lost acknowledgements.
SPECIFICATION Spec
CONSTANTS
    NumJobs = 2
    Workers = {w1, w2, w3}
    HeartbeatInterval = 1
    StaleAfter = 3
    MaxBeatGap = 2
    MaxSkew = 1
    HeartbeatFaults = TRUE
    LostAcks = FALSE
SYMMETRY WorkerSymmetry
INVARIANTS
    TypeOK
    SingleOwner
    NoFalseInterruption
    CompletedHasResult
    EitherResultOrFailure
PROPERTIES
    ReturnsSettled
    ImplementsContract
