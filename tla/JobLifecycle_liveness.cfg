\* Two workers settle two jobs and whatever an earlier run left, under
\* fairness.  No symmetry: it is not sound for liveness.
SPECIFICATION FairSpec
CONSTANTS
    NumJobs = 2
    Workers = {w1, w2}
    HeartbeatInterval = 1
    StaleAfter = 2
    MaxBeatGap = 1
    MaxSkew = 1
    HeartbeatFaults = TRUE
    LostAcks = TRUE
PROPERTIES
    EverySettles
