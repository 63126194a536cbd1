\* Cleanup decided before a second upload of the same content was accepted.
SPECIFICATION Spec
CONSTANTS
    Requests = {r1, r2}
    Contents = {c1}
    Apis = {p1}
    Cleaners = {k1}
    LostAcks = FALSE
INVARIANT
    ActiveInputSurvives
CHECK_DEADLOCK FALSE
