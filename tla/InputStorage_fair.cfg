\* Two uploads of at most two contents through two API processes, one cleaning
\* worker, lost acknowledgements, under fairness.
SPECIFICATION FairSpec
CONSTANTS
    Requests = {r1, r2}
    Contents = {c1, c2}
    Apis = {p1, p2}
    Cleaners = {k1}
    LostAcks = TRUE
INVARIANTS
    TypeOK
    LossHasCause
    NoOrphanInput
    AnsweredLeavesNoPart
PROPERTY
    ExpiredInputsGo
\* All requests are answered and nothing is left to clean: the system rests.
CHECK_DEADLOCK FALSE
