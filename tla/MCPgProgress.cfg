\* Three requests under the fairness of their threads and of PostgreSQL's locks.
SPECIFICATION FairSpec
CONSTANTS
    Requests = {r1, r2, r3}
    Idents = {i1}
    Values = {v1}
    Keys = {k1, k2}
    MaxClock = 1
    None = None
PROPERTIES
    EveryRequestIsAnswered
CHECK_DEADLOCK FALSE
