\* Three requests on two identities, sharing or not sharing idempotency keys.
SPECIFICATION Spec
CONSTANTS
    Requests = {r1, r2, r3}
    Idents = {i1, i2}
    Values = {v1, v2}
    Keys = {k1, k2, k3}
    MaxClock = 0
    None = None
SYMMETRY MCSymmetry
INVARIANTS
    ChainIsLinear
    SupportFollowsChain
    AppliedOnce
PROPERTIES
    ImplementsRevisionChain
CHECK_DEADLOCK FALSE
