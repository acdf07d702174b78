\* A conditional correction checked before another request commits.
SPECIFICATION Spec
CONSTANTS
    Requests = {r1, r2, r3}
    Idents = {i1}
    Values = {v1, v2}
    Keys = {k1, k2, k3}
    MaxClock = 1
    None = None
SYMMETRY MCSymmetry
INVARIANTS
    CorrectsWhatWasSeen
CHECK_DEADLOCK FALSE
