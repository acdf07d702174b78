\* One identity, histories of up to three revisions, two sources.
SPECIFICATION LedgerSpec
CONSTANTS
    Scopes = {s1}
    Idents = {i1}
    Values = {v1, v2}
    Sources = {o1, o2}
    Keys = {k1, k2, k3}
    Confidences = {600}
    MaxClock = 2
    None = None
SYMMETRY MCSymmetry
INVARIANTS
    BeliefExplained
    RetryResolvable
    PresentIsActive
PROPERTIES
    PastIsImmutable
    ImplementsRevisionChain
