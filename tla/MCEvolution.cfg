\* Two callers, two candidates: competing, stacked and rolled-back promotions.
SPECIFICATION Spec
CONSTANTS
    Root = root
    Candidates = {x1, x2}
    Callers = {c1, c2}
    Proposals = {p1, p2}
    Keys <- MCKeys
    Requests <- MCRequests
    None = None
SYMMETRY MCSymmetry
INVARIANTS
    PromotedFormChain
    EvidenceTrail
    ActivationsMatchEvidence
PROPERTIES
    ImplementsStrategyStack
