\* One scope, two contexts: recalls at past and present coordinates, usages and outcomes.
SPECIFICATION Spec
CONSTANTS
    Scopes = {s1}
    Idents = {i1}
    Values = {v1}
    Sources = {o1}
    Keys = {k1, k2}
    Confidences = {600}
    MaxClock = 1
    None = None
    Contexts = {c1, c2}
    TraceIds = {t1, t2}
    UsageKeys = {u1}
    OutcomeKeys = {x1, x2}
    Weights = {1}
SYMMETRY MCSymmetry
INVARIANTS
    UtilityIsSumOfOutcomes
    OutcomesAreAttributed
    RecallIsReproducible
