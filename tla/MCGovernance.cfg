\* Requests, a worker and erasers of two keys, with a clock, race for one scope.
SPECIFICATION Spec
CONSTANTS
    Scopes = {s1}
    Clients = {c1, c2, c3}
    Rows = {r1, r2}
    Keys = {k1, k2}
    GrantKeys = {g1}
    PoolSize = 2
    MaxTime = 1
    None = None
SYMMETRY MCSymmetry
INVARIANTS
    ErasedStaysErased
    
PROPERTIES
    NothingWrittenBehindTheFence
    ReceiptIsFinal
    ImplementsErasurePromise
