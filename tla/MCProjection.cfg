\* Two workers, two events of one scope, with a rebuild, erasures and a fault.
SPECIFICATION FairSpec
CONSTANTS
    s1 = s1
    Events = {1, 2}
    Scopes = {s1}
    ScopeOf <- MCOneScope
    Workers = {w1, w2}
    BatchSize = 2
    MaxAttempts = 2
    MaxFaults = 1
    Rebuilds = {b1}
    None = None
INVARIANTS
    SucceededIsIndexed
    IndexedExists
    CursorCoversDone
PROPERTIES
    OnlyHolderSettles
    BacklogDrains
