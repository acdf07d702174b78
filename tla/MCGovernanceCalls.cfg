\* Three clients, two connections and one lock: every call ends.
SPECIFICATION FairSpec
CONSTANTS
    Scopes = {s1}
    Clients = {c1, c2, c3}
    Rows = {r1}
    Keys = {k1}
    GrantKeys = {g1}
    PoolSize = 2
    MaxTime = 0
    None = None
PROPERTIES
    EveryCallEnds
