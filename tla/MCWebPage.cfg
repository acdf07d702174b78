\* Two scopes, four requests: the library, a form, a recall, a card and a correction
\* overlap, fail, are aborted by one another, by another scope or by a reload.
SPECIFICATION FairSpec
CONSTANTS
    Scopes = {s1, s2}
    Records = {m1}
    Kinds = {helpful, unhelpful}
    MaxRequests = 4
    MaxDrafts = 2
    MaxReloads = 1
    None = None
INVARIANTS
    TypeOK
    ShownIsOfScope
    JourneyIsEarned
    RecordedOnce
    BusyWhileAsked
PROPERTIES
    ShownNeverGoesBack
    ControlsReturn
CHECK_DEADLOCK FALSE
