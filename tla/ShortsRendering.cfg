SPECIFICATION FairSpec
CONSTANTS
    Shorts = {s1, s2}
    NoShort = none
    Requests = {r1, r2}
    Patchable = {s1}
INVARIANTS
    ShortsTypeOK
    ReadyIsPlayable
    BusyHasCause
PROPERTIES
    LinkStays
    RenderingEnds
CHECK_DEADLOCK FALSE
