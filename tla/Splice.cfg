SPECIFICATION FairSpec
CONSTANTS
    Engines = {e1}
    Names = {n1}
    Requests = {r1}
    Uplinks = {u1}
    None = none
    Jobs = {j1, j2}
    HeartbeatBatch = 1
    MaxTouches = 2
    Editable = {j1}
    Edits <- CancelOrRaise
INVARIANTS
    ProcessingHasWorker
CHECK_DEADLOCK FALSE
PROPERTIES
    OfflineHasCause
    WaitingIsTaken
