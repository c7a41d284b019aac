SPECIFICATION FairSpec
CONSTANTS
    Tasks = {t1, t2}
    Workers = {w1}
    NoWorker = none
    CleanupWhileServing = FALSE
PROPERTIES
    OrphanIsSettled
