SPECIFICATION IngestionFairSpec
CONSTANTS
    Tasks = {t1}
    Workers = {w1}
    NoWorker = none
    CleanupWhileServing = FALSE
    Assets = {a1}
    NoAsset = noasset
    Authors = {u1, u2}
    Patchable = {a1}
    Deletable = {u1}
INVARIANTS
    RevisionsHaveNoGaps
PROPERTIES
    ProcessingEnds
