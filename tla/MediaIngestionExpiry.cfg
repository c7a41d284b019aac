SPECIFICATION IngestionSpec
CONSTANTS
    Tasks = {t1}
    Workers = {w1}
    NoWorker = none
    CleanupWhileServing = FALSE
    Assets = {a1}
    NoAsset = noasset
    Authors = {}
    Patchable = {}
    Deletable = {}
PROPERTIES
    OnlyOrphansExpire
