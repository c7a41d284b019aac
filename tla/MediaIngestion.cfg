SPECIFICATION IngestionSpec
CONSTANTS
    Tasks = {t1, t2}
    Workers = {w1}
    NoWorker = none
    CleanupWhileServing = FALSE
    Assets = {a1}
    NoAsset = noasset
    Authors = {}
    Patchable = {a1}
    Deletable = {}
SYMMETRY Symmetry
INVARIANTS
    IngestionTypeOK
    RecordsAreTrue
    ProcessingHasCause
