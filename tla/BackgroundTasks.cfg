SPECIFICATION Spec
CONSTANTS
    Tasks = {t1, t2}
    Workers = {w1, w2}
    NoWorker = none
    CleanupWhileServing = FALSE
SYMMETRY Symmetry
INVARIANTS
    TypeOK
    VerdictMatchesOutcome
    NoAbandonedRow
    RowConsistent
PROPERTIES
    EndedOnceByItsJudge
    ImplementsLifecycle
