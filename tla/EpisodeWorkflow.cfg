SPECIFICATION Spec
CONSTANTS
    Requests = {r1, r2}
    Items = {i1}
    MaxTokens = 1
    PatchedTo = {"published"}
SYMMETRY Symmetry
INVARIANTS
    TypeOK
PROPERTIES
    ImplementsHistory
    JumpNeedsStaleCopy
