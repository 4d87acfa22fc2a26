SPECIFICATION FairSpec
CONSTANTS
    Modes = {"run", "runWithInput", "stream"}
    InLen = 3
    OutLen = 3
    ErrLen = 2
    PipeCap = 1
    MayFail = TRUE
INVARIANTS
    TypeOK
    VerdictIsComplete
PROPERTIES
    ImplementsContracts
    EndsUnlessInputStalls
    NoOrphan
CHECK_DEADLOCK FALSE
