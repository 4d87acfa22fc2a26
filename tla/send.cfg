SPECIFICATION FairSpec
CONSTANTS
    Fd = {f1, f2, f3}
    NoFd = NoFd
    StreamLen = 4
    PipeCap = 2
    ReadAhead = 2
    MayFail = TRUE
    StrayCloses = TRUE
INVARIANTS
    TypeOK
    InOrderAndWhole
    OthersUnharmed
PROPERTIES
    GivesAllBack
    ImplementsContract
CHECK_DEADLOCK FALSE
