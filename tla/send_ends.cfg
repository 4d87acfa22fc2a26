SPECIFICATION FairSpec
CONSTANTS
    Fd = {f1, f2, f3}
    NoFd = NoFd
    StreamLen = 2
    PipeCap = 1
    ReadAhead = 1
    MayFail = FALSE
    StrayCloses = FALSE
PROPERTIES
    SendEnds
CHECK_DEADLOCK FALSE
