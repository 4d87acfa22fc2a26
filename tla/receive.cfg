SPECIFICATION FairSpec
CONSTANTS
    Fd = {f1, f2, f3}
    NoFd = NoFd
    StreamLen = 4
    HeaderLen = 2
    MaxChunk = 3
    PipeCap = 2
    MayQuit = TRUE
INVARIANTS
    TypeOK
    NothingLostOrReordered
    OkMeansReceived
    ReleasedAtExit
    StaleUseOnlyWhenAbandoned
    ForeignCloseOnlyAfterAwait
PROPERTIES
    ExitsOrWedges
    NoLateCompletion
    ImplementsContract
CHECK_DEADLOCK FALSE
