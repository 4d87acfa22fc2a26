SPECIFICATION Spec
CONSTANTS
    Fd = {f1, f2, f3}
    NoFd = NoFd
    StreamLen = 3
    HeaderLen = 2
    MaxChunk = 2
    PipeCap = 1
    MayQuit = FALSE
INVARIANTS
    NeverClosesForeign
CHECK_DEADLOCK FALSE
