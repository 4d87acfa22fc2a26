SPECIFICATION Spec
CONSTANTS
    root = root
    child = child
    leaf = leaf
    clone = clone
    NoOrigin = NoOrigin
    Fs <- MCFs
    Names <- MCNames
    Above <- MCAbove
    Pools <- MCPools
    Requests <- MCRequests
    MaxTxg = 5
    MayFail = TRUE
INVARIANTS
    RollbackSpares
CHECK_DEADLOCK FALSE
