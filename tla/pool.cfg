SPECIFICATION FairSpec
CONSTANTS
    Transfer = {t1, t2}
    Nobody = Nobody
    MaxThreads = 5
    StreamLen = 4
    PipeCap = 1
INVARIANTS
    TypeOK
    NeverStuck
PROPERTIES
    EndsIfThreadsSuffice
CHECK_DEADLOCK FALSE
