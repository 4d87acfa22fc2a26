SPECIFICATION FairSpec
CONSTANTS
    Operations <- MCOperations
    Options <- MCOptions
    Lists <- MCLists
    Lasting <- MCLasting
    Styles <- MCStyles
    Program <- MCProgram
    Named = {1, 2}
    Children = {3}
    MaxOptions = 3
    MaxRuns = 2
    Early <- MCEarly
    Short <- MCShort
    Wide <- MCWide
    Hasty <- MCHasty
INVARIANTS
    TypeOK
    RefusedTouchesNothing
    TouchesOnlyTheMeant
    OkMeansAllMeant
    FailureIsPrefix
    NothingBeforeRun
    RetryTriesAgain
    NothingTwice
    WaitedMeansFinished
    GatedNeedsNewTools
PROPERTIES
    Returns
