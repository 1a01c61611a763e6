SPECIFICATION FairSpec
CONSTANTS
    W = 2
    NB = 2
    NA = 3
    Tiles = 2
    Chain <- MixedChain
    Owner <- OwnerByIndex
    Launches <- AnyLaunch
    Publications <- BrokenReady
INVARIANTS
    TypeOK
    CompletionIsExact
    OneVerdict
    ForeignJournalUntouched
    FetchOnlyAccepted
    DamagedPlanUntouched
PROPERTIES
    FailureSticks
    JournalLifeCycle
    TerminatesIfSound
    Completes
CHECK_DEADLOCK FALSE
