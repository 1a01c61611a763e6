SPECIFICATION FairSpec
CONSTANTS
    W = 2
    NB = 5
    Channels = 1
    Dest <- LastEmpty
    Uniform = FALSE
    Multiple8 = TRUE
    AlignedRows = TRUE
    Launches <- AnyLaunch
    SpinBounds = {TRUE, FALSE}
INVARIANTS
    TypeOK
    CompletionIsExact
    OneVerdict
    ForeignJournalKept
PROPERTIES
    Seals
CHECK_DEADLOCK FALSE
