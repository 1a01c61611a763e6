SPECIFICATION FairSpec
CONSTANTS
    W = 3
    NB = 2
    NA = 3
    Tiles = 1
    Chain <- TwoChain
    Owner <- OwnerByIndex
    Launches <- HurriedOrPatient
    Publications <- WellFormedOnly
INVARIANTS
    CompletionIsExact
    AckAfterTransfers
    NoSpuriousAbort
PROPERTIES
    Completes
CHECK_DEADLOCK FALSE
