SPECIFICATION FairSpec
CONSTANTS
    W = 2
    NB = 2
    NA = 2
    Tiles = 1
    Chain <- TwoChain
    Owner <- OwnerByIndex
    Launches <- DamagedLaunch
    Publications <- WellFormedOnly
PROPERTIES
    Termination
CHECK_DEADLOCK FALSE
