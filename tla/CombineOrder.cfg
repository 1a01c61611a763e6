SPECIFICATION Spec
CONSTANTS
    W = 3
    NB = 2
    NA = 1
    Tiles = 1
    Chain <- ThreeChain
    Owner <- OwnerByIndex
    Launches <- GoodLaunch
    Publications <- WellFormedOnly
INVARIANTS
    ChainOrder
CHECK_DEADLOCK FALSE
