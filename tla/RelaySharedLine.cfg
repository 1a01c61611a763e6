SPECIFICATION Spec
CONSTANTS
    W = 2
    NB = 6
    Channels = 1
    Dest <- ToAll
    Uniform = TRUE
    Multiple8 = TRUE
    AlignedRows = TRUE
    Launches <- GoodLaunch
    SpinBounds = {TRUE}
PROPERTIES
    PublicationKept
CHECK_DEADLOCK FALSE
