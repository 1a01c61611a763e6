SPECIFICATION Spec
CONSTANTS
    W = 2
    NB = 6
    Channels = 1
    Dest <- LastEmpty
    Uniform = TRUE
    Multiple8 = TRUE
    AlignedRows = FALSE
    Launches <- GoodLaunch
    SpinBounds = {TRUE}
INVARIANTS
    CompletionIsExact
CHECK_DEADLOCK FALSE
