SPECIFICATION Spec
CONSTANTS
    W = 2
    NB = 6
    Channels = 1
    Dest <- LastToItself
    Uniform = TRUE
    Multiple8 = TRUE
    AlignedRows = TRUE
    Launches <- GoodLaunch
    SpinBounds = {TRUE}
INVARIANTS
    CompletionIsExact
    AckIsLast
    NeverStuck
CHECK_DEADLOCK FALSE
