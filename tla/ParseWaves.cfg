SPECIFICATION FairSpec
CONSTANTS
    W = 2
    C = 2
    Waves <- AnyWave
INVARIANTS
    TypeOK
    ParsesOnlyFresh
    NoSpuriousAbort
    EachTokenOnce
    FailsClosed
PROPERTIES
    Termination
    Settles
CHECK_DEADLOCK FALSE
