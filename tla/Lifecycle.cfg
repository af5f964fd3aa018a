CONSTANTS
    Signals <- MCAnyThread
SPECIFICATION FairSpec
CHECK_DEADLOCK FALSE
INVARIANTS
    TypeOK
    ServingIsSafe
    MaskBalanced
    CleanExit
PROPERTIES
    ShutdownEnds
