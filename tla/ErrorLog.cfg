CONSTANTS
    Size = 3
    StackCodes <- MCAnyCode
    MaxRaised = 6
SPECIFICATION FairSpec
CHECK_DEADLOCK FALSE
INVARIANTS
    TypeOK
    LogInOrder
    OnItsWay
    OnlyHighDropped
PROPERTIES
    RingEmptied
