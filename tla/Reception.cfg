SPECIFICATION FairSpec
CONSTANTS
    Size = 3
    MaxMessages = 1
    FifoSize = 2
    MaxFrames = 6
    MaxReads = 7
    MaxEvents = 1
INVARIANTS
    TypeOK
    UnreadInOrder
    ReadOnce
    Accounted
PROPERTIES
    FifoServed
    RingRead
CHECK_DEADLOCK FALSE
