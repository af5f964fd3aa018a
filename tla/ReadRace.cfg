SPECIFICATION Spec
CONSTANTS
    Size = 3
    MaxMessages = 1
    FifoSize = 2
    MaxFrames = 4
    MaxReads = 7
    MaxEvents = 0
INVARIANTS
    OnlyNewFrames
CHECK_DEADLOCK FALSE
