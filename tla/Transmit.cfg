SPECIFICATION FairSpec
CONSTANTS
    Ids <- MCIds
    MaxWrites = 3
    MaxEvents = 1
    StackCodes <- MCAnyCode
    None = None
INVARIANTS
    TypeOK
    FreeMeansFree
    ExactlyOnce
    NoStall
    NoLostInterrupt
PROPERTIES
    ImplementsQueue
    WriteReturns
    AllSent
CHECK_DEADLOCK FALSE
