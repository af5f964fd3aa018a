CONSTANTS
    Size = 3
    StackCodes <- MCAnyCode
    MaxRaised = 2
SPECIFICATION Spec
CHECK_DEADLOCK FALSE
INVARIANTS
    NoErrorDropped
