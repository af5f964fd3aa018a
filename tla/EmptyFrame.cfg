CONSTANTS
    Texts <- MCTexts
    CommandLines <- MCCommandLines
    Filters <- MCFilters
    BusFrames <- MCBusFrames
    Stack <- MCStack
    MaxFrames = 2
SPECIFICATION Spec
CHECK_DEADLOCK FALSE
INVARIANTS
    NoDataNoBytes
