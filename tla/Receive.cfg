CONSTANTS
    c1 = c1
    c2 = c2
    a = a
    b = b
    x = x
    y = y
    None = None
    Clients = {c1, c2}
    Ocbs = {a}
    Ids = {x, y}
    Access <- MCShared
    Filters <- MCFilters
    N = 4
    HeadMod = 16
    MaxFrames = 5
    MaxDelayed = 2
    MaxInterrupts = 1
SPECIFICATION Spec
CHECK_DEADLOCK FALSE
SYMMETRY Symmetry
INVARIANTS
    TypeOK
    PendingAtHead
    NoDanglingOcb
    ReaderHasElement
    LossBudget
    ReadableIntact
    InOrder
PROPERTIES
    NoSilentSkip
    ImplementsLog
