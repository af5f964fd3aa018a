CONSTANTS
    c1 = c1
    c2 = c2
    a = a
    b = b
    x = x
    y = y
    None = None
    Clients = {c1}
    Ocbs = {a}
    Ids = {x, y}
    Access <- MCSingle
    Filters <- MCFilters
    N = 2
    HeadMod = 16
    MaxFrames = 2
    MaxDelayed = 2
    MaxInterrupts = 1
SPECIFICATION Spec
CHECK_DEADLOCK FALSE
SYMMETRY Symmetry
INVARIANTS
    NothingLost
