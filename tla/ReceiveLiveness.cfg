CONSTANTS
    c1 = c1
    c2 = c2
    a = a
    b = b
    x = x
    y = y
    None = None
    Clients = {c1, c2}
    Ocbs = {a, b}
    Ids = {x, y}
    Access <- MCPrivate
    Filters <- MCOneFilter
    N = 2
    HeadMod = 4
    MaxFrames = 5
    MaxDelayed = 2
    MaxInterrupts = 0
SPECIFICATION FairSpec
ACTION_CONSTRAINT Bounded
CHECK_DEADLOCK FALSE
INVARIANTS
    PollerHasEvent
PROPERTIES
    RequestServed
    ReaderServed
    PollerWoken
