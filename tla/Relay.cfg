SPECIFICATION FairSpec
CONSTANTS
    p1 = p1
    p2 = p2
    x = x
    y = y
    Txs = {x, y}
    Peers = {p1, p2}
    Modern = {p1}
    Limit = 1
    Window = 2
    MaxSubmits = 2
    MaxTroubles = 1
INVARIANTS TypeOK  AnnouncedOnce
PROPERTIES EventuallyRelayed EventuallyClosed
CHECK_DEADLOCK FALSE
