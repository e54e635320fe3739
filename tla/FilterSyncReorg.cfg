SPECIFICATION CrashSpec
CONSTANTS
    s1 = s1
    s2 = s2
    p1 = p1
    p2 = p2
    none = none
    Blocks <- LongBlocks
    Genesis = "g"
    Number <- LongNumber
    TotalDifficulty <- LongNumber
    Ancestors <- LongAncestors
    LastN = 2
    Scripts = {s1}
    Peers = {p1, p2}
    NoBlock = none
    Touches <- LongTouches
    FilterMatches <- LongTouches
    Heads = {"t1", "a3", "a4", "b5"}
    Required = 2
    MaxBatch = 1
    ProofLimit = 2
    InTransit = 1
    StartNumbers = {0}
    EmptyCommands = TRUE
    MaxCommands = 1
    CrashPoints = {"block", "filters", "scripts", "reorg"}
    MaxLosses = 1
INVARIANTS   NeverAsksProofOfTip
SYMMETRY PeerSymmetry
CHECK_DEADLOCK FALSE
