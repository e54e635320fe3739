SPECIFICATION CrashSpec
CONSTANTS
    s1 = s1
    s2 = s2
    p1 = p1
    p2 = p2
    none = none
    Blocks <- LineBlocks
    Genesis = "g"
    Number <- LineNumber
    TotalDifficulty <- LineNumber
    Ancestors <- LineAncestors
    LastN = 2
    Scripts = {s1, s2}
    Peers = {p1, p2}
    NoBlock = none
    Touches <- LineTouches
    FilterMatches <- LineMatches
    Heads = {"t3", "t4"}
    Required = 2
    MaxBatch = 2
    ProofLimit = 2
    InTransit = 1
    StartNumbers = {0, 1}
    EmptyCommands = FALSE
    MaxCommands = 1
    CrashPoints = {"filters"}
    MaxLosses = 1
INVARIANTS NothingLost ProgressIsTrue
SYMMETRY PeerSymmetry
CHECK_DEADLOCK FALSE
