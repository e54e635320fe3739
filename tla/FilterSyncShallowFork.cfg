SPECIFICATION Spec
CONSTANTS
    s1 = s1
    s2 = s2
    p1 = p1
    p2 = p2
    none = none
    Blocks <- ShallowBlocks
    Genesis = "g"
    Number <- ShallowNumber
    TotalDifficulty <- ShallowNumber
    Ancestors <- ShallowAncestors
    LastN = 2
    Scripts = {s1}
    Peers = {p1}
    NoBlock = none
    Touches <- ShallowTouches
    FilterMatches <- ShallowTouches
    Heads = {"a3", "b4"}
    Required = 1
    MaxBatch = 2
    ProofLimit = 2
    InTransit = 1
    StartNumbers = {0}
    EmptyCommands = FALSE
    MaxCommands = 1
    MaxLosses = 0
INVARIANTS NothingLost
CHECK_DEADLOCK FALSE
