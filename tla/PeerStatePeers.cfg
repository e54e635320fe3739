SPECIFICATION FairSpec
CONSTANTS
    p1 = p1
    p2 = p2
    none = none
    Blocks <- TallBlocks
    Genesis = "g"
    Number <- TallNumber
    TotalDifficulty <- TallDifficulty
    Ancestors <- TallAncestors
    LastN = 4
    Peers = {p1, p2}
    NoBlock = none
    Heads = {"a7", "a8", "b7", "b9"}
    Jitter = TRUE
    MaxLosses = 1
INVARIANTS TypeOK HeadersAreContinuous
PROPERTIES ProveStateAdvances EventuallyProved
