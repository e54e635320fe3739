SPECIFICATION FairSpec
CONSTANTS
    p1 = p1
    p2 = p2
    p3 = p3
    none = none
    Blocks <- ForkBlocks
    Genesis = "g"
    Number <- ForkNumber
    TotalDifficulty <- ForkNumber
    Ancestors <- ForkAncestors
    LastN = 1
    Peers = {p1, p2}
    NoBlock = none
    Heads <- ForkHeads
    Required = 1
    Interval = 2
    MaxHashes = 2
    MaxFilters = 2
    StartNumbers = {1}
    MaxCommands = 1
    MaxQueue = 1
INVARIANTS CacheIsRight AgreedIsChain 
PROPERTY EventuallyFiltered
CHECK_DEADLOCK FALSE
