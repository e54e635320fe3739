SPECIFICATION FairSpec
CONSTANTS
    g = g  t1 = t1  a2 = a2  b2 = b2  b3 = b3  x = x  p1 = p1  p2 = p2
    NoPeer = NoPeer
    Blocks = {g, t1, a2, b2, b3}
    Genesis = g
    Number <- NumberOf
    TotalDifficulty <- NumberOf
    Ancestors <- ForkChains
    LastN = 2
    Peers = {p1, p2}
    HeaderItems = {a2}
    TxItems = {x}
    TxBlocks <- ForkTxs
    Matched = {t1}
    ProofLimit = 1
    ServerHeads <- ForkHeads
    MaxAsks = 2
    MaxTimeouts = 1
    MaxClashes = 1
INVARIANTS
    TypeOK
    
PROPERTIES
    
    EventuallySettled
CHECK_DEADLOCK FALSE
