SPECIFICATION Spec
CONSTANTS
    g = g  a1 = a1  a2 = a2  a3 = a3  b1 = b1  b2 = b2  b3 = b3
    x = x  y = y  z = z  v = v  w = w
    A = A  B = B
    None = None
    Blocks = {g, a1, a2, a3, b1, b2, b3}
    Genesis = g
    Number <- ForkNumbersOf
    TotalDifficulty <- ForkWeights
    Ancestors <- ForkChains
    LastN = 2
    Scripts = {A, B}
    Transactions = {x, y, z, v, w}
    Body <- ForkBody
    Inputs <- ForkInputs
    Outputs <- ForkOutputs
    Commands <- ForkCommands
    MaxCommands = 1
    Heads = {g, a3, b3}
    MaxCalls = 1
    Headers = {b2}
    Filters <- ForkFilters
    Limit = 1
    MaxIndex = 9
INVARIANTS
    
    
    ReadsSucceed
    PagesAgree
    ScanIsComplete
CHECK_DEADLOCK FALSE
