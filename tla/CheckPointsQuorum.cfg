SPECIFICATION FairSpec
CONSTANTS
    p1 = p1
    p2 = p2
    p3 = p3
    wrong = wrong
    Peers = {p1, p2, p3}
    Faulty = {p3}
    Wrong = wrong
    Required = 2
    MaxIndex = 3
    MaxAnswer = 3
    MaxRequests = 1
    MaxLosses = 1
INVARIANTS TypeOK StartsAreFinalized FinalizedIsRight
PROPERTIES OnlyFaultyBanned FinalizedIsStable EventuallyFinalized
CHECK_DEADLOCK FALSE
