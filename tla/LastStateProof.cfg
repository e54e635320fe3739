SPECIFICATION Spec
CONSTANTS
    Tau = 2
    LastN = 2
    Lengths = {1, 2}
    Difficulties = {2, 3, 4, 8}
    MaxEpochs = 4
    MaxBlocks = 6
    MaxSamples = 2
INVARIANTS  AcceptedIsSampled 
CHECK_DEADLOCK FALSE
