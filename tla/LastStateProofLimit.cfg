SPECIFICATION Spec
CONSTANTS
    Tau = 2
    LastN = 2
    Lengths = {1, 2}
    Difficulties = {2, 3, 4, 8}
    MaxEpochs = 5
    MaxBlocks = 0
    MaxSamples = 2
INVARIANTS DifficultyIsPlausible
CHECK_DEADLOCK FALSE
