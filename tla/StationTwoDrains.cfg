SPECIFICATION FairSpec
CONSTANTS
    d1 = d1
    d2 = d2
    LastEvent = 4
    Drains <- TwoDrains
    NoDrain = NoDrain
    MaxDrops = 1
    MaxTimeouts = 0
    MaxStops = 0
INVARIANTS
    NothingLost
CHECK_DEADLOCK FALSE
