SPECIFICATION CFairSpec
CONSTANTS
    d1 = d1
    LastEvent = 3
    Drains <- OneDrain
    NoDrain = NoDrain
    MaxDrops = 1
    MaxTimeouts = 1
    MaxStops = 1
    MaxTasks = 6
INVARIANTS
    TypeOK
    ExpectsOnlyHeld
    NothingLost
PROPERTIES
    NoFalseAlarm
    IsVerified
    QueuedUntilReceived
    DrainEmptiesQueue
CHECK_DEADLOCK FALSE
