CONSTANTS
    first = first
    second = second
    third = third
    Changes <- MCChanges
    Argument = Argument
    None = None
    MaxDrops = 1
    MaxFaults = 2

SPECIFICATION Spec

INVARIANTS
    DoneIsStored

PROPERTIES
    
    ClientReturns

CHECK_DEADLOCK FALSE
