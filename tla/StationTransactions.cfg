CONSTANTS
    left = left
    remote = remote
    EVSEs <- MCEVSEs
    LastTran = 2
    Requests <- MCRequests
    MaxQueued = 2
    MaxCuts = 1
    Nothing = Nothing

SPECIFICATION ClientSpec

INVARIANTS
    ClientTypeOK
    KnowsStation

PROPERTIES
    RemoteRequestsEnd

CHECK_DEADLOCK FALSE
