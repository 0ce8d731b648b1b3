CONSTANTS
    TotalValidators = 3
    NodesWithVals = 2
    TotalNodes = 4
    MinPeers = 1
    MaxPeers = 2
SPECIFICATION Spec
INVARIANTS
    TypeOK
    DegreeBound
    OneDialPerConnection
    NothingLeftToConnect
    RefusedOnlyIfIsolated
CHECK_DEADLOCK FALSE
