CONSTANTS
    n1 = n1
    n2 = n2
    n3 = n3
    Node <- Nodes
    Outbound <- LineOutbound
    Publishers = {n1, n2}
    MaxHandles = 1
SPECIFICATION Spec
INVARIANTS
    TypeOK
    NoDialRefused
    HeldIsQueued
    NoTaskCutOff
PROPERTIES
    ImplementsBarriers
    Propagates
    AllSucceed
CHECK_DEADLOCK FALSE
