CONSTANTS
    n1 = n1
    n2 = n2
    n3 = n3
    Node <- Nodes
    Outbound <- LineOutbound
    Publishers <- Nodes
    MaxHandles = 1
SPECIFICATION Spec
INVARIANT AllDialledBeforeRun
CHECK_DEADLOCK FALSE
