CONSTANTS
    Node = {n1, n2, n3}
    Slot = 1
SPECIFICATION Spec
INVARIANTS
    TypeOK
    UnreachableNeverHit
    NoMessageLost
    SuccessMeansAllReceived
    DialsFormTree
PROPERTIES
    AllSucceed
    ImplementsBarriers
CHECK_DEADLOCK FALSE
