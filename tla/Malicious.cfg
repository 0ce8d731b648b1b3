CONSTANTS
    t1 = t1
    t2 = t2
    Topics <- TwoTopics
    GraftLen <- Lengths
    MaxTransmitSize = 90
    PRUNE_BACKOFF = 2
    PRUNE_BACKOFF_DELAY = 1
    MaxInFlight = 2
SPECIFICATION Spec
INVARIANTS
    TypeOK
    NoTopicForgotten
    DelayCoversBackoff
    QueuedOrWaiting
PROPERTIES
    Regrafted
