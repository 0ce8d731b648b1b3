CONSTANTS
    Publisher = {p1}
    Lurker = {l1}
    Attacker = {a1}
    Victim = p1
    PeersToConnect = 1
    Warmup = 2
    Run = 2
SPECIFICATION Spec
INVARIANTS
    TypeOK
    PublishAfterWarmup
    VictimReached
PROPERTIES
    ImplementsBarriers
    AllPassBarriers
CHECK_DEADLOCK FALSE
