CONSTANTS
    Publisher = {p1}
    Lurker = {l1}
    Attacker = {a1}
    Victim = p1
    PeersToConnect = 1
    Warmup = 1
    Run = 1
SPECIFICATION Spec
INVARIANT HonestReached
CHECK_DEADLOCK FALSE
