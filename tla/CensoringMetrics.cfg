CONSTANTS
    Publisher = {p1}
    Lurker = {l1}
    Attacker = {a1}
    Victim = p1
    PeersToConnect = 1
    Warmup = 2
    Run = 2
SPECIFICATION Spec
INVARIANT NoPanic
CHECK_DEADLOCK FALSE
