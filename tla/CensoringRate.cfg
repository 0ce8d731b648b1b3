CONSTANTS
    Publisher = {p1}
    Lurker = {l1}
    Attacker = {}
    Victim = p1
    PeersToConnect = 1
    Warmup = 2
    Run = 2
SPECIFICATION Spec
INVARIANT RateKept
CHECK_DEADLOCK FALSE
