CONSTANTS
    b0 = b0
    b1 = b1
    b2 = b2
    Beacon <- Nodes
    Attacker = {a1}
    FirstNode <- b0
    Validators <- TiedValidators
    Outbound <- LineOutbound
    Publishers = {b2}
SPECIFICATION Spec
PROPERTY Propagates
CHECK_DEADLOCK FALSE
