SPECIFICATION StreamSpec
CONSTANTS
    c1 = c1
    c2 = c2
    b1 = b1
    b2 = b2
    Client = {c1, c2}
    Principal = {u1}
    PrincipalOf <- OnePrincipal
    StreamAccount = {b1, b2}
    FilterOf <- OneAccountAndAll
    Retention = 2
    MaxBacklog = 1
    ReplayWindow = 2
    MaxSequence = 4
INVARIANTS
    StreamKeepsRetained
CHECK_DEADLOCK FALSE
