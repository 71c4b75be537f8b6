SPECIFICATION FairSpec
CONSTANTS
    p1 = p1
    p2 = p2
    hostA = hostA
    hostB = hostB
    k1 = k1
    k2 = k2
    h1 = h1
    h2 = h2
    Process = {p1}
    Holder = {hostA}
    HolderOf <- SharedName
    NoHolder = NoHolder
    TTL = 1
    MaxTime = 0
    MaxToken = 1
    Key = {k1, k2}
    Deliveries <- NoConflict
    Hash = {h1, h2}
    NoHash = NoHash
    Publisher = {u1, u2}
    BatchSize = 2
PROPERTIES
    PendingEventuallyPublished
CHECK_DEADLOCK FALSE
