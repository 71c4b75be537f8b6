SPECIFICATION Spec
CONSTANTS
    p1 = p1
    p2 = p2
    hostA = hostA
    hostB = hostB
    k1 = k1
    k2 = k2
    h1 = h1
    h2 = h2
    Process = {p1, p2}
    Holder = {hostA, hostB}
    HolderOf <- OwnNames
    NoHolder = NoHolder
    TTL = 1
    MaxTime = 1
    MaxToken = 2
    Key = {k1, k2}
    Deliveries <- OneConflict
    Hash = {h1, h2}
    NoHash = NoHash
    Publisher = {u1}
    BatchSize = 2
INVARIANTS
    GateAdmitsOnlyOwner
    InputAtomic
    DeliverySequenceDense
    CheckpointCovered
    PublishedWasDelivered
PROPERTIES
    ImplementsLog
    AcceptedContentStays
SYMMETRY SwapWriters
CHECK_DEADLOCK FALSE
