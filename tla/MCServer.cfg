SPECIFICATION ServerSpec
CONSTANTS
    Worker = {w1, w2}
    Canceller = {x1, x2}
    Nobody = nobody
    Run = {r1, r2}
    ExecutionKey = {k1}
    MaxAttempts = 3
    Caller = {q1, q2}
    Command = {m1, m2}
    Scope = {s1}
    Payload = {p1, p2}
    MaxNow = 5
    c1 = c1
    c2 = c2
    b1 = b1
    b2 = b2
    Client = {c1}
    Principal = {u1}
    PrincipalOf <- OnePrincipal
    StreamAccount = {b1, b2}
    FilterOf <- OneAccountAndAll
    Retention = 4
    MaxBacklog = 2
    ReplayWindow = 4
    MaxSequence = 6
    Storer = {d1, d2, d3}
    Content = {x1, x2}
    Migrator = {v1, v2}
    NoMigrator = none
    LastVersion = 3
    Repeatable = {2, 3}
    MaxRuns = 3
    Bucket = {t1}
    Capacity = 2
    Parts = 4
    Refill = 1
    TicksPerSecond = 2
    MaxTicks = 9
    a1 = a1
    o1 = o1
    o2 = o2
    e1 = e1
    e2 = e2
    i1 = i1
    i2 = i2
    i3 = i3
    i4 = i4
    Order = {o1, o2}
    Account = {a1}
    AccountOf <- TheAccount
    Quantity <- TwoAndOne
    Approved = {1, 2}
    Available = {1, 2}
    Report <- Fills
    Id = {i1, i2, i3, i4}
    Execution = {e1, e2}
    OpeningCash = 4
INVARIANTS
    JobExclusive
    JobStartsBounded
    CommandAnswersStand
    StreamExact
    StreamRevoked
    ObjectStored
    MigrationsInOrder
    RateBounded
    DecidedAndReserved
    JournalBacked
    ReservationKept
PROPERTIES
    JobMovesAlongTable
    SubmissionsRegistered
    CommandMovesAlongFlow
    StreamDelivered
CHECK_DEADLOCK FALSE
