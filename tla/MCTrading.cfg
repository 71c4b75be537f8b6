SPECIFICATION Spec
CONSTANTS
    g1 = g1
    g2 = g2
    b1 = b1
    b2 = b2
    b3 = b3
    m1 = m1
    m2 = m2
    m3 = m3
    n1 = n1
    n2 = n2
    n3 = n3
    n4 = n4
    BrokerOrder = {o1, o2}
    DirectOrder = {o2}
    Credential = {k1}
    Session = {s1, s2}
    MaxRate = 2
    UnknownIsAccepted = FALSE
    MaxSends = 3
    Consumer = {n1, n2, n3, n4}
    EventType = {"bar", "report"}
    Subscription <- OnePerPolicy
    SourceRankOrder = TRUE
    MaxTs = 1
    MaxEvents = 3
    Group = {g1, g2}
    Account = {b1, b2, b3}
    AccountsByRank <- TwoAndOne
    MaxWorkers = 2
    MaxFanOuts = 3
    Message = {m1, m2, m3}
    Transaction <- OneAndTwo
    Reader = {e1, e2}
    Limit = 2
    MaxEntries = 4
    Alert = {a1}
    MaxVersion = 4
    Candidate = {1, 2, 3, 4, 5, 6}
    OrderOf <- MixedOrders
    PoolQuantity = 5
    BarOpen = 3
    RateUnit = 2
    MaxCalls = 2
    Trade = {t1, t2}
    Security = {y1, y2}
    Split = {x1, x2}
    Ratio <- HalfAndDouble
    Quantity = {1, 2}
    MaxDate = 2
    MaxBought = 3
    Column <- SampleColumns
    Precision = 3
    MaxColumns = 2
INVARIANTS
    BrokerSendsOnce
    BrokerAnswersAgree
    BusCallsExact
    GroupsSeeEveryEvent
    DeliveryLosesNothing
    DeliveryInCommitOrder
    AlertInTurn
    LiquidityShared
    SettledBeforeSold
    ColumnsReadBack
PROPERTIES
    BrokerSendsAuthorised
CHECK_DEADLOCK FALSE
