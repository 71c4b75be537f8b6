SPECIFICATION Spec
CONSTANTS
    a1 = a1
    o1 = o1
    o2 = o2
    e1 = e1
    e2 = e2
    i1 = i1
    i2 = i2
    i3 = i3
    i4 = i4
    Order = {o1, o2}
    Account = {a1}
    AccountOf <- TheAccount
    Quantity <- TwoAndOne
    Approved = {1, 2}
    Available = {1, 2}
    Report <- Fills
    Id = {i1, i2, i3, i4}
    Execution = {e1, e2}
    OpeningCash = 4
PROPERTY
    FailedCommitLeavesNothing
CHECK_DEADLOCK FALSE
