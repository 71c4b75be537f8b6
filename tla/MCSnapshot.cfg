SPECIFICATION Spec
CONSTANTS
    a1 = a1
    a2 = a2
    o1 = o1
    e1 = e1
    e2 = e2
    e3 = e3
    i1 = i1
    i2 = i2
    i3 = i3
    i4 = i4
    i5 = i5
    i6 = i6
    i7 = i7
    Order = {o1}
    Account = {a1, a2}
    AccountOf <- TheAccount
    Quantity <- Three
    Report <- Silent
    Id = {i1, i2, i3, i4, i5, i6, i7}
    Execution = {e1, e2, e3}
    NoExecution = NoExecution
    NoReport = NoReport
PROPERTY
    SnapshotCatchesUp
CHECK_DEADLOCK FALSE
