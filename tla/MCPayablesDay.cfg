SPECIFICATION Spec
CONSTANTS
    r1 = r1
    r2 = r2
    r3 = r3
    r4 = r4
    k1 = k1
    k2 = k2
    n1 = n1
    n2 = n2
    n3 = n3
    n4 = n4
    ret = ret
    NoOne = NoOne
    Requests = {r1, r2, r3, r4}
    Invoices = {1, 2, 3, 4}
    InitialInvoices <- MCInvoices
    Alien = {}
    Orders = {1, 2}
    Items = {1, 2}
    ItemOrder <- MCItemOrder
    AlienItems = {}
    Deliveries <- MCDeliveries
    InitialArrived <- MCArrived
    Overdue <- MCOverdue
    ReturnValue <- MCReturn
    Keys = {k1, k2}
    Numbers = {n1, n2, n3, n4}
    Workloads <- Days
    QtyScale = 1
    CentScale = 2

INVARIANTS
    InvoicedWithinReceived
    BooksAgree
    ClearingFollowsMatches
    NoCircularWait

PROPERTIES
    SettlementIsAtomic

CHECK_DEADLOCK FALSE
