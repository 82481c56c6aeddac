SPECIFICATION Spec
CONSTANTS
    r1 = r1
    r2 = r2
    r3 = r3
    o1 = o1
    o2 = o2
    k1 = k1
    k2 = k2
    NoOne = NoOne
    Requests = {r1, r2, r3}
    Orders = {o1, o2}
    Items = {1, 2, 3, 4}
    ItemOrder <- MCItemOrder
    ItemProduct <- MCItemProduct
    Ordered <- MCOrdered
    Products = {1, 2}
    Foreign = {}
    InitialQty <- MCQty
    InitialCost <- MCCost
    InitialStatus <- MCStatus
    QtyScale = 1
    Keys = {k1, k2}
    Submissions <- DaySubmissions
    MaxSold = 1

INVARIANTS
    NoReceiptIsLost
    ReturnedWithinReceived
    DriftBounded
PROPERTIES
    StatusIsEarned
