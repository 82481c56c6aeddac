SPECIFICATION Spec
CONSTANTS
    r1 = r1
    r2 = r2
    r3 = r3
    k1 = k1
    k2 = k2
    u1 = u1
    u2 = u2
    u3 = u3
    u4 = u4
    u5 = u5
    s1 = s1
    s2 = s2
    s3 = s3
    s4 = s4
    a = a
    b = b
    c = c
    d = d
    e = e
    f1 = f1
    f2 = f2
    home = home
    strict = strict
    away = away
    NoOne = NoOne
    Sales = {s1, s2, s3, s4}
    SaleStore <- MCSaleStore
    Items = {a, b, c, d, e, f1, f2}
    Item <- MCItem
    Products = {1, 2, 3}
    AllowNegative = {2}
    InitialQty <- MCInitialQty
    InitialCost <- MCInitialCost
    QtyScale = 5
    Requests = {r1, r2, r3}
    Keys = {k1, k2}
    Users = {u1, u2, u3, u4, u5}
    Stores = {home, strict, away}
    UserStore <- MCUserStore
    Approvers = {u2, u4}
    Threshold <- MCThreshold
    OnShift = {u1, u5}
    Submissions <- DaySubmissions
    Workloads <- DayWorkloads
    MaxOtherSales = 1
SYMMETRY RequestSymmetry

INVARIANTS
    ReturnedWithinSold
    SharesTelescope
    ReturnIsWhole
    RefundsCounted
    NoCircularWait
