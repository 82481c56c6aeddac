SPECIFICATION Spec
CONSTANTS
    w1 = w1
    w2 = w2
    k1 = k1
    c1 = c1
    c2 = c2
    NoOne = NoOne
    Workers = {w1, w2}
    Counts = {c1, c2}
    Products = {1, 2, 3}
    AllowNegative = {3}
    InitialQty <- MCInitialQty
    Cost <- MCCost
    QtyScale = 5
    Keys = {k1}
    Workloads <- StaleDays
INVARIANTS
    QtyMatchesLedger
