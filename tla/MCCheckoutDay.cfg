SPECIFICATION Spec
CONSTANTS
    r1 = r1
    r2 = r2
    r3 = r3
    r4 = r4
    k1 = k1
    k2 = k2
    u1 = u1
    u2 = u2
    u3 = u3
    u4 = u4
    NoOne = NoOne
    Products = {1, 2, 3, 4}
    Sellable = {1, 2, 4}
    AllowNegative = {}
    InitialQty <- MCInitialQty
    Price <- MCPrice
    Cost <- MCCost
    TaxPercent <- MCTax
    TaxInvalid = {4}
    QtyScale = 2
    SubUnits = 1
    Requests = {r1, r2, r3, r4}
    Keys = {k1, k2}
    Users = {u1, u2, u3, u4}
    StoreUsers = {u1, u2, u4}
    Overriders = {u3, u4}
    Submissions <- DaySubmissions
    Workloads <- DayWorkloads
    FiscalEnabled = TRUE
SYMMETRY RequestSymmetry

INVARIANTS
    QtyMatchesLedger
    DuplicatesGetTheRow
    SaleIsWhole
    TillExact
    BooksMatchDrawer
