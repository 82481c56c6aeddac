SPECIFICATION Spec
CONSTANTS
    r1 = r1
    r2 = r2
    r3 = r3
    r4 = r4
    r5 = r5
    r6 = r6
    r7 = r7
    r8 = r8
    r9 = r9
    k1 = k1
    k2 = k2
    NoOne = NoOne
    Requests = {r1, r2, r3, r4, r5, r6, r7, r8, r9}
    Products = {1, 2, 3, 4}
    Store <- MCStore
    Sku <- MCSku
    Reorder <- MCReorder
    TargetStock <- MCTarget
    Preferred <- MCPreferred
    InitialQty <- MCInitialQty
    AllowNegative = {1, 4}
    Suppliers = {1, 2}
    Today = 2
    Keys = {k1, k2}
    Workloads <- Days

INVARIANTS
    OneActiveBatch
    ExecutedOnce

PROPERTIES
    NoOverbuying
    SourceIsProtected

CHECK_DEADLOCK FALSE
