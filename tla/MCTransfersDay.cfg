SPECIFICATION Spec
CONSTANTS
    r1 = r1
    r2 = r2
    r3 = r3
    r4 = r4
    r5 = r5
    r6 = r6
    r7 = r7
    r8 = r8
    k1 = k1
    k2 = k2
    t1 = t1
    t2 = t2
    north = north
    ann = ann
    bob = bob
    eve = eve
    kim = kim
    NoOne = NoOne
    Requests = {r1, r2, r3, r4, r5, r6, r7, r8}
    Transfers = {t1, t2}
    Lines = {1, 2, 3, 4}
    LineTransfer <- MCLineTransfer
    Source <- MCSource
    Destination <- MCDestination
    Wanted <- MCWanted
    FromStore <- MCFromStore
    Products = {1, 2, 3, 4}
    InitialQty <- MCInitialQty
    InitialCost <- MCInitialCost
    AllowNegative = {1, 4}
    QtyScale = 2
    Keys = {k1, k2}
    RoleOf <- MCRoleOf
    Workloads <- Days

INVARIANTS
    NothingLostInTransit
    WriteOffsAddUp
    InTransitExplained
    DecidedOnce
    NoCircularWait

CHECK_DEADLOCK FALSE
