SPECIFICATION Spec
CONSTANTS
    r0 = r0
    r1 = r1
    r2 = r2
    r3 = r3
    r4 = r4
    r5 = r5
    r6 = r6
    r7 = r7
    r8 = r8
    r9 = r9
    k1 = k1
    k2 = k2
    north = north
    south = south
    ann = ann
    bob = bob
    eve = eve
    p1 = p1
    p2 = p2
    NoOne = NoOne
    Requests = {r0, r1, r2, r3, r4, r5, r6, r7, r8, r9}
    Employees = {ann, bob, eve}
    Stores = {north, south}
    DayTicks = 6
    Boundary <- MCBoundary
    Periods = {p1, p2}
    PayStore <- MCPayStore
    PayStart <- MCPayStart
    PayEnd <- MCPayEnd
    Keys = {k1, k2}
    TicksPerHour = 2
    OvertimeThreshold = 4
    OvertimeNum = 3
    OvertimeDen = 2
    Deductions <- NoDeductions
    Workloads <- Moves
PROPERTIES
    ApprovedIsCurrent
CHECK_DEADLOCK FALSE
