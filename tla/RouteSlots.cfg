CONSTANTS
    a = a
    b = b
    r1 = r1
    r2 = r2
    r3 = r3
    r4 = r4
    Requests <- MCRequests
    Processes <- MCProcesses
    RouteHome <- MCRouteHome
    Limit = 1
    TTLs <- MCOneTTL
    RouteTime = 4
SPECIFICATION RouteSpec
SYMMETRY MCSymmetry
INVARIANTS
    SlotBound
PROPERTIES
    RefusalIsJustified
CHECK_DEADLOCK FALSE
