CONSTANTS
    r1 = r1
    r2 = r2
    Requests <- MCRequests
    Sizes <- MCSizes
    GlobalMax = 2
    LargeMax = 1
    RouteMax = 1
SPECIFICATION FairSpec
INVARIANTS
    SlotsAreHeld
    NoOrphanedUpstream
PROPERTIES
    TraceTellsTheAnswer
    RequestsReturn
CHECK_DEADLOCK FALSE
