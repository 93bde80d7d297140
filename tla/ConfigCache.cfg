CONSTANTS
    r1 = r1
    r2 = r2
    l1 = l1
    l2 = l2
    Caches <- MCCaches
    Lookups <- MCLookups
    Home <- MCHome
    TTL = 1
    MaxTime = 3
    MaxVersion = 3
SPECIFICATION CacheSpec
SYMMETRY MCSymmetry
INVARIANTS
    CacheTypeOK
    BoundedStaleness
CHECK_DEADLOCK FALSE
