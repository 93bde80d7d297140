CONSTANTS
    east = east
    west = west
    c1 = c1
    c2 = c2
    c3 = c3
    Callers <- MCCallers
    Replicas <- MCReplicas
    Home <- MCHome
    Offset <- MCOffset
    Rate = 1
    Burst = 1
    IdleLimit = 2
    Secrets = {0, 1}
    Messages <- MCMessages
    ClockSkew = 2
    NonceTTL = 4
    MaxDelay = 1
    Mixes <- MCMixes
    MaxErrors = 3
SPECIFICATION Spec
SYMMETRY Symmetry
INVARIANTS
    RateIsBounded
PROPERTIES
    AcceptedOncePerTTL
    RevokedSecretDies
CHECK_DEADLOCK FALSE
