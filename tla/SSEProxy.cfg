CONSTANTS
    MaxEvents = 3
    PendingMax = 2
    HeartbeatOn = TRUE
SPECIFICATION FairSpec
INVARIANTS
    RelaysAPrefix
    FailureSurfacesOnce
    OutcomeFollowsTheStream
PROPERTIES
    StreamEnds
CHECK_DEADLOCK FALSE
