CONSTANTS
    Events = {e1, e2}
    Replicas = {r1, r2}
    SinkQueue = 1
    SinkBatch = 2
    ClaimLimit = 2
SPECIFICATION FairSinkSpec
INVARIANTS
    NothingLost
PROPERTIES
    RowsArePublished
CHECK_DEADLOCK FALSE
