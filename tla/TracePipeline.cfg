CONSTANTS
    e1 = e1
    e2 = e2
    e3 = e3
    w1 = w1
    w2 = w2
    x1 = x1
    NoExt = NoExt
    Events <- MCEvents
    Workers <- MCWorkers
    ExtIds <- MCExtIds
    External <- MCExternal
    QueueSize = 1
    BatchSize = 2
    Replicas = {}
    SinkQueue = 1
    SinkBatch = 2
    ClaimLimit = 2
SPECIFICATION PipelineSpec
INVARIANTS
    OneRowPerExternalId
    NothingLost
    EveryTraceIsAccountedFor
PROPERTIES
    NoSilentLoss
CHECK_DEADLOCK FALSE
