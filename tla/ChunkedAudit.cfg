CONSTANTS
    Chunks = {c1, c2, c3}
    Workers = {w1, w2}
    MaxAttempts = 2
    Checkpointing = TRUE
SPECIFICATION FairSpec
INVARIANTS
    TypeOK
    VerdictIsComplete
    OnePlacePerChunk
PROPERTIES
    CallEnds
    ImplementsCompleteAudit
CHECK_DEADLOCK FALSE
