CONSTANTS
    p0 = p0
    p1 = p1
    p2 = p2
    Profiles <- MCProfiles
    Root = p0
    Fallbacks <- MCFallbacks
    Retries <- MCRetries
    MaxFallbacks = 2
    MaxTotal = 4
SPECIFICATION FairSpec
INVARIANTS
    CallBudget
    FirstDecisionIsFinal
    AllowIsExplained
PROPERTIES
    AuditEnds
CHECK_DEADLOCK FALSE
