CONSTANTS
    MaxWrapperDepth = 5
    MaxPolicyCandidates = 2
    Requests = {"r1"}
    Calls = {"c1", "c2"}
    RequestOf <- MCRequestOf
    MaxPanel = 2
    Slots = 1
    CyberDenyHTTPBudget = 0
    MaxAuditSemanticCalls = 0
    MaxAuditChunkPlans = 2
    Responses <- MCResponses
    Outcome <- RawOutcome
SPECIFICATION Spec
INVARIANTS
    BlockIsProved
    PanelIsHeard
    BudgetsSuffice
PROPERTY
    CallsEnd
CHECK_DEADLOCK FALSE
