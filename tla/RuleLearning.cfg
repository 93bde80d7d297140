CONSTANTS
    Categories = {"malware"}
    Refused = {"10.0.0.1"}
    Answers <- MCAnswers
    Users = {u1}
    NoUser = NoUser
    Workers = {w1, w2}
    QueueSize = 1
    HardEvidence = 2
    HardUsers = 1
    Policies <- MCPolicies
    RuleInputs <- MCRuleInputs
    DefaultPolicy <- MCDefaultPolicy
    MaxSamples = 2
    MaxEdits = 1
    MaxFaults = 1
SPECIFICATION LearnSpec
INVARIANT
    HardBlockIsEarned
PROPERTIES
    RejectionHolds
    RulesConverge
