SPECIFICATION Spec
CONSTANTS
    Calls = {c1, c2, c3}
    Applying = {c2, c3}
    Ids = {i1}
    Sessions = {s1, s2}
    Contents = {h1, h2}
    Modes = {"server_token", "client_managed"}
    NoToken = NoToken
    None = None
    Lifetime = 1
    MaxNow = 1
    MaxTokens = 1
    MaxCrashes = 1
SYMMETRY Symmetry
INVARIANTS
    AuditPrecedesEffect
    AnswerAgreesWithAudit
    ApprovalUsedOnce
    WriteWasReviewed

    
CHECK_DEADLOCK FALSE
