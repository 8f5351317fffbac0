SPECIFICATION FairSpec
CONSTANTS
    Requests = {1, 2, 3}
    Principals = {p1}
    Sessions = {s1, s2}
    ClientIds = {1}
    Workloads <- MCWorkloads
    Server = Server
    None = None
    TTL = 1
    MaxSessions = 1
    MaxConcurrency = 2
    MaxNow = 1
INVARIANTS
    RevokeIsFinal
    DeletedSessionHasNoProcess
PROPERTY EveryRequestAnswered
CHECK_DEADLOCK FALSE
