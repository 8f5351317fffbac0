SPECIFICATION FairRouterSpec
CONSTANTS
    Workspaces = {w1, w2}
    MaxServers = 3
    MaxTime = 3
INVARIANTS
    TablesAgree
    NoLeakedServer
PROPERTIES
    ExpiredIsRevoked
    CloseIsComplete
CHECK_DEADLOCK FALSE
