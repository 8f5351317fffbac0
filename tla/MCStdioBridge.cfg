SPECIFICATION FairSpec
CONSTANTS
    MaxLines = 4
    Ids = {1, 2}
    NoId = NoId
    Scripts <- MCScripts
    MaxConcurrency = 1
    MaxPending = 1
    MaxControl = 1
INVARIANTS
    Barrier
    NoOrphanSession
PROPERTIES
    UnambiguousAnswers
    
CHECK_DEADLOCK FALSE
