SPECIFICATION Spec
CONSTANTS
    Calls = {c1, c2}
    Applying = {c1, c2}
    Ids = {i1}
    Sessions = {s1, s2}
    Contents = {h1}
    Modes = {"server_token", "client_managed"}
    NoToken = NoToken
    None = None
    Lifetime = 1
    MaxNow = 0
    MaxTokens = 1
    MaxCrashes = 1
SYMMETRY Symmetry
INVARIANTS
    TornTailNotExtended
CHECK_DEADLOCK FALSE
