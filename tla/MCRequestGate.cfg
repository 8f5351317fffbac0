SPECIFICATION Spec
CONSTANTS
    Kinds = {"request", "exec", "worker"}
    Tokens = {n1, n2, n3}
    Attempts = {a1, a2, a3}
    Principals = {p1, p2}
    MaxAge = 1
    Lifetime = 2
    Rate = 1
    Burst = 1
    BucketTTL = 2
    MaxBuckets = 1
    MaxNow = 2
SYMMETRY Symmetry
INVARIANTS
    BoundedRate

    
CHECK_DEADLOCK FALSE
