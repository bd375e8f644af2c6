SPECIFICATION Spec
CONSTANTS
    N = 3
    CacheEnabled = TRUE
    AllowRollback = FALSE
    Peers = {p1, p2}
INVARIANTS FloorHolds
