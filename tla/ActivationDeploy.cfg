SPECIFICATION Spec
CONSTANTS
    a1 = a1  a2 = a2  b1 = b1  c1 = c1  d1 = d1
    Peers = {a1, b1, c1}
    Groups <- MCGroups
    GroupOf <- MCGroupOf
    Byzantine = {a1}
    ActivationHeight <- MCActivationHeight
    N = 2
    MaxBlockReorgHeight = 1
    MaxHeight = 4
    MIN_NETWORK_GROUPS = 2
    MAX_NETWORK_GROUPS_PER_SWEEP = 2
    QUORUM_NUMERATOR = 3
    QUORUM_DENOMINATOR = 4
    REQUIRED_QUALIFYING_SWEEPS = 2
    U8_MAX = 3
    CacheEnabled = TRUE
    AllowRollback = FALSE
    OnlineAttest = FALSE
    NoRecord = NoRecord
INVARIANT DeployKeepsFloor
