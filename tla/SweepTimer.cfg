SPECIFICATION Spec
CONSTANTS
    Peers = {p1}
    HANDSHAKE_TIMEOUT = 1
    MIN_PEER_RECONNECTION_DELAY = 3
    TargetSpacing = 2
    MaxLate = 1
    MaxPersist = 6
    MaxTime = 20
    Never = Never
INVARIANTS
    TypeOK
    NoSelfRefusal
    SweepsSpread
