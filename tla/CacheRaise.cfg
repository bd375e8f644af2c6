SPECIFICATION Spec
CONSTANTS
    p1 = p1  p2 = p2  q1 = q1
    Peers = {p1, p2}
    Family <- MCFamily
    Unroutable = {}
    WrongPort = {}
    BanGroup <- MCBanGroup
    PreviousFloor = 1
    TargetVersion = 2
    Handshakes <- MCHandshakes
    MAX_DNS_RESPONSE_PEERS = 1
    Absent = Absent
INVARIANT NextRefreshRemoves
