SPECIFICATION LiveSpec
CONSTANTS
    NumZones = 2
    Conns = {c1}
    READY_THRESHOLD = 2
    MAX_DNS_RESPONSE_PEERS = 1
    MaxServable = 2
INVARIANTS
    TypeOK
    ReadinessWitnessed
PROPERTIES
    ConnectionsEnd
    EventuallyReady
