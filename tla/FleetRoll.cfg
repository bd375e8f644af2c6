SPECIFICATION Spec
CONSTANTS
    d1 = d1  d2 = d2  d3 = d3
    SEEDERS <- MCSeeders
    Digests = {d1, d2, d3}
    Signed = {d1, d2}
    Bad = {d2}
    GATE_TRIES = 2
    None = None
INVARIANTS TypeOK OthersKeepAnswering SignedOnly
PROPERTIES LabelWitnessed
