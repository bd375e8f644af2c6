SPECIFICATION LiveSpec
CONSTANTS
    Clients = {c1, c2}
    Cell = 2
    Burst = 2
    MaxTime = 6
INVARIANTS
    TypeOK
    AdmissionBound
PROPERTIES
    ImplementsBucket
    SilentForgotten
