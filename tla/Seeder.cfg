SPECIFICATION Spec
CONSTANTS
    Networks <- MCNetworks
    Order <- MCOrder
    Labels <- MCLabels
    MaxLabels = 3
    Hostmaster = "hostmaster"
    NoZone = NoZone
    Configs <- MCConfigs
    QueryNames <- MCQueryNames
    Snapshots <- MCSnapshots
INVARIANTS
    TypeOK
    OneZonePerName
    
    RefusedOnlyOutside
    ValidatedZonesBuild
CHECK_DEADLOCK FALSE
