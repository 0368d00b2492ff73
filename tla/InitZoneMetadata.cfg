SPECIFICATION Spec
CONSTANTS
    Key <- OneEach
    KindOf <- MCKindOf
    ZoneOf <- MCZoneOf
    NameOf <- MCNameOf
    Graphs <- BothZones
    Work <- SharedCluster
    Replaces = {TRUE}
    Tools = {"t1"}
    Vals <- MCVals
    MaxRuns = 1
    MaxEdits = 0
    Faults = FALSE
INVARIANTS
    Fulfilled
CHECK_DEADLOCK FALSE
