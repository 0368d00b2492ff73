SPECIFICATION Spec
CONSTANTS
    Key <- MCKey
    KindOf <- MCKindOf
    ZoneOf <- MCZoneOf
    Graphs <- BothGraphs
    Targets = {"d1"}
    MaxEdits = 0
    Faults = TRUE
PROPERTIES
    LeavesNoOrphans
