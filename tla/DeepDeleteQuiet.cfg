SPECIFICATION FairSpec
CONSTANTS
    Key <- MCKey
    KindOf <- MCKindOf
    ZoneOf <- MCZoneOf
    Graphs <- OneGraph
    Targets = {"z1", "d1", "d2", "r1", "r2", "r3", "s1", "s2", "p1"}
    MaxEdits = 0
    Faults = FALSE
INVARIANTS
    PlanIsGraphBelow
PROPERTIES
    WholeGraphGoes
