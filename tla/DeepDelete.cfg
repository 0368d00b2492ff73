SPECIFICATION Spec
CONSTANTS
    Key <- MCKey
    KindOf <- MCKindOf
    ZoneOf <- MCZoneOf
    Graphs <- BothGraphs
    Targets = {"d1", "s2", "z1"}
    MaxEdits = 1
    Faults = TRUE
INVARIANTS
    TypeOK
    NoDanglingUse
    PlanIsGraphBelow
PROPERTIES
    OnlyRoutesBelow
    NoLostUpdate
    DeletesWhatWasShown
    ImplementsPromise
