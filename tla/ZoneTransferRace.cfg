SPECIFICATION Spec
CONSTANTS
    Key <- MCKey
    KindOf <- MCKindOf
    ZoneOf <- MCZoneOf
    NameOf <- MCNameOf
    Graphs <- MCGraphs
    Source <- MCSource
    Blank = ""
    NewName = "n"
    MaxEdits = 2
    Faults = FALSE
INVARIANTS
    ReferencesKept
CHECK_DEADLOCK FALSE
