SPECIFICATION Spec
CONSTANTS
    Key <- MCKey
    KindOf <- MCKindOf
    ZoneOf <- MCZoneOf
    NameOf <- MCNameOf
    Graphs <- MCGraphs
    Source <- MCSource
    Blank = ""
    NewName = "n"
    MaxEdits = 2
    Faults = TRUE
INVARIANTS
    TypeOK
    RoundTrip
    NothingDropped
PROPERTIES
    FileIsZone
CHECK_DEADLOCK FALSE
