SPECIFICATION Spec
CONSTANTS
    Key <- RulesTwice
    KindOf <- MCKindOf
    ZoneOf <- MCZoneOf
    NameOf <- MCNameOf
    Graphs <- BothZones
    Work <- PlainItems
    Replaces = {TRUE, FALSE}
    Tools = {"t1"}
    Vals <- MCVals
    MaxRuns = 3
    MaxEdits = 1
    Faults = TRUE
INVARIANTS
    TypeOK
    NoDuplicates
    RefersToTheNamed
    Fulfilled
PROPERTIES
    LeavesTheRest
    OverwritesWhatItSaw
    RunAgainIsNoop
CHECK_DEADLOCK FALSE
