SPECIFICATION FairSpec
CONSTANTS
    Key <- Twice
    KindOf <- MCKindOf
    ZoneOf <- MCZoneOf
    NameOf <- MCNameOf
    Graphs <- Partial
    Work <- SmallItems
    Replaces = {TRUE}
    Tools = {"t1", "t2"}
    Vals <- MCVals
    MaxRuns = 2
    MaxEdits = 0
    Faults = FALSE
INVARIANTS
    RefersToTheNamed
    FulfilledTogether
PROPERTIES
    Succeeds
CHECK_DEADLOCK FALSE
