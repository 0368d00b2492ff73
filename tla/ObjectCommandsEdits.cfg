SPECIFICATION Spec
CONSTANTS
    Key = {"k1", "k2", "k3"}
    Initial = {"k1", "k2"}
    Users = {"u1", "u2"}
    NoKey = "none"
    Rows <- MCRows
    MaxTexts = 2
    MaxLost = 1
INVARIANTS
    TypeOK
    AppliedOnce
    OneVersionPerListing
PROPERTIES
    NoLostEdit
    ImplementsAtomicEdits
CHECK_DEADLOCK FALSE
