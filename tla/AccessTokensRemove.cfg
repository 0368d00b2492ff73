SPECIFICATION Spec
CONSTANTS
    Token = {"t1", "t2"}
    Initial = {"t1"}
    Users = {"u1", "u2"}
    MaxWrites = 1
INVARIANTS
    RemovedIsGone
