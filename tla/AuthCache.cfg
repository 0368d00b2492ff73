SPECIFICATION Spec
CONSTANTS
    User = {"ann", "bob"}
    NoUser = "none"
    Terminals = {"p1", "p2", "p3"}
    MaxTokens = 3
INVARIANTS
    TypeOK
    TokenIsTheUsers
    OffersAName
    EndedStaysEnded
