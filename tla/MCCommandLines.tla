--------------------------- MODULE MCCommandLines ---------------------------
(* A few arguments of each kind for CommandLines; "" is a malformed part.   *)
EXTENDS CommandLines, TLC

MCDomainArgs ==
    {[name |-> d, aliases |-> a] : d \in {"d1", "d2"}, a \in {<<"a1">>, <<"a1", "a2">>}}
        \union {[name |-> "", aliases |-> <<"a1">>], [name |-> "d1", aliases |-> <<>>]}

MCRouteArgs ==
    {[domain |-> d, path |-> p, cluster |-> c, metadata |-> <<>>] :
        d \in {"d1", "d2"}, p \in {"", "/", "/x"}, c \in {"c1"}}
    \union {[domain |-> "d2", path |-> "", cluster |-> "", metadata |-> <<>>],
            [domain |-> "d1", path |-> "", cluster |-> "c1",
             metadata |-> <<[key |-> "stage", val |-> "prod"]>>],
            [domain |-> "d1", path |-> "/", cluster |-> "c1",
             metadata |-> <<[key |-> "", val |-> "prod"]>>]}

MCProxyArgs ==
    {[name |-> p, domain |-> d] : p \in {"p1", "p2"}, d \in {"d1", "d2"}}
        \union {[name |-> "p1", domain |-> ""]}

-----------------------------------------------------------------------------
\* Integers of 3 and 5 bits stand for those of 8 and 64.
MCHalf == ("int8" :> 4) @@ ("uint8" :> 4) @@ ("int64" :> 16) @@ ("uint64" :> 16)

MCLower == ("YES" :> "yes") @@ ("False" :> "false")

F(go, tag, shape, of) == [go |-> go, tag |-> tag, shape |-> shape, of |-> of]

MCFields == << F("Name", "name", "plain", "string"),
               F("On", "", "pointer", "bool"),
               F("Port", "port", "plain", "int64"),
               F("Size", "", "pointer", "uint8"),
               F("Ports", "ports", "slice", "int8"),
               F("Count", "count", "plain", "uint8"),
               F("Since", "since", "pointer", "time"),
               F("Rule", "rule", "plain", "struct") >>

Value(n) == <<Number(n)>>
No == <<Word("no")>>
Two(a, b) == <<a, b>>

\* 12 is too wide for the narrow integers, 40 for the wide ones; "Name" is
\* the name of no attribute.
MCAttrArgs ==
    {[name |-> n, text |-> t] : n \in {"name", "On"}, t \in {Empty, No, Value(1)}}
    \union {[name |-> n, text |-> t] :
              n \in {"port", "Size", "ports", "since"},
              t \in {No, Value(-3), Value(12), Value(40)}}
    \union {[name |-> "On", text |-> <<Word(w)>>] : w \in {"true", "t", "yes", "y", "YES", "False"}}
    \union {[name |-> "On", text |-> Two(Word("yes"), Word("no"))],
            [name |-> "Size", text |-> Value(1)],
            [name |-> "ports", text |-> Two(Number(1), Number(-2))],
            [name |-> "ports", text |-> Two(Number(1), Word("no"))],
            [name |-> "name", text |-> Two(Word("no"), Number(1))],
            [name |-> "Name", text |-> No],
            [name |-> "count", text |-> Value(1)],
            [name |-> "rule", text |-> Value(1)]}
=============================================================================
