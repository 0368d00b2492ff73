--------------------------- MODULE MCZoneTransfer ---------------------------
(* A small zone s to export, and keys for it to be imported twice as n.  A   *)
(* key is written as the type and name of its object and its zone's key.     *)
EXTENDS ZoneTransfer, TLC

ZoneNames == [s |-> "s", n1 |-> "n", n2 |-> "n"]
Objects == {<<"cluster", "c1">>, <<"domain", "d1">>,
            <<"shared_rules", "r1">>, <<"proxy", "p1">>, <<"route", "/">>}

MCKey == {<<"zone", ZoneNames[z], z>> : z \in DOMAIN ZoneNames}
           \union {<<o[1], o[2], z>> : o \in Objects, z \in DOMAIN ZoneNames}
MCKindOf == [k \in MCKey |-> k[1]]
MCNameOf == [k \in MCKey |-> k[2]]
MCZoneOf == [k \in MCKey |-> <<"zone", ZoneNames[k[3]], k[3]>>]
MCSource == <<"zone", "s", "s">>

S(kind, name) == <<kind, name, "s">>
Graph(l, r) == [live |-> l, refs |-> [k \in MCKey |-> IF k \in DOMAIN r THEN r[k] ELSE {}]]

\* A zone with a route and what it needs, and one with a proxy.
Routed == Graph({MCSource, S("cluster", "c1"), S("domain", "d1"),
                 S("shared_rules", "r1"), S("route", "/")},
                (S("shared_rules", "r1") :> {S("cluster", "c1")})
                @@ (S("route", "/") :> {S("domain", "d1"), S("shared_rules", "r1")}))
Proxied == Graph({MCSource, S("domain", "d1"), S("proxy", "p1")},
                 S("proxy", "p1") :> {S("domain", "d1")})
MCGraphs == {Routed, Proxied}
=============================================================================
