---------------------------- MODULE MCDeepDelete ----------------------------
(* Small zones for DeepDelete.  Keys are named after their type.           *)
EXTENDS DeepDelete, TLC

Zone1 == {"z1", "c1", "d1", "d2", "r1", "r2", "r3", "s1", "s2", "p1"}

MCKey == Zone1 \union {"r4"}

MCKindOf ==
    [ k \in MCKey |-> CASE k = "z1" -> "zone"
                        [] k = "c1" -> "cluster"
                        [] k \in {"d1", "d2"} -> "domain"
                        [] k \in {"r1", "r2", "r3", "r4"} -> "route"
                        [] k \in {"s1", "s2"} -> "shared_rules"
                        [] k = "p1" -> "proxy" ]

MCZoneOf == [k \in MCKey |-> "z1"]

Empty == [k \in MCKey |-> {}]

\* d1 has two routes, d2 one; p1 serves both domains.
Base == ("r1" :> {"d1", "s1"}) @@ ("r2" :> {"d1", "s2"})
        @@ ("s1" :> {"c1"}) @@ ("s2" :> {"c1"}) @@ ("p1" :> {"d1", "d2"})

\* s2 is shared with a route of the other domain.
Shared == ("r3" :> {"d2", "s2", "c1"}) @@ Base @@ Empty

\* Both of d1's routes use s1 alone; s2 is used by d2's.
Apart == ("r2" :> {"d1", "s1"}) @@ ("r3" :> {"d2", "s2"}) @@ Base @@ Empty

BothGraphs == {[live |-> Zone1, refs |-> Shared], [live |-> Zone1, refs |-> Apart]}
OneGraph   == {[live |-> Zone1, refs |-> Shared]}

Leaves == {"d1", "r1", "s1", "s2"}
=============================================================================
