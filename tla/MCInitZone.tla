----------------------------- MODULE MCInitZone -----------------------------
(* Small command lines and zones for InitZone.  A key is written as the     *)
(* type and name of its object and a number.                                *)
EXTENDS InitZone, InitZoneArgs, TLC

Keys(kind, names, n) == {<<kind, m, i>> : m \in names, i \in 1..n}

MCKindOf == [k \in Key |-> k[1]]
MCNameOf == [k \in Key |-> k[2]]
z1 == <<"zone", "z", 1>>

\* One key for an object; the paths "/" and "/x" are routes of either domain.
OneEach == {z1, <<"zone", "other", 1>>, <<"cluster", "c1", 3>>}
    \union Keys("cluster", {"c1", "c2"}, 1) \union Keys("shared_rules", {"c1", "c2"}, 1)
    \union Keys("domain", {"d1", "d2"}, 1) \union Keys("route", {"/"}, 2)
    \union Keys("route", {"/x"}, 1) \union Keys("proxy", {"p1"}, 1)

\* Another client makes shared rules, too.
RulesTwice == (OneEach \ {<<"route", "/x", 1>>}) \union {<<"shared_rules", "c1", 2>>}

\* And one key more for what a second command may make.
Twice == {z1, <<"zone", "other", 1>>, <<"cluster", "c1", 3>>} \union Keys("cluster", {"c1"}, 2)
    \union Keys("shared_rules", {"c1"}, 2) \union Keys("domain", {"d1"}, 2)
    \union Keys("route", {"/"}, 2) \union Keys("proxy", {"p1"}, 2)

\* Another zone has a cluster c1 of its own.
MCZoneOf == [k \in Key |-> CASE k[1] = "zone" -> k
                             [] k = <<"cluster", "c1", 3>> -> <<"zone", "other", 1>>
                             [] OTHER -> z1]

Elsewhere == {<<"zone", "other", 1>>, <<"cluster", "c1", 3>>}

Hand(k) == IF k[1] = "shared_rules" THEN <<[key |-> "by", val |-> "hand"]>>
                                    ELSE <<"hand">>

Graph(l, r, v) == [live |-> l,
                   refs |-> [k \in Key |-> IF k \in DOMAIN r THEN r[k] ELSE {}],
                   val  |-> [k \in Key |-> IF k \in DOMAIN v THEN v[k] ELSE Hand(k)]]

\* Nothing there yet; or a zone somebody has set up by hand.
Fresh   == Graph(Elsewhere, <<>>, <<>>)
ByHand  == Graph(Elsewhere \union {z1, <<"domain", "d1", 1>>, <<"cluster", "c1", 1>>,
                                   <<"shared_rules", "c1", 1>>, <<"route", "/", 1>>},
                 (<<"route", "/", 1>> :> {<<"domain", "d1", 1>>, <<"shared_rules", "c1", 1>>})
                   @@ (<<"shared_rules", "c1", 1>> :> {<<"cluster", "c1", 1>>}), <<>>)
BothZones == {Fresh, ByHand}

\* The zone with any part of what a command would make, as one that failed, or
\* somebody, may have left it; a route is not there without its domain.
Some(S) == Graph(Elsewhere \union S,
                 <<"route", "/", 1>> :> {<<"domain", "d1", 1>>, <<"shared_rules", "c1", 1>>}
                   @@ <<"shared_rules", "c1", 1>> :> {<<"cluster", "c1", 1>>}, <<>>)
Partial ==
    {Some(S) : S \in {T \in SUBSET {z1, <<"domain", "d1", 1>>, <<"cluster", "c1", 1>>,
                                   <<"shared_rules", "c1", 1>>, <<"route", "/", 1>>} :
        /\ T # {} => z1 \in T
        /\ <<"route", "/", 1>> \in T =>
              {<<"domain", "d1", 1>>, <<"shared_rules", "c1", 1>>} \subseteq T
        /\ <<"shared_rules", "c1", 1>> \in T => <<"cluster", "c1", 1>> \in T}}

-----------------------------------------------------------------------------
NoMeta == <<>>
Stage(v) == <<[key |-> "stage", val |-> v]>>
R(d, p, c, m) == [domain |-> d, path |-> p, cluster |-> c, metadata |-> m]
D(d, a) == [name |-> d, aliases |-> a]
P(p, d) == [name |-> p, domain |-> d]

\* Two domains, of which the arguments list one; two clusters.
Plain == WorkOf("z", Parse(<<D("d1", <<"a1">>)>>,
                           <<R("d1", "", "c1", Stage("prod")), R("d2", "/", "c2", NoMeta)>>,
                           <<P("p1", "d1"), P("p1", "d2")>>))

\* The same cluster twice, for different stages.
SharedCluster == WorkOf("z", Parse(<<>>,
                           <<R("d1", "", "c1", Stage("prod")), R("d1", "/x", "c1", Stage("dev"))>>,
                           <<>>))

Small == WorkOf("z", Parse(<<D("d1", <<"a1">>)>>, <<R("d1", "", "c1", Stage("prod"))>>,
                           <<P("p1", "d1")>>))
\* What these lists are, written out.
Rules(c, meta) == Item("shared_rules", c, {<<"cluster", c>>}, meta, TRUE)
Route(d, c)    == Item("route", "/", {<<"domain", d>>, <<"shared_rules", c>>}, <<>>, TRUE)

SmallItems == << Item("zone", "z", {}, <<>>, FALSE),
                 Item("domain", "d1", {}, <<"a1">>, TRUE),
                 Item("cluster", "c1", {}, <<>>, FALSE), Rules("c1", Stage("prod")),
                 Route("d1", "c1"),
                 Item("proxy", "p1", {<<"domain", "d1">>}, <<>>, TRUE) >>

PlainItems == << Item("zone", "z", {}, <<>>, FALSE),
                 Item("domain", "d1", {}, <<"a1">>, TRUE),
                 Item("cluster", "c1", {}, <<>>, FALSE), Rules("c1", Stage("prod")),
                 Item("domain", "d2", {}, <<>>, FALSE),
                 Item("cluster", "c2", {}, <<>>, FALSE), Rules("c2", <<>>),
                 Route("d1", "c1"), Route("d2", "c2"),
                 Item("proxy", "p1", {<<"domain", "d1">>, <<"domain", "d2">>}, <<>>, TRUE) >>
ASSUME PlainItems = Plain
ASSUME SmallItems = Small
ASSUME ItemsAgree(Plain) /\ ItemsAgree(Small) /\ ~ItemsAgree(SharedCluster)
MCVals == {<<>>}
=============================================================================
