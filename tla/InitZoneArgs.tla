---------------------------- MODULE InitZoneArgs ----------------------------
(***************************************************************************)
(* The command line of `tbnctl init-zone` (init_zone.go:225-388): what the *)
(* --domains, --routes and --proxies arguments are taken to mean, and the  *)
(* list of objects addObjects then works through, in order.                *)
(*                                                                         *)
(* An argument is a record of its parts.  A part that is "" is one the     *)
(* program finds missing or cannot split; everything else about the text   *)
(* is left out.                                                            *)
(***************************************************************************)
EXTENDS WorkLists, SequencesExt

Rejected == [ok |-> FALSE, list |-> <<>>]
Accepted(list) == [ok |-> TRUE, list |-> list]

\* The position of the entry for a name in a list of entries; 0 if none.
IndexOf(list, n) ==
    IF \E i \in DOMAIN list : list[i].name = n
      THEN CHOOSE i \in DOMAIN list : list[i].name = n
      ELSE 0

\* parseDomain, parseProxy, parseRoute: what makes an argument malformed.
DomainOK(a) == a.name # "" /\ a.aliases # <<>>
ProxyOK(a)  == a.name # "" /\ a.domain # ""
RouteOK(a)  == a.domain # "" /\ a.cluster # ""
               /\ \A i \in DOMAIN a.metadata : a.metadata[i].key # ""

\* parseDomains: the aliases of a domain named twice are combined.
\* (With = where the code has append.)
AddDomain_LastWins(acc, a) ==
    LET i == IndexOf(acc.list, a.name) IN
    IF ~acc.ok \/ ~DomainOK(a) THEN Rejected
    ELSE IF i = 0 THEN Accepted(Append(acc.list, a))
    ELSE Accepted([acc.list EXCEPT ![i].aliases = a.aliases])

AddDomain(acc, a) ==
    LET i == IndexOf(acc.list, a.name) IN
    IF ~acc.ok \/ ~DomainOK(a) THEN Rejected
    ELSE IF i = 0 THEN Accepted(Append(acc.list, a))
    ELSE Accepted([acc.list EXCEPT ![i].aliases = @ \o a.aliases])

ParseDomains(args) == FoldLeft(AddDomain, Accepted(<<>>), args)

\* parseProxies: a proxy named twice serves the domains of both.
AddProxy(acc, a) ==
    LET i == IndexOf(acc.list, a.name) IN
    IF ~acc.ok \/ ~ProxyOK(a) THEN Rejected
    ELSE IF i = 0
      THEN Accepted(Append(acc.list, [name |-> a.name, domains |-> <<a.domain>>]))
      ELSE Accepted([acc.list EXCEPT ![i].domains = Append(@, a.domain)])

ParseProxies(args) == FoldLeft(AddProxy, Accepted(<<>>), args)

\* parseRoutes: no path means "/"; the same domain and path twice is an error.
NormalPath(p) == IF p = "" THEN "/" ELSE p

\* (Compared before the path is normalised.)
AddRoute_RawPath(acc, a) ==
    IF \/ ~acc.ok \/ ~RouteOK(a)
       \/ \E i \in DOMAIN acc.list : /\ acc.list[i].domain = a.domain
                                     /\ acc.list[i].path = a.path
      THEN Rejected
      ELSE Accepted(Append(acc.list, [a EXCEPT !.path = NormalPath(@)]))

AddRoute(acc, a) ==
    LET r == [a EXCEPT !.path = NormalPath(@)] IN
    IF \/ ~acc.ok \/ ~RouteOK(a)
       \/ \E i \in DOMAIN acc.list : /\ acc.list[i].domain = r.domain
                                     /\ acc.list[i].path = r.path
      THEN Rejected
      ELSE Accepted(Append(acc.list, r))

ParseRoutes(args) == FoldLeft(AddRoute, Accepted(<<>>), args)

\* validateRoutes and validateProxies.
RoutesValid(routes) ==
    \A i, j \in DOMAIN routes :
        routes[i].domain = routes[j].domain /\ routes[i].path = routes[j].path
            => i = j

ProxiesValid(proxies, routes) ==
    \A i \in DOMAIN proxies : \A d \in ToSet(proxies[i].domains) :
        \E j \in DOMAIN routes : routes[j].domain = d

\* initZoneRunner.Run up to the first call of the API.
Parse(domainArgs, routeArgs, proxyArgs) ==
    LET d == ParseDomains(domainArgs)
        r == ParseRoutes(routeArgs)
        p == ParseProxies(proxyArgs)
    IN  [ ok      |-> d.ok /\ r.ok /\ RoutesValid(r.list) /\ p.ok
                      /\ ProxiesValid(p.list, r.list),
          domains |-> d.list, routes |-> r.list, proxies |-> p.list ]

-----------------------------------------------------------------------------
\* What one pass of addRouteDependencies, addRoutes or addProxies has to make
\* sure of: that there is an object of this kind and name, with these
\* references and contents.  "listed" is FALSE for what --replace spares: the
\* zone, the clusters, and the domains only --routes mentions.
Item(kind, name, uses, val, listed) ==
    [kind |-> kind, name |-> name, uses |-> uses, val |-> val, listed |-> listed]

NoAliases == <<>>

DomainItem(d)   == Item("domain", d.name, {}, d.aliases, TRUE)
ImpliedItem(r)  == Item("domain", r.domain, {}, NoAliases, FALSE)
ClusterItem(r)  == Item("cluster", r.cluster, {}, <<>>, FALSE)
RulesItem(r)    == Item("shared_rules", r.cluster, {<<"cluster", r.cluster>>},
                        r.metadata, TRUE)
RouteItem(r)    == Item("route", r.path,
                        {<<"domain", r.domain>>, <<"shared_rules", r.cluster>>},
                        <<>>, TRUE)

\* A domain that domainKeyMap lacks was never looked up and is passed over.
ProxyItem(p, known) ==
    Item("proxy", p.name,
         {<<"domain", d>> : d \in ToSet(p.domains) \intersect known}, <<>>, TRUE)

\* (The shared rules are made before the cluster they send traffic to.)
Dependencies_RulesFirst(domains, routes, i) ==
    LET r == routes[i]
        had == \/ \E k \in DOMAIN domains : domains[k].name = r.domain
               \/ \E j \in 1..(i - 1) : routes[j].domain = r.domain
    IN  (IF had THEN <<>> ELSE <<ImpliedItem(r)>>) \o <<RulesItem(r), ClusterItem(r)>>

\* addRouteDependencies, per route: its domain unless an earlier argument had
\* it, its cluster, and shared rules named after the cluster.
Dependencies(domains, routes, i) ==
    LET r == routes[i]
        had == \/ \E k \in DOMAIN domains : domains[k].name = r.domain
               \/ \E j \in 1..(i - 1) : routes[j].domain = r.domain
    IN  (IF had THEN <<>> ELSE <<ImpliedItem(r)>>) \o <<ClusterItem(r), RulesItem(r)>>

WorkOf(zone, args) ==
    LET known == {args.domains[i].name : i \in DOMAIN args.domains}
                     \union {args.routes[i].domain : i \in DOMAIN args.routes}
    IN  <<Item("zone", zone, {}, <<>>, FALSE)>>
        \o [i \in DOMAIN args.domains |-> DomainItem(args.domains[i])]
        \o FlattenSeq([i \in DOMAIN args.routes |->
                          Dependencies(args.domains, args.routes, i)])
        \o [i \in DOMAIN args.routes |-> RouteItem(args.routes[i])]
        \o [i \in DOMAIN args.proxies |-> ProxyItem(args.proxies[i], known)]

=============================================================================
