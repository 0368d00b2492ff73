--------------------------- MODULE InitZoneFlags ----------------------------
(***************************************************************************)
(* A user types an init-zone command, one argument after the other.  The   *)
(* invariants compare what the program makes of it with what its help says.*)
(***************************************************************************)
EXTENDS InitZoneArgs, FiniteSets

CONSTANTS
    DomainArgs, RouteArgs, ProxyArgs,   \* the arguments a user may type
    MaxArgs                             \* bound: how many in all

ASSUME MaxArgsAssumption == MaxArgs \in Nat

ASSUME ArgsAssumption ==
    /\ \A a \in DomainArgs : /\ a = [name |-> a.name, aliases |-> a.aliases]
                              /\ a.aliases \in Seq(ToSet(a.aliases))
    /\ \A a \in RouteArgs : a = [domain |-> a.domain, path |-> a.path,
                                  cluster |-> a.cluster, metadata |-> a.metadata]
    /\ \A a \in ProxyArgs : a = [name |-> a.name, domain |-> a.domain]

VARIABLES
    domainStrs, routesStrs, proxyStrs   \* the arguments typed so far

flags == <<domainStrs, routesStrs, proxyStrs>>

Init == domainStrs = <<>> /\ routesStrs = <<>> /\ proxyStrs = <<>>

MayType == Len(domainStrs) + Len(routesStrs) + Len(proxyStrs) < MaxArgs

TypeDomain(a) ==
    /\ MayType
    /\ domainStrs' = Append(domainStrs, a)
    /\ UNCHANGED <<routesStrs, proxyStrs>>

TypeRoute(a) ==
    /\ MayType
    /\ routesStrs' = Append(routesStrs, a)
    /\ UNCHANGED <<domainStrs, proxyStrs>>

TypeProxy(a) ==
    /\ MayType
    /\ proxyStrs' = Append(proxyStrs, a)
    /\ UNCHANGED <<domainStrs, routesStrs>>

Next ==
    \/ \E a \in DomainArgs : TypeDomain(a)
    \/ \E a \in RouteArgs : TypeRoute(a)
    \/ \E a \in ProxyArgs : TypeProxy(a)

Spec == Init /\ [][Next]_flags

-----------------------------------------------------------------------------
args == Parse(domainStrs, routesStrs, proxyStrs)
work == WorkOf("zone", args)

\* No cluster is given two metadata.
OneMetadata == \A i, j \in DOMAIN routesStrs :
    routesStrs[i].cluster = routesStrs[j].cluster =>
        routesStrs[i].metadata = routesStrs[j].metadata

\* "If a domain is specified more than once, all aliases are combined"
\* (init_zone.go:58-59): each domain has one entry, with the aliases of all
\* its arguments in the order they were given.
AliasesCombined ==
    args.ok =>
        /\ {args.domains[i].name : i \in DOMAIN args.domains}
             = {domainStrs[i].name : i \in DOMAIN domainStrs}
        /\ \A i \in DOMAIN args.domains :
              args.domains[i].aliases =
                FlattenSeq([j \in DOMAIN domainStrs |->
                    IF domainStrs[j].name = args.domains[i].name
                      THEN domainStrs[j].aliases ELSE <<>>])

\* "More than one specification of the same route is considered an error"
\* (init_zone.go:82-83), however the path is written; and nothing else about
\* well-formed routes is.
SameRouteTwiceIsRejected ==
    LET wellFormed == \A i \in DOMAIN routesStrs : RouteOK(routesStrs[i])
        routes == [i \in DOMAIN routesStrs |->
                     <<routesStrs[i].domain,
                       IF routesStrs[i].path = "" THEN "/" ELSE routesStrs[i].path>>]
    IN  ParseRoutes(routesStrs).ok <=>
            wellFormed /\ IsInjective(routes)

\* The work list is what InitZone takes it to be, and each object refers only
\* to objects further up, so their keys are in the maps by the time it is made;
\* a proxy serves every domain its arguments name ("Ignoring unknown domain",
\* init_zone.go:637, is never reached); each object but clusters and their
\* shared rules is worked on once, and all that is said of one object is the
\* same unless a cluster is given two metadata.
WorkIsOrdered ==
    args.ok =>
        /\ IsWorkList(work)
        /\ \A i \in DOMAIN proxyStrs : \E j \in DOMAIN work :
              /\ work[j].kind = "proxy" /\ work[j].name = proxyStrs[i].name
              /\ <<"domain", proxyStrs[i].domain>> \in work[j].uses
        /\ \A i, j \in {w \in DOMAIN work :
                           work[w].kind \notin {"shared_rules", "cluster"}} :
              SameObject(work[i], work[j]) => i = j
        /\ OneMetadata => ItemsAgree(work)

=============================================================================
