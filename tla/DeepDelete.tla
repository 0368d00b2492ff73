----------------------------- MODULE DeepDelete -----------------------------
(***************************************************************************)
(* `tbnctl delete [--deep]` (delete.go, deep_delete.go).                   *)
(*                                                                         *)
(* A deep delete reads the API with a series of calls, one per step, to    *)
(* collect what hangs below the object named on the command line; shows    *)
(* the user a report; and, once confirmed, deletes object by object with   *)
(* the checksums it collected.  Nothing is locked in between: other        *)
(* clients of the API create, modify and delete objects between any two    *)
(* calls, every call may fail, a call may take effect and its answer be    *)
(* lost, and the process may be killed.  The command can then be run       *)
(* again, on the same or another object.                                   *)
(***************************************************************************)
EXTENDS ApiStore, FiniteSets

CONSTANTS
    Targets,    \* the keys the user may name
    MaxEdits,   \* bound: how many writes the other clients perform
    Faults      \* calls may fail, answers be lost, the user decline

ASSUME TargetAssumption == Targets \in SUBSET Key
ASSUME EditsAssumption == MaxEdits \in Nat
ASSUME FaultsAssumption == Faults \in BOOLEAN

VARIABLES
    pc,         \* where the command is; "idle" between two commands
    target,     \* the key on the command line
    plan,       \* the objects collected for deletion: the deleter's maps
    pmods,      \* the proxies to modify: the deleter's proxyMods
    cand,       \* addOrphans' candidates
    cur,        \* the shared rules addSharedRules is working on
    todo,       \* what execute has not handled yet
    snapRefs,   \* the collected objects as they were read ...
    snapSum,    \* ... and their checksums
    swallowed   \* an error of addOrphans was dropped

\* Auxiliary variables, used by the properties and the bound only.
VARIABLES
    foreign,      \* keys other clients created, modified or deleted
    deepDeleted,  \* keys deep deletes have deleted
    disturbed,    \* another client wrote since the command started
    edits         \* how many writes other clients performed

deleter == <<pc, target, plan, pmods, cand, cur, todo, snapRefs, snapSum,
             swallowed>>
others  == <<foreign, disturbed, edits>>
vars    == <<store, deleter, deepDeleted, others>>

Collecting == {"collect", "domainRoutes", "domainProxies", "rulesRoutes",
               "orphans", "orphanGet", "orphanRoutes", "zoneClusters",
               "zoneRoutes", "zoneRules", "zoneDomains", "zoneProxies"}
Steps == {"idle", "get", "deepGet", "shallow", "ask", "exec"}
             \union Collecting

TypeOK ==
    /\ StoreTypeOK
    /\ pc \in Steps
    /\ target \in Key /\ cur \in Key
    /\ plan \in SUBSET Key /\ pmods \in SUBSET Key
    /\ cand \in SUBSET Key /\ todo \in SUBSET Key
    /\ snapRefs \in [Key -> SUBSET Key]
    /\ snapSum \in [Key -> Nat]
    /\ swallowed \in BOOLEAN
    /\ foreign \in SUBSET Key /\ deepDeleted \in SUBSET Key
    /\ disturbed \in BOOLEAN
    /\ edits \in Nat

\* (With a map newDeleter forgot to make.)
NoSums_NilMap == <<>>

NoRefs == [k \in Key |-> {}]
NoSums == [k \in Key |-> 0]

Init ==
    /\ StoreInit
    /\ pc = "idle"
    /\ target \in Targets
    /\ cur = target
    /\ plan = {} /\ pmods = {} /\ cand = {} /\ todo = {}
    /\ snapRefs = NoRefs /\ snapSum = NoSums
    /\ swallowed = FALSE
    /\ foreign = {} /\ deepDeleted = {}
    /\ disturbed = FALSE
    /\ edits = 0

-----------------------------------------------------------------------------
\* The process ends: its maps go with it.
End ==
    /\ pc' = "idle"
    /\ plan' = {} /\ pmods' = {} /\ cand' = {} /\ todo' = {}
    /\ snapRefs' = NoRefs /\ snapSum' = NoSums
    /\ swallowed' = FALSE
    /\ UNCHANGED <<target, cur>>

\* delRunner.Run: a new command, deep or plain.
Start(t) ==
    /\ pc = "idle"
    /\ pc' \in {"get", "deepGet"}
    /\ target' = t /\ cur' = t
    /\ disturbed' = FALSE
    /\ UNCHANGED <<store, plan, pmods, cand, todo, snapRefs, snapSum,
                   swallowed, deepDeleted, foreign, edits>>

\* Objects enter the maps as they are read; one already there stays.
Remember(S) ==
    LET new == S \ (plan \union pmods) IN
    /\ snapRefs' = [k \in Key |-> IF k \in new THEN refs[k] ELSE snapRefs[k]]
    /\ snapSum'  = [k \in Key |-> IF k \in new THEN sum[k] ELSE snapSum[k]]

Collect(S) == plan' = plan \union S /\ Remember(S)

\* delRunner.run fetches the object first.  A plain delete goes on with it;
\* a deep one only looks at whether it is there, and --deep is ignored for
\* clusters and proxies.
DeepKinds == {"domain", "route", "shared_rules", "zone"}

GetTarget ==
    /\ pc \in {"get", "deepGet"}
    /\ target \in live
    /\ IF pc = "deepGet" /\ KindOf[target] \in DeepKinds
         THEN pc' = "collect" /\ UNCHANGED <<plan, snapRefs, snapSum>>
         ELSE pc' = "shallow" /\ Collect({target})
    /\ UNCHANGED <<store, target, pmods, cand, cur, todo, swallowed,
                   deepDeleted, others>>

PlainDelete ==
    /\ pc = "shallow"
    /\ Current(target, snapSum[target])
    /\ Delete(target)
    /\ End
    /\ UNCHANGED <<deepDeleted, others>>

-----------------------------------------------------------------------------
\* newDeleter; addDomainKey, addRouteKey, addSharedRulesKey or addZoneKey
\* fetch the object again and put it in the maps; addRoute also fetches the
\* route's domain, for the report.
FirstScan == [ domain |-> "domainRoutes", route |-> "orphans",
               shared_rules |-> "rulesRoutes", zone |-> "zoneClusters" ]

CollectTarget ==
    /\ pc = "collect" /\ KindOf[target] \in DeepKinds
    /\ target \in live /\ RefsOf(refs[target], "domain") \subseteq live
    /\ Collect({target})
    /\ pc' = FirstScan[KindOf[target]]
    /\ UNCHANGED <<store, target, pmods, cand, cur, todo, swallowed,
                   deepDeleted, others>>

\* One Index call whose answer goes into the maps.
Scan(here, S, next) ==
    /\ pc = here
    /\ Collect(S)
    /\ pc' = next
    /\ UNCHANGED <<store, target, pmods, cand, cur, todo, swallowed,
                   deepDeleted, others>>

\* (With the proxies of a zone left out.)
ZoneDomains_Last == Scan("zoneDomains", InZone("domain", target), "ask")

DomainRoutes == Scan("domainRoutes", Referring("route", target), "domainProxies")
RulesRoutes  == Scan("rulesRoutes", Referring("route", target), "orphans")
ZoneClusters == Scan("zoneClusters", InZone("cluster", target), "zoneRoutes")
ZoneRoutes   == Scan("zoneRoutes", InZone("route", target), "zoneRules")
ZoneRules    == Scan("zoneRules", InZone("shared_rules", target), "zoneDomains")
ZoneDomains  == Scan("zoneDomains", InZone("domain", target), "zoneProxies")
ZoneProxies  == Scan("zoneProxies", InZone("proxy", target), "ask")

\* addDomain's last call: the proxies the domain has to be taken out of.
DomainProxies ==
    /\ pc = "domainProxies"
    /\ pmods' = Referring("proxy", target)
    /\ Remember(Referring("proxy", target))
    /\ pc' = "orphans"
    /\ UNCHANGED <<store, target, plan, cand, cur, todo, swallowed,
                   deepDeleted, others>>

\* addOrphans: the shared rules of the collected routes, less those the API
\* says a route outside the plan uses too.
Candidates == UNION {RefsOf(snapRefs[r], "shared_rules") : r \in RefsOf(plan, "route")}

\* (Without the loop that removes candidates other routes use.)
OrphanIndex_NoRemoval ==
    /\ pc = "orphans"
    /\ cand' = Candidates
    /\ pc' = "orphanGet"
    /\ UNCHANGED <<store, target, plan, pmods, cur, todo, snapRefs, snapSum,
                   swallowed, deepDeleted, others>>

OrphanIndex ==
    /\ pc = "orphans"
    /\ cand' = {s \in Candidates : Referring("route", s) \subseteq plan}
    /\ pc' = "orphanGet"
    /\ UNCHANGED <<store, target, plan, pmods, cur, todo, snapRefs, snapSum,
                   swallowed, deepDeleted, others>>

\* addOrphans' last loop, in any order: addSharedRulesKey skips what is in
\* the maps, else fetches the shared rules and then, in addSharedRules, the
\* routes that use them.
OrphanKnown(s) ==
    /\ pc = "orphanGet"
    /\ s \in cand \intersect plan
    /\ cand' = cand \ {s}
    /\ UNCHANGED <<store, pc, target, plan, pmods, cur, todo, snapRefs,
                   snapSum, swallowed, deepDeleted, others>>

OrphanGet(s) ==
    /\ pc = "orphanGet"
    /\ s \in cand \ plan
    /\ s \in live
    /\ Collect({s})
    /\ cur' = s
    /\ pc' = "orphanRoutes"
    /\ UNCHANGED <<store, target, pmods, cand, todo, swallowed,
                   deepDeleted, others>>

OrphanRoutes ==
    /\ pc = "orphanRoutes"
    /\ Collect(Referring("route", cur))
    /\ cand' = cand \ {cur}
    /\ pc' = "orphanGet"
    /\ UNCHANGED <<store, target, pmods, cur, todo, swallowed,
                   deepDeleted, others>>

OrphansDone ==
    /\ pc = "orphanGet"
    /\ cand = {}
    /\ pc' = "ask"
    /\ UNCHANGED <<store, target, plan, pmods, cand, cur, todo, snapRefs,
                   snapSum, swallowed, deepDeleted, others>>

\* An error of any call of addOrphans, or shared rules that are gone by the
\* time they are fetched: execute ignores what addOrphans returns.
OrphanError ==
    /\ \/ Faults /\ pc = "orphans" /\ Candidates # {}
       \/ pc = "orphanGet" /\ \E s \in cand \ plan : Faults \/ s \notin live
       \/ Faults /\ pc = "orphanRoutes"
    /\ swallowed' = TRUE
    /\ cand' = {}
    /\ pc' = "ask"
    /\ UNCHANGED <<store, target, plan, pmods, cur, todo, snapRefs, snapSum,
                   deepDeleted, others>>

-----------------------------------------------------------------------------
\* execute: the user confirms the report ...
Confirm ==
    /\ pc = "ask"
    /\ todo' = plan \union pmods
    /\ pc' = "exec"
    /\ UNCHANGED <<store, target, plan, pmods, cand, cur, snapRefs, snapSum,
                   swallowed, deepDeleted, others>>

\* ... and the objects are handled type by type, in any order within one.
Order == [ route |-> 1, shared_rules |-> 2, proxy |-> 3, domain |-> 5,
           cluster |-> 6, zone |-> 7 ]
\* (Domains go before the proxies that serve them are modified.)
Rank_DomainsFirst(k) == IF k \in pmods THEN 6 ELSE Order[KindOf[k]]

Rank(k) == IF k \in pmods THEN 4 ELSE Order[KindOf[k]]
IsNext(k) == k \in todo /\ \A j \in todo : Rank(k) <= Rank(j)

\* The call was made; its answer arrives, or it is lost with the process.
Handled(k) ==
    \/ /\ todo' = todo \ {k}
       /\ UNCHANGED <<pc, target, plan, pmods, cand, cur, snapRefs, snapSum,
                      swallowed>>
    \/ Faults /\ End

\* (Without sending the checksum.)
ExecDelete_NoChecksum(k) ==
    /\ pc = "exec"
    /\ IsNext(k) /\ k \notin pmods
    /\ k \in live
    /\ Delete(k)
    /\ deepDeleted' = deepDeleted \union {k}
    /\ Handled(k)
    /\ UNCHANGED others

ExecDelete(k) ==
    /\ pc = "exec"
    /\ IsNext(k) /\ k \notin pmods
    /\ Current(k, snapSum[k])
    /\ Delete(k)
    /\ deepDeleted' = deepDeleted \union {k}
    /\ Handled(k)
    /\ UNCHANGED others

\* (With all its domains taken out; or without sending the checksum.)
ExecModify_Cleared(k) ==
    /\ pc = "exec"
    /\ IsNext(k) /\ k \in pmods
    /\ Current(k, snapSum[k])
    /\ Modify(k, {})
    /\ Handled(k)
    /\ UNCHANGED <<deepDeleted, others>>

ExecModify_NoChecksum(k) ==
    /\ pc = "exec"
    /\ IsNext(k) /\ k \in pmods
    /\ k \in live
    /\ Modify(k, snapRefs[k] \ {target})
    /\ Handled(k)
    /\ UNCHANGED <<deepDeleted, others>>

ExecModify(k) ==
    /\ pc = "exec"
    /\ IsNext(k) /\ k \in pmods
    /\ Current(k, snapSum[k])
    /\ Modify(k, snapRefs[k] \ {target})
    /\ Handled(k)
    /\ UNCHANGED <<deepDeleted, others>>

Succeed ==
    /\ pc = "exec"
    /\ todo = {}
    /\ End
    /\ UNCHANGED <<store, deepDeleted, others>>

\* The object is not there, a write is refused for its checksum, or a fault:
\* a call fails, the user declines, the process is killed.  The command ends
\* where it is.
Missing == \/ pc \in {"get", "deepGet", "collect"} /\ target \notin live
           \/ pc = "collect" /\ ~(RefsOf(refs[target], "domain") \subseteq live)
Refused == \/ pc = "shallow" /\ ~Current(target, snapSum[target])
           \/ pc = "exec" /\ \E k \in Key : IsNext(k) /\ ~Current(k, snapSum[k])

Fail ==
    /\ pc # "idle"
    /\ Missing \/ Refused \/ Faults
    /\ End
    /\ UNCHANGED <<store, deepDeleted, others>>

-----------------------------------------------------------------------------
\* The other clients of the API.  A route names one domain and one set of
\* shared rules; what they refer to exists when they write it.
Contents(k) ==
    {rs \in SUBSET {r \in live : WellFormed(k, {r})} :
        KindOf[k] = "route" =>
            /\ Cardinality(RefsOf(rs, "domain")) = 1
            /\ Cardinality(RefsOf(rs, "shared_rules")) = 1}

Edited(k) ==
    /\ edits < MaxEdits
    /\ edits' = edits + 1
    /\ foreign' = foreign \union {k}
    /\ disturbed' = TRUE
    /\ UNCHANGED <<deleter, deepDeleted>>

OtherCreate(k) == ZoneOf[k] \in live \union {k}
                  /\ (\E rs \in Contents(k) : Create(k, rs)) /\ Edited(k)
OtherModify(k) == k \in live /\ (\E rs \in Contents(k) : Modify(k, rs)) /\ Edited(k)
OtherDelete(k) == k \in live /\ Delete(k) /\ Edited(k)

Other == \E k \in Key : OtherCreate(k) \/ OtherModify(k) \/ OtherDelete(k)

Gather ==
    \/ GetTarget \/ CollectTarget
    \/ DomainRoutes \/ DomainProxies \/ RulesRoutes
    \/ ZoneClusters \/ ZoneRoutes \/ ZoneRules \/ ZoneDomains \/ ZoneProxies
    \/ OrphanIndex \/ OrphanRoutes \/ OrphansDone \/ OrphanError
    \/ \E s \in Key : OrphanKnown(s) \/ OrphanGet(s)

Execute ==
    \/ PlainDelete \/ Confirm \/ Succeed \/ Fail
    \/ \E k \in Key : ExecDelete(k) \/ ExecModify(k)

Next ==
    \/ \E t \in Targets : Start(t)
    \/ Gather
    \/ Execute
    \/ Other

\* A command that runs goes on: its calls return and the user answers.
Spec == Init /\ [][Next]_vars
FairSpec == Spec /\ WF_vars(Gather \/ Execute)

-----------------------------------------------------------------------------
\* The objects a deep delete of t is about, read off the store: t, the routes
\* that name it, and the shared rules that no other route uses; for a zone,
\* everything in it.
Below(t) ==
    LET routes   == {r \in live : KindOf[r] = "route" /\ (r = t \/ t \in refs[r])}
        orphaned == {s \in live : /\ KindOf[s] = "shared_rules"
                                  /\ Referring("route", s) # {}
                                  /\ Referring("route", s) \subseteq routes}
    IN  IF KindOf[t] = "zone"
          THEN {o \in live : ZoneOf[o] = t}
          ELSE {t} \union routes \union orphaned

\* What the user is asked to confirm is the graph below the object, and the
\* proxies of a domain: in a run that no other client disturbs and in which
\* no call of addOrphans fails (deep_delete.go:68-289).
PlanIsGraphBelow ==
    pc = "ask" /\ ~disturbed /\ ~swallowed =>
        /\ plan = Below(target)
        /\ pmods = IF KindOf[target] = "domain"
                     THEN Referring("proxy", target) ELSE {}

\* What an object needs in order to exist: what it names, and its zone.
Uses(o) == refs[o] \union ({ZoneOf[o]} \ {o})

\* A deep delete never takes away an object another one still needs, however
\* its calls interleave with writes of other clients and wherever it fails or
\* is killed, repeatedly: of the objects only tbnctl has handled, none that
\* is left names a deleted one or has lost its zone.  (An object that another
\* client wrote after the scan is out of this command's reach.)
NoDanglingUse ==
    \A o \in live \ foreign : Uses(o) \intersect deepDeleted = {}

\* The Modify of a proxy takes the domain out and writes back nothing stale:
\* a change another client made since the scan is never overwritten
\* (deep_delete.go:412-428; the checksum is the scan's).
NoLostUpdate ==
    [][edits' = edits =>
         \A k \in Key : refs'[k] # refs[k] => refs'[k] = refs[k] \ {target}]_vars

\* What a deep delete deletes was in the report the user confirmed, and has
\* not been given a different content since it was read: a route that was
\* moved to another domain while the user was thinking is not deleted.
DeletesWhatWasShown ==
    [][\A k \in deepDeleted' \ deepDeleted :
         pc = "exec" /\ k \in plan /\ refs[k] = snapRefs[k]]_vars

\* The agreement is the report, from the confirmation to the command's end.
Agreed == IF pc # "exec" THEN {} ELSE
    {[key |-> k, refs |-> snapRefs[k], how |-> "remove"] : k \in plan}
    \union {[key |-> k, refs |-> snapRefs[k], how |-> "loosen"] : k \in pmods}

Promise == INSTANCE ConfirmedRemoval
    WITH agreed <- Agreed, removed <- deepDeleted, excused <- foreign

\* All of a deep delete's calls amount to what ConfirmedRemoval promises: what
\* goes was confirmed, goes as it was shown, and goes when nothing that is
\* left needs it; between a confirmation and the next nothing is added to it.
ImplementsPromise == Promise!Spec

\* What keeps an object below t from a deep delete of t, by what plain deletes
\* have left: a route whose domain is gone cannot be deep deleted at all, and
\* if a route below t names shared rules that are gone, fetching those ends
\* addOrphans, and its error is dropped (deep_delete.go:378): which of the
\* other rules are collected before depends on the order of a map.
Reached(t, k) ==
    /\ RefsOf(refs[t], "domain") \subseteq live
    /\ KindOf[k] = "shared_rules" /\ k # t /\ KindOf[t] # "zone" =>
          \A r \in RefsOf(Below(t), "route") : RefsOf(refs[r], "shared_rules") \subseteq live

\* When calls do not fail and no other client writes, a deep delete that
\* found its object ends with everything below it gone (delete.go:97, "delete
\* the entire object graph below the specified object"), whatever part of the
\* graph earlier commands, plain or deep, have left; but for what they have
\* put out of its reach.
WholeGraphGoes ==
    \A k \in Key : pc = "collect" /\ k \in Below(target) /\ Reached(target, k)
                       ~> pc = "idle" /\ k \notin live

\* The flag's promise (delete.go:97) with calls that may fail: a deep delete
\* that reports success has left behind no shared rules that only the routes
\* it deleted were using.
LeavesNoOrphans ==
    [][Succeed /\ ~disturbed =>
         \A s \in live : KindOf[s] = "shared_rules"
                         /\ (\E r \in plan : s \in snapRefs[r])
                           => Referring("route", s) # {}]_vars

\* A candidate that a route uses which is not to be deleted is none
\* (deep_delete.go:270-271): however other clients disturb the scan, a route
\* they have not written goes only if it is below the object.  (One that began
\* to use shared rules after they were found to be used by nobody else is
\* found when their routes are looked up again, at 236, and goes with them.)
OnlyRoutesBelow ==
    [][\A r \in deepDeleted' \ deepDeleted :
         KindOf[r] = "route" /\ KindOf[target] # "zone" /\ r \notin foreign =>
             r = target \/ target \in snapRefs[r]]_vars

=============================================================================
