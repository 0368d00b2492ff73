-------------------------- MODULE DeepDeleteProofs --------------------------
(***************************************************************************)
(* Proofs about DeepDelete, for every set of keys, every initial contents  *)
(* of the API and any number of writes by other clients.                   *)
(*                                                                         *)
(* NoDanglingUse is not inductive.  What makes it so is, phase by phase,   *)
(* what the scans have found so far:                                       *)
(*   Versions  an object whose checksum is still the one that was read has *)
(*             the content that was read (so Modify only takes away);      *)
(*   Shape     what kinds of object the deleter's maps hold in each phase; *)
(*   Coverage  once its scans are done, everything that needs a planned    *)
(*             object, and that no other client has touched, is planned;   *)
(*   Ordering  and execute still has it in front of that object.           *)
(* PlanIsGraphBelow needs Scanning: what exactly is planned at each call.  *)
(***************************************************************************)
EXTENDS DeepDelete, TLAPS

Versions ==
    /\ \A k \in live \union deepDeleted : sum[k] > 0
    /\ live \intersect deepDeleted = {}
    /\ \A k \in plan \union pmods :
          /\ snapSum[k] > 0 /\ snapSum[k] <= sum[k]
          /\ snapSum[k] = sum[k] => refs[k] = snapRefs[k]

Schema ==
    \A k \in Key : WellFormed(k, refs[k]) /\ WellFormed(k, snapRefs[k])

Fresh == {"idle", "get", "deepGet", "collect"}
DomainSteps == {"domainRoutes", "domainProxies"}
OrphanSteps == {"orphans", "orphanGet", "orphanRoutes"}
ZoneSteps == {"zoneClusters", "zoneRoutes", "zoneRules", "zoneDomains",
              "zoneProxies"}

Shape ==
    /\ pc \in Fresh => plan = {} /\ pmods = {}
    /\ pc = "collect" => KindOf[target] \in DeepKinds
    /\ pc = "shallow" => plan = {target} /\ pmods = {}
    /\ pc \in DomainSteps => KindOf[target] = "domain" /\ pmods = {}
    /\ pc = "rulesRoutes" => KindOf[target] = "shared_rules"
    /\ pc \in OrphanSteps => KindOf[target] # "zone"
    /\ pc \in ZoneSteps => KindOf[target] = "zone"
    /\ cand # {} => pc \in OrphanSteps
    /\ \A s \in cand : KindOf[s] = "shared_rules"
    /\ \A k \in pmods : KindOf[k] = "proxy"
    /\ pmods # {} => KindOf[target] # "zone"
    /\ pc # "shallow" /\ KindOf[target] # "zone" =>
          \A k \in plan : \/ KindOf[k] \in {"route", "shared_rules"}
                          \/ KindOf[k] = "domain" /\ k = target
    /\ KindOf[target] = "zone" => \A k \in plan : ZoneOf[k] = target
    /\ todo \subseteq plan \union pmods

\* The objects the argument is about: no other client wrote them.
Ours == live \ foreign

Scanned(step) ==
    {kind \in Kinds \ {"zone"} :
        \/ step = "ask"
        \/ step = "zoneRoutes"  /\ kind = "cluster"
        \/ step = "zoneRules"   /\ kind \in {"cluster", "route"}
        \/ step = "zoneDomains" /\ kind \in {"cluster", "route", "shared_rules"}
        \/ step = "zoneProxies" /\ kind # "proxy"}

Pending(k) == k = target /\ pc \in DomainSteps \union {"rulesRoutes"}

Coverage ==
    /\ KindOf[target] # "zone" /\ pc \notin {"shallow", "exec"} =>
          \A k \in plan \union cand : ~Pending(k) =>
             \A o \in Ours : k \in refs[o] => o \in plan \union pmods
    /\ pc = "domainProxies" =>
          \A o \in Ours : KindOf[o] = "route" /\ target \in refs[o] => o \in plan
    /\ KindOf[target] = "zone" =>
          \A o \in Ours : ZoneOf[o] = target /\ KindOf[o] \in Scanned(pc)
                            => o \in plan

Ordering ==
    pc = "exec" =>
        \A k \in todo \ pmods : \A o \in Ours :
            k \in Uses(o) => o \in todo /\ Rank(o) < Rank(k)

IInv == /\ TypeOK /\ Versions /\ Schema /\ Shape /\ Coverage /\ Ordering
        /\ NoDanglingUse

-----------------------------------------------------------------------------
\* The variables always have their types (the deleter's maps hold keys).
LEMMA InitType == Init => TypeOK
<1> SUFFICES ASSUME Init PROVE TypeOK
  OBVIOUS
<1>1. StoreTypeOK
  <2>1. PICK g \in Graphs : live = g.live /\ refs = g.refs
    BY DEF Init, StoreInit
  <2>2. live \in SUBSET Key /\ refs \in [Key -> SUBSET Key]
    BY <2>1, GraphAssumption DEF IsGraph
  <2>3. sum \in [Key -> Nat]
    BY DEF Init, StoreInit
  <2> QED BY <2>2, <2>3 DEF StoreTypeOK
<1>2. NoRefs \in [Key -> SUBSET Key] /\ NoSums \in [Key -> Nat]
  BY DEF NoRefs, NoSums
<1> QED BY <1>1, <1>2, TargetAssumption DEF Init, TypeOK, Steps

LEMMA NextType == TypeOK /\ [Next]_vars => TypeOK'
<1> SUFFICES ASSUME TypeOK, [Next]_vars PROVE TypeOK'
  OBVIOUS
<1> USE DEF TypeOK, StoreTypeOK, Steps, Collecting
<1>e. ASSUME End
      PROVE  /\ pc' = "idle" /\ plan' = {} /\ pmods' = {} /\ cand' = {}
             /\ todo' = {} /\ swallowed' = FALSE
             /\ target' = target /\ cur' = cur
             /\ snapRefs' \in [Key -> SUBSET Key] /\ snapSum' \in [Key -> Nat]
  BY <1>e DEF End, NoRefs, NoSums
<1>c. ASSUME NEW S \in SUBSET Key, Remember(S)
      PROVE  snapRefs' \in [Key -> SUBSET Key] /\ snapSum' \in [Key -> Nat]
  BY <1>c DEF Remember
<1>r. \A kind, k : /\ Referring(kind, k) \in SUBSET Key
                   /\ InZone(kind, k) \in SUBSET Key
  BY DEF Referring, InZone
<1>m. ASSUME NEW k \in Key, NEW rs \in SUBSET Key, Create(k, rs) \/ Modify(k, rs)
      PROVE  StoreTypeOK'
  BY <1>m DEF Create, Modify
<1>1. ASSUME NEW t \in Targets, Start(t) PROVE TypeOK'
  BY <1>1, TargetAssumption DEF Start, store
<1>2. ASSUME GetTarget PROVE TypeOK'
  <2>1. CASE pc' = "collect" /\ UNCHANGED <<plan, snapRefs, snapSum>>
    BY <1>2, <2>1 DEF GetTarget, store, others
  <2>2. CASE pc' = "shallow" /\ Collect({target})
    BY <1>2, <2>2, <1>c DEF GetTarget, Collect, store, others
  <2> QED BY <1>2, <2>1, <2>2 DEF GetTarget
<1>3. ASSUME CollectTarget PROVE TypeOK'
  <2>1. FirstScan[KindOf[target]] \in Collecting
    BY <1>3 DEF CollectTarget, DeepKinds, FirstScan
  <2> QED BY <1>3, <2>1, <1>c DEF CollectTarget, Collect, store, others
<1>4. ASSUME NEW here, NEW S \in SUBSET Key, NEW next \in Steps,
             Scan(here, S, next)
      PROVE  TypeOK'
  BY <1>4, <1>c DEF Scan, Collect, store, others
<1>5. ASSUME DomainProxies PROVE TypeOK'
  BY <1>5, <1>c, <1>r DEF DomainProxies, store, others
<1>6. ASSUME OrphanIndex PROVE TypeOK'
  <2>1. Candidates \in SUBSET Key
    BY DEF Candidates, RefsOf
  <2> QED BY <1>6, <2>1 DEF OrphanIndex, store, others
<1>7. ASSUME NEW s \in Key, OrphanKnown(s) \/ OrphanGet(s) PROVE TypeOK'
  BY <1>7, <1>c DEF OrphanKnown, OrphanGet, Collect, store, others
<1>8. ASSUME OrphanRoutes PROVE TypeOK'
  BY <1>8, <1>c, <1>r DEF OrphanRoutes, Collect, store, others
<1>9. ASSUME OrphansDone \/ OrphanError PROVE TypeOK'
  BY <1>9 DEF OrphansDone, OrphanError, store, others
<1>10. ASSUME PlainDelete PROVE TypeOK'
  BY <1>10, <1>e DEF PlainDelete, Delete, others
<1>11. ASSUME Confirm PROVE TypeOK'
  BY <1>11 DEF Confirm, store, others
<1>12. ASSUME NEW k \in Key, ExecDelete(k) PROVE TypeOK'
  BY <1>12, <1>e DEF ExecDelete, Delete, Handled, others
<1>13. ASSUME NEW k \in Key, ExecModify(k) PROVE TypeOK'
  <2>1. snapRefs[k] \ {target} \in SUBSET Key
    OBVIOUS
  <2>2. StoreTypeOK'
    BY <1>13, <2>1, <1>m DEF ExecModify
  <2> QED BY <1>13, <2>2, <1>e DEF ExecModify, Handled, others
<1>14. ASSUME Succeed \/ Fail PROVE TypeOK'
  BY <1>14, <1>e DEF Succeed, Fail, store, others
<1>15. ASSUME NEW k \in Key, OtherCreate(k) \/ OtherModify(k) \/ OtherDelete(k)
       PROVE  TypeOK'
  <2>1. Contents(k) \subseteq SUBSET Key
    BY DEF Contents
  <2>2. StoreTypeOK'
    BY <1>15, <2>1, <1>m DEF OtherCreate, OtherModify, OtherDelete, Delete
  <2>3. Edited(k)
    BY <1>15 DEF OtherCreate, OtherModify, OtherDelete
  <2> QED BY <2>2, <2>3 DEF Edited, deleter
<1>16. ASSUME UNCHANGED vars PROVE TypeOK'
  BY <1>16 DEF vars, store, deleter, others
<1> QED
  BY <1>1, <1>2, <1>3, <1>4, <1>5, <1>6, <1>7, <1>8, <1>9, <1>10, <1>11,
     <1>12, <1>13, <1>14, <1>15, <1>16, <1>r
  DEF Next, Gather, Execute, Other, DomainRoutes, RulesRoutes, ZoneClusters,
      ZoneRoutes, ZoneRules, ZoneDomains, ZoneProxies

THEOREM TypeCorrect == Spec => []TypeOK
  BY InitType, NextType, PTL DEF Spec
-----------------------------------------------------------------------------
\* Lemmas about the building blocks of the actions.  Reading puts the current
\* version of the objects read beside what is known already; a write of any
\* client leaves every snapshot current or visibly stale.
LEMMA ReadVersions ==
  ASSUME TypeOK, Versions, NEW S \in SUBSET live, Remember(S),
         UNCHANGED <<store, deepDeleted>>,
         plan' \union pmods' \subseteq plan \union pmods \union S
  PROVE  Versions'
  <1>1. TypeOK /\ S \subseteq Key
    BY DEF TypeOK, StoreTypeOK
  <1>2. ASSUME NEW k \in plan' \union pmods'
        PROVE  /\ snapSum'[k] > 0 /\ snapSum'[k] <= sum[k]
               /\ snapSum'[k] = sum[k] => refs[k] = snapRefs'[k]
    <2>1. CASE k \in plan \union pmods
      BY <2>1 DEF Remember, Versions, TypeOK
    <2>2. CASE k \in S \ (plan \union pmods)
      BY <2>2, <1>1 DEF Remember, Versions, TypeOK, StoreTypeOK
    <2> QED BY <2>1, <2>2
  <1> QED BY <1>2 DEF Versions, store

LEMMA SameSnapVersions ==
  ASSUME TypeOK, Versions,
         UNCHANGED <<plan, pmods, snapRefs, snapSum>> \/ End,
         UNCHANGED deepDeleted,
         \/ UNCHANGED store
         \/ \E k \in Key : Delete(k)
         \/ \E k \in Key, rs \in SUBSET Key :
               Create(k, rs) \/ (k \in live /\ Modify(k, rs))
  PROVE  Versions'
  <1> USE DEF TypeOK, StoreTypeOK
  <1>1. /\ \A k \in Key : \/ sum'[k] = sum[k] /\ refs'[k] = refs[k]
                          \/ sum'[k] = sum[k] + 1
        /\ \A k \in live' : sum'[k] > 0
        /\ \A k \in live' \ live : sum[k] = 0
    <2>1. ASSUME NEW k \in Key, NEW rs \in SUBSET Key, Create(k, rs)
          PROVE <1>1!:
      BY <2>1 DEF Create, Versions
    <2>2. ASSUME NEW k \in live, NEW rs \in SUBSET Key, Modify(k, rs)
          PROVE <1>1!:
      BY <2>2 DEF Modify, Versions
    <2>3. ASSUME NEW k \in Key, Delete(k) PROVE <1>1!:
      BY <2>3 DEF Delete, Versions
    <2>4. ASSUME UNCHANGED store PROVE <1>1!:
      BY <2>4 DEF store, Versions
    <2> QED BY <2>1, <2>2, <2>3, <2>4
  <1>2. plan' \union pmods' \subseteq plan \union pmods
        /\ \A k \in plan' \union pmods' :
              snapSum'[k] = snapSum[k] /\ snapRefs'[k] = snapRefs[k]
    BY DEF End
  <1>3. ASSUME NEW k \in live' \union deepDeleted' PROVE sum'[k] > 0
    BY <1>1, <1>3 DEF Versions
  <1>4. live' \intersect deepDeleted' = {}
    BY <1>1 DEF Versions
  <1>5. ASSUME NEW k \in plan' \union pmods'
        PROVE  /\ snapSum'[k] > 0 /\ snapSum'[k] <= sum'[k]
               /\ snapSum'[k] = sum'[k] => refs'[k] = snapRefs'[k]
    BY <1>1, <1>2, <1>5 DEF Versions
  <1> QED BY <1>3, <1>4, <1>5 DEF Versions
LEMMA NextVersions == TypeOK /\ Versions /\ [Next]_vars => Versions'
<1> SUFFICES ASSUME TypeOK, Versions, [Next]_vars PROVE Versions'
  OBVIOUS
<1>r. \A kind, k : Referring(kind, k) \subseteq live /\ InZone(kind, k) \subseteq live
  BY DEF Referring, InZone
<1>1. ASSUME NEW t \in Targets, Start(t) PROVE Versions'
  BY <1>1, SameSnapVersions DEF Start, store
<1>2. ASSUME GetTarget PROVE Versions'
  <2>1. CASE UNCHANGED <<plan, snapRefs, snapSum>>
    BY <1>2, <2>1, SameSnapVersions DEF GetTarget, store
  <2>2. CASE Collect({target})
    BY <1>2, <2>2, ReadVersions DEF GetTarget, Collect
  <2> QED BY <1>2, <2>1, <2>2 DEF GetTarget
<1>3. ASSUME CollectTarget PROVE Versions'
  BY <1>3, ReadVersions DEF CollectTarget, Collect
<1>4. ASSUME NEW here, NEW S \in SUBSET live, NEW next, Scan(here, S, next)
      PROVE  Versions'
  BY <1>4, ReadVersions DEF Scan, Collect
<1>5. ASSUME DomainProxies PROVE Versions'
  BY <1>5, <1>r, ReadVersions DEF DomainProxies
<1>6. ASSUME NEW s \in Key, OrphanGet(s) PROVE Versions'
  BY <1>6, ReadVersions DEF OrphanGet, Collect
<1>7. ASSUME OrphanRoutes PROVE Versions'
  BY <1>7, <1>r, ReadVersions DEF OrphanRoutes, Collect
<1>8. ASSUME \/ OrphanIndex \/ OrphansDone \/ OrphanError \/ Confirm
             \/ Succeed \/ Fail \/ \E s \in Key : OrphanKnown(s)
      PROVE  Versions'
  BY <1>8, SameSnapVersions
  DEF OrphanIndex, OrphansDone, OrphanError, Confirm, Succeed, Fail, OrphanKnown
<1>9. ASSUME PlainDelete PROVE Versions'
  BY <1>9, SameSnapVersions DEF PlainDelete, TypeOK
<1>10. ASSUME NEW k \in Key, ExecDelete(k) PROVE Versions'
  <2>1. k \in live /\ live' = live \ {k} /\ UNCHANGED <<refs, sum>>
        /\ deepDeleted' = deepDeleted \union {k}
    BY <1>10 DEF ExecDelete, Current, Delete
  <2>2. \/ UNCHANGED <<plan, pmods, snapRefs, snapSum>>
        \/ plan' = {} /\ pmods' = {}
    BY <1>10 DEF ExecDelete, Handled, End
  <2> QED BY <2>1, <2>2 DEF Versions
<1>11. ASSUME NEW k \in Key, ExecModify(k) PROVE Versions'
  <2>1. snapRefs[k] \ {target} \in SUBSET Key
    BY DEF TypeOK
  <2> QED BY <1>11, <2>1, SameSnapVersions DEF ExecModify, Handled, Current
<1>12. ASSUME NEW k \in Key, OtherCreate(k) \/ OtherModify(k) \/ OtherDelete(k)
       PROVE  Versions'
  <2>1. Contents(k) \subseteq SUBSET Key
    BY DEF Contents, TypeOK, StoreTypeOK
  <2> QED BY <1>12, <2>1, SameSnapVersions
          DEF OtherCreate, OtherModify, OtherDelete, Edited, deleter
<1>13. ASSUME UNCHANGED vars PROVE Versions'
  BY <1>13, SameSnapVersions DEF vars, store, deleter
<1> QED
  BY <1>1, <1>2, <1>3, <1>4, <1>5, <1>6, <1>7, <1>8, <1>9, <1>10, <1>11,
     <1>12, <1>13, <1>r
  DEF Next, Gather, Execute, Other, DomainRoutes, RulesRoutes, ZoneClusters,
      ZoneRoutes, ZoneRules, ZoneDomains, ZoneProxies

\* Which steps write to the store, and how much of it.
LEMMA StoreStep ==
  ASSUME TypeOK, Versions, [Next]_vars
  PROVE  \/ UNCHANGED <<store, foreign>>
         \/ \E k \in Key : Delete(k) /\ UNCHANGED foreign
         \/ \E k \in Key : /\ Modify(k, refs[k] \ {target})
                           /\ snapRefs[k] = refs[k]
                           /\ UNCHANGED foreign
         \/ \E k \in Key : /\ \E rs \in Contents(k) : Create(k, rs) \/ Modify(k, rs)
                           /\ foreign' = foreign \union {k}
                           /\ edits' = edits + 1
         \/ \E k \in Key : Delete(k) /\ foreign' = foreign \union {k}
<1>1. ASSUME NEW k \in Key, ExecModify(k)
      PROVE  Modify(k, refs[k] \ {target}) /\ snapRefs[k] = refs[k]
  <2>1. sum[k] = snapSum[k] /\ k \in pmods
    BY <1>1 DEF ExecModify, Current
  <2>2. refs[k] = snapRefs[k]
    BY <2>1 DEF Versions
  <2> QED BY <1>1, <2>2 DEF ExecModify
<1>2. ASSUME NEW k \in Key, OtherCreate(k) \/ OtherModify(k) \/ OtherDelete(k)
      PROVE  /\ \/ \E rs \in Contents(k) : Create(k, rs) \/ Modify(k, rs)
                \/ Delete(k)
             /\ foreign' = foreign \union {k} /\ edits' = edits + 1
  BY <1>2 DEF OtherCreate, OtherModify, OtherDelete, Edited
<1>3. ASSUME PlainDelete PROVE Delete(target) /\ UNCHANGED foreign /\ target \in Key
  BY <1>3 DEF PlainDelete, others, TypeOK
<1>4. ASSUME NEW k \in Key, ExecDelete(k) PROVE Delete(k) /\ UNCHANGED foreign
  BY <1>4 DEF ExecDelete, others
<1>5. ASSUME NEW k \in Key, ExecModify(k) PROVE UNCHANGED foreign
  BY <1>5 DEF ExecModify, others
<1>6. ASSUME \/ \E t \in Targets : Start(t)
             \/ Gather \/ Confirm \/ Succeed \/ Fail \/ UNCHANGED vars
      PROVE  UNCHANGED <<store, foreign>>
  BY <1>6 DEF Start, Gather, GetTarget, CollectTarget, Scan, DomainRoutes,
      RulesRoutes, ZoneClusters, ZoneRoutes, ZoneRules, ZoneDomains,
      ZoneProxies, DomainProxies, OrphanIndex, OrphanKnown, OrphanGet,
      OrphanRoutes, OrphansDone, OrphanError, Confirm, Succeed, Fail,
      vars, others
<1> QED BY <1>1, <1>2, <1>3, <1>4, <1>5, <1>6 DEF Next, Execute, Other
\* An object only tbnctl handles never gains a reference.
LEMMA OursShrinks ==
  ASSUME TypeOK, Versions, [Next]_vars
  PROVE  Ours' \subseteq Ours /\ \A o \in Ours' : refs'[o] \subseteq refs[o]
<1> USE DEF Ours, TypeOK, StoreTypeOK
<1>1. ASSUME UNCHANGED <<store, foreign>>
      PROVE  Ours' \subseteq Ours /\ \A o \in Ours' : refs'[o] \subseteq refs[o]
  BY <1>1 DEF store
<1>2. ASSUME NEW k \in Key, Delete(k), foreign \subseteq foreign'
      PROVE  Ours' \subseteq Ours /\ \A o \in Ours' : refs'[o] \subseteq refs[o]
  BY <1>2 DEF Delete
<1>3. ASSUME NEW k \in Key, Modify(k, refs[k] \ {target}), UNCHANGED foreign
      PROVE  Ours' \subseteq Ours /\ \A o \in Ours' : refs'[o] \subseteq refs[o]
  BY <1>3 DEF Modify
<1>4. ASSUME NEW k \in Key, NEW rs, Create(k, rs) \/ Modify(k, rs),
             foreign' = foreign \union {k}
      PROVE  Ours' \subseteq Ours /\ \A o \in Ours' : refs'[o] \subseteq refs[o]
  BY <1>4 DEF Create, Modify
<1> QED BY <1>1, <1>2, <1>3, <1>4, StoreStep

\* Snapshots are of what the store holds, or are thrown away.
LEMMA SnapStep ==
  ASSUME TypeOK, [Next]_vars, NEW k \in Key
  PROVE  snapRefs'[k] \in {snapRefs[k], refs[k], {}}
<1>1. ASSUME NEW S, Remember(S)
      PROVE  snapRefs'[k] \in {snapRefs[k], refs[k], {}}
  BY <1>1 DEF Remember
<1>2. ASSUME End PROVE snapRefs'[k] \in {snapRefs[k], refs[k], {}}
  BY <1>2 DEF End, NoRefs
<1>3. ASSUME UNCHANGED snapRefs
      PROVE  snapRefs'[k] \in {snapRefs[k], refs[k], {}}
  BY <1>3
<1>4. Gather => UNCHANGED snapRefs \/ \E S : Remember(S)
  BY DEF Gather, GetTarget, CollectTarget, Scan, Collect, DomainRoutes,
      RulesRoutes, ZoneClusters, ZoneRoutes, ZoneRules, ZoneDomains,
      ZoneProxies, DomainProxies, OrphanIndex, OrphanKnown, OrphanGet,
      OrphanRoutes, OrphansDone, OrphanError
<1>5. Execute => UNCHANGED snapRefs \/ End
  BY DEF Execute, PlainDelete, Confirm, Succeed, Fail, ExecDelete, ExecModify,
      Handled
<1>6. Other \/ UNCHANGED vars \/ (\E t \in Targets : Start(t)) => UNCHANGED snapRefs
  BY DEF Other, OtherCreate, OtherModify, OtherDelete, Edited, vars, deleter,
      Start
<1> QED BY <1>1, <1>2, <1>3, <1>4, <1>5, <1>6 DEF Next

LEMMA NextSchema == TypeOK /\ Versions /\ Schema /\ [Next]_vars => Schema'
<1> SUFFICES ASSUME TypeOK, Versions, Schema, [Next]_vars, NEW k \in Key
             PROVE  WellFormed(k, refs'[k]) /\ WellFormed(k, snapRefs'[k])
  BY DEF Schema, WellFormed
<1> USE DEF WellFormed
<1>1. WellFormed(k, refs[k]) /\ WellFormed(k, snapRefs[k])
  BY DEF Schema
<1>2. WellFormed(k, snapRefs'[k])
  BY <1>1, SnapStep
<1>3. ASSUME NEW j \in Key, NEW rs, Create(j, rs) \/ Modify(j, rs),
             rs \in Contents(j) \/ rs \subseteq refs[j]
      PROVE  WellFormed(k, refs'[k])
  <2>1. WellFormed(j, rs)
    BY <1>3 DEF Contents, Schema
  <2>2. refs' = [refs EXCEPT ![j] = rs]
    BY <1>3 DEF Create, Modify
  <2> QED BY <1>1, <2>1, <2>2 DEF TypeOK, StoreTypeOK
<1>4. ASSUME UNCHANGED refs PROVE WellFormed(k, refs'[k])
  BY <1>1, <1>4
<1> QED BY <1>2, <1>3, <1>4, StoreStep DEF store, Delete

\* Who can need an object of each type.
LEMMA Users ==
  ASSUME TypeOK, Schema, NEW o \in Key, NEW k \in refs[o]
  PROVE  /\ k \in Key /\ ZoneOf[k] = ZoneOf[o]
         /\ KindOf[k] \in {"shared_rules", "domain", "cluster"}
         /\ KindOf[o] # "zone"
         /\ KindOf[k] = "shared_rules" => KindOf[o] = "route"
         /\ KindOf[k] = "domain" => KindOf[o] \in {"route", "proxy"}
         /\ KindOf[k] = "cluster" => KindOf[o] \in {"route", "shared_rules"}
<1>1. k \in Key
  BY DEF TypeOK, StoreTypeOK
<1>2. KindOf[k] \in RefKinds[KindOf[o]] /\ ZoneOf[k] = ZoneOf[o]
  BY DEF Schema, WellFormed
<1>3. KindOf[o] \in Kinds
  BY KeyAssumption
<1> QED BY <1>1, <1>2, <1>3 DEF RefKinds, Kinds
-----------------------------------------------------------------------------
\* What the maps hold, phase by phase.
LEMMA NextShape == TypeOK /\ Schema /\ Shape /\ [Next]_vars => Shape'
<1> SUFFICES ASSUME TypeOK, Schema, Shape, [Next]_vars PROVE Shape'
  OBVIOUS
<1> USE DEF Shape, Fresh, DomainSteps, OrphanSteps, ZoneSteps, DeepKinds
<1>t. target \in Key /\ ZoneOf[target] \in Key
  BY KeyAssumption DEF TypeOK
<1>r. \A k : \A r \in Referring("route", k) : KindOf[r] = "route"
  BY DEF Referring
<1>z. \A kind : \A o \in InZone(kind, target) : ZoneOf[o] = target
  BY DEF InZone
<1>e. ASSUME End PROVE Shape'
  BY <1>e DEF End
<1>1. ASSUME NEW t \in Targets, Start(t) PROVE Shape'
  BY <1>1 DEF Start
<1>2. ASSUME GetTarget PROVE Shape'
  BY <1>2, <1>t, KeyAssumption DEF GetTarget, Collect
<1>3. ASSUME CollectTarget PROVE Shape'
  BY <1>3, <1>t, KeyAssumption DEF CollectTarget, Collect, FirstScan
<1>4. ASSUME DomainRoutes \/ RulesRoutes PROVE Shape'
  BY <1>4, <1>r DEF DomainRoutes, RulesRoutes, Scan, Collect
<1>5. ASSUME \/ ZoneClusters \/ ZoneRoutes \/ ZoneRules \/ ZoneDomains
             \/ ZoneProxies
      PROVE  Shape'
  BY <1>5, <1>z
  DEF ZoneClusters, ZoneRoutes, ZoneRules, ZoneDomains, ZoneProxies, Scan, Collect
<1>6. ASSUME DomainProxies PROVE Shape'
  BY <1>6 DEF DomainProxies, Referring
<1>7. ASSUME OrphanIndex PROVE Shape'
  BY <1>7 DEF OrphanIndex, Candidates, RefsOf
<1>8. ASSUME NEW s \in Key, OrphanKnown(s) \/ OrphanGet(s) PROVE Shape'
  BY <1>8 DEF OrphanKnown, OrphanGet, Collect
<1>9. ASSUME OrphanRoutes PROVE Shape'
  BY <1>9, <1>r DEF OrphanRoutes, Collect
<1>10. ASSUME OrphansDone \/ OrphanError PROVE Shape'
  BY <1>10 DEF OrphansDone, OrphanError
<1>11. ASSUME Confirm PROVE Shape'
  BY <1>11 DEF Confirm
<1>12. ASSUME NEW k \in Key, ExecDelete(k) \/ ExecModify(k) PROVE Shape'
  BY <1>12, <1>e DEF ExecDelete, ExecModify, Handled
<1>13. ASSUME PlainDelete \/ Succeed \/ Fail PROVE Shape'
  BY <1>13, <1>e DEF PlainDelete, Succeed, Fail
<1>14. ASSUME Other \/ UNCHANGED vars PROVE Shape'
  BY <1>14 DEF Other, OtherCreate, OtherModify, OtherDelete, Edited, vars, deleter
<1> QED
  BY <1>1, <1>2, <1>3, <1>4, <1>5, <1>6, <1>7, <1>8, <1>9, <1>10, <1>11,
     <1>12, <1>13, <1>14
  DEF Next, Gather, Execute

\* What the scans have found: an object of ours that is not in the maps after
\* a scan did not need the scanned object then, and never will.
LEMMA NextCoverage ==
  TypeOK /\ Versions /\ Schema /\ Shape /\ Coverage /\ [Next]_vars => Coverage'
<1> SUFFICES ASSUME TypeOK, Versions, Schema, Shape, Coverage, [Next]_vars
             PROVE  Coverage'
  OBVIOUS
<1> USE DEF Coverage, Pending, Fresh, DomainSteps, OrphanSteps, ZoneSteps,
            DeepKinds, Scanned
<1>o. Ours' \subseteq Ours /\ \A o \in Ours' : refs'[o] \subseteq refs[o]
  BY OursShrinks
<1>k. \A o \in Ours : o \in live /\ o \in Key /\ KindOf[o] \in Kinds
  BY KeyAssumption DEF Ours, TypeOK, StoreTypeOK
<1>s. ASSUME UNCHANGED store PROVE UNCHANGED refs /\ Ours' \subseteq Ours
  BY <1>s, <1>o DEF store
<1>e. ASSUME plan' = {}, cand' = {}, pc' \in Fresh PROVE Coverage'
  BY <1>e
<1>1. ASSUME NEW t \in Targets, Start(t) PROVE Coverage'
  BY <1>1, <1>e DEF Start, Shape
<1>2. ASSUME GetTarget PROVE Coverage'
  BY <1>2, <1>e DEF GetTarget, Shape
<1>3. ASSUME CollectTarget PROVE Coverage'
  <2>1. cand' = {} /\ plan' = {target} /\ UNCHANGED <<target, refs>>
    BY <1>3 DEF CollectTarget, Collect, Shape, store
  <2>2. /\ KindOf[target] = "domain" => pc' = "domainRoutes"
        /\ KindOf[target] = "shared_rules" => pc' = "rulesRoutes"
        /\ KindOf[target] = "route" => pc' = "orphans"
        /\ KindOf[target] = "zone" => pc' = "zoneClusters"
        /\ KindOf[target] \in DeepKinds
    BY <1>3 DEF CollectTarget, FirstScan
  <2>3. KindOf[target] = "route" => \A o \in Ours : target \notin refs[o]
    BY <1>k, Users
  <2> QED BY <2>1, <2>2, <2>3, <1>o
<1>4. ASSUME DomainRoutes \/ RulesRoutes PROVE Coverage'
  <2>1. /\ plan' = plan \union Referring("route", target)
        /\ UNCHANGED <<target, pmods, cand, refs>>
        /\ \/ pc = "domainRoutes" /\ pc' = "domainProxies"
           \/ pc = "rulesRoutes" /\ pc' = "orphans"
    BY <1>4 DEF DomainRoutes, RulesRoutes, Scan, Collect, store
  <2>2. \A o \in Ours : KindOf[o] = "route" /\ target \in refs[o] => o \in plan'
    BY <2>1, <1>k DEF Referring
  <2>3. \A k \in Referring("route", target) : \A o \in Ours : k \notin refs[o]
    BY <1>k, Users DEF Referring
  <2>4. pc = "rulesRoutes" => \A o \in Ours : target \in refs[o] => o \in plan'
    BY <2>2, <1>k, Users DEF Shape
  <2>5. KindOf[target] # "zone" /\ cand = {}
    BY <2>1 DEF Shape
  <2> QED BY <2>1, <2>2, <2>3, <2>4, <2>5, <1>o
<1>5. ASSUME \/ ZoneClusters \/ ZoneRoutes \/ ZoneRules \/ ZoneDomains
             \/ ZoneProxies
      PROVE  Coverage'
  <2>1. KindOf[target] = "zone" /\ UNCHANGED <<target, refs>>
    BY <1>5 DEF ZoneClusters, ZoneRoutes, ZoneRules, ZoneDomains, ZoneProxies,
                Scan, Shape, store
  <2>2. \E kind \in Kinds \ {"zone"} :
           /\ plan' = plan \union InZone(kind, target)
           /\ Scanned(pc') \subseteq Scanned(pc) \union {kind}
           /\ pc' # "domainProxies"
    BY <1>5 DEF ZoneClusters, ZoneRoutes, ZoneRules, ZoneDomains, ZoneProxies,
                Scan, Collect, Kinds
  <2> QED BY <2>1, <2>2, <1>o, <1>k DEF InZone
<1>6. ASSUME DomainProxies PROVE Coverage'
  <2>1. /\ pc = "domainProxies" /\ pc' = "orphans"
        /\ KindOf[target] = "domain" /\ pmods = {}
        /\ pmods' = Referring("proxy", target)
        /\ UNCHANGED <<target, plan, cand, refs>>
    BY <1>6 DEF DomainProxies, Shape, store
  <2>2. \A o \in Ours : target \in refs[o] => o \in plan \union pmods'
    BY <2>1, <1>k, Users DEF Referring
  <2> QED BY <2>1, <2>2, <1>o
<1>7. ASSUME OrphanIndex PROVE Coverage'
  <2>1. /\ pc = "orphans" /\ pc' = "orphanGet" /\ KindOf[target] # "zone"
        /\ UNCHANGED <<target, plan, pmods, refs>>
    BY <1>7 DEF OrphanIndex, Shape, store
  <2>2. ASSUME NEW s \in cand', NEW o \in Ours, s \in refs[o]
        PROVE  o \in plan
    <3>1. Referring("route", s) \subseteq plan /\ KindOf[s] = "shared_rules"
      BY <1>7, <2>2 DEF OrphanIndex, Candidates, RefsOf
    <3> QED BY <3>1, <2>2, <1>k, Users DEF Referring
  <2> QED BY <2>1, <2>2, <1>o
<1>8. ASSUME NEW s \in Key, OrphanKnown(s) \/ OrphanGet(s) PROVE Coverage'
  <2>1. /\ plan' \union cand' \subseteq plan \union cand /\ plan \subseteq plan'
        /\ pc = "orphanGet" /\ pc' \in OrphanSteps /\ KindOf[target] # "zone"
        /\ UNCHANGED <<target, pmods, refs>>
    BY <1>8 DEF OrphanKnown, OrphanGet, Collect, Shape, store
  <2> QED BY <2>1, <1>o
<1>9. ASSUME OrphanRoutes PROVE Coverage'
  <2>1. /\ plan' = plan \union Referring("route", cur) /\ cand' \subseteq cand
        /\ pc = "orphanRoutes" /\ pc' = "orphanGet" /\ KindOf[target] # "zone"
        /\ UNCHANGED <<target, pmods, refs>>
    BY <1>9 DEF OrphanRoutes, Collect, Shape, store
  <2>2. \A k \in Referring("route", cur) : \A o \in Ours : k \notin refs[o]
    BY <1>k, Users DEF Referring
  <2> QED BY <2>1, <2>2, <1>o
<1>10. ASSUME OrphansDone \/ OrphanError PROVE Coverage'
  <2>1. /\ cand' \subseteq cand
        /\ pc \in OrphanSteps /\ pc' = "ask" /\ KindOf[target] # "zone"
        /\ UNCHANGED <<target, plan, pmods, refs>>
    BY <1>10 DEF OrphansDone, OrphanError, Shape, store
  <2> QED BY <2>1, <1>o
<1>11. ASSUME Confirm PROVE Coverage'
  BY <1>11, <1>o DEF Confirm
<1>12. ASSUME NEW k \in Key, ExecDelete(k) \/ ExecModify(k) PROVE Coverage'
  <2>1. \/ End
        \/ pc = "exec" /\ UNCHANGED <<pc, target, plan, pmods, cand>>
    BY <1>12 DEF ExecDelete, ExecModify, Handled
  <2> QED BY <2>1, <1>e DEF End
<1>13. ASSUME PlainDelete \/ Succeed \/ Fail PROVE Coverage'
  BY <1>13, <1>e DEF PlainDelete, Succeed, Fail, End
<1>14. ASSUME Other \/ UNCHANGED vars PROVE Coverage'
  <2>1. UNCHANGED <<pc, target, plan, pmods, cand>>
    BY <1>14 DEF Other, OtherCreate, OtherModify, OtherDelete, Edited, vars, deleter
  <2> QED BY <2>1, <1>o
<1> QED
  BY <1>1, <1>2, <1>3, <1>4, <1>5, <1>6, <1>7, <1>8, <1>9, <1>10, <1>11,
     <1>12, <1>13, <1>14
  DEF Next, Gather, Execute
\* execute's order, as numbers.
LEMMA Ranks ==
  ASSUME NEW k \in Key
  PROVE  IF k \in pmods THEN Rank(k) = 4
         ELSE \/ KindOf[k] = "route" /\ Rank(k) = 1
              \/ KindOf[k] = "shared_rules" /\ Rank(k) = 2
              \/ KindOf[k] = "proxy" /\ Rank(k) = 3
              \/ KindOf[k] = "domain" /\ Rank(k) = 5
              \/ KindOf[k] = "cluster" /\ Rank(k) = 6
              \/ KindOf[k] = "zone" /\ Rank(k) = 7
<1>1. KindOf[k] \in Kinds
  BY KeyAssumption
<1> QED BY <1>1 DEF Rank, Order, Kinds

\* At Confirm the maps are complete; from then on execute keeps every object
\* that needs a planned one in front of it.
LEMMA NextOrdering ==
  TypeOK /\ Versions /\ Schema /\ Shape /\ Coverage /\ Ordering /\ [Next]_vars
    => Ordering'
<1> SUFFICES ASSUME TypeOK, Versions, Schema, Shape, Coverage, Ordering,
                    [Next]_vars
             PROVE  Ordering'
  OBVIOUS
<1>o. Ours' \subseteq Ours /\ \A o \in Ours' : refs'[o] \subseteq refs[o]
  BY OursShrinks
<1>k. \A o \in Ours : o \in live /\ o \in Key /\ KindOf[o] \in Kinds
  BY KeyAssumption DEF Ours, TypeOK, StoreTypeOK
<1>1. ASSUME Confirm PROVE Ordering'
  <2>1. /\ pc = "ask" /\ todo' = plan \union pmods
        /\ UNCHANGED <<pmods, refs, live, foreign>>
    BY <1>1 DEF Confirm, store, others
  <2> SUFFICES ASSUME NEW k \in plan \ pmods, NEW o \in Ours, k \in Uses(o)
               PROVE  o \in plan \union pmods /\ Rank(o) < Rank(k)
    BY <2>1 DEF Ordering, Ours, Uses, Rank
  <2>2. k \in Key /\ o \in Key /\ KindOf[o] \in Kinds /\ KindOf[k] \in Kinds
    BY <1>k, KeyAssumption DEF TypeOK
  <2>3. CASE KindOf[target] = "zone"
    <3>1. pmods = {} /\ ZoneOf[k] = target
      BY <2>3 DEF Shape
    <3>2. ZoneOf[o] = target /\ KindOf[o] # "zone"
      <4>1. CASE k \in refs[o]
        BY <2>2, <3>1, <4>1, Users
      <4>2. CASE k = ZoneOf[o] /\ k # o
        BY <2>2, <3>1, <4>2, KeyAssumption
      <4> QED BY <4>1, <4>2 DEF Uses
    <3>3. o \in plan
      BY <2>1, <2>2, <2>3, <3>2 DEF Coverage, Scanned
    <3>4. CASE KindOf[k] = "zone"
      BY <2>2, <3>1, <3>2, <3>3, <3>4, Ranks
    <3>5. CASE KindOf[k] # "zone"
      <4>1. k \in refs[o]
        BY <2>2, <3>5, KeyAssumption DEF Uses
      <4>2. \/ KindOf[k] = "shared_rules" /\ KindOf[o] = "route"
            \/ KindOf[k] = "domain" /\ KindOf[o] \in {"route", "proxy"}
            \/ KindOf[k] = "cluster" /\ KindOf[o] \in {"route", "shared_rules"}
        BY <2>2, <4>1, Users
      <4> QED BY <2>2, <3>1, <3>3, <4>2, Ranks
    <3> QED BY <3>3, <3>4, <3>5
  <2>4. CASE KindOf[target] # "zone"
    <3>1. KindOf[k] \in {"route", "shared_rules", "domain"}
      BY <2>1, <2>4 DEF Shape
    <3>2. k \in refs[o]
      BY <2>2, <3>1, KeyAssumption DEF Uses
    <3>3. o \in plan \union pmods
      BY <2>1, <2>4, <3>2 DEF Coverage, Pending, DomainSteps
    <3>4. pmods \subseteq Key /\ \A p \in pmods : KindOf[p] = "proxy"
      BY DEF Shape, TypeOK
    <3>5. KindOf[o] = "proxy" => o \in pmods
      BY <2>1, <2>4, <3>3 DEF Shape
    <3> QED BY <2>2, <3>1, <3>2, <3>3, <3>4, <3>5, Users, Ranks
  <2> QED BY <2>3, <2>4
<1>2. ASSUME NEW j \in Key, ExecDelete(j) \/ ExecModify(j) PROVE Ordering'
  <2>1. CASE End
    BY <2>1 DEF End, Ordering
  <2>2. CASE ~End
    <3>1. /\ pc = "exec" /\ todo' = todo \ {j} /\ UNCHANGED <<pmods, target, plan>>
      BY <1>2, <2>2 DEF ExecDelete, ExecModify, Handled
    <3> SUFFICES ASSUME NEW k \in todo \ pmods, k # j, NEW o \in Ours', k \in Uses(o)'
                 PROVE  o # j /\ o \in todo /\ Rank(o) < Rank(k)
      BY <3>1 DEF Ordering, Rank
    <3>2. o \in Ours /\ k \in Uses(o)
      BY <1>o DEF Uses
    <3>3. o \in todo /\ Rank(o) < Rank(k)
      BY <3>1, <3>2 DEF Ordering
    <3>4. ASSUME o = j PROVE FALSE
      <4>1. CASE ExecDelete(j)
        BY <3>4, <4>1 DEF ExecDelete, Delete, Ours
      <4>2. CASE ExecModify(j)
        <5>1. j \in pmods /\ sum[j] = snapSum[j] /\ Modify(j, snapRefs[j] \ {target})
          BY <4>2 DEF ExecModify, Current
        <5>2. refs'[j] = refs[j] \ {target} /\ KindOf[j] = "proxy"
          BY <5>1 DEF Versions, Modify, Shape, TypeOK, StoreTypeOK
        <5>3. k \in plan /\ KindOf[target] # "zone" /\ k \in Key
          BY <5>1 DEF Shape, TypeOK
        <5>4. KindOf[k] \in {"route", "shared_rules"} \/ k = target
          BY <3>1, <5>3 DEF Shape
        <5>5. k # ZoneOf[j]
          BY <5>3, <5>4, KeyAssumption
        <5>6. k \in refs[j] /\ k # target
          BY <3>4, <5>2, <5>5 DEF Uses
        <5> QED BY <5>2, <5>4, <5>6, Users
      <4> QED BY <1>2, <4>1, <4>2
    <3> QED BY <3>3, <3>4
  <2> QED BY <2>1, <2>2
<1>3. ASSUME PlainDelete \/ Succeed \/ Fail \/ Gather \/ \E t \in Targets : Start(t)
      PROVE  Ordering'
  <2>1. pc' # "exec"
    <3>1. ASSUME End PROVE pc' # "exec"
      BY <3>1 DEF End
    <3>2. ASSUME CollectTarget PROVE pc' # "exec"
      BY <3>2 DEF CollectTarget, FirstScan, DeepKinds
    <3> QED BY <1>3, <3>1, <3>2
      DEF PlainDelete, Succeed, Fail, Start, Gather, GetTarget, Scan,
          DomainRoutes, RulesRoutes, ZoneClusters, ZoneRoutes, ZoneRules,
          ZoneDomains, ZoneProxies, DomainProxies, OrphanIndex, OrphanKnown,
          OrphanGet, OrphanRoutes, OrphansDone, OrphanError
  <2> QED BY <2>1 DEF Ordering
<1>4. ASSUME Other \/ UNCHANGED vars PROVE Ordering'
  <2>1. UNCHANGED <<pc, todo, pmods>>
    BY <1>4 DEF Other, OtherCreate, OtherModify, OtherDelete, Edited, vars, deleter
  <2> QED BY <2>1, <1>o DEF Ordering, Uses, Rank
<1> QED BY <1>1, <1>2, <1>3, <1>4 DEF Next, Execute
\* The object deleted next is one that nothing of ours needs any more.
LEMMA NextNoDangling ==
  TypeOK /\ Versions /\ Shape /\ Ordering /\ NoDanglingUse /\ [Next]_vars
    => NoDanglingUse'
<1> SUFFICES ASSUME TypeOK, Versions, Shape, Ordering, NoDanglingUse,
                    [Next]_vars
             PROVE  NoDanglingUse'
  OBVIOUS
<1>o. Ours' \subseteq Ours /\ \A o \in Ours' : Uses(o)' \subseteq Uses(o)
  BY OursShrinks DEF Uses
<1>1. ASSUME UNCHANGED deepDeleted PROVE NoDanglingUse'
  BY <1>1, <1>o DEF NoDanglingUse, Ours
<1>2. ASSUME NEW k \in Key, ExecDelete(k) PROVE NoDanglingUse'
  <2>1. /\ pc = "exec" /\ k \in todo \ pmods
        /\ \A j \in todo : Rank(k) <= Rank(j)
        /\ deepDeleted' = deepDeleted \union {k}
    BY <1>2 DEF ExecDelete, IsNext
  <2>2. ASSUME NEW o \in Ours, k \in Uses(o) PROVE FALSE
    <3>1. o \in todo /\ Rank(o) < Rank(k) /\ Rank(k) <= Rank(o)
      BY <2>1, <2>2 DEF Ordering
    <3>2. Rank(o) \in Nat /\ Rank(k) \in Nat
      <4>1. o \in Key
        BY DEF Ours, TypeOK, StoreTypeOK
      <4> QED BY <4>1, Ranks
    <3> QED BY <3>1, <3>2
  <2> QED BY <2>1, <2>2, <1>o DEF NoDanglingUse, Ours
<1>3. ASSUME NEW k \in Key, ExecModify(k) PROVE UNCHANGED deepDeleted
  BY <1>3 DEF ExecModify
<1>4. PlainDelete \/ Confirm \/ Succeed \/ Fail => UNCHANGED deepDeleted
  BY DEF PlainDelete, Confirm, Succeed, Fail
<1>5. Gather => UNCHANGED deepDeleted
  BY DEF Gather, GetTarget, CollectTarget, Scan, DomainRoutes, RulesRoutes,
      ZoneClusters, ZoneRoutes, ZoneRules, ZoneDomains, ZoneProxies,
      DomainProxies, OrphanIndex, OrphanKnown, OrphanGet, OrphanRoutes,
      OrphansDone, OrphanError
<1>6. Other \/ UNCHANGED vars \/ (\E t \in Targets : Start(t))
        => UNCHANGED deepDeleted
  BY DEF Other, OtherCreate, OtherModify, OtherDelete, Edited, vars, Start
<1> QED BY <1>1, <1>2, <1>3, <1>4, <1>5, <1>6 DEF Next, Execute

-----------------------------------------------------------------------------
LEMMA InitInv == Init => IInv
<1> SUFFICES ASSUME Init PROVE IInv
  OBVIOUS
<1>1. TypeOK
  BY InitType
<1>2. Versions
  <2>1. plan \union pmods = {} /\ deepDeleted = {}
    BY DEF Init
  <2>2. \A k \in live : sum[k] = 1
    <3>1. live \subseteq Key
      BY <1>1 DEF TypeOK, StoreTypeOK
    <3>2. sum = [k \in Key |-> IF k \in live THEN 1 ELSE 0]
      BY DEF Init, StoreInit
    <3> QED BY <3>1, <3>2
  <2>3. 1 > 0
    OBVIOUS
  <2> QED BY <2>1, <2>2, <2>3 DEF Versions
<1>3. Shape /\ Ordering /\ NoDanglingUse
  BY DEF Init, Shape, Fresh, DomainSteps, OrphanSteps, ZoneSteps, Ordering,
      NoDanglingUse
<1>4. Coverage
  <2>1. Scanned("idle") = {}
    BY DEF Scanned
  <2>2. pc = "idle" /\ plan = {} /\ cand = {}
    BY DEF Init
  <2> QED BY <2>1, <2>2 DEF Coverage
<1>5. Schema
  <2>1. PICK g \in Graphs : refs = g.refs
    BY DEF Init, StoreInit
  <2>2. \A k \in Key : WellFormed(k, refs[k])
    BY <2>1, GraphAssumption DEF IsGraph
  <2>3. \A k \in Key : WellFormed(k, snapRefs[k])
    BY DEF Init, NoRefs, WellFormed
  <2> QED BY <2>2, <2>3 DEF Schema
<1> QED BY <1>1, <1>2, <1>3, <1>4, <1>5 DEF IInv

LEMMA Invariance == Spec => []IInv
<1>1. IInv /\ [Next]_vars => IInv'
  BY NextType, NextVersions, NextSchema, NextShape, NextCoverage, NextOrdering,
     NextNoDangling DEF IInv
<1> QED BY <1>1, InitInv, PTL DEF Spec

\* A deep delete never takes away an object that another one still needs.
THEOREM NeverDangles == Spec => []NoDanglingUse
<1>1. IInv => NoDanglingUse
  BY DEF IInv
<1> QED BY <1>1, Invariance, PTL

\* The Modify of a proxy never overwrites a change it did not read.
THEOREM NeverLosesUpdate == Spec => NoLostUpdate
<1>1. ASSUME IInv, [Next]_vars, edits' = edits,
             NEW k \in Key, refs'[k] # refs[k]
      PROVE  refs'[k] = refs[k] \ {target}
  <2> USE DEF IInv, TypeOK, StoreTypeOK
  <2>1. edits' # edits + 1
    BY <1>1
  <2>2. UNCHANGED refs \/ \E j \in Key : Modify(j, refs[j] \ {target})
    BY <1>1, <2>1, StoreStep DEF store, Delete
  <2> QED BY <1>1, <2>2 DEF Modify
<1>2. IInv /\ [Next]_vars =>
        [edits' = edits =>
           \A k \in Key : refs'[k] # refs[k] => refs'[k] = refs[k] \ {target}]_vars
  BY <1>1
<1> QED BY <1>2, Invariance, PTL DEF Spec, NoLostUpdate

\* What is deleted is in the confirmed report, and as it was read.
LEMMA DeletesPlanned ==
  ASSUME IInv, [Next]_vars, NEW k \in deepDeleted' \ deepDeleted
  PROVE  pc = "exec" /\ k \in plan /\ refs[k] = snapRefs[k]
<1>1. \E j \in Key : ExecDelete(j) /\ k = j
  <2>1. \E j \in Key : ExecDelete(j)
    BY DEF Next, Execute, Other, OtherCreate, OtherModify, OtherDelete,
        Edited, vars, Start, PlainDelete, Confirm, Succeed, Fail, ExecModify,
        Gather, GetTarget, CollectTarget, Scan, DomainRoutes, RulesRoutes,
        ZoneClusters, ZoneRoutes, ZoneRules, ZoneDomains, ZoneProxies,
        DomainProxies, OrphanIndex, OrphanKnown, OrphanGet, OrphanRoutes,
        OrphansDone, OrphanError
  <2> QED BY <2>1 DEF ExecDelete
<1>2. pc = "exec" /\ k \in todo \ pmods /\ sum[k] = snapSum[k]
  BY <1>1 DEF ExecDelete, IsNext, Current
<1> QED BY <1>2 DEF IInv, Shape, Versions

\* A deep delete deletes what it has shown, as it was when it was read.
THEOREM DeletesOnlyWhatWasShown == Spec => DeletesWhatWasShown
<1>1. IInv /\ [Next]_vars =>
        [\A k \in deepDeleted' \ deepDeleted :
           pc = "exec" /\ k \in plan /\ refs[k] = snapRefs[k]]_vars
  BY DeletesPlanned
<1> QED BY <1>1, Invariance, PTL DEF Spec, DeletesWhatWasShown

-----------------------------------------------------------------------------
\* The planned routes that no other client wrote are those below the object.
\* Looking up a candidate's routes again adds none, by Coverage: those that were
\* there before are planned, and any other was written since.
Narrow ==
    /\ pc = "orphanRoutes" => cur \in plan
    /\ KindOf[target] # "zone" =>
          \A r \in plan \ foreign :
             KindOf[r] = "route" => r = target \/ target \in snapRefs[r]

LEMMA NextNarrow == IInv /\ Narrow /\ [Next]_vars => Narrow'
<1> SUFFICES ASSUME IInv, Narrow, [Next]_vars PROVE Narrow'
  OBVIOUS
<1> USE DEF IInv, TypeOK, StoreTypeOK, Narrow
<1>1. ASSUME End PROVE Narrow'
  BY <1>1 DEF End
<1>2. ASSUME NEW t \in Targets, Start(t) PROVE Narrow'
  BY <1>2 DEF Start, Shape, Fresh
\* A Collect, of routes that refer to the target or are planned already.
<1>3. ASSUME NEW S \in SUBSET live, Collect(S), UNCHANGED <<target, foreign>>,
             pc' = "orphanRoutes" => cur' \in S,
             KindOf[target] # "zone" =>
                \A r \in S : KindOf[r] = "route" =>
                   \/ r = target \/ target \in refs[r]
                   \/ r \in plan \union pmods \union foreign
      PROVE  Narrow'
  <2>1. ASSUME KindOf[target] # "zone", NEW r \in plan' \ foreign', KindOf[r] = "route"
        PROVE  r = target \/ target \in snapRefs'[r]
    <3>1. r \in Key /\ r \notin foreign /\ r \notin pmods
      BY <1>3, <2>1 DEF Shape, Collect
    <3>2. CASE r \in plan
      BY <1>3, <2>1, <3>1, <3>2 DEF Collect, Remember
    <3>3. CASE r \in S \ plan
      BY <1>3, <2>1, <3>1, <3>3 DEF Collect, Remember
    <3> QED BY <1>3, <2>1, <3>2, <3>3 DEF Collect
  <2> QED BY <1>3, <2>1 DEF Collect
<1>4. ASSUME GetTarget PROVE Narrow'
  <2>1. CASE Collect({target}) /\ pc' = "shallow"
    BY <1>4, <2>1, <1>3 DEF GetTarget, others
  <2>2. CASE pc' = "collect" /\ UNCHANGED <<plan, snapRefs, snapSum>>
    BY <1>4, <2>2 DEF GetTarget, others
  <2> QED BY <1>4, <2>1, <2>2 DEF GetTarget
<1>5. ASSUME CollectTarget PROVE Narrow'
  <2>1. pc' # "orphanRoutes"
    BY <1>5 DEF CollectTarget, FirstScan, DeepKinds
  <2> QED BY <1>5, <2>1, <1>3 DEF CollectTarget, others
<1>6. ASSUME DomainRoutes \/ RulesRoutes \/ ZoneClusters \/ ZoneRoutes
             \/ ZoneRules \/ ZoneDomains \/ ZoneProxies
      PROVE  Narrow'
  <2>1. \A kind, k : Referring(kind, k) \subseteq live /\ InZone(kind, k) \subseteq live
    BY DEF Referring, InZone
  <2>2. CASE DomainRoutes \/ RulesRoutes
    BY <2>2, <2>1, <1>3 DEF DomainRoutes, RulesRoutes, Scan, Referring, others
  <2>3. CASE ~(DomainRoutes \/ RulesRoutes)
    <3>1. KindOf[target] = "zone"
      BY <1>6, <2>3 DEF ZoneClusters, ZoneRoutes, ZoneRules, ZoneDomains, ZoneProxies,
                        Scan, Shape, ZoneSteps
    <3> QED BY <1>6, <2>3, <2>1, <3>1, <1>3 DEF ZoneClusters, ZoneRoutes, ZoneRules,
                        ZoneDomains, ZoneProxies, Scan, others
  <2> QED BY <2>2, <2>3
<1>7. ASSUME NEW s \in Key, OrphanGet(s) PROVE Narrow'
  BY <1>7, <1>3 DEF OrphanGet, Shape, others
<1>8. ASSUME OrphanRoutes PROVE Narrow'
  <2>1. /\ pc = "orphanRoutes" /\ pc' # "orphanRoutes"
        /\ Collect(Referring("route", cur)) /\ UNCHANGED <<target, foreign>>
    BY <1>8 DEF OrphanRoutes, others
  <2>2. ASSUME NEW r \in Referring("route", cur), KindOf[target] # "zone"
        PROVE  r \in plan \union pmods \union foreign
    BY <2>1, <2>2 DEF Coverage, Pending, DomainSteps, Ours, Referring
  <2>3. Referring("route", cur) \subseteq live
    BY DEF Referring
  <2> QED BY <2>1, <2>2, <2>3, <1>3
<1>9. ASSUME DomainProxies PROVE Narrow'
  BY <1>9 DEF DomainProxies, Remember, others
<1>10. ASSUME UNCHANGED <<target, plan, snapRefs>>, foreign \subseteq foreign',
              pc' = "orphanRoutes" => UNCHANGED <<pc, cur>>
       PROVE  Narrow'
  BY <1>10
<1>11. CASE Execute
  BY <1>11, <1>1, <1>10 DEF Execute, PlainDelete, Confirm, Succeed, Fail, ExecDelete,
                            ExecModify, Handled, others
<1>12. CASE Gather
  BY <1>12, <1>4, <1>5, <1>6, <1>7, <1>8, <1>9, <1>10 DEF Gather, OrphanIndex,
                            OrphansDone, OrphanError, OrphanKnown, others
<1>13. CASE Other \/ UNCHANGED vars
  BY <1>13, <1>10 DEF Other, OtherCreate, OtherModify, OtherDelete, Edited, vars, deleter,
                      others
<1> HIDE DEF Narrow
<1> QED BY <1>2, <1>11, <1>12, <1>13 DEF Next

\* However the scan is disturbed, no route goes that is not below the object,
\* but one that another client wrote.
THEOREM NeverWidens == Spec => OnlyRoutesBelow
<1>1. Init => Narrow
  BY DEF Init, Narrow
<1>2. IInv /\ [Next]_vars =>
        [\A k \in deepDeleted' \ deepDeleted : k \in plan]_vars
  BY DeletesPlanned
<1>3. ASSUME Narrow, \A k \in deepDeleted' \ deepDeleted : k \in plan,
             NEW r \in deepDeleted' \ deepDeleted,
             KindOf[r] = "route", KindOf[target] # "zone", r \notin foreign
      PROVE  r = target \/ target \in snapRefs[r]
  BY <1>3 DEF Narrow
<1>4. IInv /\ Narrow /\ [Next]_vars =>
        [\A r \in deepDeleted' \ deepDeleted :
           KindOf[r] = "route" /\ KindOf[target] # "zone" /\ r \notin foreign =>
               r = target \/ target \in snapRefs[r]]_vars
  BY <1>2, <1>3
<1> QED BY <1>1, <1>4, NextNarrow, Invariance, PTL DEF Spec, OnlyRoutesBelow

-----------------------------------------------------------------------------
\* The detailed command implements ConfirmedRemoval.  Past its first scan a
\* deep delete has its target in the plan, and the proxies to modify are ones
\* that were read as referring to it.
Loosening ==
    /\ pc \notin Fresh => target \in plan
    /\ \A k \in pmods : target \in snapRefs[k]

LEMMA NextLoosening == IInv /\ Loosening /\ [Next]_vars => Loosening'
<1> SUFFICES ASSUME IInv, Loosening, [Next]_vars PROVE Loosening'
  OBVIOUS
<1> USE DEF IInv, TypeOK, StoreTypeOK, Loosening, Fresh
<1>1. ASSUME End PROVE Loosening'
  BY <1>1 DEF End
<1>2. ASSUME NEW t \in Targets, Start(t) PROVE Loosening'
  BY <1>2 DEF Start, Shape
<1>3. ASSUME NEW S \in SUBSET live, Collect(S), UNCHANGED <<target, pmods>>,
             pc \in Fresh => target \in S
      PROVE  Loosening'
  BY <1>3 DEF Collect, Remember
<1>4. ASSUME GetTarget PROVE Loosening'
  BY <1>4, <1>3 DEF GetTarget, Shape
<1>5. ASSUME CollectTarget PROVE Loosening'
  BY <1>5, <1>3 DEF CollectTarget
<1>6. ASSUME DomainRoutes \/ RulesRoutes \/ ZoneClusters \/ ZoneRoutes
             \/ ZoneRules \/ ZoneDomains \/ ZoneProxies \/ OrphanRoutes
      PROVE  Loosening'
  <2>1. \A kind, k : Referring(kind, k) \subseteq live /\ InZone(kind, k) \subseteq live
    BY DEF Referring, InZone
  <2> QED BY <1>6, <1>3, <2>1 DEF DomainRoutes, RulesRoutes, ZoneClusters, ZoneRoutes,
              ZoneRules, ZoneDomains, ZoneProxies, OrphanRoutes, Scan
<1>7. ASSUME NEW s \in Key, OrphanGet(s) PROVE Loosening'
  BY <1>7, <1>3 DEF OrphanGet
<1>8. ASSUME DomainProxies PROVE Loosening'
  <2>1. ASSUME NEW k \in Referring("proxy", target) PROVE target \in snapRefs'[k]
    <3>1. k \in Key /\ KindOf[k] = "proxy" /\ target \in refs[k]
      BY DEF Referring
    <3>2. k \notin plan \union pmods
      BY <1>8, <3>1 DEF DomainProxies, Shape, DomainSteps
    <3> QED BY <1>8, <3>1, <3>2, <2>1 DEF DomainProxies, Remember
  <2> QED BY <1>8, <2>1 DEF DomainProxies
<1>9. ASSUME UNCHANGED <<target, plan, pmods, snapRefs>>, pc \notin Fresh \/ UNCHANGED pc
      PROVE  Loosening'
  BY <1>9
<1>10. CASE Execute
  BY <1>10, <1>1, <1>9 DEF Execute, PlainDelete, Confirm, Succeed, Fail, ExecDelete,
                           ExecModify, Handled
<1>11. CASE Gather
  BY <1>11, <1>4, <1>5, <1>6, <1>7, <1>8, <1>9 DEF Gather, OrphanIndex, OrphansDone,
                           OrphanError, OrphanKnown
<1>12. CASE Other \/ UNCHANGED vars
  BY <1>12, <1>9 DEF Other, OtherCreate, OtherModify, OtherDelete, Edited, vars, deleter
<1> HIDE DEF Loosening
<1> QED BY <1>2, <1>10, <1>11, <1>12 DEF Next

LEMMA InitPromise == Init => Promise!Init
  BY DEF Init, Promise!Init, Agreed

\* Each step is one of ConfirmedRemoval's, or a stutter.
LEMMA NextPromise ==
  IInv /\ Loosening /\ [Next]_vars => [Promise!Next]_(Promise!vars)
<1> SUFFICES ASSUME IInv, Loosening, [Next]_vars
             PROVE  Promise!Next \/ UNCHANGED Promise!vars
  OBVIOUS
<1> USE DEF IInv, TypeOK, StoreTypeOK
<1>e. ASSUME End PROVE Agreed' = {}
  BY <1>e DEF End, Agreed
<1>h. ASSUME NEW k \in Key, Handled(k) PROVE Agreed' \in {Agreed, {}}
  BY <1>h, <1>e DEF Handled, Agreed
<1>1. ASSUME NEW k \in Key, ExecDelete(k) PROVE Promise!Remove(k)
  <2>1. /\ pc = "exec" /\ IsNext(k) /\ k \in todo \ pmods
        /\ k \in live /\ sum[k] = snapSum[k]
        /\ live' = live \ {k} /\ deepDeleted' = deepDeleted \union {k}
        /\ UNCHANGED <<refs, foreign>> /\ Handled(k)
    BY <1>1 DEF ExecDelete, IsNext, Current, Delete, others
  <2>2. k \in plan /\ refs[k] = snapRefs[k]
    BY <2>1 DEF Shape, Versions
  <2>3. [key |-> k, refs |-> refs[k], how |-> "remove"] \in Agreed
    BY <2>1, <2>2 DEF Agreed
  <2>4. \A o \in live \ (foreign \union {k}) : k \notin Uses(o)
    <3>1. SUFFICES ASSUME NEW o \in Ours, k \in Uses(o) PROVE FALSE
      BY DEF Ours
    <3>2. o \in todo /\ Rank(o) < Rank(k)
      BY <3>1, <2>1 DEF Ordering
    <3>3. Rank(k) <= Rank(o)
      BY <3>2, <2>1 DEF IsNext
    <3>4. o \in Key
      BY <3>1 DEF Ours
    <3>5. Rank(k) \in Nat /\ Rank(o) \in Nat
      BY <3>4, Ranks
    <3> QED BY <3>2, <3>3, <3>5
  <2>5. Promise!AsShown(k, "remove")
    BY <2>3 DEF Promise!AsShown
  <2>6. \A o \in live \ (foreign \union {k}) : k \notin Promise!Needs(o)
    BY <2>4 DEF Promise!Needs, Uses
  <2>7. Promise!Stands
    BY <2>1, <1>h DEF Promise!Stands
  <2> QED BY <2>1, <2>5, <2>6, <2>7 DEF Promise!Remove
<1>2. ASSUME NEW k \in Key, ExecModify(k) PROVE Promise!Loosen(k)
  <2>1. /\ pc = "exec" /\ k \in pmods /\ k \in live /\ sum[k] = snapSum[k]
        /\ refs' = [refs EXCEPT ![k] = snapRefs[k] \ {target}]
        /\ UNCHANGED <<live, deepDeleted, foreign>> /\ Handled(k)
    BY <1>2 DEF ExecModify, IsNext, Current, Modify, others
  <2>2. refs[k] = snapRefs[k] /\ target \in refs[k] /\ target \in plan
    BY <2>1 DEF Versions, Loosening, Fresh
  <2>3. /\ [key |-> k, refs |-> refs[k], how |-> "loosen"] \in Agreed
        /\ [key |-> target, refs |-> snapRefs[target], how |-> "remove"] \in Agreed
    BY <2>1, <2>2 DEF Agreed
  <2>4. Promise!AsShown(k, "loosen")
    BY <2>3 DEF Promise!AsShown
  <2>5. \E a \in Agreed : a.key = target /\ a.how = "remove"
    BY <2>3
  <2>6. refs' = [refs EXCEPT ![k] = @ \ {target}]
    BY <2>1, <2>2
  <2>7. Promise!Stands
    BY <2>1, <1>h DEF Promise!Stands
  <2> QED BY <2>1, <2>2, <2>4, <2>5, <2>6, <2>7 DEF Promise!Loosen
<1>3. ASSUME PlainDelete PROVE Promise!Single(target)
  <2>1. Agreed = {} /\ Agreed' = {}
    BY <1>3, <1>e DEF PlainDelete, Agreed
  <2> QED BY <1>3, <2>1 DEF PlainDelete, Current, Delete, Promise!Single, others
<1>4. ASSUME Confirm PROVE Promise!Agree
  BY <1>4 DEF Confirm, Promise!Agree, Agreed, store, others
<1>5. ASSUME Succeed \/ Fail PROVE Promise!Forget
  BY <1>5, <1>e DEF Succeed, Fail, Promise!Forget, store, others
<1>6. ASSUME NEW k \in Key, OtherCreate(k) \/ OtherModify(k) \/ OtherDelete(k)
      PROVE  Promise!Others(k)
  <2>1. /\ \A j \in Key \ {k} : refs'[j] = refs[j] /\ (j \in live' <=> j \in live)
        /\ foreign' = foreign \union {k} /\ UNCHANGED <<deleter, deepDeleted>>
    BY <1>6 DEF OtherCreate, OtherModify, OtherDelete, Create, Modify, Delete, Edited
  <2>2. Agreed' = Agreed
    BY <2>1 DEF deleter, Agreed
  <2> QED BY <2>1, <2>2 DEF Promise!Others
<1>7. ASSUME UNCHANGED <<store, deepDeleted, foreign>>, pc # "exec", pc' # "exec"
      PROVE  UNCHANGED Promise!vars
  BY <1>7 DEF Promise!vars, store, Agreed
<1>8. ASSUME NEW t \in Targets, Start(t) PROVE UNCHANGED Promise!vars
  BY <1>8, <1>7 DEF Start
<1>9. CASE Gather
  <2>1. ASSUME CollectTarget PROVE UNCHANGED Promise!vars
    <3>1. FirstScan[KindOf[target]] # "exec"
      BY <2>1 DEF CollectTarget, DeepKinds, FirstScan
    <3> QED BY <2>1, <3>1, <1>7 DEF CollectTarget, others
  <2>2. ASSUME NEW S, Scan("domainRoutes", S, "domainProxies")
               \/ Scan("rulesRoutes", S, "orphans") \/ Scan("zoneClusters", S, "zoneRoutes")
               \/ Scan("zoneRoutes", S, "zoneRules") \/ Scan("zoneRules", S, "zoneDomains")
               \/ Scan("zoneDomains", S, "zoneProxies") \/ Scan("zoneProxies", S, "ask")
        PROVE  UNCHANGED Promise!vars
    BY <2>2, <1>7 DEF Scan, others
  <2>3. ASSUME GetTarget \/ DomainProxies \/ OrphanIndex \/ OrphanRoutes \/ OrphansDone
               \/ OrphanError
        PROVE  UNCHANGED Promise!vars
    BY <2>3, <1>7 DEF GetTarget, DomainProxies, OrphanIndex, OrphanRoutes, OrphansDone,
                      OrphanError, others
  <2>4. ASSUME NEW s \in Key, OrphanKnown(s) \/ OrphanGet(s) PROVE UNCHANGED Promise!vars
    BY <2>4, <1>7 DEF OrphanKnown, OrphanGet, others
  <2> QED BY <1>9, <2>1, <2>2, <2>3, <2>4 DEF Gather, DomainRoutes, RulesRoutes,
          ZoneClusters, ZoneRoutes, ZoneRules, ZoneDomains, ZoneProxies
<1>10. CASE UNCHANGED vars
  BY <1>10 DEF vars, deleter, store, others, Promise!vars, Agreed
<1>11. target \in Key
  OBVIOUS
<1> QED BY <1>1, <1>2, <1>3, <1>4, <1>5, <1>6, <1>8, <1>9, <1>10, <1>11
        DEF Next, Execute, Other, Promise!Next

\* Whatever other clients do and wherever it fails, a deep delete does only
\* what ConfirmedRemoval allows.
THEOREM Implements == Spec => ImplementsPromise
<1>1. Init => Loosening
  BY DEF Init, Loosening, Fresh
<1>2. Spec => [](IInv /\ Loosening)
  BY <1>1, NextLoosening, Invariance, PTL DEF Spec
<1> QED BY <1>2, InitPromise, NextPromise, PTL DEF Spec, ImplementsPromise, Promise!Spec

-----------------------------------------------------------------------------
\* What an undisturbed scan has found, call by call.  Nothing is written while
\* it reads, so each Index answers from one and the same graph.
Routes(t)  == {r \in live : KindOf[r] = "route" /\ (r = t \/ t \in refs[r])}
Orphans(t) == {s \in Key : /\ KindOf[s] = "shared_rules"
                           /\ \E r \in Routes(t) : s \in refs[r]
                           /\ Referring("route", s) \subseteq Routes(t)}

Seen == /\ plan \subseteq live /\ pmods \subseteq live
        /\ \A k \in plan \union pmods : snapRefs[k] = refs[k]

ZoneSeen == {o \in live : o = target \/ (ZoneOf[o] = target /\ KindOf[o] \in Scanned(pc))}

Scanning ==
    pc \in Collecting \union {"ask"} /\ ~disturbed /\ ~swallowed =>
        /\ Seen /\ KindOf[target] \in DeepKinds
        /\ pc # "collect" => target \in live
        /\ pc \in ZoneSteps \union {"ask"} /\ KindOf[target] = "zone" => plan = ZoneSeen
        /\ pc \in {"domainRoutes", "rulesRoutes"} => plan = {target}
        /\ pc \in {"domainProxies", "orphans"} => plan = {target} \union Routes(target)
        /\ pc \in {"orphanGet", "orphanRoutes", "ask"} /\ KindOf[target] # "zone" =>
              plan \union cand = {target} \union Routes(target) \union Orphans(target)
        /\ pc = "orphanRoutes" => cur \in plan \intersect cand
        /\ pc \in OrphanSteps \union {"ask"} =>
              pmods = IF KindOf[target] = "domain" THEN Referring("proxy", target) ELSE {}
        /\ pc \in {"rulesRoutes"} \union ZoneSteps => pmods = {}

LEMMA SeenMore ==
    ASSUME TypeOK, Seen, NEW S \in SUBSET live, Remember(S), UNCHANGED <<live, refs>>,
           plan' \subseteq plan \union S, pmods' \subseteq pmods \union S
    PROVE  Seen'
<1>1. ASSUME NEW k \in plan \union pmods \union S PROVE snapRefs'[k] = refs[k]
  BY DEF Remember, Seen, TypeOK, StoreTypeOK
<1> QED BY <1>1 DEF Seen

LEMMA NextScanning == TypeOK /\ Schema /\ Shape /\ Scanning /\ [Next]_vars => Scanning'
<1> SUFFICES ASSUME TypeOK, Schema, Shape, Scanning, [Next]_vars,
                    pc' \in Collecting \union {"ask"}, ~disturbed', ~swallowed'
             PROVE  Scanning'
  BY DEF Scanning
<1> DEFINE Stage == /\ KindOf[target] \in DeepKinds /\ Seen
                    /\ pc # "collect" => target \in live
<1>r. \A kind, k : Referring(kind, k) \subseteq live /\ InZone(kind, k) \subseteq live
  BY DEF Referring, InZone
<1>k. /\ target \in Key /\ live \subseteq Key /\ \A k \in Key : KindOf[k] \in Kinds
  BY KeyAssumption DEF TypeOK, StoreTypeOK
<1>t. KindOf[target] # "route" => Routes(target) = Referring("route", target)
  BY DEF Routes, Referring
<1>1. ASSUME GetTarget PROVE Scanning'
  <2>1. pc' = "collect" /\ KindOf[target] \in DeepKinds
    BY <1>1 DEF GetTarget, Collecting
  <2>2. plan' = {} /\ pmods' = {}
    BY <1>1, <2>1 DEF GetTarget, Shape, Fresh
  <2> QED BY <1>1, <2>1, <2>2 DEF GetTarget, Scanning, Seen, OrphanSteps, ZoneSteps
<1>2. ASSUME CollectTarget PROVE Scanning'
  <2>1. /\ pc = "collect" /\ plan = {} /\ pmods = {} /\ target \in live
        /\ KindOf[target] \in DeepKinds /\ pc' = FirstScan[KindOf[target]]
        /\ plan' = {target} /\ pmods' = {} /\ Remember({target})
        /\ UNCHANGED <<live, refs, target, cand, cur>>
    BY <1>2 DEF CollectTarget, Collect, Shape, Fresh, store
  <2>2. Seen'
    BY <2>1, SeenMore DEF Seen
  <2>3. CASE KindOf[target] = "zone"
    <3>1. pc' = "zoneClusters" /\ Scanned("zoneClusters") = {}
      BY <2>1, <2>3 DEF FirstScan, Scanned
    <3>2. ZoneSeen' = {target}
      BY <2>1, <3>1 DEF ZoneSeen
    <3> QED BY <2>1, <2>2, <2>3, <3>1, <3>2 DEF Scanning, OrphanSteps
  <2>4. CASE KindOf[target] = "route"
    <3>1. pc' = "orphans"
      BY <2>1, <2>4 DEF FirstScan
    <3>2. Routes(target)' = {target}
      <4>1. ASSUME NEW r \in live, target \in refs[r] PROVE FALSE
        BY <1>k, <2>4, <4>1, Users
      <4> QED BY <2>1, <2>4, <4>1 DEF Routes
    <3> QED BY <2>1, <2>2, <2>4, <3>1, <3>2 DEF Scanning, ZoneSteps, OrphanSteps
  <2>5. CASE KindOf[target] \in {"domain", "shared_rules"}
    <3>1. pc' \in {"domainRoutes", "rulesRoutes"}
      BY <2>1, <2>5 DEF FirstScan
    <3> QED BY <2>1, <2>2, <2>5, <3>1 DEF Scanning, ZoneSteps, OrphanSteps
  <2> QED BY <2>1, <2>3, <2>4, <2>5 DEF DeepKinds
\* From here on the scan goes on where it was.
<1>s. ASSUME pc \in Collecting \union {"ask"}, ~disturbed, ~swallowed
      PROVE  Seen /\ KindOf[target] \in DeepKinds /\ (pc # "collect" => target \in live)
  BY <1>s DEF Scanning
<1>3. ASSUME NEW here \in ZoneSteps, NEW kind \in Kinds \ {"zone"}, NEW next,
             Scan(here, InZone(kind, target), next),
             Scanned(next) = Scanned(here) \union {kind}, next \in ZoneSteps \union {"ask"}
      PROVE  Scanning'
  <2>1. /\ pc = here /\ pc' = next /\ plan' = plan \union InZone(kind, target)
        /\ Remember(InZone(kind, target))
        /\ UNCHANGED <<live, refs, target, pmods, cand, cur, disturbed, swallowed>>
    BY <1>3 DEF Scan, Collect, store, others
  <2>2. KindOf[target] = "zone" /\ pc \in Collecting /\ pc # "collect"
    BY <2>1 DEF Shape, ZoneSteps, Collecting
  <2>3. plan = ZoneSeen /\ pmods = {} /\ Seen /\ target \in live
    BY <2>1, <2>2 DEF Scanning
  <2>4. plan' = ZoneSeen'
    BY <1>3, <2>1, <2>3 DEF ZoneSeen, InZone
  <2>5. Seen'
    BY <1>r, <2>1, <2>3, SeenMore
  <2> QED BY <1>3, <2>1, <2>2, <2>3, <2>4, <2>5 DEF Scanning, ZoneSteps, OrphanSteps, DeepKinds
<1>4. CASE ZoneClusters \/ ZoneRoutes \/ ZoneRules \/ ZoneDomains \/ ZoneProxies
  <2>1. /\ Scanned("zoneRoutes") = Scanned("zoneClusters") \union {"cluster"}
        /\ Scanned("zoneRules") = Scanned("zoneRoutes") \union {"route"}
        /\ Scanned("zoneDomains") = Scanned("zoneRules") \union {"shared_rules"}
        /\ Scanned("zoneProxies") = Scanned("zoneDomains") \union {"domain"}
        /\ Scanned("ask") = Scanned("zoneProxies") \union {"proxy"}
    BY DEF Scanned, Kinds
  <2> QED BY <1>3, <1>4, <2>1 DEF ZoneClusters, ZoneRoutes, ZoneRules, ZoneDomains, ZoneProxies,
             Kinds, ZoneSteps
<1>5. ASSUME DomainRoutes \/ RulesRoutes PROVE Scanning'
  <2>1. /\ pc \in {"domainRoutes", "rulesRoutes"} /\ pc' \in {"domainProxies", "orphans"}
        /\ pc = "domainRoutes" <=> pc' = "domainProxies"
        /\ plan' = plan \union Referring("route", target)
        /\ Remember(Referring("route", target))
        /\ UNCHANGED <<live, refs, target, pmods, cand, cur, disturbed, swallowed>>
    BY <1>5 DEF DomainRoutes, RulesRoutes, Scan, Collect, store, others
  <2>2. KindOf[target] \in {"domain", "shared_rules"}
        /\ (pc = "domainRoutes" <=> KindOf[target] = "domain") /\ pmods = {}
    BY <2>1 DEF Shape, DomainSteps, Scanning, Collecting
  <2>3. Seen /\ plan = {target} /\ target \in live
    BY <2>1 DEF Scanning, Collecting
  <2>4. Seen'
    BY <1>r, <2>1, <2>3, SeenMore
  <2>5. plan' = {target} \union Routes(target)'
    BY <1>t, <2>1, <2>2, <2>3 DEF Routes
  <2> QED BY <2>1, <2>2, <2>3, <2>4, <2>5 DEF Scanning, ZoneSteps, OrphanSteps, DeepKinds
<1>6. ASSUME DomainProxies PROVE Scanning'
  <2>1. /\ pc = "domainProxies" /\ pc' = "orphans" /\ pmods' = Referring("proxy", target)
        /\ Remember(Referring("proxy", target))
        /\ UNCHANGED <<live, refs, target, plan, cand, cur, disturbed, swallowed>>
    BY <1>6 DEF DomainProxies, store, others
  <2>2. KindOf[target] = "domain"
    BY <2>1 DEF Shape, DomainSteps
  <2>3. Seen /\ plan = {target} \union Routes(target) /\ target \in live
    BY <2>1 DEF Scanning, Collecting
  <2>4. Seen'
    BY <1>r, <2>1, <2>3, SeenMore
  <2> QED BY <2>1, <2>2, <2>3, <2>4 DEF Scanning, ZoneSteps, OrphanSteps, DeepKinds, Routes, Referring
<1>7. ASSUME OrphanIndex PROVE Scanning'
  <2>1. /\ pc = "orphans" /\ pc' = "orphanGet"
        /\ cand' = {s \in Candidates : Referring("route", s) \subseteq plan}
        /\ UNCHANGED <<live, refs, target, plan, pmods, cur, snapRefs, disturbed, swallowed>>
    BY <1>7 DEF OrphanIndex, store, others
  <2>2. KindOf[target] # "zone"
    BY <2>1 DEF Shape, OrphanSteps
  <2>3. Seen /\ plan = {target} \union Routes(target) /\ target \in live
        /\ KindOf[target] \in DeepKinds
        /\ pmods = IF KindOf[target] = "domain" THEN Referring("proxy", target) ELSE {}
    BY <2>1 DEF Scanning, Collecting, OrphanSteps
  <2>4. RefsOf(plan, "route") = Routes(target)
    BY <2>3 DEF RefsOf, Routes
  <2>5. \A s : Referring("route", s) \subseteq plan <=> Referring("route", s) \subseteq Routes(target)
    BY <2>3 DEF Referring, Routes
  <2>6. \A r \in Routes(target) : snapRefs[r] = refs[r] /\ refs[r] \subseteq Key
    BY <2>3 DEF Seen, Routes, TypeOK, StoreTypeOK
  <2>7. cand' = Orphans(target)
    BY <2>1, <2>4, <2>5, <2>6 DEF Candidates, RefsOf, Orphans
  <2>8. Orphans(target)' = Orphans(target) /\ Routes(target)' = Routes(target)
    BY <2>1 DEF Orphans, Routes, Referring
  <2> QED BY <2>1, <2>2, <2>3, <2>7, <2>8 DEF Scanning, ZoneSteps, OrphanSteps, Seen, Referring
\* The loop over the candidates only moves them into the plan.
<1>8. ASSUME pc \in {"orphanGet", "orphanRoutes"},
             pc' \in {"orphanGet", "orphanRoutes", "ask"},
             UNCHANGED <<live, refs, target, pmods, disturbed, swallowed>>,
             plan' \union cand' = plan \union cand, Seen',
             pc' = "orphanRoutes" => cur' \in plan' \intersect cand'
      PROVE  Scanning'
  <2>1. KindOf[target] # "zone"
    BY <1>8 DEF Shape, OrphanSteps
  <2>2. /\ plan \union cand = {target} \union Routes(target) \union Orphans(target)
        /\ target \in live /\ KindOf[target] \in DeepKinds
        /\ pmods = IF KindOf[target] = "domain" THEN Referring("proxy", target) ELSE {}
    BY <1>8, <2>1 DEF Scanning, Collecting, OrphanSteps
  <2>3. Orphans(target)' = Orphans(target) /\ Routes(target)' = Routes(target)
    BY <1>8 DEF Orphans, Routes, Referring
  <2> QED BY <1>8, <2>1, <2>2, <2>3 DEF Scanning, ZoneSteps, OrphanSteps, Referring
<1>9. ASSUME NEW s \in Key, OrphanKnown(s) PROVE Scanning'
  <2>1. Seen
    BY <1>9, <1>s DEF OrphanKnown, Collecting, others
  <2> QED BY <1>8, <1>9, <2>1 DEF OrphanKnown, Seen, store, others
<1>10. ASSUME NEW s \in Key, OrphanGet(s) PROVE Scanning'
  <2>1. Seen
    BY <1>10, <1>s DEF OrphanGet, Collecting, others
  <2>2. Remember({s}) /\ plan' = plan \union {s} /\ {s} \subseteq live
        /\ UNCHANGED <<live, refs, pmods>>
    BY <1>10 DEF OrphanGet, Collect, store
  <2>3. Seen'
    BY <2>1, <2>2, SeenMore
  <2> QED BY <1>8, <1>10, <2>2, <2>3 DEF OrphanGet, store, others
<1>11. ASSUME OrphanRoutes PROVE Scanning'
  <2>1. /\ pc = "orphanRoutes" /\ pc' = "orphanGet"
        /\ Remember(Referring("route", cur)) /\ plan' = plan \union Referring("route", cur)
        /\ cand' = cand \ {cur}
        /\ UNCHANGED <<live, refs, target, pmods, disturbed, swallowed>>
    BY <1>11 DEF OrphanRoutes, Collect, store, others
  <2>2. KindOf[target] # "zone"
    BY <2>1 DEF Shape, OrphanSteps
  <2>3. /\ Seen /\ cur \in plan \intersect cand
        /\ plan \union cand = {target} \union Routes(target) \union Orphans(target)
    BY <2>1, <2>2 DEF Scanning, Collecting
  <2>4. Referring("route", cur) \subseteq Routes(target)
    <3>1. KindOf[cur] = "shared_rules"
      BY <2>3 DEF Shape
    <3>2. CASE cur = target
      BY <3>1, <3>2, <1>t
    <3>3. CASE cur # target
      BY <2>3, <3>1, <3>3 DEF Routes, Orphans
    <3> QED BY <3>2, <3>3
  <2>5. plan' \union cand' = plan \union cand
    BY <2>1, <2>3, <2>4 DEF Shape
  <2>6. Seen'
    BY <1>r, <2>1, <2>3, SeenMore
  <2> QED BY <1>8, <2>1, <2>5, <2>6
<1>12. ASSUME OrphansDone PROVE Scanning'
  <2>1. Seen
    BY <1>12, <1>s DEF OrphansDone, Collecting, others
  <2> QED BY <1>8, <1>12, <2>1 DEF OrphansDone, Seen, store, others
<1>13. ASSUME \/ OrphanError \/ Execute \/ Other \/ \E t \in Targets : Start(t)
       PROVE  FALSE
  BY <1>13 DEF OrphanError, Execute, PlainDelete, Confirm, Succeed, Fail, ExecDelete, ExecModify,
     Handled, End, Collecting, Other, OtherCreate, OtherModify, OtherDelete, Edited, Start
<1>14. CASE UNCHANGED vars
  <2>1. UNCHANGED <<live, refs, pc, target, plan, pmods, cand, cur, snapRefs, disturbed, swallowed>>
    BY <1>14 DEF vars, store, deleter, others
  <2>2. /\ Seen' = Seen /\ ZoneSeen' = ZoneSeen /\ Routes(target)' = Routes(target)
        /\ Orphans(target)' = Orphans(target)
        /\ Referring("proxy", target)' = Referring("proxy", target)
    BY <2>1 DEF Seen, ZoneSeen, Routes, Orphans, Referring
  <2> QED BY <2>1, <2>2 DEF Scanning
<1> QED BY <1>1, <1>2, <1>4, <1>5, <1>6, <1>7, <1>9, <1>10, <1>11, <1>12, <1>13, <1>14
        DEF Next, Gather

\* What the user is asked to confirm is the graph below the object, for every
\* graph, if nobody disturbs the scan and no error of it is dropped.
THEOREM PlansTheGraph == Spec => []PlanIsGraphBelow
<1>1. Init => Scanning
  BY DEF Init, Scanning, Collecting
<1>2. IInv /\ Scanning => PlanIsGraphBelow
  <2> SUFFICES ASSUME IInv, Scanning, pc = "ask", ~disturbed, ~swallowed
               PROVE  /\ plan = Below(target)
                      /\ pmods = IF KindOf[target] = "domain"
                                   THEN Referring("proxy", target) ELSE {}
    BY DEF PlanIsGraphBelow
  <2> USE DEF IInv
  <2>1. pmods = IF KindOf[target] = "domain" THEN Referring("proxy", target) ELSE {}
    BY DEF Scanning
  <2>2. CASE KindOf[target] = "zone"
    <3>1. plan = ZoneSeen
      BY <2>2 DEF Scanning
    <3>2. ASSUME NEW o \in live PROVE ZoneOf[o] = target <=> o \in ZoneSeen
      <4>1. KindOf[o] \in Kinds /\ (KindOf[o] = "zone" => ZoneOf[o] = o)
        BY KeyAssumption DEF TypeOK, StoreTypeOK
      <4>2. ZoneOf[target] = target
        BY <2>2, KeyAssumption DEF TypeOK
      <4>3. Scanned(pc) = Kinds \ {"zone"}
        BY DEF Scanned
      <4> QED BY <4>1, <4>2, <4>3 DEF ZoneSeen
    <3> QED BY <2>1, <2>2, <3>1, <3>2 DEF Below, ZoneSeen
  <2>3. CASE KindOf[target] # "zone"
    <3>1. cand = {} /\ plan \subseteq live
      BY DEF Shape, OrphanSteps, Scanning, Seen
    <3>2. plan = {target} \union Routes(target) \union Orphans(target)
      BY <2>3, <3>1 DEF Scanning
    <3>3. Orphans(target) = {s \in live : /\ KindOf[s] = "shared_rules"
                                          /\ Referring("route", s) # {}
                                          /\ Referring("route", s) \subseteq Routes(target)}
      <4>1. \A s : (\E r \in Routes(target) : s \in refs[r]) => Referring("route", s) # {}
        BY DEF Routes, Referring
      <4>2. \A s : Referring("route", s) # {} /\ Referring("route", s) \subseteq Routes(target)
                     => \E r \in Routes(target) : s \in refs[r]
        BY DEF Referring
      <4>3. live \subseteq Key /\ Orphans(target) \subseteq live
        BY <3>1, <3>2 DEF TypeOK, StoreTypeOK
      <4> QED BY <4>1, <4>2, <4>3 DEF Orphans
    <3> QED BY <2>1, <2>3, <3>2, <3>3 DEF Below, Routes
  <2> QED BY <2>2, <2>3
<1> QED BY <1>1, <1>2, NextScanning, Invariance, PTL DEF Spec, IInv

=============================================================================
