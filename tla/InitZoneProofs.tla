--------------------------- MODULE InitZoneProofs ---------------------------
(***************************************************************************)
(* Theorems about init-zone, for every list of objects and zone, any       *)
(* number of commands at once, runs, faults and writes of other clients.   *)
(***************************************************************************)
EXTENDS InitZone, TLAPS

LEMMA WorkShape ==
    /\ Len(Work) \in Nat \ {0} /\ DOMAIN Work = 1..Len(Work)
    /\ \A i \in DOMAIN Work : Work[i].uses \subseteq
          {<<Work[j].kind, Work[j].name>> : j \in 1..(i - 1)}
    /\ \A i \in DOMAIN Work : Work[i].kind = "zone" <=> i = 1
    /\ \A it \in Items : /\ it.kind \in Kinds /\ it.listed \in BOOLEAN
                         /\ \A u \in it.uses : u[1] \in RefKinds[it.kind]
                         /\ it.kind = "route" => IsSingleton({u \in it.uses : u[1] = "domain"})
  BY WorkAssumption DEF IsWorkList, Items

\* The commands' variables always have their types.
LEMMA ItemTyped ==
    ASSUME TypeOK, NEW p \in Tools
    PROVE  /\ pos[p] \in DOMAIN Work /\ item(p) \in Items
           /\ Id(item(p)) \in Ids
  BY WorkShape DEF TypeOK, item, Items, Ids, Id

LEMMA InitType == Init => TypeOK
<1> SUFFICES ASSUME Init PROVE TypeOK
  OBVIOUS
<1>1. StoreTypeOK
  BY GraphAssumption DEF Init, StoreInit, StoreTypeOK, IsGraph
<1>2. NoObject \in Key
  BY NameAssumption DEF NoObject
<1>3. DOMAIN val = Key
  BY ValAssumption DEF Init
<1>4. \A p \in Tools : DOMAIN keyOf[p] = {}
  BY DEF Init, NoKeys
<1>5. 1 \in 1..Len(Work)
  BY WorkShape
<1> QED BY <1>1, <1>2, <1>3, <1>4, <1>5 DEF Init, TypeOK

\* What the end of a look-up, or of a write, does to a command's variables.
LEMMA ToolTyped ==
    ASSUME TypeOK, NEW p \in Tools, NEW k \in Key, Advance(p, k) \/ Stop(p)
    PROVE  /\ pc' \in [Tools -> {"idle", "look", "create", "modify", "done"}]
           /\ pos' \in [Tools -> 1..Len(Work)]
           /\ DOMAIN keyOf' = Tools
           /\ \A q \in Tools : /\ DOMAIN keyOf'[q] \subseteq Ids
                               /\ \A id \in DOMAIN keyOf'[q] : keyOf'[q][id] \in Key
           /\ settled' \in {"no", "kept", "replaced"}
<1>1. Id(item(p)) \in Ids
  BY ItemTyped
<1>2. CASE Stop(p)
  BY <1>2, WorkShape DEF Stop, TypeOK, NoKeys
<1>3. ASSUME Advance(p, k)
      PROVE  /\ DOMAIN keyOf' = Tools
             /\ \A q \in Tools : /\ DOMAIN keyOf'[q] \subseteq Ids
                                 /\ \A id \in DOMAIN keyOf'[q] : keyOf'[q][id] \in Key
  BY <1>1, <1>3 DEF Advance, Remember, TypeOK
<1>4. ASSUME Advance(p, k)
      PROVE  /\ pc' \in [Tools -> {"idle", "look", "create", "modify", "done"}]
             /\ pos' \in [Tools -> 1..Len(Work)]
             /\ settled' \in {"no", "kept", "replaced"}
  <2>1. Settled(p) \in {"no", "kept", "replaced"}
    BY DEF Settled, TypeOK
  <2>2. pos[p] # Len(Work) => pos[p] + 1 \in 1..Len(Work)
    BY WorkShape DEF TypeOK
  <2> QED BY <1>4, <2>1, <2>2 DEF Advance, TypeOK
<1> QED BY <1>2, <1>3, <1>4

LEMMA StoreTyped ==
    ASSUME StoreTypeOK, NEW k \in Key, NEW rs \in SUBSET Key,
           Create(k, rs) \/ Modify(k, rs) \/ Delete(k)
    PROVE  StoreTypeOK'
  BY DEF StoreTypeOK, Create, Modify, Delete

\* What a write of another client does, whichever it is.
OtherStep(k) == OtherCreate(k) \/ OtherModify(k) \/ OtherDelete(k)

LEMMA OtherFacts ==
    ASSUME TypeOK, NEW k \in Key, OtherStep(k)
    PROVE  /\ Edited(k) /\ DOMAIN val' = Key /\ foreign' \in SUBSET Key
           /\ live' \subseteq live \union {k}
           /\ \A j \in Key : j # k => refs'[j] = refs[j]
           /\ \A j \in live' \ foreign' : j \in live \ foreign /\ refs'[j] = refs[j]
           /\ \E rs \in SUBSET Key :
                 \/ Create(k, rs) /\ rs \in References(k)
                 \/ Modify(k, rs) /\ k \in live /\ rs \in References(k) \union {refs[k]}
                 \/ Delete(k)
<1>1. References(k) \subseteq SUBSET Key /\ refs[k] \in SUBSET Key
  BY DEF References, TypeOK, StoreTypeOK
<1>2. CASE OtherCreate(k)
  <2>1. PICK rs \in References(k) : Create(k, rs)
    BY <1>2 DEF OtherCreate
  <2> QED BY <1>1, <1>2, <2>1 DEF OtherCreate, Create, TypeOK, StoreTypeOK
<1>3. CASE OtherModify(k)
  <2>1. PICK rs \in References(k) \union {refs[k]} :
            /\ Modify(k, rs)
            /\ foreign' = IF rs = refs[k] THEN foreign ELSE foreign \union {k}
    BY <1>3 DEF OtherModify
  <2> QED BY <1>1, <1>3, <2>1 DEF OtherModify, Modify, TypeOK, StoreTypeOK
<1>4. CASE OtherDelete(k)
  BY <1>1, <1>4 DEF OtherDelete, Delete, TypeOK, StoreTypeOK
<1> QED BY <1>2, <1>3, <1>4 DEF OtherStep

LEMMA WriteTyped ==
    ASSUME TypeOK, NEW p \in Tools, NEW k \in Key, Written(p, k), StoreTypeOK'
    PROVE  TypeOK'
<1>1. Advance(p, k) \/ Stop(p)
  BY DEF Written, Answered
<1>2. NoObject \in Key
  BY NameAssumption DEF NoObject
<1>3. pos[p] \in DOMAIN Work
  BY ItemTyped
<1>4. DOMAIN val' = Key
  BY DEF Written, TypeOK
<1>5. /\ found' \in [Tools -> Key] /\ foundSum' \in [Tools -> Nat]
      /\ author' \in [Key -> {0} \union DOMAIN Work]
      /\ clean' \in [Tools -> BOOLEAN]
      /\ replace' \in [Tools -> BOOLEAN] /\ runs' \in Nat /\ edits' \in Nat
      /\ DOMAIN seen' = Tools /\ foreign' \in SUBSET Key
  BY <1>2, <1>3 DEF Written, Forget, Disturb, TypeOK
<1> QED BY <1>1, <1>4, <1>5, ToolTyped DEF TypeOK

\* That a command takes only keys from its maps that are there is part of why
\* the types hold: the maps have just the objects of the items it is past,
\* those apart whose type has no map.
Running(p) == pc[p] \in {"look", "create", "modify"}
Past(p)    == IF pc[p] = "done" THEN DOMAIN Work ELSE 1..(pos[p] - 1)
IdsOf(S)   == {Id(Work[i]) : i \in {j \in S : Work[j].kind \notin {"route", "proxy"}}}

Filled == \A p \in Tools : pc[p] # "idle" => DOMAIN keyOf[p] = IdsOf(Past(p))

LEMMA UsesKnown ==
    ASSUME TypeOK, Filled, NEW p \in Tools, Running(p)
    PROVE  /\ item(p).uses \subseteq DOMAIN keyOf[p]
           /\ KeysFor(p, item(p)) \in SUBSET Key
<1>1. pos[p] \in DOMAIN Work /\ item(p) \in Items
  BY ItemTyped
<1>2. ASSUME NEW u \in item(p).uses PROVE u \in DOMAIN keyOf[p]
  <2>1. PICK j \in 1..(pos[p] - 1) : u = <<Work[j].kind, Work[j].name>>
    BY <1>1, WorkShape DEF item
  <2>2. u[1] \in RefKinds[item(p).kind] /\ item(p).kind \in Kinds
    BY <1>1, WorkShape
  <2>3. u[1] \notin {"route", "proxy"}
    BY <2>2 DEF RefKinds, Kinds
  <2>4. DOMAIN keyOf[p] = IdsOf(1..(pos[p] - 1))
    BY DEF Filled, Past, Running
  <2> QED BY <2>1, <2>3, <2>4 DEF IdsOf, Id
<1> QED BY <1>2 DEF KeysFor, TypeOK

LEMMA Advanced ==
    ASSUME TypeOK, Filled, NEW p \in Tools, Running(p), NEW k \in Key,
           Advance(p, k) \/ Stop(p)
    PROVE  /\ Filled'
           /\ \A q \in Tools : q # p => Past(q)' = Past(q)
           /\ Advance(p, k) => Past(p)' = Past(p) \union {pos[p]}
<1>0. /\ pos[p] \in 1..Len(Work) /\ Len(Work) \in Nat /\ DOMAIN Work = 1..Len(Work)
      /\ pc[p] # "done" /\ pc[p] # "idle"
  BY WorkShape DEF TypeOK, Running
<1>1. ASSUME NEW q \in Tools, q # p PROVE pc'[q] = pc[q] /\ pos'[q] = pos[q] /\ keyOf'[q] = keyOf[q]
  BY <1>1 DEF Advance, Remember, Stop, TypeOK
<1>2. CASE Stop(p)
  <2>1. pc'[p] = "idle"
    BY <1>2 DEF Stop, TypeOK
  <2> QED BY <1>1, <1>2, <2>1 DEF Filled, Past, Advance, Stop, TypeOK
<1>3. CASE Advance(p, k)
  <2>1. Past(p)' = Past(p) \union {pos[p]}
    <3>1. CASE pos[p] = Len(Work)
      <4>1. pc'[p] = "done" /\ Past(p) = 1..(pos[p] - 1)
        BY <1>0, <1>3, <3>1 DEF Advance, TypeOK, Past
      <4>2. 1..Len(Work) = (1..(Len(Work) - 1)) \union {Len(Work)}
        BY <1>0
      <4> QED BY <1>0, <3>1, <4>1, <4>2 DEF Past
    <3>2. CASE pos[p] # Len(Work)
      <4>1. pc'[p] = "look" /\ pos'[p] = pos[p] + 1 /\ Past(p) = 1..(pos[p] - 1)
        BY <1>0, <1>3, <3>2 DEF Advance, TypeOK, Past
      <4>2. 1..((pos[p] + 1) - 1) = (1..(pos[p] - 1)) \union {pos[p]}
        BY <1>0
      <4> QED BY <4>1, <4>2 DEF Past
    <3> QED BY <3>1, <3>2
  <2>2. DOMAIN keyOf[p] = IdsOf(Past(p))
    BY <1>0 DEF Filled
  <2>3. CASE item(p).kind \in {"route", "proxy"}
    <3>1. IdsOf(Past(p) \union {pos[p]}) = IdsOf(Past(p))
      BY <2>3 DEF IdsOf, item
    <3>2. keyOf' = keyOf
      BY <1>3, <2>3 DEF Advance, Remember
    <3> QED BY <1>1, <2>1, <2>2, <3>1, <3>2 DEF Filled, Past
  <2>4. CASE item(p).kind \notin {"route", "proxy"}
    <3>1. IdsOf(Past(p) \union {pos[p]}) = IdsOf(Past(p)) \union {Id(item(p))}
      BY <2>4 DEF IdsOf, item
    <3>2. DOMAIN keyOf'[p] = DOMAIN keyOf[p] \union {Id(item(p))}
      BY <1>3, <2>4 DEF Advance, Remember, TypeOK
    <3> QED BY <1>1, <2>1, <2>2, <3>1, <3>2 DEF Filled, Past
  <2> QED BY <1>1, <2>1, <2>3, <2>4 DEF Past
<1> QED BY <1>2, <1>3

LEMMA InitFilled == Init => Filled
  BY DEF Init, Filled

LEMMA NextFilled == TypeOK /\ Filled /\ [Next]_vars => Filled'
<1> SUFFICES ASSUME TypeOK, Filled, [Next]_vars PROVE Filled'
  OBVIOUS
<1>m. \A p \in Tools : Matches(p, item(p)) \subseteq Key
  BY DEF Matches, TypeOK, StoreTypeOK
<1>1. ASSUME NEW p \in Tools, Keep(p) PROVE Filled'
  BY <1>1, <1>m, Advanced DEF Keep, Running
<1>2. ASSUME NEW p \in Tools, WillModify(p) \/ WillCreate(p) PROVE Filled'
  BY <1>2 DEF WillModify, WillCreate, Filled, Past, TypeOK
<1>4. ASSUME NEW p \in Tools, Fail(p) PROVE Filled'
  <2>1. NoObject \in Key
    BY NameAssumption DEF NoObject
  <2> QED BY <1>4, <2>1, Advanced DEF Fail, Running
<1>5. ASSUME NEW p \in Tools, NEW k \in Key, CreateObject(p, k) \/ ModifyObject(p, k)
      PROVE  Filled'
  BY <1>5, Advanced DEF CreateObject, ModifyObject, Written, Answered, Running
<1>6. ASSUME NEW p \in Tools, NEW flag \in Replaces, Start(p, flag) PROVE Filled'
  BY <1>6 DEF Start, Filled, Past, IdsOf, NoKeys, TypeOK
<1>7. ASSUME NEW k \in Key, OtherStep(k) PROVE Filled'
  BY <1>7, OtherFacts DEF Edited, tools, Filled, Past
<1>8. CASE UNCHANGED vars
  BY <1>8 DEF vars, tools, Filled, Past
<1> QED BY <1>1, <1>2, <1>4, <1>5, <1>6, <1>7, <1>8 DEF Next, Step, OtherStep

LEMMA NextType == TypeOK /\ Filled /\ [Next]_vars => TypeOK'
<1> SUFFICES ASSUME TypeOK, Filled, [Next]_vars PROVE TypeOK'
  OBVIOUS
<1>s. UNCHANGED objects => StoreTypeOK' /\ DOMAIN val' = Key
  BY DEF objects, StoreTypeOK, TypeOK
<1>m. \A p \in Tools : Matches(p, item(p)) \subseteq Key
  BY DEF Matches, TypeOK, StoreTypeOK
<1>n. NoObject \in Key
  BY NameAssumption DEF NoObject
<1>1. ASSUME NEW p \in Tools, Keep(p) PROVE TypeOK'
  <2>1. PICK k \in Key : Advance(p, k)
    BY <1>1, <1>m DEF Keep
  <2> QED BY <1>1, <2>1, <1>s, ToolTyped DEF Keep, TypeOK
<1>2. ASSUME NEW p \in Tools, WillModify(p) PROVE TypeOK'
  <2>1. PICK k \in Key : /\ found' = [found EXCEPT ![p] = k]
                         /\ foundSum' = [foundSum EXCEPT ![p] = sum[k]]
                         /\ seen' = [seen EXCEPT ![p] = Contents(k)]
    BY <1>2, <1>m DEF WillModify
  <2>2. sum[k] \in Nat
    BY DEF TypeOK, StoreTypeOK
  <2> QED BY <1>2, <2>1, <2>2, <1>s DEF WillModify, TypeOK
<1>3. ASSUME NEW p \in Tools, WillCreate(p) PROVE TypeOK'
  BY <1>3, <1>s DEF WillCreate, TypeOK, aux
<1>4. ASSUME NEW p \in Tools, Fail(p) PROVE TypeOK'
  BY <1>4, <1>s, <1>n, ToolTyped DEF Fail, Forget, TypeOK
<1>5. ASSUME NEW p \in Tools, NEW k \in Key, CreateObject(p, k) \/ ModifyObject(p, k)
      PROVE  TypeOK'
  <2>1. Written(p, k) /\ (Create(k, refs'[k]) \/ Modify(k, refs'[k])) /\ refs'[k] \in SUBSET Key
    <3>1. Written(p, k)
      BY <1>5 DEF CreateObject, ModifyObject
    <3>2. Create(k, KeysFor(p, item(p))) \/ Modify(k, KeysFor(p, item(p)))
      BY <1>5 DEF CreateObject, ModifyObject
    <3>3. refs'[k] = KeysFor(p, item(p))
      BY <3>2 DEF Create, Modify, TypeOK, StoreTypeOK
    <3>4. KeysFor(p, item(p)) \in SUBSET Key
      BY <1>5, UsesKnown DEF CreateObject, ModifyObject, Running
    <3> QED BY <3>1, <3>2, <3>3, <3>4
  <2> QED BY <2>1, StoreTyped, WriteTyped DEF TypeOK
<1>6. ASSUME NEW p \in Tools, NEW flag \in Replaces, Start(p, flag) PROVE TypeOK'
  <2>1. flag \in BOOLEAN /\ 1 \in 1..Len(Work)
    BY FlagAssumption, WorkShape
  <2> QED BY <1>6, <2>1, <1>s DEF Start, TypeOK, NoKeys
<1>7. ASSUME NEW k \in Key, OtherStep(k) PROVE TypeOK'
  <2>1. Edited(k) /\ StoreTypeOK' /\ DOMAIN val' = Key /\ foreign' \in SUBSET Key
    BY <1>7, OtherFacts, StoreTyped DEF TypeOK
  <2> QED BY <2>1 DEF Edited, TypeOK, tools
<1>8. CASE UNCHANGED vars
  BY <1>8, <1>s DEF vars, tools, aux, TypeOK
<1> QED BY <1>1, <1>2, <1>3, <1>4, <1>5, <1>6, <1>7, <1>8 DEF Next, Step, OtherStep

\* The variables of every command, and the objects, always have their types.
THEOREM TypeCorrect == Spec => []TypeOK
  BY InitType, NextType, InitFilled, NextFilled, PTL DEF Spec

-----------------------------------------------------------------------------
\* What a command knows: its maps have objects of the type and name they are
\* filed under, in its zone; the object it is to overwrite is the item's, and
\* it was told to.
OfItem(p, k) ==
    /\ KindOf[k] = item(p).kind /\ NameOf[k] = item(p).name
    /\ item(p).kind # "zone" => ZoneOf[k] = keyOf[p][Zone]

Named ==
    \A p \in Tools : \A id \in DOMAIN keyOf[p] :
        /\ KindOf[keyOf[p][id]] = id[1] /\ NameOf[keyOf[p][id]] = id[2]
        /\ ZoneOf[keyOf[p][id]] = keyOf[p][Zone]

Found ==
    \A p \in Tools : pc[p] = "modify" =>
        OfItem(p, found[p]) /\ replace[p] /\ item(p).listed

\* An object that exists has a checksum; a create never meets one that does.
Used == \A k \in live : sum[k] > 0

IInv == TypeOK /\ Filled /\ Named /\ Found /\ Used /\ RefersToTheNamed

LEMMA ZoneFirst ==
    ASSUME TypeOK, NEW p \in Tools
    PROVE  /\ item(p).kind = "zone" <=> pos[p] = 1
           /\ pos[p] = 1 => Id(item(p)) = Zone
           /\ pos[p] # 1 => Id(item(p)) # Zone
<1>1. pos[p] \in DOMAIN Work
  BY ItemTyped
<1>2. \A i \in DOMAIN Work : Work[i].kind = "zone" <=> i = 1
  BY WorkShape
<1>3. 1 \in DOMAIN Work
  BY WorkShape
<1>4. pos[p] # 1 => Work[pos[p]].kind # Work[1].kind
  BY <1>1, <1>2, <1>3
<1>5. pos[p] # 1 => Id(item(p)) # Zone
  BY <1>4 DEF item, Id, Zone
<1> QED BY <1>1, <1>2, <1>5 DEF item, Id, Zone

LEMMA MatchesOfItem ==
    ASSUME NEW p, NEW k \in Matches(p, item(p))
    PROVE  k \in live /\ OfItem(p, k)
  BY DEF Matches, OfItem

\* Remembering the key of the item's object keeps the maps right.
LEMMA AdvanceNamed ==
    ASSUME IInv, NEW p \in Tools, Running(p), NEW k \in Key, OfItem(p, k),
           Advance(p, k) \/ Stop(p)
    PROVE  Named'
<1> USE DEF IInv
<1>1. ASSUME NEW q \in Tools, q # p PROVE keyOf'[q] = keyOf[q]
  BY <1>1 DEF Advance, Remember, Stop, TypeOK
<1>2. CASE Stop(p) \/ keyOf' = keyOf
  <2>1. keyOf'[p] = NoKeys \/ keyOf'[p] = keyOf[p]
    BY <1>2 DEF Stop, TypeOK
  <2> QED BY <1>1, <2>1 DEF Named, NoKeys
<1>3. CASE Advance(p, k) /\ item(p).kind \notin {"route", "proxy"}
  <2> DEFINE it == Id(item(p))
  <2>1. /\ DOMAIN keyOf'[p] = DOMAIN keyOf[p] \union {it}
        /\ keyOf'[p][it] = k
        /\ \A id \in DOMAIN keyOf[p] : id # it => keyOf'[p][id] = keyOf[p][id]
    BY <1>3 DEF Advance, Remember, TypeOK
  <2>2. KindOf[k] = it[1] /\ NameOf[k] = it[2]
    BY DEF OfItem, Id
  <2>3. CASE pos[p] = 1
    <3>1. DOMAIN keyOf[p] = {} /\ it = Zone /\ KindOf[k] = "zone"
      BY <2>3, ZoneFirst DEF Filled, Running, Past, IdsOf, OfItem
    <3>2. ZoneOf[k] = k
      BY <3>1, KeyAssumption
    <3> QED BY <1>1, <2>1, <2>2, <3>1, <3>2 DEF Named
  <2>4. CASE pos[p] # 1
    <3>1. it # Zone /\ item(p).kind # "zone"
      BY <2>4, ZoneFirst
    <3>2. Zone \in DOMAIN keyOf[p]
      <4>1. 1 \in 1..(pos[p] - 1)
        BY <2>4, WorkShape DEF TypeOK
      <4>2. Work[1].kind = "zone"
        BY WorkShape
      <4> QED BY <4>1, <4>2 DEF Filled, Running, Past, IdsOf, Zone
    <3>3. keyOf'[p][Zone] = keyOf[p][Zone] /\ ZoneOf[k] = keyOf[p][Zone]
      BY <2>1, <3>1, <3>2 DEF OfItem
    <3> QED BY <1>1, <2>1, <2>2, <3>3 DEF Named
  <2> QED BY <2>3, <2>4
<1> QED BY <1>2, <1>3 DEF Advance, Remember

\* The command that went on, or stopped, is not about to overwrite.
LEMMA AdvanceFound ==
    ASSUME IInv, NEW p \in Tools, NEW k \in Key, Advance(p, k) \/ Stop(p),
           UNCHANGED found \/ Forget(p), UNCHANGED replace
    PROVE  Found'
<1>1. pc'[p] # "modify"
  BY DEF Advance, Stop, IInv, TypeOK
<1>2. ASSUME NEW q \in Tools, q # p
      PROVE  /\ keyOf'[q] = keyOf[q] /\ pc'[q] = pc[q] /\ pos'[q] = pos[q]
             /\ found'[q] = found[q] /\ replace'[q] = replace[q]
  BY <1>2 DEF Advance, Remember, Stop, Forget, IInv, TypeOK
<1> QED BY <1>1, <1>2 DEF Found, OfItem, item, IInv

\* What is written refers to what the item names.
LEMMA WriteNamed ==
    ASSUME IInv, NEW p \in Tools, Running(p), NEW k \in Key, OfItem(p, k)
    PROVE  LET rs == KeysFor(p, item(p)) IN
           /\ {<<KindOf[r], NameOf[r]>> : r \in rs} = item(p).uses
           /\ \A r \in rs : ZoneOf[r] = ZoneOf[k]
<1> USE DEF IInv
<1>1. item(p) \in Items /\ item(p).uses \subseteq DOMAIN keyOf[p] /\ DOMAIN keyOf[p] \subseteq Ids
  BY ItemTyped, UsesKnown DEF TypeOK
<1>2. \A u \in item(p).uses : /\ <<KindOf[keyOf[p][u]], NameOf[keyOf[p][u]]>> = u
                              /\ ZoneOf[keyOf[p][u]] = keyOf[p][Zone]
  <2>1. \A u \in Ids : u = <<u[1], u[2]>>
    BY DEF Ids
  <2> QED BY <1>1, <2>1 DEF Named
<1>3. item(p).kind = "zone" => item(p).uses = {}
  <2>1. \A u \in item(p).uses : u[1] \in RefKinds[item(p).kind]
    BY <1>1, WorkShape
  <2> QED BY <2>1 DEF RefKinds
<1> QED BY <1>2, <1>3 DEF KeysFor, OfItem

LEMMA InitIInv == Init => IInv
<1> SUFFICES ASSUME Init PROVE IInv
  OBVIOUS
<1>1. Named /\ Found /\ RefersToTheNamed
  BY GraphAssumption DEF Init, StoreInit, IsGraph, Named, NoKeys, Found, RefersToTheNamed
<1>2. Used
  <2>1. live \subseteq Key
    BY InitType DEF TypeOK, StoreTypeOK
  <2>2. sum = [k \in Key |-> IF k \in live THEN 1 ELSE 0]
    BY DEF Init, StoreInit
  <2>3. \A k \in live : sum[k] = 1
    BY <2>1, <2>2
  <2> QED BY <2>3 DEF Used
<1> QED BY <1>1, <1>2, InitType, InitFilled DEF IInv

\* What a write of the command does, whichever it is.
LEMMA WriteFacts ==
    ASSUME IInv, NEW p \in Tools, NEW k \in Key, CreateObject(p, k) \/ ModifyObject(p, k)
    PROVE  /\ Running(p) /\ OfItem(p, k) /\ Written(p, k)
           /\ live' \subseteq live \union {k}
           /\ refs' = [refs EXCEPT ![k] = KeysFor(p, item(p))]
<1>1. CASE CreateObject(p, k)
  BY <1>1 DEF CreateObject, Create, Running, OfItem
<1>2. CASE ModifyObject(p, k)
  BY <1>2 DEF ModifyObject, Modify, Running, Found, IInv
<1> QED BY <1>1, <1>2

LEMMA NextUsed == TypeOK /\ Used /\ [Next]_vars => Used'
<1> SUFFICES ASSUME TypeOK, Used, [Next]_vars PROVE Used'
  OBVIOUS
<1>1. CASE UNCHANGED objects
  BY <1>1 DEF objects, Used
<1>2. ASSUME NEW k \in Key, NEW rs, Create(k, rs) \/ Modify(k, rs) \/ Delete(k) PROVE Used'
  BY <1>2 DEF Create, Modify, Delete, Used, TypeOK, StoreTypeOK
<1>3. ASSUME NEW p \in Tools, NEW k \in Key, CreateObject(p, k) \/ ModifyObject(p, k) PROVE Used'
  BY <1>2, <1>3 DEF CreateObject, ModifyObject
<1>4. ASSUME NEW k \in Key, OtherStep(k) PROVE Used'
  BY <1>2, <1>4, OtherFacts
<1>5. ASSUME NEW p \in Tools, Keep(p) \/ WillModify(p) \/ WillCreate(p) \/ Fail(p)
      PROVE  UNCHANGED objects
  BY <1>5 DEF Keep, WillModify, WillCreate, Fail
<1>6. ASSUME NEW p \in Tools, NEW flag \in Replaces, Start(p, flag) PROVE UNCHANGED objects
  BY <1>6 DEF Start
<1> QED BY <1>1, <1>3, <1>4, <1>5, <1>6 DEF Next, Step, vars, OtherStep

LEMMA NextIInv == IInv /\ [Next]_vars => IInv'
<1> SUFFICES ASSUME IInv, [Next]_vars PROVE IInv'
  OBVIOUS
<1> USE DEF IInv
<1>t. TypeOK' /\ Filled'
  BY NextType, NextFilled
<1>r. ASSUME UNCHANGED <<live, refs, author>> PROVE RefersToTheNamed'
  BY <1>r DEF RefersToTheNamed
<1>f. ASSUME UNCHANGED tools PROVE Named' /\ Found'
  BY <1>f DEF tools, Named, Found, OfItem, item
<1>m. ASSUME NEW p \in Tools, NEW k \in Matches(p, item(p)) PROVE k \in Key /\ OfItem(p, k)
  BY MatchesOfItem DEF TypeOK, StoreTypeOK
<1>1. ASSUME NEW p \in Tools, Keep(p) PROVE Named' /\ Found' /\ RefersToTheNamed'
  <2>1. PICK k \in Key : Advance(p, k) /\ OfItem(p, k)
    BY <1>1, <1>m DEF Keep
  <2>2. Running(p) /\ UNCHANGED <<replace, found, live, refs, author>>
    BY <1>1 DEF Keep, objects, Running
  <2> QED BY <2>1, <2>2, <1>r, AdvanceNamed, AdvanceFound
<1>2. ASSUME NEW p \in Tools, WillModify(p) PROVE Named' /\ Found' /\ RefersToTheNamed'
  <2>1. PICK k \in Key : /\ OfItem(p, k) /\ Overwrite(p, item(p), k)
                         /\ found' = [found EXCEPT ![p] = k]
    BY <1>2, <1>m DEF WillModify
  <2>2. UNCHANGED <<replace, pos, keyOf, live, refs, author>> /\ pc' = [pc EXCEPT ![p] = "modify"]
    BY <1>2 DEF WillModify, objects
  <2>3. Found'
    BY <2>1, <2>2 DEF Found, OfItem, item, Overwrite, TypeOK
  <2> QED BY <2>2, <2>3, <1>r DEF Named
<1>3. ASSUME NEW p \in Tools, WillCreate(p) PROVE Named' /\ Found' /\ RefersToTheNamed'
  <2>1. UNCHANGED <<replace, found, pos, keyOf, live, refs, author>> /\ pc' = [pc EXCEPT ![p] = "create"]
    BY <1>3 DEF WillCreate, objects, aux
  <2>2. Found'
    BY <2>1 DEF Found, OfItem, item, TypeOK
  <2> QED BY <2>1, <2>2, <1>r DEF Named
<1>4. ASSUME NEW p \in Tools, Fail(p) PROVE Named' /\ Found' /\ RefersToTheNamed'
  <2>1. Stop(p) /\ Forget(p) /\ UNCHANGED <<replace, live, refs, author>>
    BY <1>4 DEF Fail, objects
  <2>2. NoObject \in Key
    BY NameAssumption DEF NoObject
  <2>3. Named'
    <3>1. \A q \in Tools : keyOf'[q] = keyOf[q] \/ keyOf'[q] = NoKeys
      BY <2>1 DEF Stop, TypeOK
    <3> QED BY <3>1 DEF Named, NoKeys
  <2> QED BY <2>1, <2>2, <2>3, <1>r, AdvanceFound
<1>5. ASSUME NEW p \in Tools, NEW k \in Key, CreateObject(p, k) \/ ModifyObject(p, k)
      PROVE  Named' /\ Found' /\ RefersToTheNamed'
  <2>1. /\ Running(p) /\ OfItem(p, k) /\ Written(p, k)
        /\ live' \subseteq live \union {k}
        /\ refs' = [refs EXCEPT ![k] = KeysFor(p, item(p))]
    BY <1>5, WriteFacts
  <2>2. (Advance(p, k) \/ Stop(p)) /\ Forget(p) /\ UNCHANGED replace
    BY <2>1 DEF Written, Answered
  <2>3. author' = [author EXCEPT ![k] = pos[p]]
    BY <2>1 DEF Written
  <2>4. ASSUME NEW j \in live', author'[j] # 0
        PROVE  /\ KindOf[j] = Work[author'[j]].kind /\ NameOf[j] = Work[author'[j]].name
               /\ {<<KindOf[r], NameOf[r]>> : r \in refs'[j]} = Work[author'[j]].uses
               /\ \A r \in refs'[j] : ZoneOf[r] = ZoneOf[j]
    <3>1. CASE j = k
      <4>1. author'[j] = pos[p] /\ refs'[j] = KeysFor(p, item(p))
        BY <2>1, <2>3, <3>1 DEF TypeOK, StoreTypeOK
      <4> QED BY <2>1, <3>1, <4>1, WriteNamed DEF item, OfItem
    <3>2. CASE j # k
      <4>1. j \in live /\ j \in Key /\ author'[j] = author[j] /\ refs'[j] = refs[j]
        BY <2>1, <2>3, <3>2 DEF TypeOK, StoreTypeOK
      <4> QED BY <2>4, <4>1 DEF RefersToTheNamed
    <3> QED BY <3>1, <3>2
  <2>5. RefersToTheNamed'
    BY <2>4 DEF RefersToTheNamed
  <2> QED BY <2>1, <2>2, <2>5, AdvanceNamed, AdvanceFound
<1>6. ASSUME NEW p \in Tools, NEW flag \in Replaces, Start(p, flag)
      PROVE  Named' /\ Found' /\ RefersToTheNamed'
  <2>1. UNCHANGED <<live, refs, author>>
    BY <1>6 DEF Start, objects
  <2>2. Named'
    <3>1. \A q \in Tools : keyOf'[q] = keyOf[q] \/ keyOf'[q] = NoKeys
      BY <1>6 DEF Start, TypeOK
    <3> QED BY <3>1 DEF Named, NoKeys
  <2>3. Found'
    BY <1>6 DEF Start, Found, OfItem, item, TypeOK
  <2> QED BY <2>1, <2>2, <2>3, <1>r
<1>7. ASSUME NEW k \in Key, OtherStep(k) PROVE Named' /\ Found' /\ RefersToTheNamed'
  <2>1. /\ Edited(k) /\ live' \subseteq live \union {k}
        /\ \A j \in Key : j # k => refs'[j] = refs[j]
    BY <1>7, OtherFacts
  <2>2. /\ author'[k] = 0
        /\ \A j \in live' : j # k => j \in live /\ author'[j] = author[j] /\ refs'[j] = refs[j]
    BY <2>1 DEF Edited, TypeOK, StoreTypeOK
  <2>3. RefersToTheNamed'
    BY <2>2 DEF RefersToTheNamed
  <2> QED BY <2>1, <2>3, <1>f DEF Edited
<1>8. CASE UNCHANGED vars
  <2>1. UNCHANGED <<live, refs, author>> /\ UNCHANGED tools
    BY <1>8 DEF vars, objects, aux
  <2>2. Used'
    BY NextUsed
  <2> QED BY <1>t, <2>1, <2>2, <1>r, <1>f
<1>9. Used'
  BY NextUsed
<1> QED BY <1>t, <1>1, <1>2, <1>3, <1>4, <1>5, <1>6, <1>7, <1>8, <1>9 DEF Next, Step, OtherStep

LEMMA InvariantHolds == Spec => []IInv
  BY InitIInv, NextIInv, PTL DEF Spec

\* What an init-zone writes refers to the objects its arguments name, in its
\* zone, however many commands run at once and whatever others write.
THEOREM RefersAsNamed == Spec => []RefersToTheNamed
  BY InvariantHolds, PTL DEF IInv

\* No command touches what it was not told to overwrite.
THEOREM SparesTheRest == Spec => LeavesTheRest
<1>1. ASSUME IInv, Next, edits' = edits, NEW k \in live
      PROVE  \/ k \in live' /\ Contents(k)' = Contents(k)
             \/ /\ \E p \in Tools : replace[p] /\ pc[p] = "modify"
                /\ \E it \in Items : /\ it.listed /\ it.kind = KindOf[k]
                                     /\ it.name = NameOf[k]
  <2> USE DEF IInv
  <2>k. k \in Key /\ sum[k] # 0
    BY <1>1 DEF TypeOK, StoreTypeOK, Used
  <2>1. CASE UNCHANGED objects
    BY <2>1 DEF objects, Contents
  <2>2. ASSUME NEW p \in Tools, NEW j \in Key, CreateObject(p, j)
        PROVE  k \in live' /\ Contents(k)' = Contents(k)
    <3>1. k # j
      BY <2>2, <2>k DEF CreateObject, Create
    <3> QED BY <1>1, <2>2, <2>k, <3>1 DEF CreateObject, Create, Written, Contents, TypeOK, StoreTypeOK
  <2>3. ASSUME NEW p \in Tools, NEW j \in Key, ModifyObject(p, j)
        PROVE  \/ k \in live' /\ Contents(k)' = Contents(k)
               \/ /\ replace[p] /\ pc[p] = "modify"
                  /\ \E it \in Items : /\ it.listed /\ it.kind = KindOf[k]
                                       /\ it.name = NameOf[k]
    <3>1. CASE k = j
      <4>1. pc[p] = "modify" /\ j = found[p]
        BY <2>3 DEF ModifyObject
      <4> QED BY <1>1, <3>1, <4>1, ItemTyped DEF Found, OfItem
    <3>2. CASE k # j
      BY <1>1, <2>3, <2>k, <3>2 DEF ModifyObject, Modify, Written, Contents, TypeOK, StoreTypeOK
    <3> QED BY <3>1, <3>2
  <2>4. ASSUME NEW j \in Key, Edited(j) PROVE FALSE
    BY <1>1, <2>4 DEF Edited, TypeOK
  <2>5. ASSUME NEW p \in Tools, Step(p)
        PROVE  UNCHANGED objects \/ \E j \in Key : CreateObject(p, j) \/ ModifyObject(p, j)
    BY <2>5 DEF Step, Keep, WillModify, WillCreate, Fail
  <2>6. ASSUME NEW p \in Tools, NEW flag \in Replaces, Start(p, flag) PROVE UNCHANGED objects
    BY <2>6 DEF Start
  <2>7. ASSUME NEW j \in Key, OtherStep(j) PROVE FALSE
    BY <1>1, <2>4, <2>7, OtherFacts
  <2> QED BY <1>1, <2>1, <2>2, <2>3, <2>5, <2>6, <2>7 DEF Next, OtherStep
<1>2. IInv /\ [Next]_vars => [edits' = edits => \A k \in live :
          \/ k \in live' /\ Contents(k)' = Contents(k)
          \/ /\ \E p \in Tools : replace[p] /\ pc[p] = "modify"
             /\ \E it \in Items : /\ it.listed /\ it.kind = KindOf[k]
                                  /\ it.name = NameOf[k]]_vars
  BY <1>1
<1> QED BY <1>2, InvariantHolds, PTL DEF Spec, LeavesTheRest

-----------------------------------------------------------------------------
\* What a live object refers to, where it matters for a look-up; and what a
\* command that is about to overwrite knows, however many there are: as long as
\* its checksum is good, the object is still one its look-up would find.
OneDomain ==
    \A k \in live : /\ KindOf[k] = "route" => IsSingleton(RefsOf(refs[k], "domain"))
                    /\ KindOf[k] = "domain" => refs[k] = {}

Looked ==
    \A p \in Tools : pc[p] = "modify" =>
        /\ foundSum[p] \in 1..sum[found[p]]
        /\ Current(found[p], foundSum[p]) => found[p] \in Matches(p, item(p))

LInv == IInv /\ OneDomain /\ Looked

LEMMA InitLInv == Init => LInv
<1> SUFFICES ASSUME Init PROVE OneDomain /\ Looked
  BY InitIInv DEF LInv
<1>1. PICK g \in Graphs : live = g.live /\ refs = g.refs
  BY DEF Init, StoreInit
<1>2. ASSUME NEW k \in live, KindOf[k] = "domain" PROVE refs[k] = {}
  <2>1. \A r \in refs[k] : KindOf[r] \in RefKinds["domain"]
    BY <1>1, <1>2, GraphAssumption DEF IsGraph, WellFormed
  <2> QED BY <2>1 DEF RefKinds
<1>3. OneDomain
  BY <1>1, <1>2, NamesAssumption DEF OneDomain
<1> QED BY <1>3 DEF Init, Looked

\* The domain of the route that is written, and of the one that was looked up.
LEMMA DomainWritten ==
    ASSUME IInv, NEW p \in Tools, Running(p), item(p).kind = "route"
    PROVE  \E d \in Key : /\ RefsOf(KeysFor(p, item(p)), "domain") = {d}
                          /\ KindOf[d] = "domain"
                          /\ \A u \in item(p).uses : u[1] = "domain" => keyOf[p][u] = d
<1> USE DEF IInv
<1>1. item(p) \in Items /\ item(p).uses \subseteq DOMAIN keyOf[p]
  BY ItemTyped, UsesKnown
<1>2. IsSingleton({u \in item(p).uses : u[1] = "domain"})
  BY <1>1, WorkShape
<1>3. PICK u \in item(p).uses : u[1] = "domain" /\ \A v \in item(p).uses : v[1] = "domain" => v = u
  BY <1>2 DEF IsSingleton
<1>4. \A v \in item(p).uses : KindOf[keyOf[p][v]] = v[1] /\ keyOf[p][v] \in Key
  BY <1>1 DEF Named, TypeOK
<1>5. RefsOf(KeysFor(p, item(p)), "domain") = {keyOf[p][u]}
  BY <1>3, <1>4 DEF RefsOf, KeysFor
<1> QED BY <1>3, <1>4, <1>5

\* Calls that are not of this command: writes of others make its checksum old,
\* or leave what it has read alone.
LEMMA LookedStays ==
    ASSUME LInv, NEW p \in Tools, pc[p] = "modify",
           pc'[p] = pc[p], pos'[p] = pos[p], keyOf'[p] = keyOf[p],
           found'[p] = found[p], foundSum'[p] = foundSum[p],
           NEW k \in Key, NEW rs,
           UNCHANGED store \/ Create(k, rs) \/ Modify(k, rs) \/ Delete(k)
    PROVE  /\ foundSum'[p] \in 1..sum'[found'[p]]
           /\ Current(found[p], foundSum[p])' => found'[p] \in Matches(p, item(p))'
<1> DEFINE f == found[p]
<1>1. /\ f \in Key /\ sum[f] \in Nat /\ foundSum[p] \in 1..sum[f]
      /\ Current(f, foundSum[p]) => f \in Matches(p, item(p))
  BY DEF LInv, IInv, Looked, TypeOK, StoreTypeOK
<1>2. sum'[f] \in Nat /\ sum[f] <= sum'[f]
  BY <1>1 DEF store, Create, Modify, Delete, LInv, IInv, TypeOK, StoreTypeOK
<1>3. ASSUME f \in live', sum'[f] = foundSum[p]
      PROVE  f \in live /\ refs'[f] = refs[f] /\ sum[f] = foundSum[p]
  <2>1. CASE UNCHANGED store
    BY <1>3, <2>1 DEF store
  <2>2. CASE Create(k, rs)
    BY <1>1, <1>3, <2>2 DEF Create, LInv, IInv, TypeOK, StoreTypeOK
  <2>3. CASE Modify(k, rs)
    BY <1>1, <1>3, <2>3 DEF Modify, LInv, IInv, TypeOK, StoreTypeOK
  <2>4. CASE Delete(k)
    BY <1>3, <2>4 DEF Delete
  <2> QED BY <2>1, <2>2, <2>3, <2>4
<1>4. ASSUME f \in live', sum'[f] = foundSum[p] PROVE f \in Matches(p, item(p))'
  <2>1. f \in Matches(p, item(p)) /\ refs'[f] = refs[f]
    BY <1>1, <1>3, <1>4 DEF Current
  <2>2. item(p)' = item(p)
    BY DEF item
  <2> QED BY <1>4, <2>1, <2>2 DEF Matches
<1> QED BY <1>1, <1>2, <1>4 DEF Current

\* A route that is written is of one domain, and a domain refers to nothing.
LEMMA WriteOneDomain ==
    ASSUME LInv, NEW p \in Tools, NEW k \in Key, CreateObject(p, k) \/ ModifyObject(p, k)
    PROVE  OneDomain'
<1> USE DEF LInv, IInv
<1>1. /\ Running(p) /\ OfItem(p, k) /\ live' \subseteq live \union {k}
      /\ refs' = [refs EXCEPT ![k] = KeysFor(p, item(p))]
  BY WriteFacts
<1>2. refs'[k] = KeysFor(p, item(p)) /\ \A j \in live : j # k => refs'[j] = refs[j]
  BY <1>1 DEF TypeOK, StoreTypeOK
<1>3. KindOf[k] = "route" => IsSingleton(RefsOf(refs'[k], "domain"))
  <2>1. ASSUME item(p).kind = "route"
        PROVE  \E d \in Key : RefsOf(KeysFor(p, item(p)), "domain") = {d}
    BY <1>1, <2>1, DomainWritten
  <2> QED BY <1>1, <1>2, <2>1 DEF OfItem, IsSingleton
<1>4. KindOf[k] = "domain" => refs'[k] = {}
  <2>1. \A u \in item(p).uses : u[1] \in RefKinds[item(p).kind]
    BY ItemTyped, WorkShape
  <2>2. KindOf[k] = "domain" => item(p).uses = {}
    BY <1>1, <2>1 DEF OfItem, RefKinds
  <2> QED BY <1>2, <2>2 DEF KeysFor
<1> QED BY <1>1, <1>2, <1>3, <1>4 DEF OneDomain

LEMMA OtherOneDomain ==
    ASSUME LInv, NEW k \in Key, OtherStep(k)
    PROVE  OneDomain'
<1> USE DEF LInv, IInv
<1>1. \A j \in live' : j # k => j \in live /\ refs'[j] = refs[j]
  BY OtherFacts DEF TypeOK, StoreTypeOK
<1>2. k \in live' => refs'[k] \in References(k) \/ (k \in live /\ refs'[k] = refs[k])
  <2>1. PICK rs \in SUBSET Key :
           \/ Create(k, rs) /\ rs \in References(k)
           \/ Modify(k, rs) /\ k \in live /\ rs \in References(k) \union {refs[k]}
           \/ Delete(k)
    BY OtherFacts
  <2> QED BY <2>1 DEF Create, Modify, Delete, TypeOK, StoreTypeOK
<1>3. ASSUME NEW rs \in References(k), KindOf[k] = "domain" PROVE rs = {}
  <2>1. \A r \in rs : KindOf[r] \in RefKinds["domain"]
    BY <1>3 DEF References, WellFormed
  <2> QED BY <2>1 DEF RefKinds
<1>4. ASSUME NEW rs \in References(k), KindOf[k] = "route" PROVE IsSingleton(RefsOf(rs, "domain"))
  BY <1>4 DEF References
<1> QED BY <1>1, <1>2, <1>3, <1>4 DEF OneDomain

LEMMA NextLInv == LInv /\ [Next]_vars => LInv'
<1> SUFFICES ASSUME LInv, [Next]_vars PROVE OneDomain' /\ Looked'
  BY NextIInv DEF LInv
<1> USE DEF LInv, IInv
<1>o. ASSUME UNCHANGED <<live, refs>> PROVE OneDomain'
  BY <1>o DEF OneDomain
<1>k. \E k \in Key : TRUE
  BY NameAssumption
<1>m. \A p \in Tools : Matches(p, item(p)) \subseteq Key
  BY DEF Matches, TypeOK, StoreTypeOK
<1>a. ASSUME NEW p \in Tools, NEW k \in Key, Advance(p, k) \/ Stop(p)
      PROVE  /\ pc'[p] # "modify"
             /\ \A q \in Tools \ {p} : pc'[q] = pc[q] /\ pos'[q] = pos[q] /\ keyOf'[q] = keyOf[q]
  BY <1>a DEF Advance, Remember, Stop, TypeOK
<1>1. ASSUME NEW p \in Tools, Keep(p) PROVE OneDomain' /\ Looked'
  <2>1. PICK k \in Key : Advance(p, k)
    BY <1>1, <1>m DEF Keep
  <2>2. UNCHANGED <<store, found, foundSum>>
    BY <1>1 DEF Keep, objects, store
  <2>3. ASSUME NEW q \in Tools, pc'[q] = "modify"
        PROVE  /\ foundSum'[q] \in 1..sum'[found'[q]]
               /\ Current(found[q], foundSum[q])' => found'[q] \in Matches(q, item(q))'
    BY <1>a, <2>1, <2>2, <2>3, LookedStays
  <2> QED BY <2>2, <2>3, <1>o DEF Looked, store
<1>2. ASSUME NEW p \in Tools, WillModify(p) PROVE OneDomain' /\ Looked'
  <2>1. PICK k \in Matches(p, item(p)) : /\ found' = [found EXCEPT ![p] = k]
                                         /\ foundSum' = [foundSum EXCEPT ![p] = sum[k]]
    BY <1>2 DEF WillModify
  <2>2. UNCHANGED <<live, refs, sum, pos, keyOf>> /\ pc' = [pc EXCEPT ![p] = "modify"]
    BY <1>2 DEF WillModify, objects
  <2>3. \A q \in Tools : Matches(q, item(q))' = Matches(q, item(q))
    BY <2>2 DEF Matches, item
  <2>4. k \in live /\ k \in Key /\ sum[k] \in Nat /\ sum[k] > 0
    BY <1>m DEF Matches, Used, TypeOK, StoreTypeOK
  <2>5. ASSUME NEW q \in Tools, pc'[q] = "modify"
        PROVE  /\ foundSum'[q] \in 1..sum'[found'[q]]
               /\ Current(found[q], foundSum[q])' => found'[q] \in Matches(q, item(q))'
    <3>1. CASE q = p
      BY <2>1, <2>2, <2>3, <2>4, <3>1 DEF TypeOK
    <3>2. CASE q # p
      BY <2>1, <2>2, <2>3, <2>5, <3>2 DEF TypeOK, Looked, Current
    <3> QED BY <3>1, <3>2
  <2> QED BY <2>2, <2>5, <1>o DEF Looked
<1>3. ASSUME NEW p \in Tools, WillCreate(p) PROVE OneDomain' /\ Looked'
  <2>1. UNCHANGED <<store, found, foundSum, pos, keyOf>> /\ pc' = [pc EXCEPT ![p] = "create"]
    BY <1>3 DEF WillCreate, objects, store
  <2>2. ASSUME NEW q \in Tools, pc'[q] = "modify"
        PROVE  /\ foundSum'[q] \in 1..sum'[found'[q]]
               /\ Current(found[q], foundSum[q])' => found'[q] \in Matches(q, item(q))'
    BY <1>k, <2>1, <2>2, LookedStays DEF TypeOK
  <2> QED BY <2>1, <2>2, <1>o DEF Looked, store
<1>4. ASSUME NEW p \in Tools, NEW k \in Key, NEW rs,
             Advance(p, k) \/ Stop(p), Forget(p),
             UNCHANGED store \/ Create(k, rs) \/ Modify(k, rs)
      PROVE  Looked'
  <2>1. \A q \in Tools \ {p} : found'[q] = found[q] /\ foundSum'[q] = foundSum[q]
    BY <1>4 DEF Forget, TypeOK
  <2>2. ASSUME NEW q \in Tools, pc'[q] = "modify"
        PROVE  /\ foundSum'[q] \in 1..sum'[found'[q]]
               /\ Current(found[q], foundSum[q])' => found'[q] \in Matches(q, item(q))'
    BY <1>4, <1>a, <2>1, <2>2, LookedStays
  <2> QED BY <2>2 DEF Looked
<1>5. ASSUME NEW p \in Tools, Fail(p) PROVE OneDomain' /\ Looked'
  <2>1. Stop(p) /\ Forget(p) /\ UNCHANGED <<store, live, refs>>
    BY <1>5 DEF Fail, objects, store
  <2> QED BY <2>1, <1>k, <1>4, <1>o
<1>6. ASSUME NEW p \in Tools, NEW k \in Key, CreateObject(p, k) \/ ModifyObject(p, k)
      PROVE  OneDomain' /\ Looked'
  <2>1. Create(k, KeysFor(p, item(p))) \/ Modify(k, KeysFor(p, item(p)))
    BY <1>6 DEF CreateObject, ModifyObject
  <2>2. (Advance(p, k) \/ Stop(p)) /\ Forget(p)
    BY <1>6, WriteFacts DEF Written, Answered
  <2> QED BY <1>6, <2>1, <2>2, <1>4, WriteOneDomain
<1>7. ASSUME NEW p \in Tools, NEW flag \in Replaces, Start(p, flag) PROVE OneDomain' /\ Looked'
  <2>1. /\ UNCHANGED <<store, found, foundSum>> /\ pc'[p] # "modify"
        /\ \A q \in Tools \ {p} : pc'[q] = pc[q] /\ pos'[q] = pos[q] /\ keyOf'[q] = keyOf[q]
    BY <1>7 DEF Start, objects, store, TypeOK
  <2>2. ASSUME NEW q \in Tools, pc'[q] = "modify"
        PROVE  /\ foundSum'[q] \in 1..sum'[found'[q]]
               /\ Current(found[q], foundSum[q])' => found'[q] \in Matches(q, item(q))'
    BY <1>k, <2>1, <2>2, LookedStays
  <2> QED BY <2>1, <2>2, <1>o DEF Looked, store
<1>8. ASSUME NEW k \in Key, OtherStep(k) PROVE OneDomain' /\ Looked'
  <2>1. UNCHANGED tools /\ \E rs \in SUBSET Key : Create(k, rs) \/ Modify(k, rs) \/ Delete(k)
    BY <1>8, OtherFacts DEF Edited
  <2>2. ASSUME NEW q \in Tools, pc'[q] = "modify"
        PROVE  /\ foundSum'[q] \in 1..sum'[found'[q]]
               /\ Current(found[q], foundSum[q])' => found'[q] \in Matches(q, item(q))'
    BY <2>1, <2>2, LookedStays DEF tools
  <2> QED BY <1>8, <2>2, OtherOneDomain DEF Looked
<1>9. CASE UNCHANGED vars
  <2>1. UNCHANGED <<store, live, refs>> /\ UNCHANGED tools
    BY <1>9 DEF vars, objects, store
  <2>2. ASSUME NEW q \in Tools, pc'[q] = "modify"
        PROVE  /\ foundSum'[q] \in 1..sum'[found'[q]]
               /\ Current(found[q], foundSum[q])' => found'[q] \in Matches(q, item(q))'
    BY <1>k, <2>1, <2>2, LookedStays DEF tools
  <2> QED BY <2>1, <2>2, <1>o DEF Looked
<1> QED BY <1>1, <1>2, <1>3, <1>5, <1>6, <1>7, <1>8, <1>9 DEF Next, Step, OtherStep

LEMMA LookedHolds == Spec => []LInv
  BY InitLInv, NextLInv, PTL DEF Spec

-----------------------------------------------------------------------------
\* As long as its checksum is good, the object a command is about to overwrite
\* has in it what the look-up saw.
Saw ==
    \A p \in Tools : pc[p] = "modify" /\ Current(found[p], foundSum[p]) =>
        seen[p] = Contents(found[p])

\* What is not the command's own step makes its checksum old, or leaves the
\* object alone.
LEMMA SawStays ==
    ASSUME LInv, Saw, NEW p \in Tools, pc[p] = "modify",
           found'[p] = found[p], foundSum'[p] = foundSum[p], seen'[p] = seen[p],
           NEW k \in Key, NEW rs,
           \/ UNCHANGED objects
           \/ /\ Create(k, rs) \/ Modify(k, rs) \/ Delete(k)
              /\ \A j \in Key : j # k => val'[j] = val[j]
    PROVE  Current(found[p], foundSum[p])' => seen'[p] = Contents(found[p])'
<1> USE DEF LInv, IInv
<1> DEFINE f == found[p]
<1>1. f \in Key /\ foundSum[p] \in 1..sum[f] /\ sum[f] \in Nat
  BY DEF Looked, TypeOK, StoreTypeOK
<1>2. CASE UNCHANGED objects
  BY <1>2 DEF objects, Saw, Current, Contents
<1>3. ASSUME Create(k, rs) \/ Modify(k, rs) \/ Delete(k), \A j \in Key : j # k => val'[j] = val[j],
             Current(f, foundSum[p])'
      PROVE  seen'[p] = Contents(f)'
  <2>1. f # k
    BY <1>1, <1>3 DEF Create, Modify, Delete, Current, TypeOK, StoreTypeOK
  <2>2. refs'[f] = refs[f] /\ sum'[f] = sum[f] /\ val'[f] = val[f] /\ (f \in live' => f \in live)
    BY <1>1, <1>3, <2>1 DEF Create, Modify, Delete, TypeOK, StoreTypeOK
  <2> QED BY <1>3, <2>2 DEF Saw, Current, Contents
<1> QED BY <1>2, <1>3

LEMMA NextSaw == LInv /\ Saw /\ [Next]_vars => Saw'
<1> SUFFICES ASSUME LInv, Saw, [Next]_vars, NEW q \in Tools, pc'[q] = "modify"
             PROVE  Current(found[q], foundSum[q])' => seen'[q] = Contents(found[q])'
  BY DEF Saw
<1> USE DEF LInv, IInv
<1>k. \E k \in Key : TRUE
  BY NameAssumption
<1>m. \A p \in Tools : Matches(p, item(p)) \subseteq Key
  BY DEF Matches, TypeOK, StoreTypeOK
\* A step that changes nothing the command has looked at.
<1>s. ASSUME pc[q] = "modify", found'[q] = found[q], foundSum'[q] = foundSum[q],
             seen'[q] = seen[q], UNCHANGED objects
      PROVE  Current(found[q], foundSum[q])' => seen'[q] = Contents(found[q])'
  BY <1>k, <1>s, SawStays
<1>a. ASSUME NEW p \in Tools, NEW k \in Key, Advance(p, k) \/ Stop(p)
      PROVE  q # p /\ pc[q] = "modify"
  BY <1>a DEF Advance, Stop, TypeOK
<1>1. ASSUME NEW p \in Tools, Keep(p)
      PROVE  Current(found[q], foundSum[q])' => seen'[q] = Contents(found[q])'
  <2>1. pc[q] = "modify"
    BY <1>1, <1>a, <1>m DEF Keep
  <2> QED BY <1>1, <2>1, <1>s DEF Keep
<1>2. ASSUME NEW p \in Tools, WillModify(p)
      PROVE  Current(found[q], foundSum[q])' => seen'[q] = Contents(found[q])'
  <2>1. PICK k \in Key : /\ found' = [found EXCEPT ![p] = k]
                         /\ foundSum' = [foundSum EXCEPT ![p] = sum[k]]
                         /\ seen' = [seen EXCEPT ![p] = Contents(k)]
    BY <1>2, <1>m DEF WillModify
  <2>2. UNCHANGED objects /\ pc' = [pc EXCEPT ![p] = "modify"]
    BY <1>2 DEF WillModify
  <2>3. CASE q = p
    BY <2>1, <2>2, <2>3 DEF objects, Contents, TypeOK
  <2>4. CASE q # p
    BY <2>1, <2>2, <2>4, <1>s DEF TypeOK
  <2> QED BY <2>3, <2>4
<1>3. ASSUME NEW p \in Tools, WillCreate(p)
      PROVE  Current(found[q], foundSum[q])' => seen'[q] = Contents(found[q])'
  <2>1. pc[q] = "modify"
    BY <1>3 DEF WillCreate, TypeOK
  <2> QED BY <1>3, <2>1, <1>s DEF WillCreate, aux
<1>4. ASSUME NEW p \in Tools, Fail(p)
      PROVE  Current(found[q], foundSum[q])' => seen'[q] = Contents(found[q])'
  <2>1. q # p /\ pc[q] = "modify" /\ Forget(p) /\ UNCHANGED objects
    BY <1>4, <1>a, <1>k DEF Fail
  <2> QED BY <2>1, <1>s DEF Forget, TypeOK
<1>5. ASSUME NEW p \in Tools, NEW k \in Key, CreateObject(p, k) \/ ModifyObject(p, k)
      PROVE  Current(found[q], foundSum[q])' => seen'[q] = Contents(found[q])'
  <2>1. Written(p, k) /\ (Create(k, KeysFor(p, item(p))) \/ Modify(k, KeysFor(p, item(p))))
    BY <1>5 DEF CreateObject, ModifyObject
  <2>2. q # p /\ pc[q] = "modify"
    BY <1>a, <2>1 DEF Written, Answered
  <2>3. /\ found'[q] = found[q] /\ foundSum'[q] = foundSum[q] /\ seen'[q] = seen[q]
        /\ \A j \in Key : j # k => val'[j] = val[j]
    BY <2>1, <2>2 DEF Written, Forget, TypeOK
  <2> QED BY <2>1, <2>2, <2>3, SawStays
<1>6. ASSUME NEW p \in Tools, NEW flag \in Replaces, Start(p, flag)
      PROVE  Current(found[q], foundSum[q])' => seen'[q] = Contents(found[q])'
  <2>1. pc[q] = "modify"
    BY <1>6 DEF Start, TypeOK
  <2> QED BY <1>6, <2>1, <1>s DEF Start
<1>7. ASSUME NEW k \in Key, OtherStep(k)
      PROVE  Current(found[q], foundSum[q])' => seen'[q] = Contents(found[q])'
  <2>1. Edited(k) /\ \E rs \in SUBSET Key : Create(k, rs) \/ Modify(k, rs) \/ Delete(k)
    BY <1>7, OtherFacts
  <2>2. \A j \in Key : j # k => val'[j] = val[j]
    BY <1>7 DEF OtherStep, OtherCreate, OtherModify, OtherDelete, TypeOK
  <2> QED BY <2>1, <2>2, SawStays DEF Edited, tools
<1>8. CASE UNCHANGED vars
  BY <1>8, <1>s DEF vars, tools, aux
<1> QED BY <1>1, <1>2, <1>3, <1>4, <1>5, <1>6, <1>7, <1>8 DEF Next, Step, OtherStep

\* Whatever other clients and other commands do between a look-up and the write
\* that follows it, with --replace nothing is overwritten that was not seen.
THEOREM NeverOverwritesUnseen == Spec => OverwritesWhatItSaw
<1>1. ASSUME LInv, Saw, Next, edits' = edits, NEW k \in live, k \in live',
             Contents(k)' # Contents(k)
      PROVE  \E p \in Tools : pc[p] = "modify" /\ found[p] = k /\ seen[p] = Contents(k)
  <2> USE DEF LInv, IInv
  <2>k. k \in Key /\ sum[k] # 0
    BY <1>1 DEF TypeOK, StoreTypeOK, Used
  <2>1. ~UNCHANGED objects
    BY <1>1 DEF objects, Contents
  <2>2. \A j \in Key : ~OtherStep(j)
    BY <1>1, OtherFacts DEF Edited, TypeOK
  <2>3. PICK p \in Tools, j \in Key : CreateObject(p, j) \/ ModifyObject(p, j)
    BY <1>1, <2>1, <2>2 DEF Next, Step, OtherStep, Keep, WillModify, WillCreate, Fail, Start
  <2>4. j = k
    <3>1. j # k => Contents(k)' = Contents(k)
      BY <1>1, <2>k, <2>3 DEF CreateObject, ModifyObject, Create, Modify, Written, Contents,
                             TypeOK, StoreTypeOK
    <3> QED BY <1>1, <3>1
  <2>5. ModifyObject(p, k)
    BY <2>k, <2>3, <2>4 DEF CreateObject, Create
  <2> QED BY <1>1, <2>5 DEF ModifyObject, Saw
<1>2. LInv /\ Saw /\ [Next]_vars => [edits' = edits => \A k \in live \intersect live' :
          Contents(k)' # Contents(k) =>
              \E p \in Tools : pc[p] = "modify" /\ found[p] = k /\ seen[p] = Contents(k)]_vars
  BY <1>1
<1>3. Init => Saw
  BY DEF Init, Saw
<1> QED BY <1>2, <1>3, NextSaw, LookedHolds, PTL DEF Spec, OverwritesWhatItSaw

-----------------------------------------------------------------------------
\* One command at a time makes no second object of a name: what another client
\* makes between its look-up and its create is foreign, nothing else does, and
\* a route it overwrites keeps its domain.
ToCreate(p) == /\ Matches(p, item(p)) \subseteq foreign
               /\ clean[p] => Matches(p, item(p)) = {}

Distinct ==
    /\ NoDuplicates
    /\ \A p \in Tools : pc[p] = "create" => ToCreate(p)

LEMMA InitDistinct == Init => Distinct
<1> SUFFICES ASSUME Init PROVE Distinct
  OBVIOUS
<1>1. PICK g \in Graphs : live = g.live /\ refs = g.refs
  BY DEF Init, StoreInit
<1> QED BY <1>1, NamesAssumption DEF Init, Distinct, NoDuplicates, Unique

LEMMA CreateDistinct ==
    ASSUME LInv, Distinct, NEW p \in Tools, NEW k \in Key, CreateObject(p, k)
    PROVE  NoDuplicates'
<1> USE DEF LInv, IInv
<1> DEFINE S == live \ foreign
<1>1. /\ Running(p) /\ \A j \in S : j \notin Matches(p, item(p))
      /\ k \notin live /\ live' \ foreign' \subseteq S \union {k}
      /\ refs' = [refs EXCEPT ![k] = KeysFor(p, item(p))]
      /\ OfItem(p, k)
  BY DEF CreateObject, Create, Written, Distinct, ToCreate, Running, OfItem, Used
<1>2. /\ refs'[k] = KeysFor(p, item(p))
      /\ \A j \in live : j \in Key /\ j # k /\ refs'[j] = refs[j]
  BY <1>1 DEF TypeOK, StoreTypeOK
<1>3. ASSUME NEW j \in S, SameName(j, k)
      PROVE  KindOf[j] = "route" /\ RefsOf(refs'[j], "domain") # RefsOf(refs'[k], "domain")
  <2>1. /\ KindOf[j] = item(p).kind /\ NameOf[j] = item(p).name
        /\ item(p).kind # "zone" => ZoneOf[j] = keyOf[p][Zone]
    BY <1>1, <1>3 DEF SameName, OfItem
  <2>2. item(p).kind = "route"
    BY <1>1, <2>1 DEF Matches
  <2>3. PICK d \in Key : /\ RefsOf(KeysFor(p, item(p)), "domain") = {d}
                         /\ \A u \in item(p).uses : u[1] = "domain" => keyOf[p][u] = d
    BY <1>1, <2>2, DomainWritten
  <2>4. d \notin refs[j]
    BY <1>1, <2>1, <2>2, <2>3 DEF Matches
  <2>5. d \notin RefsOf(refs'[j], "domain")
    BY <1>2, <2>4 DEF RefsOf
  <2> QED BY <1>2, <2>1, <2>2, <2>3, <2>5
<1>4. ASSUME NEW i \in live' \ foreign', NEW j \in live' \ foreign', i # j, SameName(i, j)
      PROVE  KindOf[i] = "route" /\ RefsOf(refs'[i], "domain") # RefsOf(refs'[j], "domain")
  <2>1. CASE i = k
    BY <1>1, <1>3, <1>4, <2>1 DEF SameName
  <2>2. CASE j = k
    BY <1>1, <1>3, <1>4, <2>2
  <2>3. CASE i # k /\ j # k
    BY <1>1, <1>2, <1>4, <2>3 DEF Distinct, NoDuplicates, Unique
  <2> QED BY <2>1, <2>2, <2>3
<1> QED BY <1>4 DEF NoDuplicates, Unique, SameName

LEMMA ModifyKeepsDomain ==
    ASSUME LInv, NEW p \in Tools, NEW k \in Key, ModifyObject(p, k)
    PROVE  /\ live' = live /\ foreign' = foreign
           /\ \A j \in live : KindOf[j] = "route" =>
                  RefsOf(refs'[j], "domain") = RefsOf(refs[j], "domain")
<1> USE DEF LInv, IInv
<1>1. /\ Running(p) /\ k \in Matches(p, item(p)) /\ live' = live /\ foreign' = foreign
      /\ refs' = [refs EXCEPT ![k] = KeysFor(p, item(p))]
  BY DEF ModifyObject, Current, Modify, Written, Looked, Running
<1>2. /\ refs'[k] = KeysFor(p, item(p))
      /\ \A j \in live : j # k => refs'[j] = refs[j]
  BY <1>1 DEF TypeOK, StoreTypeOK
<1>3. ASSUME KindOf[k] = "route" PROVE RefsOf(refs'[k], "domain") = RefsOf(refs[k], "domain")
  <2>1. k \in live /\ item(p).kind = "route"
    BY <1>1, <1>3 DEF Matches
  <2>2. PICK d \in Key : /\ RefsOf(KeysFor(p, item(p)), "domain") = {d}
                         /\ KindOf[d] = "domain"
                         /\ \A u \in item(p).uses : u[1] = "domain" => keyOf[p][u] = d
    BY <1>1, <2>1, DomainWritten
  <2>3. \E u \in item(p).uses : u[1] = "domain"
    BY <2>1, ItemTyped, WorkShape DEF IsSingleton
  <2>4. d \in RefsOf(refs[k], "domain")
    BY <1>1, <2>1, <2>2, <2>3 DEF Matches, RefsOf
  <2>5. IsSingleton(RefsOf(refs[k], "domain"))
    BY <1>3, <2>1 DEF OneDomain
  <2> QED BY <1>2, <2>2, <2>4, <2>5 DEF IsSingleton
<1> QED BY <1>1, <1>2, <1>3

LEMMA ModifyDistinct ==
    ASSUME LInv, Distinct, NEW p \in Tools, NEW k \in Key, ModifyObject(p, k)
    PROVE  NoDuplicates'
  BY ModifyKeepsDomain DEF Distinct, NoDuplicates, Unique, SameName

\* What other clients add to what a look-up would find is foreign.
LEMMA NextDistinct ==
    ASSUME \A p, q \in Tools : p = q
    PROVE  LInv /\ Distinct /\ [Next]_vars => Distinct'
<1> SUFFICES ASSUME LInv, Distinct, [Next]_vars PROVE Distinct'
  OBVIOUS
<1> USE DEF LInv, IInv
<1>k. live \subseteq Key
  BY DEF TypeOK, StoreTypeOK
<1>s. ASSUME UNCHANGED <<live, refs, foreign>>
      PROVE  NoDuplicates'
  BY <1>s DEF Distinct, NoDuplicates, Unique, SameName
<1>o. ASSUME NEW p \in Tools, pc'[p] # "create"
      PROVE  \A q \in Tools : pc'[q] = "create" => ToCreate(q)'
  BY <1>o
<1>a. ASSUME NEW p \in Tools, NEW k \in Key, Advance(p, k) \/ Stop(p)
      PROVE  pc'[p] # "create"
  BY <1>a DEF Advance, Stop, TypeOK
<1>1. ASSUME NEW p \in Tools, Keep(p) PROVE Distinct'
  <2>1. PICK k \in Key : Advance(p, k)
    BY <1>1, <1>k DEF Keep, Matches
  <2>2. UNCHANGED <<live, refs, foreign>>
    BY <1>1 DEF Keep, objects
  <2> QED BY <2>1, <2>2, <1>s, <1>o, <1>a DEF Distinct
<1>2. ASSUME NEW p \in Tools, WillModify(p) PROVE Distinct'
  <2>1. UNCHANGED <<live, refs, foreign>> /\ pc'[p] # "create"
    BY <1>2 DEF WillModify, objects, TypeOK
  <2> QED BY <2>1, <1>s, <1>o DEF Distinct
<1>3. ASSUME NEW p \in Tools, WillCreate(p) PROVE Distinct'
  <2>1. /\ UNCHANGED <<live, refs, foreign, pos, keyOf>>
        /\ pc'[p] = "create" /\ Matches(p, item(p)) = {}
    BY <1>3 DEF WillCreate, objects, aux, TypeOK
  <2>2. Matches(p, item(p))' = {}
    BY <2>1 DEF Matches, item
  <2>3. ToCreate(p)'
    BY <2>2 DEF ToCreate
  <2> QED BY <2>1, <2>3, <1>s DEF Distinct
<1>4. ASSUME NEW p \in Tools, Fail(p) PROVE Distinct'
  <2>1. Stop(p) /\ UNCHANGED <<live, refs, foreign>>
    BY <1>4 DEF Fail, objects
  <2>2. pc'[p] # "create"
    BY <2>1 DEF Stop, TypeOK
  <2> QED BY <2>1, <2>2, <1>s, <1>o DEF Distinct
<1>5. ASSUME NEW p \in Tools, NEW k \in Key, CreateObject(p, k) \/ ModifyObject(p, k)
      PROVE  Distinct'
  <2>1. Advance(p, k) \/ Stop(p)
    BY <1>5, WriteFacts DEF Written, Answered
  <2>2. pc'[p] # "create"
    BY <2>1, <1>a
  <2> QED BY <1>5, <2>2, <1>o, CreateDistinct, ModifyDistinct DEF Distinct
<1>6. ASSUME NEW p \in Tools, NEW flag \in Replaces, Start(p, flag) PROVE Distinct'
  <2>1. UNCHANGED <<live, refs, foreign>> /\ pc'[p] # "create"
    BY <1>6 DEF Start, objects, TypeOK
  <2> QED BY <2>1, <1>s, <1>o DEF Distinct
<1>7. ASSUME NEW k \in Key, OtherStep(k) PROVE Distinct'
  <2>1. /\ Edited(k)
        /\ \A j \in live' \ foreign' : j \in live \ foreign /\ refs'[j] = refs[j]
    BY <1>7, OtherFacts
  <2>2. UNCHANGED <<pc, pos, keyOf>> /\ \A p \in Tools : ~clean'[p]
    BY <2>1 DEF Edited, tools
  <2>3. NoDuplicates'
    BY <2>1 DEF Distinct, NoDuplicates, Unique, SameName
  <2>4. ASSUME NEW p \in Tools, pc[p] = "create",
               NEW j \in Matches(p, item(p))', j \notin foreign'
        PROVE  FALSE
    <3>1. j \in live' \ foreign' /\ item(p)' = item(p)
      BY <2>2, <2>4 DEF Matches, item
    <3>2. j \in live \ foreign /\ refs'[j] = refs[j]
      BY <2>1, <3>1
    <3>3. j \in Matches(p, item(p))
      BY <2>2, <2>4, <3>1, <3>2 DEF Matches
    <3> QED BY <2>4, <3>2, <3>3 DEF Distinct, ToCreate
  <2> QED BY <2>2, <2>3, <2>4 DEF Distinct, ToCreate
<1>8. CASE UNCHANGED vars
  <2>1. UNCHANGED <<live, refs, foreign, clean, pc, pos, keyOf>>
    BY <1>8 DEF vars, objects, tools, aux
  <2>2. ASSUME NEW p \in Tools PROVE Matches(p, item(p))' = Matches(p, item(p))
    BY <2>1 DEF Matches, item
  <2> QED BY <2>1, <2>2, <1>s DEF Distinct, ToCreate
<1> QED BY <1>1, <1>2, <1>3, <1>4, <1>5, <1>6, <1>7, <1>8 DEF Next, Step, OtherStep

\* However often one command at a time fails, loses an answer and is run
\* again, it makes no second object of a name: of two that there are, one was
\* made, or made to refer elsewhere, by another client.  (Two commands at once
\* can make two.)
THEOREM NeverTwins ==
    ASSUME \A p, q \in Tools : p = q
    PROVE  Spec => []NoDuplicates
<1>1. LInv /\ Distinct /\ [Next]_vars => Distinct'
  BY NextDistinct
<1>2. Distinct => NoDuplicates
  BY DEF Distinct
<1> QED BY <1>1, <1>2, LookedHolds, InitDistinct, PTL DEF Spec

=============================================================================
