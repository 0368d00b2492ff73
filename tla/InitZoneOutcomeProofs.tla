------------------------ MODULE InitZoneOutcomeProofs ------------------------
(***************************************************************************)
(* Theorems about what an init-zone that succeeds leaves behind, alone and *)
(* beside others, and about what running it again does.                    *)
(***************************************************************************)
EXTENDS InitZoneProofs

\* The zone's key is settled by the first item.
LEMMA ZoneKey ==
    ASSUME IInv, NEW p \in Tools, Running(p), NEW k \in Key, OfItem(p, k), Advance(p, k)
    PROVE  /\ ZoneOf[k] = keyOf'[p][Zone]
           /\ Past(p) # {} => Zone \in DOMAIN keyOf[p] /\ keyOf'[p][Zone] = keyOf[p][Zone]
<1> USE DEF IInv
<1>1. Past(p) = 1..(pos[p] - 1) /\ pos[p] \in 1..Len(Work) /\ Len(Work) \in Nat
  BY WorkShape DEF Past, Running, TypeOK
<1>2. CASE pos[p] = 1
  <2>1. Past(p) = {} /\ item(p).kind = "zone" /\ Id(item(p)) = Zone
    BY <1>1, <1>2, ZoneFirst
  <2>2. keyOf'[p][Zone] = k
    BY <2>1 DEF Advance, Remember, TypeOK
  <2> QED BY <2>1, <2>2, KeyAssumption DEF OfItem
<1>3. CASE pos[p] # 1
  <2>1. item(p).kind # "zone" /\ Id(item(p)) # Zone
    BY <1>3, ZoneFirst
  <2>2. 1 \in Past(p) /\ Work[1].kind = "zone"
    BY <1>1, <1>3, WorkShape
  <2>3. Zone \in DOMAIN keyOf[p]
    BY <2>2 DEF Filled, Running, IdsOf, Zone
  <2>4. keyOf'[p][Zone] = keyOf[p][Zone]
    BY <2>1, <2>3 DEF Advance, Remember, TypeOK
  <2> QED BY <2>1, <2>3, <2>4 DEF OfItem
<1> QED BY <1>2, <1>3

\* An object that is looked up and kept although --replace applies to it is a
\* domain with the aliases wanted, and needs nothing.
LEMMA KeptAsWanted ==
    ASSUME LInv, NEW p \in Tools, NEW k \in Matches(p, item(p)),
           ~Overwrite(p, item(p), k), replace[p], item(p).listed
    PROVE  val[k] = item(p).val /\ refs[k] = {} /\ item(p).uses = {}
<1>1. item(p).kind = "domain" /\ val[k] = item(p).val
  BY DEF Overwrite
<1>2. k \in live /\ KindOf[k] = "domain"
  BY <1>1 DEF Matches
<1>3. \A u \in item(p).uses : u[1] \in RefKinds["domain"]
  BY <1>1, ItemTyped, WorkShape DEF LInv, IInv
<1> QED BY <1>1, <1>2, <1>3 DEF RefKinds, LInv, OneDomain

-----------------------------------------------------------------------------
\* Commands with the same arguments: one may overwrite what another is past,
\* but with the same.
NamesOf(rs) == {<<KindOf[r], NameOf[r]>> : r \in rs}

InPlaceByName(p, i) ==
    \E k \in live :
        /\ KindOf[k] = Work[i].kind /\ NameOf[k] = Work[i].name
        /\ ZoneOf[k] = keyOf[p][Zone]
        /\ replace[p] /\ Work[i].listed =>
              val[k] = Work[i].val /\ NamesOf(refs[k]) = Work[i].uses

Together ==
    edits = 0 => \A p \in Tools : pc[p] # "idle" =>
        \A i \in Past(p) : InPlaceByName(p, i)

LEMMA StaysByName ==
    ASSUME LInv, ItemsAgree(Work), NEW p \in Tools, NEW i \in DOMAIN Work, InPlaceByName(p, i),
           keyOf'[p][Zone] = keyOf[p][Zone], replace'[p] = replace[p],
           UNCHANGED <<live, refs, val>>
             \/ \E q \in Tools : \E j \in Key : CreateObject(q, j) \/ ModifyObject(q, j)
    PROVE  InPlaceByName(p, i)'
<1> USE DEF LInv, IInv
<1>1. PICK k \in live :
        /\ KindOf[k] = Work[i].kind /\ NameOf[k] = Work[i].name
        /\ ZoneOf[k] = keyOf[p][Zone]
        /\ replace[p] /\ Work[i].listed =>
              val[k] = Work[i].val /\ NamesOf(refs[k]) = Work[i].uses
  BY DEF InPlaceByName
<1>2. k \in Key
  BY DEF TypeOK, StoreTypeOK
<1>3. CASE UNCHANGED <<live, refs, val>>
  BY <1>1, <1>3 DEF InPlaceByName, NamesOf
<1>4. ASSUME NEW q \in Tools, NEW j \in Key, j # k, CreateObject(q, j) \/ ModifyObject(q, j)
      PROVE  InPlaceByName(p, i)'
  <2>1. k \in live' /\ refs'[k] = refs[k] /\ val'[k] = val[k]
    BY <1>2, <1>4 DEF CreateObject, ModifyObject, Create, Modify, Written, TypeOK, StoreTypeOK
  <2> QED BY <1>1, <2>1 DEF InPlaceByName, NamesOf
<1>5. ASSUME NEW q \in Tools, CreateObject(q, k) PROVE FALSE
  BY <1>2, <1>5 DEF CreateObject, Create, Used
<1>6. ASSUME NEW q \in Tools, ModifyObject(q, k) PROVE InPlaceByName(p, i)'
  <2>1. /\ Running(q) /\ OfItem(q, k) /\ item(q).listed
        /\ k \in live' /\ refs'[k] = KeysFor(q, item(q)) /\ val'[k] = item(q).val
    BY <1>2, <1>6 DEF ModifyObject, Modify, Written, Found, Running, TypeOK, StoreTypeOK
  <2>2. k \in Matches(q, item(q))
    BY <1>6 DEF ModifyObject, Looked
  <2>3. NamesOf(KeysFor(q, item(q))) = item(q).uses
    BY <1>2, <2>1, WriteNamed DEF NamesOf
  <2>4. ASSUME replace[p], Work[i].listed
        PROVE  Work[i].val = item(q).val /\ Work[i].uses = item(q).uses
    <3>1. ASSUME item(q).kind = "route", NEW u \in item(q).uses, u[1] = "domain"
          PROVE  u \in Work[i].uses
      <4>1. keyOf[q][u] \in refs[k]
        BY <2>2, <3>1 DEF Matches
      <4>2. u \in DOMAIN keyOf[q] /\ u = <<u[1], u[2]>>
        BY <2>1, UsesKnown DEF TypeOK, Ids
      <4>3. <<KindOf[keyOf[q][u]], NameOf[keyOf[q][u]]>> = u
        BY <4>2 DEF Named
      <4> QED BY <1>1, <2>4, <4>1, <4>3 DEF NamesOf
    <3>2. SameObject(item(q), Work[i])
      BY <1>1, <2>1, <3>1 DEF SameObject, OfItem
    <3> QED BY <2>1, <2>4, <3>2, ItemTyped DEF ItemsAgree, item
  <2> QED BY <1>1, <2>1, <2>3, <2>4 DEF InPlaceByName
<1> QED BY <1>3, <1>4, <1>5, <1>6

LEMMA AdvanceByName ==
    ASSUME LInv, ItemsAgree(Work), NEW p \in Tools, Running(p), NEW k \in Key, OfItem(p, k),
           Advance(p, k), UNCHANGED replace, k \in live',
           replace[p] /\ item(p).listed =>
              val'[k] = item(p).val /\ NamesOf(refs'[k]) = item(p).uses,
           UNCHANGED <<live, refs, val>>
             \/ \E q \in Tools : \E j \in Key : CreateObject(q, j) \/ ModifyObject(q, j),
           \A i \in Past(p) : InPlaceByName(p, i)
    PROVE  \A i \in Past(p)' : InPlaceByName(p, i)'
<1> USE DEF LInv, IInv
<1>1. Past(p)' = Past(p) \union {pos[p]} /\ Past(p) \subseteq DOMAIN Work
  BY Advanced, WorkShape DEF Past, TypeOK
<1>2. ASSUME NEW i \in DOMAIN Work, i = pos[p] PROVE InPlaceByName(p, i)'
  BY <1>2, ZoneKey DEF InPlaceByName, item, OfItem
<1>3. ASSUME NEW i \in Past(p) PROVE InPlaceByName(p, i)'
  BY <1>1, ZoneKey, StaysByName
<1> QED BY <1>1, <1>2, <1>3, ItemTyped

LEMMA NextTogether ==
    ASSUME ItemsAgree(Work)
    PROVE  LInv /\ Together /\ [Next]_vars => Together'
<1> SUFFICES ASSUME LInv, Together, [Next]_vars, edits' = 0,
                    NEW p \in Tools, pc'[p] # "idle"
             PROVE  \A i \in Past(p)' : InPlaceByName(p, i)'
  BY DEF Together
<1> USE DEF LInv, IInv
<1>p. Past(p) \subseteq DOMAIN Work
  BY WorkShape DEF Past, TypeOK
<1>m. \A q \in Tools : Matches(q, item(q)) \subseteq Key
  BY DEF Matches, TypeOK, StoreTypeOK
<1>0. edits = 0 /\ \A k \in Key : ~OtherStep(k)
  <2>1. \A k \in Key : ~OtherStep(k)
    BY OtherFacts DEF Edited, TypeOK
  <2>2. edits' = edits
    BY <2>1 DEF Next, OtherStep, Step, Keep, WillModify, WillCreate, Fail, CreateObject, ModifyObject,
                Written, Start, vars, aux
  <2> QED BY <2>1, <2>2
<1>i. pc[p] # "idle" => \A i \in Past(p) : InPlaceByName(p, i)
  BY <1>0 DEF Together
\* A step of another command, or one that only looks.
<1>s. ASSUME pc[p] # "idle", Past(p)' = Past(p),
             keyOf'[p] = keyOf[p], replace'[p] = replace[p],
             UNCHANGED <<live, refs, val>>
               \/ \E q \in Tools : \E j \in Key : CreateObject(q, j) \/ ModifyObject(q, j)
      PROVE  \A i \in Past(p)' : InPlaceByName(p, i)'
  BY <1>i, <1>p, <1>s, StaysByName
<1>1. ASSUME NEW q \in Tools, Keep(q) PROVE \A i \in Past(p)' : InPlaceByName(p, i)'
  <2>1. PICK k \in Matches(q, item(q)) : ~Overwrite(q, item(q), k) /\ Advance(q, k)
    BY <1>1 DEF Keep
  <2>2. UNCHANGED <<live, refs, val, replace>> /\ Running(q) /\ k \in Key /\ OfItem(q, k) /\ k \in live
    BY <1>1, <1>m, MatchesOfItem DEF Keep, objects, Running
  <2>3. CASE q = p
    <3>1. replace[p] /\ item(p).listed =>
              val[k] = item(p).val /\ NamesOf(refs[k]) = item(p).uses
      BY <2>1, <2>3, KeptAsWanted DEF NamesOf
    <3>2. pc[p] # "idle"
      BY <2>2, <2>3 DEF Running
    <3> QED BY <1>i, <2>1, <2>2, <2>3, <3>1, <3>2, AdvanceByName
  <2>4. CASE q # p
    <3>1. pc[p] # "idle" /\ Past(p)' = Past(p) /\ keyOf'[p] = keyOf[p]
      BY <2>1, <2>2, <2>4, Advanced DEF Advance, Remember, TypeOK
    <3> QED BY <2>2, <3>1, <1>s
  <2> QED BY <2>3, <2>4
<1>2. ASSUME NEW q \in Tools, WillModify(q) \/ WillCreate(q)
      PROVE  \A i \in Past(p)' : InPlaceByName(p, i)'
  <2>1. UNCHANGED <<live, refs, val, replace, keyOf>>
    BY <1>2 DEF WillModify, WillCreate, objects
  <2>2. pc[p] # "idle" /\ Past(p)' = Past(p)
    BY <1>2 DEF WillModify, WillCreate, Past, TypeOK
  <2> QED BY <2>1, <2>2, <1>s
<1>3. ASSUME NEW q \in Tools, Fail(q) PROVE \A i \in Past(p)' : InPlaceByName(p, i)'
  <2>1. Stop(q) /\ UNCHANGED <<live, refs, val, replace>>
    BY <1>3 DEF Fail, objects
  <2>2. q # p /\ pc[p] # "idle" /\ Past(p)' = Past(p) /\ keyOf'[p] = keyOf[p]
    BY <2>1 DEF Stop, Past, TypeOK
  <2> QED BY <2>1, <2>2, <1>s
<1>4. ASSUME NEW q \in Tools, NEW k \in Key, CreateObject(q, k) \/ ModifyObject(q, k)
      PROVE  \A i \in Past(p)' : InPlaceByName(p, i)'
  <2>1. /\ Running(q) /\ OfItem(q, k) /\ UNCHANGED replace /\ (Advance(q, k) \/ Stop(q))
        /\ k \in live' /\ val'[k] = item(q).val /\ refs'[k] = KeysFor(q, item(q))
    BY <1>4, WriteFacts DEF Written, Answered, CreateObject, ModifyObject, Create, Modify,
                            Current, TypeOK, StoreTypeOK
  <2>2. NamesOf(KeysFor(q, item(q))) = item(q).uses
    BY <2>1, WriteNamed DEF NamesOf
  <2>3. CASE q = p
    <3>1. Advance(p, k) /\ pc[p] # "idle"
      BY <2>1, <2>3 DEF Stop, Running, TypeOK
    <3>2. NamesOf(refs'[k]) = item(p).uses
      BY <2>1, <2>2, <2>3
    <3> QED BY <1>4, <1>i, <2>1, <2>3, <3>1, <3>2, AdvanceByName
  <2>4. CASE q # p
    <3>1. Past(p)' = Past(p)
      BY <2>1, <2>4, Advanced
    <3>2. pc[p] # "idle" /\ keyOf'[p] = keyOf[p]
      BY <2>1, <2>4 DEF Advance, Remember, Stop, TypeOK
    <3> QED BY <1>4, <2>1, <3>1, <3>2, <1>s
  <2> QED BY <2>3, <2>4
<1>5. ASSUME NEW q \in Tools, NEW flag \in Replaces, Start(q, flag)
      PROVE  \A i \in Past(p)' : InPlaceByName(p, i)'
  <2>1. CASE q = p
    <3>1. pc'[p] = "look" /\ pos'[p] = 1
      BY <1>5, <2>1 DEF Start, TypeOK
    <3> QED BY <3>1 DEF Past
  <2>2. CASE q # p
    <3>1. /\ pc[p] # "idle" /\ Past(p)' = Past(p) /\ keyOf'[p] = keyOf[p]
          /\ replace'[p] = replace[p] /\ UNCHANGED <<live, refs, val>>
      BY <1>5, <2>2 DEF Start, objects, Past, TypeOK
    <3> QED BY <3>1, <1>s
  <2> QED BY <2>1, <2>2
<1>6. CASE UNCHANGED vars
  BY <1>6, <1>s DEF vars, objects, tools, Past
<1> QED BY <1>0, <1>1, <1>2, <1>3, <1>4, <1>5, <1>6 DEF Next, Step, OtherStep

\* However many commands with the same arguments run at once, and fail, and are
\* run again: what one that succeeds wanted is there.
THEOREM FulfilledBeside ==
    ASSUME ItemsAgree(Work)
    PROVE  Spec => []FulfilledTogether
<1>1. LInv /\ Together /\ [Next]_vars => Together'
  BY NextTogether
<1>2. Init => Together
  BY DEF Init, Together
<1>3. Together => FulfilledTogether
  BY DEF Together, FulfilledTogether, InPlaceByName, NamesOf, Past, Items
<1> QED BY <1>1, <1>2, <1>3, LookedHolds, PTL DEF Spec

-----------------------------------------------------------------------------
\* A command nobody interferes with: what it is past is in place, under the
\* keys in its maps.  Of two items about one object the later must not change
\* what the earlier says, nor find another object: each is on the list once, or
\* there is no second object of a name.
Of(km, it, k) ==
    /\ KindOf[k] = it.kind /\ NameOf[k] = it.name
    /\ it.kind # "zone" => ZoneOf[k] = km[Zone]
    /\ it.kind = "route" => \A u \in it.uses : u[1] = "domain" => km[u] \in refs[k]

AsWanted(km, it, k) == refs[k] = {km[u] : u \in it.uses} /\ val[k] = it.val

InPlace(km, it, full) ==
    \E k \in live : Of(km, it, k) /\ (full /\ it.listed => AsWanted(km, it, k))

KeysLive(km) == \A id \in DOMAIN km : km[id] \in live

Undisturbed ==
    \A p \in Tools : clean[p] /\ pc[p] # "idle" =>
        /\ pc[p] = "modify" => Current(found[p], foundSum[p])
        /\ KeysLive(keyOf[p])
        /\ \A i \in Past(p) : InPlace(keyOf[p], Work[i], replace[p])

EachOnce(list) == \A i, j \in DOMAIN list :
    /\ list[i].kind \notin {"route", "proxy"}
    /\ list[i].kind = list[j].kind /\ list[i].name = list[j].name
    => i = j

Alone == \A p, q \in Tools : p = q

LEMMA MatchesIsOf ==
    ASSUME NEW p, NEW it
    PROVE  Matches(p, it) = {k \in live : Of(keyOf[p], it, k)}
  BY DEF Matches, Of

\* What an item further up the list refers to is in the maps.
LEMMA PastUses ==
    ASSUME IInv, NEW p \in Tools, pc[p] # "idle", NEW i \in Past(p)
    PROVE  /\ i \in DOMAIN Work /\ Work[i].uses \subseteq DOMAIN keyOf[p]
           /\ Zone \in DOMAIN keyOf[p]
<1> USE DEF IInv
<1>1. i \in DOMAIN Work /\ Work[i] \in Items /\ i \in 1..Len(Work) /\ Len(Work) \in Nat
  BY WorkShape DEF Past, TypeOK, Items
<1>2. \A j \in 1..i : j \in Past(p)
  BY <1>1, WorkShape DEF Past, TypeOK
<1>3. DOMAIN keyOf[p] = IdsOf(Past(p))
  BY DEF Filled
<1>4. ASSUME NEW u \in Work[i].uses PROVE u \in DOMAIN keyOf[p]
  <2>1. PICK j \in 1..(i - 1) : u = <<Work[j].kind, Work[j].name>>
    BY <1>1, WorkShape
  <2>2. u[1] \in RefKinds[Work[i].kind] /\ Work[i].kind \in Kinds
    BY <1>1, WorkShape
  <2>3. u[1] \notin {"route", "proxy"}
    BY <2>2 DEF RefKinds, Kinds
  <2>4. j \in Past(p)
    BY <1>1, <1>2, <2>1
  <2> QED BY <1>3, <2>1, <2>3, <2>4 DEF IdsOf, Id
<1>5. Zone \in DOMAIN keyOf[p]
  <2>1. 1 \in Past(p) /\ Work[1].kind = "zone"
    BY <1>1, <1>2, WorkShape
  <2> QED BY <1>3, <2>1 DEF IdsOf, Zone
<1> QED BY <1>1, <1>4, <1>5

\* Two objects that an item's look-up would find are one, if there are no
\* second objects of a name.
LEMMA MatchUnique ==
    ASSUME LInv, Unique(live), NEW p \in Tools, Running(p),
           NEW j \in Matches(p, item(p)), NEW k \in Matches(p, item(p))
    PROVE  j = k
<1> USE DEF LInv, IInv
<1>1. /\ j \in live /\ k \in live /\ SameName(j, k)
      /\ KindOf[j] = item(p).kind /\ KindOf[k] = item(p).kind
  BY DEF Matches, SameName
<1>2. ASSUME item(p).kind = "route"
      PROVE  RefsOf(refs[j], "domain") = RefsOf(refs[k], "domain")
  <2>1. PICK d \in Key : /\ RefsOf(KeysFor(p, item(p)), "domain") = {d}
                         /\ KindOf[d] = "domain"
                         /\ \A u \in item(p).uses : u[1] = "domain" => keyOf[p][u] = d
    BY <1>2, DomainWritten
  <2>2. \E u \in item(p).uses : u[1] = "domain"
    BY <1>2, ItemTyped, WorkShape DEF IsSingleton
  <2>3. d \in RefsOf(refs[j], "domain") /\ d \in RefsOf(refs[k], "domain")
    BY <1>2, <2>1, <2>2 DEF Matches, RefsOf
  <2>4. IsSingleton(RefsOf(refs[j], "domain")) /\ IsSingleton(RefsOf(refs[k], "domain"))
    BY <1>1, <1>2 DEF OneDomain
  <2> QED BY <2>3, <2>4 DEF IsSingleton
<1> QED BY <1>1, <1>2 DEF Unique

\* Going on to the next item changes no key in the maps.
LEMMA KeysKept ==
    ASSUME LInv, NEW p \in Tools, Running(p), NEW k \in Key, OfItem(p, k), Advance(p, k),
           k \in live', \A id \in DOMAIN keyOf[p] : keyOf[p][id] \in live',
           EachOnce(Work) \/ Unique(live)'
    PROVE  /\ \A id \in DOMAIN keyOf[p] : id \in DOMAIN keyOf'[p] /\ keyOf'[p][id] = keyOf[p][id]
           /\ KeysLive(keyOf[p])'
<1> USE DEF LInv, IInv
<1> DEFINE me == Id(item(p))
<1>1. CASE item(p).kind \in {"route", "proxy"}
  BY <1>1 DEF Advance, Remember, KeysLive
<1>2. CASE item(p).kind \notin {"route", "proxy"}
  <2>1. /\ DOMAIN keyOf'[p] = DOMAIN keyOf[p] \union {me} /\ keyOf'[p][me] = k
        /\ \A id \in DOMAIN keyOf[p] : id # me => keyOf'[p][id] = keyOf[p][id]
    BY <1>2 DEF Advance, Remember, TypeOK
  <2>2. ASSUME me \in DOMAIN keyOf[p] PROVE keyOf[p][me] = k
    <3>1. CASE EachOnce(Work)
      <4>1. PICK i \in Past(p) : me = Id(Work[i]) /\ Work[i].kind \notin {"route", "proxy"}
        BY <2>2 DEF Filled, Running, IdsOf
      <4>2. i \in DOMAIN Work /\ pos[p] \in DOMAIN Work /\ i # pos[p]
        BY WorkShape DEF Past, Running, TypeOK
      <4> QED BY <3>1, <4>1, <4>2 DEF EachOnce, Id, item
    <3>2. CASE Unique(live)'
      <4>1. pos[p] # 1
        <5>1. DOMAIN keyOf[p] = IdsOf(1..(pos[p] - 1))
          BY DEF Filled, Running, Past
        <5>2. IdsOf({}) = {} /\ 1..(1 - 1) = {}
          BY DEF IdsOf
        <5> QED BY <2>2, <5>1, <5>2
      <4>2. /\ KindOf[keyOf[p][me]] = item(p).kind /\ NameOf[keyOf[p][me]] = item(p).name
            /\ ZoneOf[keyOf[p][me]] = keyOf[p][Zone]
        BY <2>2 DEF Named, Id
      <4>3. ZoneOf[k] = keyOf[p][Zone] /\ KindOf[k] = item(p).kind /\ NameOf[k] = item(p).name
        BY <4>1, ZoneFirst DEF OfItem
      <4>4. SameName(k, keyOf[p][me])
        BY <4>2, <4>3 DEF SameName
      <4> QED BY <1>2, <2>2, <3>2, <4>3, <4>4 DEF Unique
    <3> QED BY <3>1, <3>2
  <2> QED BY <2>1, <2>2 DEF KeysLive
<1> QED BY <1>1, <1>2

\* A write leaves the items a command is past in place: another object, or with
\* the same contents.  The keys are those of the command's maps, as far as it
\* has them.
LEMMA WriteKeeps ==
    ASSUME LInv, ItemsAgree(Work), NEW p \in Tools, NEW k \in Key,
           CreateObject(p, k) \/ ModifyObject(p, k),
           NEW i \in DOMAIN Work, NEW km, NEW full,
           \A u \in Work[i].uses : KindOf[km[u]] = u[1] /\ NameOf[km[u]] = u[2],
           \A id \in DOMAIN keyOf[p] : km[id] = keyOf[p][id],
           InPlace(km, Work[i], full)
    PROVE  InPlace(km, Work[i], full)'
<1> USE DEF LInv, IInv
<1>1. PICK w \in live : Of(km, Work[i], w) /\ (full /\ Work[i].listed => AsWanted(km, Work[i], w))
  BY DEF InPlace
<1>2. w \in Key /\ sum[w] > 0
  BY DEF TypeOK, StoreTypeOK, Used
<1>3. CASE w # k
  <2>1. w \in live' /\ refs'[w] = refs[w] /\ val'[w] = val[w]
    BY <1>2, <1>3 DEF CreateObject, ModifyObject, Create, Modify, Written, TypeOK, StoreTypeOK
  <2>2. Of(km, Work[i], w)' /\ (full /\ Work[i].listed => AsWanted(km, Work[i], w)')
    BY <1>1, <2>1 DEF Of, AsWanted
  <2> QED BY <2>1, <2>2 DEF InPlace
<1>4. CASE w = k
  <2>0. ModifyObject(p, k)
    BY <1>2, <1>4 DEF CreateObject, Create
  <2>1. /\ Running(p) /\ OfItem(p, k) /\ item(p).listed
        /\ k \in live' /\ refs'[k] = KeysFor(p, item(p)) /\ val'[k] = item(p).val
    BY <1>4, <2>0 DEF ModifyObject, Modify, Written, Found, Running, TypeOK, StoreTypeOK
  <2>2. k \in Matches(p, item(p))
    BY <2>0 DEF ModifyObject, Looked
  <2>3. /\ item(p).uses \subseteq DOMAIN keyOf[p]
        /\ \A u \in item(p).uses : km[u] = keyOf[p][u] /\ KindOf[km[u]] = u[1] /\ NameOf[km[u]] = u[2]
    BY <2>1, UsesKnown DEF Named
  <2>4. \A u \in item(p).uses \union Work[i].uses : u = <<u[1], u[2]>>
    BY ItemTyped, WorkShape DEF item
  <2>5. KindOf[k] = item(p).kind /\ KindOf[k] = Work[i].kind /\ NameOf[k] = item(p).name
        /\ NameOf[k] = Work[i].name /\ (Work[i].kind # "zone" => ZoneOf[k] = km[Zone])
    BY <1>1, <1>4, <2>1 DEF Of, OfItem
  <2>6. ASSUME Work[i].kind = "route", NEW u \in item(p).uses, NEW v \in Work[i].uses,
               u[1] = "domain", v[1] = "domain"
        PROVE  u = v
    <3>1. km[u] \in RefsOf(refs[k], "domain")
      BY <2>2, <2>3, <2>5, <2>6 DEF Matches, RefsOf
    <3>2. km[v] \in RefsOf(refs[k], "domain")
      BY <1>1, <1>4, <2>6 DEF Of, RefsOf
    <3>3. IsSingleton(RefsOf(refs[k], "domain"))
      BY <1>4, <2>5, <2>6 DEF OneDomain
    <3>4. km[u] = km[v]
      BY <3>1, <3>2, <3>3 DEF IsSingleton
    <3> QED BY <2>3, <2>4, <3>4
  <2>7. ASSUME Work[i].kind = "route"
        PROVE  /\ \E u \in item(p).uses : u[1] = "domain"
               /\ \E v \in Work[i].uses : v[1] = "domain"
    <3>1. \A it \in Items : it.kind = "route" => \E u \in it.uses : u[1] = "domain"
      BY WorkShape DEF IsSingleton
    <3>2. item(p) \in Items /\ Work[i] \in Items
      BY ItemTyped DEF Items
    <3> QED BY <2>5, <2>7, <3>1, <3>2
  <2>8. SameObject(item(p), Work[i])
    BY <2>5, <2>6, <2>7 DEF SameObject
  <2>9. Of(km, Work[i], k)'
    <3>1. ASSUME Work[i].kind = "route", NEW v \in Work[i].uses, v[1] = "domain"
          PROVE  km[v] \in refs'[k]
      BY <2>1, <2>3, <2>6, <2>7, <3>1 DEF KeysFor
    <3> QED BY <2>5, <3>1 DEF Of
  <2>10. ASSUME full, Work[i].listed PROVE AsWanted(km, Work[i], k)'
    <3>1. Work[i].uses = item(p).uses /\ Work[i].val = item(p).val
      BY <2>1, <2>8, <2>10, ItemTyped DEF ItemsAgree, item
    <3> QED BY <2>1, <2>3, <3>1 DEF AsWanted, KeysFor
  <2> QED BY <2>1, <2>9, <2>10 DEF InPlace
<1> QED BY <1>3, <1>4

\* Going on to the next item.
LEMMA AdvanceInPlace ==
    ASSUME LInv, ItemsAgree(Work), NEW p \in Tools, Running(p), NEW k \in Key, OfItem(p, k),
           Advance(p, k), UNCHANGED replace, k \in live', live \subseteq live',
           EachOnce(Work) \/ Unique(live)',
           item(p).kind = "route" =>
               \A u \in item(p).uses : u[1] = "domain" => keyOf[p][u] \in refs'[k],
           replace[p] /\ item(p).listed =>
               refs'[k] = KeysFor(p, item(p)) /\ val'[k] = item(p).val,
           UNCHANGED <<live, refs, val>> \/ CreateObject(p, k) \/ ModifyObject(p, k),
           KeysLive(keyOf[p]), \A i \in Past(p) : InPlace(keyOf[p], Work[i], replace[p])
    PROVE  /\ KeysLive(keyOf[p])'
           /\ \A i \in Past(p)' : InPlace(keyOf[p], Work[i], replace[p])'
<1> USE DEF LInv, IInv
<1>k. PICK km : km = keyOf[p]
  OBVIOUS
<1>n. PICK kn : kn = keyOf'[p]
  OBVIOUS
<1>f. PICK full : full = replace[p]
  OBVIOUS
<1>1. KeysLive(keyOf[p])' /\ \A id \in DOMAIN km : kn[id] = km[id]
  BY <1>k, <1>n, KeysKept DEF KeysLive
<1>2. Past(p)' = Past(p) \union {pos[p]} /\ pc[p] # "idle" /\ replace'[p] = full
  BY <1>f, Advanced DEF Running
<1>3. ASSUME NEW i \in Past(p) PROVE InPlace(kn, Work[i], full)'
  <2>1. i \in DOMAIN Work /\ Work[i].uses \subseteq DOMAIN km /\ Zone \in DOMAIN km
    BY <1>2, <1>k, PastUses
  <2>2. \A u \in Work[i].uses : KindOf[km[u]] = u[1] /\ NameOf[km[u]] = u[2]
    BY <1>k, <2>1 DEF Named
  <2>3. InPlace(km, Work[i], full)
    BY <1>k, <1>f, <1>3
  <2>4. InPlace(km, Work[i], full)'
    <3>1. CASE UNCHANGED <<live, refs, val>>
      BY <2>3, <3>1 DEF InPlace, Of, AsWanted
    <3>2. CASE CreateObject(p, k) \/ ModifyObject(p, k)
      BY <1>k, <2>1, <2>2, <2>3, <3>2, WriteKeeps
    <3> QED BY <3>1, <3>2
  <2>5. kn[Zone] = km[Zone] /\ \A u \in Work[i].uses : kn[u] = km[u]
    BY <1>1, <2>1
  <2>6. {kn[u] : u \in Work[i].uses} = {km[u] : u \in Work[i].uses}
    BY <2>5
  <2> QED BY <2>4, <2>5, <2>6 DEF InPlace, Of, AsWanted
<1>4. ASSUME NEW i \in DOMAIN Work, i = pos[p] PROVE InPlace(kn, Work[i], full)'
  <2>1. item(p) = Work[i] /\ Work[i].uses \subseteq DOMAIN km
    BY <1>k, <1>4, UsesKnown DEF item
  <2>2. \A u \in Work[i].uses : kn[u] = km[u]
    BY <1>1, <2>1
  <2>3. {kn[u] : u \in Work[i].uses} = KeysFor(p, item(p))
    BY <1>k, <2>1, <2>2 DEF KeysFor
  <2>4. Of(kn, Work[i], k)'
    BY <1>k, <1>n, <2>1, <2>2, ZoneKey DEF Of, OfItem
  <2>5. full /\ Work[i].listed => AsWanted(kn, Work[i], k)'
    BY <1>f, <2>1, <2>3 DEF AsWanted
  <2> QED BY <2>4, <2>5 DEF InPlace
<1>5. \A i \in Past(p)' : InPlace(kn, Work[i], full)'
  BY <1>2, <1>3, <1>4, ItemTyped
<1> QED BY <1>1, <1>2, <1>n, <1>5 DEF InPlace, Of, AsWanted

LEMMA NextUndisturbed ==
    ASSUME ItemsAgree(Work)
    PROVE  LInv /\ Undisturbed /\ [Next]_vars /\ (EachOnce(Work) \/ Unique(live)') => Undisturbed'
<1> SUFFICES ASSUME LInv, Undisturbed, [Next]_vars, EachOnce(Work) \/ Unique(live)',
                    NEW p \in Tools, clean'[p], pc'[p] # "idle"
             PROVE  /\ pc'[p] = "modify" => Current(found[p], foundSum[p])'
                    /\ KeysLive(keyOf[p])'
                    /\ \A i \in Past(p)' : InPlace(keyOf[p], Work[i], replace[p])'
  BY DEF Undisturbed
<1> USE DEF LInv, IInv
<1>m. \A q \in Tools : Matches(q, item(q)) \subseteq Key
  BY DEF Matches, TypeOK, StoreTypeOK
\* Nothing that matters to the command has changed.
<1>s. ASSUME clean[p], pc[p] # "idle", pc'[p] = "modify" => pc[p] = "modify",
             Past(p)' = Past(p), keyOf'[p] = keyOf[p], replace'[p] = replace[p],
             found'[p] = found[p], foundSum'[p] = foundSum[p],
             UNCHANGED objects
      PROVE  /\ pc'[p] = "modify" => Current(found[p], foundSum[p])'
             /\ KeysLive(keyOf[p])'
             /\ \A i \in Past(p)' : InPlace(keyOf[p], Work[i], replace[p])'
  <2>1. UNCHANGED <<live, refs, sum, val>>
    BY <1>s DEF objects
  <2>2. KeysLive(keyOf[p])'
    BY <1>s, <2>1 DEF Undisturbed, KeysLive
  <2>3. ASSUME NEW i \in Past(p) PROVE InPlace(keyOf[p], Work[i], replace[p])'
    <3>1. InPlace(keyOf[p], Work[i], replace[p])
      BY <1>s DEF Undisturbed
    <3> QED BY <1>s, <2>1, <3>1 DEF InPlace, Of, AsWanted
  <2>4. pc'[p] = "modify" => Current(found[p], foundSum[p])'
    BY <1>s, <2>1 DEF Undisturbed, Current
  <2> QED BY <1>s, <2>2, <2>3, <2>4
<1>1. ASSUME NEW q \in Tools, Keep(q)
      PROVE  /\ pc'[p] = "modify" => Current(found[p], foundSum[p])'
             /\ KeysLive(keyOf[p])'
             /\ \A i \in Past(p)' : InPlace(keyOf[p], Work[i], replace[p])'
  <2>1. PICK k \in Matches(q, item(q)) : ~Overwrite(q, item(q), k) /\ Advance(q, k)
    BY <1>1 DEF Keep
  <2>2. /\ UNCHANGED <<objects, live, refs, val, replace, found, foundSum, clean>>
        /\ Running(q) /\ k \in Key /\ OfItem(q, k) /\ k \in live
    BY <1>1, <1>m, MatchesOfItem DEF Keep, objects, Running
  <2>3. CASE q = p
    <3>1. clean[p] /\ pc[p] # "idle" /\ pc'[p] # "modify"
      BY <2>1, <2>2, <2>3 DEF Running, Advance, TypeOK
    <3>2. KeysLive(keyOf[p]) /\ \A i \in Past(p) : InPlace(keyOf[p], Work[i], replace[p])
      BY <3>1 DEF Undisturbed
    <3>3. replace[p] /\ item(p).listed => refs[k] = KeysFor(p, item(p)) /\ val[k] = item(p).val
      BY <2>1, <2>3, KeptAsWanted DEF KeysFor
    <3>4. item(p).kind = "route" =>
              \A u \in item(p).uses : u[1] = "domain" => keyOf[p][u] \in refs[k]
      BY <2>1, <2>3 DEF Matches
    <3> QED BY <2>1, <2>2, <2>3, <3>1, <3>2, <3>3, <3>4, AdvanceInPlace
  <2>4. CASE q # p
    <3>1. Past(p)' = Past(p) /\ keyOf'[p] = keyOf[p] /\ pc'[p] = pc[p]
      BY <2>1, <2>2, <2>4, Advanced DEF Advance, Remember, TypeOK
    <3> QED BY <2>2, <3>1, <1>s
  <2> QED BY <2>3, <2>4
<1>2. ASSUME NEW q \in Tools, WillModify(q)
      PROVE  /\ pc'[p] = "modify" => Current(found[p], foundSum[p])'
             /\ KeysLive(keyOf[p])'
             /\ \A i \in Past(p)' : InPlace(keyOf[p], Work[i], replace[p])'
  <2>1. UNCHANGED <<objects, keyOf, pos, replace, clean>> /\ pc' = [pc EXCEPT ![q] = "modify"] /\ pc[q] = "look"
    BY <1>2 DEF WillModify, aux
  <2>2. Past(p)' = Past(p) /\ clean[p] /\ pc[p] # "idle"
    BY <2>1 DEF Past, TypeOK
  <2>3. CASE q = p
    <3>1. PICK k \in Matches(p, item(p)) : found'[p] = k /\ foundSum'[p] = sum[k]
      BY <1>2, <2>3 DEF WillModify, TypeOK
    <3>2. Current(found[p], foundSum[p])'
      BY <2>1, <3>1 DEF Matches, Current, objects
    <3>3. UNCHANGED <<live, refs, sum, val>>
      BY <2>1 DEF objects
    <3>4. KeysLive(keyOf[p])'
      BY <2>1, <2>2, <3>3 DEF Undisturbed, KeysLive
    <3>5. ASSUME NEW i \in Past(p) PROVE InPlace(keyOf[p], Work[i], replace[p])'
      <4>1. InPlace(keyOf[p], Work[i], replace[p])
        BY <2>2 DEF Undisturbed
      <4> QED BY <2>1, <3>3, <4>1 DEF InPlace, Of, AsWanted
    <3> QED BY <2>2, <3>2, <3>4, <3>5
  <2>4. CASE q # p
    <3>1. found'[p] = found[p] /\ foundSum'[p] = foundSum[p] /\ pc'[p] = pc[p]
      BY <1>2, <2>1, <2>4 DEF WillModify, TypeOK
    <3> QED BY <2>1, <2>2, <3>1, <1>s
  <2> QED BY <2>3, <2>4
<1>3. ASSUME NEW q \in Tools, WillCreate(q)
      PROVE  /\ pc'[p] = "modify" => Current(found[p], foundSum[p])'
             /\ KeysLive(keyOf[p])'
             /\ \A i \in Past(p)' : InPlace(keyOf[p], Work[i], replace[p])'
  <2>1. /\ UNCHANGED <<objects, keyOf, pos, replace, clean, found, foundSum>>
        /\ pc' = [pc EXCEPT ![q] = "create"] /\ pc[q] = "look"
    BY <1>3 DEF WillCreate, aux
  <2>2. Past(p)' = Past(p) /\ clean[p] /\ pc[p] # "idle" /\ (pc'[p] = "modify" => pc[p] = "modify")
    BY <2>1 DEF Past, TypeOK
  <2> QED BY <2>1, <2>2, <1>s
<1>4. ASSUME NEW q \in Tools, Fail(q)
      PROVE  /\ pc'[p] = "modify" => Current(found[p], foundSum[p])'
             /\ KeysLive(keyOf[p])'
             /\ \A i \in Past(p)' : InPlace(keyOf[p], Work[i], replace[p])'
  <2>1. Stop(q) /\ Forget(q) /\ UNCHANGED <<objects, replace, clean>>
    BY <1>4 DEF Fail
  <2>2. /\ q # p /\ pc'[p] = pc[p] /\ Past(p)' = Past(p) /\ keyOf'[p] = keyOf[p]
        /\ found'[p] = found[p] /\ foundSum'[p] = foundSum[p]
    BY <2>1 DEF Stop, Forget, Past, TypeOK
  <2> QED BY <2>1, <2>2, <1>s
<1>5. ASSUME NEW q \in Tools, NEW k \in Key, CreateObject(q, k) \/ ModifyObject(q, k)
      PROVE  /\ pc'[p] = "modify" => Current(found[p], foundSum[p])'
             /\ KeysLive(keyOf[p])'
             /\ \A i \in Past(p)' : InPlace(keyOf[p], Work[i], replace[p])'
  <2>1. /\ Running(q) /\ OfItem(q, k) /\ UNCHANGED replace /\ (Advance(q, k) \/ Stop(q))
        /\ k \in live' /\ live \subseteq live'
        /\ val'[k] = item(q).val /\ refs'[k] = KeysFor(q, item(q))
    <3>1. Running(q) /\ OfItem(q, k) /\ Written(q, k) /\ refs'[k] = KeysFor(q, item(q))
      BY <1>5, WriteFacts DEF TypeOK, StoreTypeOK
    <3>2. k \in live' /\ live \subseteq live'
      BY <1>5 DEF CreateObject, ModifyObject, Create, Modify, Current
    <3> QED BY <3>1, <3>2 DEF Written, Answered, TypeOK
  <2>2. q = p /\ clean[p]
    <3>1. clean'[p] = (clean[p] /\ p = q)
      BY <1>5, WriteFacts DEF Written, Disturb
    <3> QED BY <3>1
  <2>3. Advance(p, k) /\ pc[p] # "idle" /\ pc'[p] # "modify"
    BY <2>1, <2>2 DEF Stop, Advance, Running, TypeOK
  <2>4. KeysLive(keyOf[p]) /\ \A i \in Past(p) : InPlace(keyOf[p], Work[i], replace[p])
    BY <2>2, <2>3 DEF Undisturbed
  <2>5. item(p).kind = "route" =>
            \A u \in item(p).uses : u[1] = "domain" => keyOf[p][u] \in refs'[k]
    BY <2>1, <2>2 DEF KeysFor
  <2> QED BY <1>5, <2>1, <2>2, <2>3, <2>4, <2>5, AdvanceInPlace
<1>6. ASSUME NEW q \in Tools, NEW flag \in Replaces, Start(q, flag)
      PROVE  /\ pc'[p] = "modify" => Current(found[p], foundSum[p])'
             /\ KeysLive(keyOf[p])'
             /\ \A i \in Past(p)' : InPlace(keyOf[p], Work[i], replace[p])'
  <2>1. CASE q = p
    <3>1. pc'[p] = "look" /\ pos'[p] = 1 /\ keyOf'[p] = NoKeys
      BY <1>6, <2>1 DEF Start, TypeOK
    <3> QED BY <3>1 DEF Past, NoKeys, KeysLive
  <2>2. CASE q # p
    <3>1. /\ clean'[p] = clean[p] /\ Past(p)' = Past(p) /\ keyOf'[p] = keyOf[p] /\ pc'[p] = pc[p]
          /\ replace'[p] = replace[p] /\ UNCHANGED <<objects, found, foundSum>>
      BY <1>6, <2>2 DEF Start, Past, TypeOK
    <3> QED BY <3>1, <1>s
  <2> QED BY <2>1, <2>2
<1>7. ASSUME NEW k \in Key, OtherStep(k) PROVE FALSE
  BY <1>7, OtherFacts DEF Edited
<1>8. CASE UNCHANGED vars
  BY <1>8, <1>s DEF vars, tools, aux, Past
<1> QED BY <1>1, <1>2, <1>3, <1>4, <1>5, <1>6, <1>7, <1>8 DEF Next, Step, OtherStep

\* A command takes no second object of a name away.
LEMMA UniqueBefore ==
    ASSUME LInv, [Next]_vars, Unique(live)', \A k \in Key : ~Edited(k)
    PROVE  Unique(live)
<1> USE DEF LInv, IInv
<1>1. CASE UNCHANGED objects
  BY <1>1 DEF objects, Unique, SameName
<1>2. ASSUME NEW p \in Tools, NEW k \in Key, CreateObject(p, k) PROVE Unique(live)
  <2>1. k \notin live /\ live' = live \union {k} /\ \A j \in live : refs'[j] = refs[j]
    BY <1>2 DEF CreateObject, Create, Used, TypeOK, StoreTypeOK
  <2> QED BY <2>1 DEF Unique, SameName
<1>3. ASSUME NEW p \in Tools, NEW k \in Key, ModifyObject(p, k) PROVE Unique(live)
  BY <1>3, ModifyKeepsDomain DEF Unique, SameName
<1>4. \A k \in Key : ~OtherStep(k)
  BY OtherFacts
<1> QED BY <1>1, <1>2, <1>3, <1>4 DEF Next, Step, OtherStep, Keep, WillModify, WillCreate,
                                      Fail, Start, vars

LEMMA NextUndisturbedIfUnique ==
    ASSUME ItemsAgree(Work)
    PROVE  /\ LInv /\ (Unique(live) => Undisturbed) /\ [Next]_vars
           => (Unique(live)' => Undisturbed')
<1> SUFFICES ASSUME LInv, Unique(live) => Undisturbed, [Next]_vars, Unique(live)'
             PROVE  Undisturbed'
  OBVIOUS
<1>1. CASE \E k \in Key : Edited(k)
  BY <1>1 DEF Edited, Undisturbed
<1>2. CASE \A k \in Key : ~Edited(k)
  BY <1>2, UniqueBefore, NextUndisturbed
<1> QED BY <1>1, <1>2

LEMMA UndisturbedFulfilled ==
    ASSUME LInv, Undisturbed
    PROVE  Fulfilled
<1> SUFFICES ASSUME NEW p \in Tools, pc[p] = "done", clean[p], NEW i \in DOMAIN Work
             PROVE  \E k \in Matches(p, Work[i]) :
                        replace[p] /\ Work[i].listed =>
                            refs[k] = KeysFor(p, Work[i]) /\ val[k] = Work[i].val
  BY DEF Fulfilled, Items
<1>1. InPlace(keyOf[p], Work[i], replace[p])
  BY DEF Undisturbed, Past
<1> QED BY <1>1, MatchesIsOf DEF InPlace, AsWanted, KeysFor

\* A command that succeeds, and that nobody interfered with, leaves every object
\* of its arguments in place, after any number of runs that failed, and beside
\* commands that only looked, if its list has each object once.
THEOREM FulfilledAlone ==
    ASSUME ItemsAgree(Work), EachOnce(Work)
    PROVE  Spec => []Fulfilled
<1>1. LInv /\ Undisturbed /\ [Next]_vars => Undisturbed'
  BY NextUndisturbed
<1>2. Init => Undisturbed
  BY DEF Init, Undisturbed
<1> QED BY <1>1, <1>2, UndisturbedFulfilled, LookedHolds, PTL DEF Spec

\* If an object is on the list more than once, as a cluster of two routes is,
\* the same is true where no two objects are of one name: of two, the command
\* could take one for the one item and the other for the other.
THEOREM FulfilledIfUnique ==
    ASSUME ItemsAgree(Work)
    PROVE  Spec => [](Unique(live) => Fulfilled)
<1> DEFINE I == Unique(live) => Undisturbed
<1>1. LInv /\ I /\ [Next]_vars => I'
  BY NextUndisturbedIfUnique
<1>2. Init => I
  BY DEF Init, Undisturbed
<1>3. LInv /\ I => (Unique(live) => Fulfilled)
  BY UndisturbedFulfilled
<1> QED BY <1>1, <1>2, <1>3, LookedHolds, PTL DEF Spec

-----------------------------------------------------------------------------
\* Running a command again, one at a time.  After one that succeeded, and as
\* long as no other client writes, there is a key for every object of the list;
\* the next command finds no others, if no two objects are of one name.
Mapped(km) ==
    /\ DOMAIN km = IdsOf(DOMAIN Work)
    /\ \A id \in DOMAIN km :
          /\ km[id] \in live
          /\ KindOf[km[id]] = id[1] /\ NameOf[km[id]] = id[2] /\ ZoneOf[km[id]] = km[Zone]

AllInPlace(km, full) == \A i \in DOMAIN Work : InPlace(km, Work[i], full)

Settles ==
    settled # "no" /\ Unique(live) =>
        /\ \A p \in Tools : Running(p) => clean[p]
        /\ \E km : Mapped(km) /\ AllInPlace(km, settled = "replaced")

LEMMA SameKeys ==
    ASSUME LInv, Unique(live), NEW p \in Tools, Running(p), KeysLive(keyOf[p]),
           NEW km, Mapped(km)
    PROVE  \A id \in DOMAIN keyOf[p] : id \in DOMAIN km /\ km[id] = keyOf[p][id]
<1> USE DEF LInv, IInv
<1>1. DOMAIN keyOf[p] = IdsOf(Past(p)) /\ pc[p] # "idle" /\ Past(p) \subseteq DOMAIN Work
  BY WorkShape DEF Filled, Running, Past, TypeOK
<1>2. DOMAIN keyOf[p] \subseteq DOMAIN km
  BY <1>1 DEF IdsOf, Mapped
<1> SUFFICES ASSUME NEW id \in DOMAIN keyOf[p] PROVE km[id] = keyOf[p][id]
  BY <1>2
<1>3. id[1] # "route" /\ \E i \in Past(p) : TRUE
  BY <1>1 DEF IdsOf, Id
<1>4. Zone \in DOMAIN keyOf[p] /\ Zone[1] = "zone"
  BY <1>1, <1>3, PastUses, WorkShape DEF Zone, Id
<1>5. ASSUME NEW o \in DOMAIN keyOf[p]
      PROVE  /\ keyOf[p][o] \in live /\ km[o] \in live
             /\ KindOf[km[o]] = o[1] /\ KindOf[keyOf[p][o]] = o[1]
             /\ NameOf[km[o]] = NameOf[keyOf[p][o]]
             /\ ZoneOf[km[o]] = km[Zone] /\ ZoneOf[keyOf[p][o]] = keyOf[p][Zone]
  BY <1>2 DEF KeysLive, Mapped, Named
<1>6. km[Zone] = keyOf[p][Zone]
  BY <1>4, <1>5 DEF Unique, SameName
<1> QED BY <1>3, <1>5, <1>6 DEF Unique, SameName

\* A write that comes after that overwrites with what is there, or, without a
\* run with --replace so far, what no such run has written.
LEMMA SettledWrite ==
    ASSUME LInv, Distinct, Unique(live), Undisturbed, ItemsAgree(Work),
           NEW p \in Tools, clean[p],
           NEW k \in Key, CreateObject(p, k) \/ ModifyObject(p, k),
           NEW km, NEW full, Mapped(km), AllInPlace(km, full)
    PROVE  /\ ModifyObject(p, k)
           /\ full => refs'[k] = refs[k] /\ val'[k] = val[k]
           /\ Mapped(km)' /\ AllInPlace(km, full)'
<1> USE DEF LInv, IInv
<1>1. /\ Running(p) /\ pc[p] # "idle" /\ OfItem(p, k) /\ refs'[k] = KeysFor(p, item(p))
      /\ val'[k] = item(p).val
  BY WriteFacts DEF Running, Written, TypeOK, StoreTypeOK
<1>2. \A id \in DOMAIN keyOf[p] : km[id] = keyOf[p][id]
  BY <1>1, SameKeys DEF Undisturbed
<1>3. item(p).uses \subseteq DOMAIN keyOf[p] /\ pos[p] \in DOMAIN Work /\ item(p) = Work[pos[p]]
  BY <1>1, UsesKnown, ItemTyped DEF item
<1>4. item(p).kind # "zone" => km[Zone] = keyOf[p][Zone]
  <2>1. ASSUME item(p).kind # "zone" PROVE Zone \in DOMAIN keyOf[p]
    <3>1. pos[p] # 1
      BY <2>1, ZoneFirst
    <3>2. 1 \in Past(p)
      BY <1>1, <3>1, WorkShape DEF Past, Running, TypeOK
    <3> QED BY <1>1, <3>2, PastUses
  <2> QED BY <1>2, <2>1
<1>5. PICK w \in live : Of(km, item(p), w) /\ (full /\ item(p).listed => AsWanted(km, item(p), w))
  BY <1>3 DEF AllInPlace, InPlace
<1>6. w \in Matches(p, item(p))
  BY <1>2, <1>3, <1>4, <1>5 DEF Matches, Of
<1>7. ModifyObject(p, k)
  BY <1>6 DEF CreateObject, Distinct, ToCreate
<1>8. w = k /\ item(p).listed
  <2>1. k \in Matches(p, item(p)) /\ item(p).listed
    BY <1>7 DEF ModifyObject, Looked, Found
  <2> QED BY <1>1, <1>6, <2>1, MatchUnique
<1>9. ASSUME full PROVE refs'[k] = refs[k] /\ val'[k] = val[k]
  <2>1. refs[k] = {km[u] : u \in item(p).uses} /\ val[k] = item(p).val
    BY <1>5, <1>8, <1>9 DEF AsWanted
  <2>2. {km[u] : u \in item(p).uses} = KeysFor(p, item(p))
    BY <1>2, <1>3 DEF KeysFor
  <2> QED BY <1>1, <2>1, <2>2
<1>10. Mapped(km)'
  BY <1>7 DEF ModifyObject, Modify, Mapped
<1>11. ASSUME NEW i \in DOMAIN Work PROVE InPlace(km, Work[i], full)'
  <2>1. ASSUME NEW u \in Work[i].uses PROVE u \in DOMAIN km
    <3>1. PICK j \in 1..(i - 1) : u = <<Work[j].kind, Work[j].name>>
      BY WorkShape
    <3>2. j \in DOMAIN Work
      BY <3>1, WorkShape
    <3>3. u[1] \in RefKinds[Work[i].kind] /\ Work[i].kind \in Kinds
      BY WorkShape DEF Items
    <3>4. u[1] \notin {"route", "proxy"}
      BY <3>3 DEF RefKinds, Kinds
    <3> QED BY <3>1, <3>2, <3>4 DEF Mapped, IdsOf, Id
  <2>2. \A u \in Work[i].uses : KindOf[km[u]] = u[1] /\ NameOf[km[u]] = u[2]
    BY <2>1 DEF Mapped
  <2> QED BY <1>2, <2>2, WriteKeeps DEF AllInPlace
<1> QED BY <1>7, <1>9, <1>10, <1>11 DEF AllInPlace

\* The end of a command that nobody disturbed.
LEMMA SettledByEnd ==
    ASSUME LInv', Undisturbed', NEW p \in Tools, clean'[p], pc'[p] = "done"
    PROVE  \E km : Mapped(km)' /\ AllInPlace(km, replace[p])'
<1>1. PICK km : km = keyOf'[p]
  OBVIOUS
<1>2. Past(p)' = DOMAIN Work
  BY DEF Past
<1>3. DOMAIN km = IdsOf(DOMAIN Work)
  BY <1>1, <1>2 DEF LInv, IInv, Filled
<1>4. Mapped(km)'
  BY <1>1, <1>3 DEF Mapped, Undisturbed, KeysLive, LInv, IInv, Named
<1>5. AllInPlace(km, replace[p])'
  BY <1>1, <1>2 DEF AllInPlace, Undisturbed, InPlace, Of, AsWanted
<1> QED BY <1>4, <1>5

LEMMA NextSettles ==
    ASSUME ItemsAgree(Work), Alone
    PROVE  LInv /\ Distinct /\ (Unique(live) => Undisturbed) /\ Settles /\ [Next]_vars => Settles'
<1> SUFFICES ASSUME LInv, Distinct, Unique(live) => Undisturbed, Settles, [Next]_vars,
                    settled' # "no", Unique(live)'
             PROVE  /\ \A p \in Tools : Running(p)' => clean'[p]
                    /\ \E km : Mapped(km)' /\ AllInPlace(km, settled = "replaced")'
  BY DEF Settles
<1> USE DEF LInv, IInv
<1>l. LInv'
  BY NextLInv
<1>6. ASSUME NEW k \in Key, Edited(k) PROVE FALSE
  BY <1>6 DEF Edited
<1>u. Unique(live) /\ Undisturbed /\ Undisturbed'
  BY <1>6, UniqueBefore, NextUndisturbed
<1>m. \A p \in Tools : Matches(p, item(p)) \subseteq Key
  BY DEF Matches, TypeOK, StoreTypeOK
<1>a. \A p, q \in Tools : p = q
  BY DEF Alone
\* What has been settled stays so.
<1>s. ASSUME settled' = settled,
             UNCHANGED objects
               \/ \E p \in Tools : \E k \in Key : CreateObject(p, k) \/ ModifyObject(p, k)
      PROVE  \E km : Mapped(km)' /\ AllInPlace(km, settled = "replaced")'
  <2>1. PICK km, full : Mapped(km) /\ AllInPlace(km, full) /\ full = (settled = "replaced")
    BY <1>s, <1>u DEF Settles
  <2>2. ASSUME UNCHANGED objects PROVE Mapped(km)' /\ AllInPlace(km, full)'
    <3>1. UNCHANGED <<live, refs, val>>
      BY <2>2 DEF objects
    <3> QED BY <2>1, <3>1 DEF Mapped, AllInPlace, InPlace, Of, AsWanted
  <2>3. ASSUME NEW p \in Tools, NEW k \in Key, CreateObject(p, k) \/ ModifyObject(p, k)
        PROVE  Mapped(km)' /\ AllInPlace(km, full)'
    <3>1. clean[p]
      BY <1>s, <1>u, <2>3, WriteFacts DEF Settles
    <3> QED BY <1>u, <2>1, <2>3, <3>1, SettledWrite
  <2>4. Mapped(km)' /\ AllInPlace(km, full)'
    BY <1>s, <2>2, <2>3
  <2> QED BY <1>s, <2>1, <2>4
\* The last item.
<1>e. ASSUME NEW p \in Tools, NEW k \in Key, Running(p), Advance(p, k), UNCHANGED replace,
             clean'[p] = clean[p],
             UNCHANGED objects \/ CreateObject(p, k) \/ ModifyObject(p, k)
      PROVE  /\ \A q \in Tools : Running(q)' => clean'[q]
             /\ \E km : Mapped(km)' /\ AllInPlace(km, settled = "replaced")'
  <2>1. CASE settled' = settled
    BY <1>a, <1>e, <1>s, <1>u, <2>1 DEF Settles
  <2>2. CASE settled' # settled
    <3>1. pc'[p] = "done" /\ clean[p] /\ settled' = Settled(p) /\ settled # "replaced"
      BY <1>e, <2>2 DEF Advance, Settled, TypeOK
    <3>2. (settled' = "replaced") = replace'[p]
      BY <1>e, <3>1 DEF Settled, TypeOK
    <3>3. \E km : Mapped(km)' /\ AllInPlace(km, replace[p])'
      BY <1>e, <1>l, <1>u, <3>1, SettledByEnd
    <3>4. \E km : Mapped(km)' /\ AllInPlace(km, settled = "replaced")'
      BY <3>2, <3>3
    <3> QED BY <1>a, <3>1, <3>4 DEF Running
  <2> QED BY <2>1, <2>2
\* The end of a command that failed.
<1>f. ASSUME NEW p \in Tools, Stop(p),
             UNCHANGED objects
               \/ \E k \in Key : CreateObject(p, k) \/ ModifyObject(p, k)
      PROVE  /\ \A q \in Tools : Running(q)' => clean'[q]
             /\ \E km : Mapped(km)' /\ AllInPlace(km, settled = "replaced")'
  <2>1. ~Running(p)' /\ settled' = settled
    BY <1>f DEF Stop, Running, TypeOK
  <2> QED BY <1>a, <1>f, <1>s, <2>1
<1>1. ASSUME NEW p \in Tools, Keep(p)
      PROVE  /\ \A q \in Tools : Running(q)' => clean'[q]
             /\ \E km : Mapped(km)' /\ AllInPlace(km, settled = "replaced")'
  BY <1>1, <1>e, <1>m DEF Keep, Running
<1>2. ASSUME NEW p \in Tools, WillModify(p) \/ WillCreate(p)
      PROVE  /\ \A q \in Tools : Running(q)' => clean'[q]
             /\ \E km : Mapped(km)' /\ AllInPlace(km, settled = "replaced")'
  <2>1. Running(p) /\ UNCHANGED objects /\ settled' = settled /\ clean' = clean
    BY <1>2 DEF WillModify, WillCreate, aux, Running
  <2> QED BY <1>a, <1>s, <1>u, <2>1 DEF Settles
<1>3. ASSUME NEW p \in Tools, Fail(p)
      PROVE  /\ \A q \in Tools : Running(q)' => clean'[q]
             /\ \E km : Mapped(km)' /\ AllInPlace(km, settled = "replaced")'
  BY <1>3, <1>f DEF Fail
<1>4. ASSUME NEW p \in Tools, NEW k \in Key, CreateObject(p, k) \/ ModifyObject(p, k)
      PROVE  /\ \A q \in Tools : Running(q)' => clean'[q]
             /\ \E km : Mapped(km)' /\ AllInPlace(km, settled = "replaced")'
  <2>1. /\ Running(p) /\ (Advance(p, k) \/ Stop(p)) /\ UNCHANGED replace
        /\ clean' = [q \in Tools |-> clean[q] /\ q = p]
    BY <1>4, WriteFacts DEF Written, Answered, Disturb
  <2>2. clean'[p] = clean[p]
    BY <2>1 DEF TypeOK
  <2> QED BY <1>4, <1>e, <1>f, <2>1, <2>2
<1>5. ASSUME NEW p \in Tools, NEW flag \in Replaces, Start(p, flag)
      PROVE  /\ \A q \in Tools : Running(q)' => clean'[q]
             /\ \E km : Mapped(km)' /\ AllInPlace(km, settled = "replaced")'
  <2>1. UNCHANGED objects /\ settled' = settled
    BY <1>5 DEF Start
  <2>2. clean'[p]
    BY <1>5, <1>a DEF Start, TypeOK
  <2> QED BY <1>a, <1>s, <2>1, <2>2
<1>7. CASE UNCHANGED vars
  <2>1. UNCHANGED objects /\ settled' = settled /\ clean' = clean /\ pc' = pc
    BY <1>7 DEF vars, aux, tools
  <2> QED BY <1>s, <1>u, <2>1 DEF Settles, Running
<1> QED BY <1>1, <1>2, <1>3, <1>4, <1>5, <1>6, <1>7, OtherFacts DEF Next, Step, OtherStep

\* A command that succeeded and is run again changes nothing, until another
\* client writes or the first run with --replace after runs without it, as long
\* as no two objects are of one name.
THEOREM AgainIsNoop ==
    ASSUME ItemsAgree(Work), Alone
    PROVE  Spec => RunAgainIsNoop
<1> DEFINE S == LInv /\ Distinct /\ (Unique(live) => Undisturbed) /\ Settles
<1>1. LInv /\ Distinct /\ [Next]_vars => Distinct'
  BY NextDistinct DEF Alone
<1>2. S /\ [Next]_vars => (Unique(live) => Undisturbed)'
  BY NextUndisturbedIfUnique
<1>3. S /\ [Next]_vars => Settles'
  BY NextSettles
<1>4. Init => Distinct /\ (Unique(live) => Undisturbed) /\ Settles
  BY InitDistinct DEF Init, Undisturbed, Settles
<1>5. ASSUME S, Next, edits' = edits, Unique(live),
             \/ settled = "replaced"
             \/ settled = "kept" /\ \A p \in Tools : ~replace[p]
      PROVE  live' = live /\ \A k \in Key : Contents(k)' = Contents(k)
  <2> USE DEF LInv, IInv
  <2>1. CASE UNCHANGED objects
    BY <2>1 DEF objects, Contents
  <2>2. ASSUME NEW p \in Tools, NEW j \in Key, CreateObject(p, j) \/ ModifyObject(p, j)
        PROVE  live' = live /\ \A k \in Key : Contents(k)' = Contents(k)
    <3>1. PICK km, full : Mapped(km) /\ AllInPlace(km, full) /\ full = (settled = "replaced")
      BY <1>5 DEF Settles
    <3>2. clean[p]
      BY <1>5, <2>2, WriteFacts DEF Settles
    <3>3. ModifyObject(p, j) /\ (full => refs'[j] = refs[j] /\ val'[j] = val[j])
      BY <1>5, <2>2, <3>1, <3>2, SettledWrite
    <3>4. replace[p]
      BY <1>5, <3>3 DEF ModifyObject, Found
    <3>5. full
      BY <1>5, <3>1, <3>4
    <3> QED BY <1>5, <3>3, <3>5 DEF ModifyObject, Modify, Written, Contents, TypeOK, StoreTypeOK
  <2>3. ASSUME NEW j \in Key, OtherStep(j) PROVE FALSE
    BY <1>5, <2>3, OtherFacts DEF Edited, TypeOK
  <2>4. ASSUME NEW p \in Tools, Step(p)
        PROVE  UNCHANGED objects \/ \E j \in Key : CreateObject(p, j) \/ ModifyObject(p, j)
    BY <2>4 DEF Step, Keep, WillModify, WillCreate, Fail
  <2>5. ASSUME NEW p \in Tools, NEW flag \in Replaces, Start(p, flag) PROVE UNCHANGED objects
    BY <2>5 DEF Start
  <2> QED BY <1>5, <2>1, <2>2, <2>3, <2>4, <2>5 DEF Next, OtherStep
<1>6. S /\ [Next]_vars =>
        [/\ edits' = edits /\ Unique(live)
         /\ \/ settled = "replaced"
            \/ settled = "kept" /\ \A p \in Tools : ~replace[p]
         => live' = live /\ \A k \in Key : Contents(k)' = Contents(k)]_vars
  BY <1>5
<1> QED BY <1>1, <1>2, <1>3, <1>4, <1>6, LookedHolds, PTL DEF Spec, RunAgainIsNoop

=============================================================================
