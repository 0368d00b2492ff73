------------------------- MODULE ZoneTransferProofs -------------------------
(***************************************************************************)
(* Theorems about export-zone and import-zone, for zones of any size, any  *)
(* faults and any number of writes of other clients.                       *)
(***************************************************************************)
EXTENDS ZoneTransfer, TLAPS

\* The processes' variables always have their types.
LEMMA EntryTyped ==
    ASSUME NEW k \in Key, KindOf[k] \in Exporting, refs \in [Key -> SUBSET Key],
           NEW map \in SUBSET Key
    PROVE  Entry(k, map) \in Entries
<1>1. \A r \in Key : KindOf[r] \in Kinds
  BY KeyAssumption
<1>2. {<<KindOf[r], IF r \in map THEN NameOf[r] ELSE Blank>> : r \in refs[k]} \subseteq Labels
  BY <1>1 DEF Labels
<1> QED BY <1>2 DEF Entry, Entries

LEMMA InitType == Init => TypeOK
<1> SUFFICES ASSUME Init PROVE TypeOK
  OBVIOUS
<1>1. StoreTypeOK
  BY GraphAssumption DEF Init, StoreInit, StoreTypeOK, IsGraph
<1> QED BY <1>1 DEF Init, TypeOK

\* What the store's operations keep.
LEMMA StoreTyped ==
    ASSUME StoreTypeOK, NEW k \in Key, NEW rs \in SUBSET Key,
           Create(k, rs) \/ Modify(k, rs) \/ Delete(k)
    PROVE  StoreTypeOK'
  BY DEF StoreTypeOK, Create, Modify, Delete

LEMMA NextType == TypeOK /\ [Next]_vars => TypeOK'
<1> SUFFICES ASSUME TypeOK, [Next]_vars PROVE TypeOK'
  OBVIOUS
<1> USE DEF TypeOK
<1>s. UNCHANGED store => StoreTypeOK'
  BY DEF store, StoreTypeOK
<1>c. ASSUME NEW kind \in Exporting PROVE Collected(kind) \subseteq Entries
  <2>1. \A k \in InZone(kind, Source) : Entry(k, known) \in Entries
    BY EntryTyped DEF InZone, StoreTypeOK
  <2> QED BY <2>1 DEF Collected
<1>1. ASSUME ExportStart PROVE TypeOK'
  BY <1>1, <1>s DEF ExportStart, Exporting
<1>2. ASSUME ExportRoutes PROVE TypeOK'
  <2>1. Collected("route") \subseteq Entries
    BY <1>c DEF Exporting
  <2> QED BY <1>2, <1>s, <2>1 DEF ExportRoutes, Stop
<1>3. ASSUME NEW kind \in DOMAIN After, ExportKind(kind) PROVE TypeOK'
  <2>1. kind \in Exporting /\ After[kind] \in Exporting
    BY DEF After, Exporting
  <2>2. Collected(kind) \subseteq Entries /\ InZone(kind, Source) \subseteq Key
    BY <1>c, <2>1 DEF InZone, StoreTypeOK
  <2> QED BY <1>3, <1>s, <2>1, <2>2 DEF ExportKind
<1>4. ASSUME NEW z \in Key, ImportZone(z) PROVE TypeOK'
  <2>1. StoreTypeOK'
    BY <1>4, StoreTyped DEF ImportZone
  <2> QED BY <1>4, <2>1 DEF ImportZone, Lost, Stop
<1>5. ASSUME NEW e \in zo, NEW k \in Key, ImportObject(e, k) PROVE TypeOK'
  <2>1. Keys(e) \in SUBSET Key
    BY DEF Keys
  <2>2. StoreTypeOK'
    BY <1>5, <2>1, StoreTyped DEF ImportObject
  <2> QED BY <1>5, <2>2 DEF ImportObject, Lost, Stop
<1>6. ASSUME Imported PROVE TypeOK'
  BY <1>6, <1>s DEF Imported
<1>7. ASSUME Fail PROVE TypeOK'
  BY <1>7, <1>s DEF Fail, Stop
<1>8. ASSUME CleanUp PROVE TypeOK'
  BY <1>8 DEF CleanUp, StoreTypeOK
<1>9. ASSUME NEW k \in Key, OtherCreate(k) \/ OtherModify(k) \/ OtherDelete(k)
      PROVE  TypeOK'
  <2>1. \A rs \in Contents(k) : rs \in SUBSET Key
    BY DEF Contents, StoreTypeOK
  <2>2. StoreTypeOK'
    BY <1>9, <2>1, StoreTyped DEF OtherCreate, OtherModify, OtherDelete
  <2>3. Edited
    BY <1>9 DEF OtherCreate, OtherModify, OtherDelete
  <2> QED BY <2>2, <2>3 DEF Edited, process
<1>10. CASE UNCHANGED vars
  BY <1>10, <1>s DEF vars, process
<1> QED BY <1>1, <1>2, <1>3, <1>4, <1>5, <1>6, <1>7, <1>8, <1>9, <1>10
        DEF Next, Export, Import

\* The objects and the file of an export or import always have their types.
THEOREM TypeCorrect == Spec => []TypeOK
  BY InitType, NextType, PTL DEF Spec

-----------------------------------------------------------------------------
\* The store keeps to its schema, an object's zone has been in use, and
\* nothing in the exported zone dangles.
Contained ==
    /\ \A k \in Key : WellFormed(k, refs[k])
    /\ \A k \in live : sum[k] > 0 /\ sum[ZoneOf[k]] > 0
    /\ \A k \in live : ZoneOf[k] = Source => refs[k] \subseteq live

\* An import is into another zone, and its maps have only objects of that.
Apart ==
    /\ KindOf[zone] = "zone" /\ zone # Source
    /\ pc = "create" => sum[zone] > 0 /\ \A k \in known : ZoneOf[k] = zone

\* What an entry refers to is of the types its fields have.
Filed == \A e \in zo \union file : \A l \in e.refs : l[1] \in RefKinds[e.kind]

LEMMA EntryFiled ==
    ASSUME TypeOK, Contained, NEW k \in Key, NEW map \in SUBSET Key
    PROVE  /\ Entry(k, map).kind = KindOf[k] /\ Entry(k, map).name = NameOf[k]
           /\ \A l \in Entry(k, map).refs : l[1] \in RefKinds[Entry(k, map).kind]
<1>1. \A r \in refs[k] : KindOf[r] \in RefKinds[KindOf[k]]
  BY DEF Contained, WellFormed
<1> QED BY <1>1 DEF Entry

LEMMA InitContained == Init => Contained /\ Apart /\ Filed
<1> SUFFICES ASSUME Init PROVE Contained /\ Apart /\ Filed
  OBVIOUS
<1>1. PICK g \in Graphs : live = g.live /\ refs = g.refs
  BY DEF Init, StoreInit
<1>2. /\ \A k \in Key : WellFormed(k, refs[k])
      /\ live \subseteq Key
  BY <1>1, GraphAssumption DEF IsGraph
<1>3. \A k \in live : ZoneOf[k] \in live /\ refs[k] \subseteq live
  BY <1>1, ContentsAssumption
<1>4. \A k \in live : sum[k] > 0 /\ sum[ZoneOf[k]] > 0
  <2>1. \A k \in live : sum[k] = 1
    BY <1>2 DEF Init, StoreInit
  <2> QED BY <1>3, <2>1
<1>5. Apart
  BY NameAssumption DEF Init, Apart
<1> QED BY <1>2, <1>3, <1>4, <1>5 DEF Contained, Filed, Init

LEMMA NextContained ==
    TypeOK /\ Contained /\ Apart /\ Filed /\ [Next]_vars => Contained' /\ Apart' /\ Filed'
<1> SUFFICES ASSUME TypeOK, Contained, Apart, Filed, [Next]_vars
             PROVE  Contained' /\ Apart' /\ Filed'
  OBVIOUS
<1> USE KeyAssumption DEF TypeOK
<1>t. TypeOK'
  BY NextType
<1>s. UNCHANGED store => Contained'
  BY DEF store, Contained
<1>c. ASSUME NEW kind \in Exporting, NEW e \in Collected(kind)
      PROVE  \A l \in e.refs : l[1] \in RefKinds[e.kind]
  <2>1. CASE e \in zo
    BY <2>1 DEF Filed
  <2>2. ASSUME NEW k \in InZone(kind, Source), e = Entry(k, known)
        PROVE  \A l \in e.refs : l[1] \in RefKinds[e.kind]
    <3>1. k \in Key
      BY DEF InZone, StoreTypeOK
    <3> QED BY <2>2, <3>1, EntryFiled
  <2> QED BY <2>1, <2>2 DEF Collected
\* A new object.
<1>n. ASSUME NEW k \in Key, NEW rs \in SUBSET Key, WellFormed(k, rs), Create(k, rs),
             ZoneOf[k] = Source => rs \subseteq live, ZoneOf[k] = k \/ sum[ZoneOf[k]] > 0
      PROVE  Contained' /\ \A j \in Key : sum[j] > 0 => sum'[j] > 0
  <2>0. ZoneOf \in [Key -> Key]
    OBVIOUS
  <2>1. /\ live' = live \union {k} /\ refs' = [refs EXCEPT ![k] = rs]
        /\ sum' = [sum EXCEPT ![k] = 1]
        /\ live \subseteq Key /\ refs \in [Key -> SUBSET Key] /\ sum \in [Key -> Nat]
    BY <1>n DEF Create, StoreTypeOK
  <2>2. \A j \in Key : sum[j] > 0 => sum'[j] > 0
    BY <2>1
  <2>3. \A j \in live' : sum'[j] > 0 /\ sum'[ZoneOf[j]] > 0
    <3>1. sum'[k] > 0 /\ sum'[ZoneOf[k]] > 0
      BY <1>n, <2>0, <2>1, <2>2
    <3>2. \A j \in live : sum[j] > 0 /\ sum[ZoneOf[j]] > 0 /\ ZoneOf[j] \in Key
      BY <2>0, <2>1 DEF Contained
    <3> QED BY <2>1, <2>2, <3>1, <3>2
  <2>4. \A j \in Key : WellFormed(j, refs'[j])
    BY <1>n, <2>1 DEF Contained, WellFormed
  <2>5. \A j \in live' : ZoneOf[j] = Source => refs'[j] \subseteq live'
    BY <1>n, <2>1 DEF Contained
  <2> QED BY <2>2, <2>3, <2>4, <2>5 DEF Contained
<1>1. ASSUME ExportStart PROVE Contained' /\ Apart' /\ Filed'
  BY <1>1, <1>s DEF ExportStart, Apart, Filed
<1>2. ASSUME ExportRoutes PROVE Contained' /\ Apart' /\ Filed'
  <2>1. UNCHANGED <<store, zone>> /\ file' = Collected("route") /\ zo' = {} /\ pc' = "idle"
    BY <1>2 DEF ExportRoutes, Stop
  <2>2. Filed'
    BY <1>c, <2>1 DEF Filed, Exporting
  <2> QED BY <1>s, <2>1, <2>2 DEF Apart
<1>3. ASSUME NEW kind \in DOMAIN After, ExportKind(kind) PROVE Contained' /\ Apart' /\ Filed'
  <2>0. kind \in Exporting /\ After[kind] # "create"
    BY DEF After, Exporting
  <2>1. UNCHANGED <<store, zone, file>> /\ zo' = Collected(kind) /\ pc' = After[kind]
    BY <1>3 DEF ExportKind
  <2>2. Filed'
    BY <1>c, <2>0, <2>1 DEF Filed
  <2> QED BY <1>s, <2>0, <2>1, <2>2 DEF Apart
<1>4. ASSUME NEW z \in Key, ImportZone(z) PROVE Contained' /\ Apart' /\ Filed'
  <2>1. /\ KindOf[z] = "zone" /\ NameOf[z] = NewName /\ Create(z, {})
        /\ zone' = z /\ UNCHANGED file
        /\ (pc' = "idle" /\ zo' = {}) \/ (pc' = "create" /\ zo' = file /\ known' = {})
    BY <1>4 DEF ImportZone, Lost, Stop
  <2>2. ZoneOf[z] = z /\ WellFormed(z, {}) /\ z # Source
    BY <2>1, NameAssumption DEF WellFormed
  <2>3. Contained'
    BY <1>n, <2>1, <2>2
  <2>4. sum'[z] = 1
    BY <2>1 DEF Create, StoreTypeOK
  <2>5. Apart'
    BY <2>1, <2>2, <2>4 DEF Apart
  <2> QED BY <2>1, <2>3, <2>5 DEF Filed
<1>5. ASSUME NEW e \in zo, NEW k \in Key, ImportObject(e, k)
      PROVE  Contained' /\ Apart' /\ Filed'
  <2>1. /\ pc = "create" /\ Label(k) = <<e.kind, e.name>> /\ ZoneOf[k] = zone
        /\ Create(k, Keys(e)) /\ UNCHANGED <<file, zone>> /\ zo' \subseteq zo
        /\ pc' # "create" \/ known' = known \/ known' = known \union {k}
    BY <1>5 DEF ImportObject, Lost, Stop
  <2>2. \A r \in Keys(e) : KindOf[r] \in RefKinds[KindOf[k]] /\ ZoneOf[r] = ZoneOf[k]
    <3>1. KindOf[k] = e.kind
      BY <2>1 DEF Label
    <3>2. \A r \in Keys(e) : r \in known /\ Label(r) \in e.refs /\ Label(r)[1] = KindOf[r]
      BY DEF Keys, Label
    <3>3. \A r \in Keys(e) : Label(r)[1] \in RefKinds[e.kind]
      BY <3>2 DEF Filed
    <3> QED BY <2>1, <3>1, <3>2, <3>3 DEF Apart
  <2>3. WellFormed(k, Keys(e)) /\ Keys(e) \in SUBSET Key
    BY <2>2 DEF WellFormed, Keys
  <2>4. ZoneOf[k] # Source /\ sum[ZoneOf[k]] > 0
    BY <2>1 DEF Apart
  <2>5. Contained' /\ \A j \in Key : sum[j] > 0 => sum'[j] > 0
    BY <1>n, <2>1, <2>3, <2>4
  <2>6. Apart'
    BY <2>1, <2>5 DEF Apart
  <2> QED BY <2>1, <2>5, <2>6 DEF Filed
<1>6. ASSUME Imported \/ Fail PROVE Contained' /\ Apart' /\ Filed'
  <2>1. UNCHANGED <<store, zone, file>> /\ zo' \subseteq zo /\ pc' # "create"
    BY <1>6 DEF Imported, Fail, Stop
  <2> QED BY <1>s, <2>1 DEF Apart, Filed
<1>7. ASSUME CleanUp PROVE Contained' /\ Apart' /\ Filed'
  <2>1. /\ live' = {k \in live : ZoneOf[k] # zone} /\ pc' = "idle"
        /\ UNCHANGED <<refs, sum, zo, file, zone>>
    BY <1>7 DEF CleanUp
  <2>2. \A k \in live' : ZoneOf[k] = Source => refs[k] \subseteq live'
    BY <2>1 DEF Contained, Apart, WellFormed, StoreTypeOK
  <2>3. Contained'
    BY <2>1, <2>2 DEF Contained
  <2> QED BY <2>1, <2>3 DEF Apart, Filed
<1>8. ASSUME NEW k \in Key, OtherCreate(k) \/ OtherModify(k) \/ OtherDelete(k)
      PROVE  Contained' /\ Apart' /\ Filed'
  <2>0. UNCHANGED <<pc, zo, known, file, zone>>
    BY <1>8 DEF OtherCreate, OtherModify, OtherDelete, Edited, process
  <2>c. ASSUME NEW rs \in Contents(k) PROVE rs \subseteq live /\ rs \in SUBSET Key /\ WellFormed(k, rs)
    BY DEF Contents, WellFormed, StoreTypeOK
  <2>g. SUFFICES Contained' /\ \A j \in Key : sum[j] > 0 => sum'[j] > 0
    BY <2>0, <2>g DEF Apart, Filed
  <2>1. CASE OtherCreate(k)
    <3>1. PICK rs \in Contents(k) : Create(k, rs)
      BY <2>1 DEF OtherCreate
    <3>2. ZoneOf[k] \in live
      BY <2>1 DEF OtherCreate
    <3>3. sum[ZoneOf[k]] > 0
      BY <3>2 DEF Contained
    <3> QED BY <1>n, <2>c, <3>1, <3>3
  <2>2. CASE OtherModify(k)
    <3>1. PICK rs \in Contents(k) : Modify(k, rs)
      BY <2>2 DEF OtherModify
    <3>2. /\ k \in live /\ live' = live /\ refs' = [refs EXCEPT ![k] = rs]
          /\ sum' = [sum EXCEPT ![k] = @ + 1]
          /\ live \subseteq Key /\ refs \in [Key -> SUBSET Key] /\ sum \in [Key -> Nat]
      BY <2>2, <3>1 DEF OtherModify, Modify, StoreTypeOK
    <3>3. \A j \in Key : sum[j] > 0 => sum'[j] > 0
      BY <3>2
    <3>4. \A j \in Key : WellFormed(j, refs'[j])
      BY <2>c, <3>2 DEF Contained, WellFormed
    <3>5. \A j \in live' : ZoneOf[j] = Source => refs'[j] \subseteq live'
      BY <2>c, <3>2 DEF Contained
    <3>6. \A j \in live' : sum'[j] > 0 /\ sum'[ZoneOf[j]] > 0
      BY <3>2, <3>3 DEF Contained
    <3> QED BY <3>3, <3>4, <3>5, <3>6 DEF Contained
  <2>3. CASE OtherDelete(k)
    <3>1. /\ live' = live \ {k} /\ UNCHANGED <<refs, sum>>
          /\ \A j \in live : k \notin refs[j]
      BY <2>3 DEF OtherDelete, Delete
    <3> QED BY <3>1 DEF Contained
  <2> QED BY <1>8, <2>1, <2>2, <2>3
<1>9. CASE UNCHANGED vars
  BY <1>9, <1>s DEF vars, process, Apart, Filed, store
<1> QED BY <1>1, <1>2, <1>3, <1>4, <1>5, <1>6, <1>7, <1>8, <1>9 DEF Next, Export, Import

-----------------------------------------------------------------------------
\* The types whose Index call an export has made before the one that is next.
Before(kind) ==
    CASE kind = "cluster"      -> {}
      [] kind = "domain"       -> {"cluster"}
      [] kind = "proxy"        -> {"cluster", "domain"}
      [] kind = "shared_rules" -> {"cluster", "domain", "proxy"}
      [] kind = "route"        -> {"cluster", "domain", "proxy", "shared_rules"}

Inside(kinds) == {k \in live : ZoneOf[k] = Source /\ KindOf[k] \in kinds}

\* An export nobody disturbs has, of the types it has listed, all objects,
\* and in the keymaps those that others refer to.
Collecting ==
    pc \in Exporting /\ ~disturbed =>
        /\ known = Inside(Before(pc) \intersect Mapped)
        /\ zo = {Entry(k, Key) : k \in Inside(Before(pc))}

\* What is listed next refers to nothing the maps lack.
LEMMA NothingBlank ==
    ASSUME TypeOK, Contained, NEW kind \in Exporting,
           known = Inside(Before(kind) \intersect Mapped),
           zo = {Entry(k, Key) : k \in Inside(Before(kind))}
    PROVE  Collected(kind) = {Entry(k, Key) : k \in Inside(Before(kind) \union {kind})}
<1> USE DEF TypeOK, StoreTypeOK
<1>1. RefKinds[kind] \subseteq Before(kind) \intersect Mapped
  BY DEF RefKinds, Before, Mapped, Exporting
<1>2. ASSUME NEW k \in InZone(kind, Source) PROVE Entry(k, known) = Entry(k, Key)
  <2>1. k \in live /\ k \in Key /\ KindOf[k] = kind /\ ZoneOf[k] = Source
    BY DEF InZone
  <2>2. ASSUME NEW r \in refs[k] PROVE r \in known /\ r \in Key
    <3>1. r \in live /\ ZoneOf[r] = Source /\ KindOf[r] \in RefKinds[kind]
      BY <2>1 DEF Contained, WellFormed
    <3> QED BY <1>1, <3>1 DEF Inside
  <2> QED BY <2>2 DEF Entry
<1>3. InZone(kind, Source) = Inside({kind})
  BY DEF InZone, Inside
<1>4. Inside(Before(kind) \union {kind}) = Inside(Before(kind)) \union Inside({kind})
  BY DEF Inside
<1>5. Collected(kind) = zo \union {Entry(k, Key) : k \in InZone(kind, Source)}
  BY <1>2 DEF Collected
<1> QED BY <1>3, <1>4, <1>5

LEMMA NextCollecting ==
    TypeOK /\ Contained /\ Apart /\ Collecting /\ [Next]_vars => Collecting'
<1> SUFFICES ASSUME TypeOK, Contained, Apart, Collecting, [Next]_vars PROVE Collecting'
  OBVIOUS
<1>1. ASSUME ExportStart PROVE Collecting'
  <2>1. pc' = "cluster" /\ zo' = {} /\ known' = {}
    BY <1>1 DEF ExportStart
  <2> QED BY <2>1 DEF Collecting, Inside, Before
<1>2. ASSUME NEW kind \in DOMAIN After, ExportKind(kind) PROVE Collecting'
  <2> SUFFICES ASSUME ~disturbed PROVE Collecting'
    BY <1>2 DEF ExportKind, Collecting
  <2>1. /\ kind \in Exporting
        /\ After[kind] \in Exporting /\ Before(After[kind]) = Before(kind) \union {kind}
    BY DEF After, Exporting, Before
  <2>2. /\ pc = kind /\ zo' = Collected(kind) /\ pc' = After[kind]
        /\ known' = IF kind \in Mapped THEN known \union InZone(kind, Source) ELSE known
        /\ UNCHANGED <<live, refs, disturbed>>
    BY <1>2 DEF ExportKind, store
  <2>3. /\ known = Inside(Before(kind) \intersect Mapped)
        /\ zo = {Entry(k, Key) : k \in Inside(Before(kind))}
    BY <2>1, <2>2 DEF Collecting
  <2>4. zo' = {Entry(k, Key) : k \in Inside(Before(After[kind]))}
    BY <2>1, <2>2, <2>3, NothingBlank
  <2>5. known' = Inside(Before(After[kind]) \intersect Mapped)
    BY <2>1, <2>2, <2>3 DEF Inside, InZone
  <2> QED BY <2>1, <2>2, <2>4, <2>5 DEF Collecting, Inside, Entry
<1>3. ASSUME pc' \notin Exporting PROVE Collecting'
  BY <1>3 DEF Collecting
<1>4. ASSUME NEW k \in Key, OtherCreate(k) \/ OtherModify(k) \/ OtherDelete(k)
      PROVE  Collecting'
  <2>1. disturbed' = TRUE
    BY <1>4 DEF OtherCreate, OtherModify, OtherDelete, Edited
  <2> QED BY <2>1 DEF Collecting
<1>5. CASE UNCHANGED vars
  BY <1>5 DEF vars, store, process, Collecting, Inside, Entry
<1> QED
  <2>1. ASSUME ExportRoutes \/ Fail \/ CleanUp \/ Imported PROVE pc' \notin Exporting
    BY <2>1 DEF ExportRoutes, Fail, CleanUp, Imported, Stop, Exporting
  <2>2. ASSUME NEW z \in Key, ImportZone(z) PROVE pc' \notin Exporting
    BY <2>2 DEF ImportZone, Lost, Stop, Exporting
  <2>3. ASSUME NEW e \in zo, NEW k \in Key, ImportObject(e, k) PROVE pc' \notin Exporting
    BY <2>3 DEF ImportObject, Lost, Stop, Exporting
  <2> QED BY <1>1, <1>2, <1>3, <1>4, <1>5, <2>1, <2>2, <2>3 DEF Next, Export, Import

\* The file of an export that nobody disturbed.
LEMMA ExportComplete ==
    ASSUME TypeOK, Contained, Collecting, ExportRoutes, ~disturbed
    PROVE  file' = Described(Source)
<1>1. pc = "route" /\ file' = Collected("route") /\ "route" \in Exporting
  BY DEF ExportRoutes, Exporting
<1>2. Collected("route") = {Entry(k, Key) : k \in Inside(Before("route") \union {"route"})}
  BY <1>1, NothingBlank DEF Collecting
<1>3. ASSUME NEW k \in live
      PROVE  ZoneOf[k] = Source /\ k # Source
                <=> ZoneOf[k] = Source /\ KindOf[k] \in Before("route") \union {"route"}
  <2>1. k \in Key /\ KindOf[k] \in Kinds /\ (KindOf[k] = "zone" => ZoneOf[k] = k)
        /\ KindOf[Source] = "zone"
    BY KeyAssumption, NameAssumption DEF TypeOK, StoreTypeOK
  <2> QED BY <2>1 DEF Before, Kinds
<1>4. Inside(Before("route") \union {"route"}) = {o \in live : ZoneOf[o] = Source /\ o # Source}
  BY <1>3 DEF Inside
<1> QED BY <1>1, <1>2, <1>4 DEF Described

-----------------------------------------------------------------------------
\* The objects an import has made, and the names in its file.
Made       == {k \in live : ZoneOf[k] = zone /\ k # zone}
FileLabels == {<<f.kind, f.name>> : f \in file}

\* An object is as an entry has it, as far as its references are in the file.
IsOf(k, e) ==
    /\ e.kind = KindOf[k] /\ e.name = NameOf[k]
    /\ {Label(r) : r \in refs[k]} = e.refs \intersect FileLabels

\* An import nobody disturbs has made the entries it is done with, and those
\* only, in the order of their types; its keymaps have all it may need.
Importing ==
    pc \in {"create", "imported"} /\ ~disturbed =>
        /\ zo \subseteq file
        /\ \A k \in Made : \E e \in file : IsOf(k, e)
        /\ \A e \in file \ zo : \E k \in Made : IsOf(k, e)
        /\ \A e \in file \ zo, f \in zo : Rank[e.kind] <= Rank[f.kind]
        /\ pc = "imported" => zo = {}
        /\ pc = "create" => \A k \in Made : KindOf[k] \in Mapped => k \in known
        /\ pc = "create" => known \subseteq Made

\* The object made of an entry: nothing it needs was still to come.
LEMMA ObjectMade ==
    ASSUME TypeOK, Contained, Apart, Filed, Importing, ~disturbed,
           NEW e \in zo, NEW k \in Key, ImportObject(e, k)
    PROVE  /\ e.kind = KindOf[k] /\ e.name = NameOf[k] /\ k # zone /\ k \notin live
           /\ {Label(r) : r \in Keys(e)} = e.refs \intersect FileLabels
<1>1. /\ pc = "create" /\ Label(k) = <<e.kind, e.name>> /\ sum[k] = 0
      /\ \A f \in zo : Rank[e.kind] <= Rank[f.kind]
  BY DEF ImportObject, Create
<1>2. e.kind = KindOf[k] /\ e.name = NameOf[k]
  BY <1>1 DEF Label
<1>3. e.kind \in Exporting /\ \A f \in file \union zo : f.kind \in Exporting
  BY DEF TypeOK, Entries
<1>4. k # zone /\ k \notin live
  BY <1>1, <1>2, <1>3 DEF Apart, Contained, Exporting
<1>5. ASSUME NEW r \in Keys(e) PROVE Label(r) \in e.refs \intersect FileLabels
  <2>1. r \in Made /\ Label(r) \in e.refs
    BY <1>1 DEF Keys, Importing
  <2>2. PICK f \in file : IsOf(r, f)
    BY <1>1, <2>1 DEF Importing
  <2> QED BY <2>1, <2>2 DEF IsOf, FileLabels, Label
<1>6. ASSUME NEW f \in file, <<f.kind, f.name>> \in e.refs
      PROVE  \E r \in Keys(e) : Label(r) = <<f.kind, f.name>>
  <2>1. f.kind \in RefKinds[e.kind]
    <3>1. <<f.kind, f.name>>[1] \in RefKinds[e.kind]
      BY <1>6 DEF Filed
    <3> QED BY <3>1
  <2>2. f.kind \in Mapped /\ ~(Rank[e.kind] <= Rank[f.kind])
    BY <1>3, <2>1 DEF RefKinds, Exporting, Mapped, Rank
  <2>3. f \in file \ zo
    BY <1>1, <2>2
  <2>4. PICK r \in Made : IsOf(r, f)
    BY <1>1, <2>3 DEF Importing
  <2>5. r \in known /\ Label(r) = <<f.kind, f.name>>
    BY <1>1, <2>2, <2>4 DEF Importing, IsOf, Label
  <2> QED BY <1>6, <2>5 DEF Keys
<1>7. {Label(r) : r \in Keys(e)} = e.refs \intersect FileLabels
  BY <1>5, <1>6 DEF FileLabels
<1> QED BY <1>2, <1>4, <1>7

LEMMA NextImporting ==
    TypeOK /\ Contained /\ Apart /\ Filed /\ Importing /\ [Next]_vars => Importing'
<1> SUFFICES ASSUME TypeOK, Contained, Apart, Filed, Importing, [Next]_vars PROVE Importing'
  OBVIOUS
<1> USE KeyAssumption DEF TypeOK, StoreTypeOK
<1>1. ASSUME NEW z \in Key, ImportZone(z) PROVE Importing'
  <2>1. /\ KindOf[z] = "zone" /\ sum[z] = 0 /\ live' = live \union {z} /\ zone' = z
        /\ (pc' = "idle") \/ (pc' = "create" /\ zo' = file /\ known' = {} /\ file' = file)
    BY <1>1 DEF ImportZone, Create, Lost, Stop
  <2>2. Made' = {}
    BY <2>1 DEF Made, Contained
  <2> QED BY <2>1, <2>2 DEF Importing
<1>2. ASSUME NEW e \in zo, NEW k \in Key, ImportObject(e, k) PROVE Importing'
  <2> SUFFICES ASSUME ~disturbed, pc' # "idle" PROVE Importing'
    BY <1>2 DEF ImportObject, Importing
  <2>1. /\ pc = "create" /\ pc' = "create" /\ zo' = zo \ {e}
        /\ known' = IF e.kind \in Mapped THEN known \union {k} ELSE known
        /\ ZoneOf[k] = zone /\ UNCHANGED <<file, zone, disturbed>>
        /\ live' = live \union {k} /\ refs' = [refs EXCEPT ![k] = Keys(e)]
        /\ \A f \in zo : Rank[e.kind] <= Rank[f.kind]
    BY <1>2 DEF ImportObject, Create, Lost, Stop
  <2>2. /\ e.kind = KindOf[k] /\ e.name = NameOf[k] /\ k # zone /\ k \notin live
        /\ {Label(r) : r \in Keys(e)} = e.refs \intersect FileLabels
    BY <1>2, ObjectMade
  <2>3. Made' = Made \union {k} /\ k \notin Made
    BY <2>1, <2>2 DEF Made
  <2>4. \A j \in Made, f \in file : IsOf(j, f) => IsOf(j, f)'
    <3>1. \A j \in Made : refs'[j] = refs[j]
      BY <2>1, <2>3 DEF Made
    <3> QED BY <2>1, <3>1 DEF IsOf, FileLabels, Label
  <2>5. IsOf(k, e)'
    <3>1. refs'[k] = Keys(e)
      BY <2>1
    <3> QED BY <2>1, <2>2, <3>1 DEF IsOf, FileLabels, Label
  <2>6. zo' \subseteq file' /\ file' \ zo' = (file \ zo) \union {e}
    BY <2>1 DEF Importing
  <2>7. \A j \in Made' : \E f \in file' : IsOf(j, f)'
    BY <2>1, <2>3, <2>4, <2>5, <2>6 DEF Importing
  <2>8. \A f \in file' \ zo' : \E j \in Made' : IsOf(j, f)'
    BY <2>1, <2>3, <2>4, <2>5, <2>6 DEF Importing
  <2>9. \A f \in file' \ zo', g \in zo' : Rank[f.kind] <= Rank[g.kind]
    BY <2>1, <2>6 DEF Importing
  <2>10. (\A j \in Made' : KindOf[j] \in Mapped => j \in known') /\ known' \subseteq Made'
    BY <2>1, <2>2, <2>3 DEF Importing
  <2> QED BY <2>1, <2>6, <2>7, <2>8, <2>9, <2>10 DEF Importing
<1>3. ASSUME Imported PROVE Importing'
  <2>1. /\ pc = "create" /\ zo = {} /\ pc' = "imported"
        /\ UNCHANGED <<live, refs, zo, file, zone, disturbed>>
    BY <1>3 DEF Imported, store
  <2> QED BY <2>1 DEF Importing, Made, IsOf, FileLabels, Label
<1>4. ASSUME NEW k \in Key, OtherCreate(k) \/ OtherModify(k) \/ OtherDelete(k)
      PROVE  Importing'
  <2>1. disturbed' = TRUE
    BY <1>4 DEF OtherCreate, OtherModify, OtherDelete, Edited
  <2> QED BY <2>1 DEF Importing
<1>5. ASSUME ExportStart \/ ExportRoutes \/ Fail \/ CleanUp PROVE Importing'
  BY <1>5 DEF ExportStart, ExportRoutes, Fail, CleanUp, Stop, Importing
<1>6. ASSUME NEW kind \in DOMAIN After, ExportKind(kind) PROVE Importing'
  BY <1>6 DEF ExportKind, After, Importing
<1>7. CASE UNCHANGED vars
  BY <1>7 DEF vars, store, process, Importing, Made, IsOf, FileLabels, Label
<1> QED BY <1>1, <1>2, <1>3, <1>4, <1>5, <1>6, <1>7 DEF Next, Export, Import

-----------------------------------------------------------------------------
\* While no other client writes, a file holds the exported zone as it is.
Exact ==
    edits = 0 =>
        /\ ~disturbed
        /\ file = {} \/ file = Described(Source)
        /\ pc \in {"create", "imported"} => file # {}

\* Imports and clean-ups leave the exported zone alone.
LEMMA SourceKept ==
    ASSUME TypeOK, Contained, Apart,
           \/ UNCHANGED store
           \/ CleanUp
           \/ \E z \in Key : ImportZone(z)
           \/ \E e \in zo, k \in Key : ImportObject(e, k)
    PROVE  Described(Source)' = Described(Source)
<1> USE KeyAssumption, NameAssumption DEF TypeOK, StoreTypeOK
<1>e. ASSUME {o \in live' : ZoneOf[o] = Source} = {o \in live : ZoneOf[o] = Source},
             \A o \in live : ZoneOf[o] = Source => refs'[o] = refs[o]
      PROVE  Described(Source)' = Described(Source)
  BY <1>e DEF Described, Entry
<1>1. CASE UNCHANGED store
  BY <1>1, <1>e DEF store
<1>2. CASE CleanUp
  BY <1>2, <1>e DEF CleanUp, Apart
<1>3. ASSUME NEW z \in Key, ImportZone(z) PROVE Described(Source)' = Described(Source)
  <2>1. /\ live' = live \union {z} /\ refs' = [refs EXCEPT ![z] = {}]
        /\ ZoneOf[z] = z /\ z # Source
    BY <1>3 DEF ImportZone, Create
  <2> QED BY <2>1, <1>e
<1>4. ASSUME NEW e \in zo, NEW k \in Key, ImportObject(e, k)
      PROVE  Described(Source)' = Described(Source)
  <2>1. /\ live' = live \union {k} /\ refs' = [refs EXCEPT ![k] = Keys(e)]
        /\ ZoneOf[k] = zone
    BY <1>4 DEF ImportObject, Create
  <2> QED BY <2>1, <1>e DEF Apart
<1> QED BY <1>1, <1>2, <1>3, <1>4

LEMMA NextExact ==
    TypeOK /\ Contained /\ Apart /\ Collecting /\ Exact /\ [Next]_vars => Exact'
<1> SUFFICES ASSUME TypeOK, Contained, Apart, Collecting, Exact, [Next]_vars PROVE Exact'
  OBVIOUS
<1>o. ASSUME NEW k \in Key, OtherCreate(k) \/ OtherModify(k) \/ OtherDelete(k) PROVE Exact'
  <2>1. edits' = edits + 1 /\ edits \in Nat
    BY <1>o DEF OtherCreate, OtherModify, OtherDelete, Edited, TypeOK
  <2> QED BY <2>1 DEF Exact
<1>1. ASSUME ExportRoutes PROVE Exact'
  <2>1. UNCHANGED <<edits, disturbed, store>> /\ pc' = "idle"
    BY <1>1 DEF ExportRoutes, Stop
  <2>2. Described(Source)' = Described(Source)
    BY <2>1, SourceKept
  <2>3. edits = 0 => file' = Described(Source)
    BY <1>1, ExportComplete DEF Exact
  <2> QED BY <2>1, <2>2, <2>3 DEF Exact
<1>2. ASSUME Described(Source)' = Described(Source), UNCHANGED <<edits, file>>,
             disturbed' \in {FALSE, disturbed},
             pc' \in {"create", "imported"} => file # {}
      PROVE  Exact'
  BY <1>2 DEF Exact
<1> QED
  <2>1. ASSUME ExportStart \/ Imported \/ Fail PROVE Exact'
    <3>1. /\ UNCHANGED <<store, edits, file>> /\ disturbed' \in {FALSE, disturbed}
          /\ pc' \in {"cluster", "idle"} \/ (pc = "create" /\ pc' = "imported")
      BY <2>1 DEF ExportStart, Imported, Fail, Stop
    <3> QED BY <3>1, SourceKept DEF Exact
  <2>2. ASSUME NEW kind \in DOMAIN After, ExportKind(kind) PROVE Exact'
    <3>1. UNCHANGED <<store, edits, file, disturbed>> /\ pc' \notin {"create", "imported"}
      BY <2>2 DEF ExportKind, After
    <3> QED BY <3>1, <1>2, SourceKept
  <2>3. ASSUME NEW z \in Key, ImportZone(z) PROVE Exact'
    <3>1. UNCHANGED <<edits, file>> /\ disturbed' = FALSE /\ file # {}
      BY <2>3 DEF ImportZone
    <3> QED BY <2>3, <3>1, <1>2, SourceKept
  <2>4. ASSUME NEW e \in zo, NEW k \in Key, ImportObject(e, k) PROVE Exact'
    <3>1. UNCHANGED <<edits, file, disturbed>> /\ pc = "create"
      BY <2>4 DEF ImportObject
    <3>2. Described(Source)' = Described(Source)
      BY <2>4, SourceKept
    <3> QED BY <3>1, <3>2 DEF Exact
  <2>5. ASSUME CleanUp PROVE Exact'
    <3>1. UNCHANGED <<edits, file, disturbed>> /\ pc' = "idle"
      BY <2>5 DEF CleanUp
    <3> QED BY <2>5, <3>1, <1>2, SourceKept
  <2>6. CASE UNCHANGED vars
    <3>1. UNCHANGED <<edits, file, disturbed, pc, store>>
      BY <2>6 DEF vars, process
    <3>2. Described(Source)' = Described(Source)
      BY <3>1, SourceKept
    <3> QED BY <3>1, <3>2 DEF Exact
  <2> QED BY <1>o, <1>1, <2>1, <2>2, <2>3, <2>4, <2>5, <2>6 DEF Next, Export, Import

-----------------------------------------------------------------------------
IInv == TypeOK /\ Contained /\ Apart /\ Filed /\ Collecting /\ Importing /\ Exact

LEMMA InvariantHolds == Spec => []IInv
<1>1. Init => IInv
  BY InitType, InitContained DEF Init, IInv, Collecting, Importing, Exact, Exporting
<1>2. IInv /\ [Next]_vars => IInv'
  BY NextType, NextContained, NextCollecting, NextImporting, NextExact DEF IInv
<1> QED BY <1>1, <1>2, PTL DEF Spec

\* An export nobody disturbs describes the zone, with every reference.
THEOREM FilesDescribe == Spec => FileIsZone
<1>1. IInv /\ [Next]_vars => [ExportRoutes /\ ~disturbed => file' = Described(Source)]_vars
  BY ExportComplete DEF IInv
<1> QED BY InvariantHolds, <1>1, PTL DEF Spec, FileIsZone

\* Wherever an import stops, what it has made is complete.
THEOREM ImportsDropNothing == Spec => []NothingDropped
<1>1. IInv => NothingDropped
  BY DEF IInv, Importing, Made, IsOf, FileLabels, NothingDropped
<1> QED BY InvariantHolds, <1>1, PTL

\* An import that succeeds has copied the zone.
THEOREM ImportsCopy == Spec => []RoundTrip
<1>1. ASSUME IInv, pc = "imported", edits = 0 PROVE Described(zone) = Described(Source)
  <2> USE KeyAssumption, NameAssumption DEF TypeOK, StoreTypeOK
  <2>1. /\ TypeOK /\ Contained /\ ~disturbed /\ file = Described(Source) /\ zo = {}
        /\ \A k \in Made : \E e \in file : IsOf(k, e)
        /\ \A e \in file : \E k \in Made : IsOf(k, e)
    BY <1>1 DEF IInv, Exact, Importing
  \* The file refers to nothing outside it.
  <2>2. ASSUME NEW e \in file PROVE e.refs \subseteq FileLabels
    <3>1. PICK k \in live : ZoneOf[k] = Source /\ e = Entry(k, Key)
      BY <2>1 DEF Described
    <3>2. ASSUME NEW r \in refs[k] PROVE Label(r) \in FileLabels
      <4>1. r \in live /\ ZoneOf[r] = Source /\ KindOf[r] \in RefKinds[KindOf[k]]
        BY <2>1, <3>1 DEF Contained, WellFormed
      <4>2. r # Source
        BY <2>1, <3>1, <4>1 DEF RefKinds, Kinds
      <4>3. Entry(r, Key) \in file
        BY <2>1, <4>1, <4>2 DEF Described
      <4>4. Entry(r, Key).kind = KindOf[r] /\ Entry(r, Key).name = NameOf[r]
        BY DEF Entry
      <4> QED BY <4>3, <4>4 DEF FileLabels, Label
    <3>3. e.refs = {Label(r) : r \in refs[k]}
      <4>1. refs[k] \subseteq Key
        BY <2>1, <3>1
      <4> QED BY <3>1, <4>1 DEF Entry, Label
    <3> QED BY <3>2, <3>3
  <2>3. ASSUME NEW k \in Made, NEW e \in file, IsOf(k, e) PROVE Entry(k, Key) = e
    <3>1. e.refs = {Label(r) : r \in refs[k]}
      BY <2>2, <2>3 DEF IsOf
    <3>2. {Label(r) : r \in refs[k]} = {<<KindOf[r], IF r \in Key THEN NameOf[r] ELSE Blank>> : r \in refs[k]}
      <4>1. refs[k] \subseteq Key
        BY <2>1 DEF Made
      <4> QED BY <4>1 DEF Label
    <3>3. e = [kind |-> e.kind, name |-> e.name, refs |-> e.refs]
      <4>1. PICK k0 \in Key : e = Entry(k0, Key)
        BY <2>1 DEF Described
      <4> QED BY <4>1 DEF Entry
    <3> QED BY <2>3, <3>1, <3>2, <3>3 DEF IsOf, Entry
  <2>4. Described(zone) = {Entry(k, Key) : k \in Made}
    BY DEF Described, Made
  <2>5. Described(zone) \subseteq file /\ file \subseteq Described(zone)
    BY <2>1, <2>3, <2>4
  <2> QED BY <2>1, <2>5
<1> QED BY InvariantHolds, <1>1, PTL DEF RoundTrip

=============================================================================
