---------------------------- MODULE ZoneTransfer ----------------------------
(***************************************************************************)
(* `tbnctl export-zone` and `tbnctl import-zone` (zone_objects.go).        *)
(*                                                                         *)
(* An export lists the objects of a zone, one type per Index call, and     *)
(* writes them to a file in which names stand for keys.  The names come    *)
(* from maps filled by the earlier calls, so an object another client adds *)
(* in between can refer to something the maps do not have; its name is     *)
(* then blank.  An import creates a zone under a new name and the objects  *)
(* of the file in it, one call each, turning names back into keys.  Any    *)
(* call may fail, its answer may be lost, and nothing is undone: the user  *)
(* removes what an import left and runs it again.                          *)
(***************************************************************************)
EXTENDS ApiStore

CONSTANTS
    NameOf,     \* the name of a key's object: host:port for a domain, the
                \* path for a route
    Blank,      \* the name that stands for none
    Source,     \* the zone that is exported
    NewName,    \* the name it is imported under
    MaxEdits,   \* bound: how many writes the other clients perform
    Faults      \* calls may fail and answers be lost

ASSUME NameAssumption ==
    /\ DOMAIN NameOf = Key
    /\ \A k \in Key : NameOf[k] # Blank
    /\ Source \in Key /\ KindOf[Source] = "zone" /\ NameOf[Source] # NewName
    /\ \E z \in Key : KindOf[z] = "zone" /\ NameOf[z] = NewName

VARIABLES
    pc,         \* "idle"; the type whose Index call is next; "create"; "imported"
    zo,         \* the zoneObjects: collected, or still to be created
    known,      \* the objects in the keymaps
    file,       \* what the last export printed; {} before there is one
    zone        \* the zone the last import created

\* Auxiliary variables.
VARIABLES
    disturbed,  \* another client wrote since the export, or import, started
    edits       \* how many writes other clients performed

process == <<pc, zo, known, file, zone>>
vars    == <<store, process, disturbed, edits>>

Label(k) == <<KindOf[k], NameOf[k]>>

\* To begin with, no object refers to nothing or has no zone, and a zone has
\* no two objects of one name.
ASSUME ContentsAssumption ==
    \A g \in Graphs : \A k \in g.live :
        /\ ZoneOf[k] \in g.live /\ g.refs[k] \subseteq g.live
        /\ \A j \in g.live : ZoneOf[j] = ZoneOf[k] /\ Label(j) = Label(k) => j = k

\* (With the keys left in the file.)
Entry_Keys(k, map) == [kind |-> KindOf[k], name |-> NameOf[k], refs |-> refs[k]]

\* An object in the file, with names for the keys of the maps.
Entry(k, map) ==
    [ kind |-> KindOf[k], name |-> NameOf[k],
      refs |-> {<<KindOf[r], IF r \in map THEN NameOf[r] ELSE Blank>> : r \in refs[k]} ]

Exporting == {"cluster", "domain", "proxy", "shared_rules", "route"}
Labels  == Kinds \X ({NameOf[k] : k \in Key} \union {Blank})
Entries == [kind : Exporting, name : {NameOf[k] : k \in Key}, refs : SUBSET Labels]

TypeOK ==
    /\ StoreTypeOK
    /\ pc \in {"idle", "create", "imported"} \union Exporting
    /\ zo \subseteq Entries /\ file \subseteq Entries
    /\ known \in SUBSET Key
    /\ zone \in Key
    /\ disturbed \in BOOLEAN
    /\ edits \in Nat

Init ==
    /\ StoreInit
    /\ pc = "idle"
    /\ zo = {} /\ known = {} /\ file = {}
    /\ zone \in {z \in Key : KindOf[z] = "zone" /\ NameOf[z] = NewName}
    /\ disturbed = FALSE
    /\ edits = 0

Free == pc \in {"idle", "imported"}

Stop == pc' = "idle" /\ zo' = {} /\ known' = {}

-----------------------------------------------------------------------------
\* exportZone: the zone is looked up by name, or else by key.
ExportStart ==
    /\ Free
    /\ Source \in live
    /\ pc' = "cluster" /\ zo' = {} /\ known' = {}
    /\ disturbed' = FALSE
    /\ UNCHANGED <<store, file, zone, edits>>

\* (With the domains left to the end: the proxies' call comes first.)
After_ProxiesFirst == [ cluster |-> "proxy", proxy |-> "domain",
                        domain |-> "shared_rules", shared_rules |-> "route" ]

\* The next type, and whether its objects get into a keymap.
After  == [ cluster |-> "domain", domain |-> "proxy", proxy |-> "shared_rules",
            shared_rules |-> "route" ]
Mapped == {"cluster", "domain", "shared_rules"}

Collected(kind) == zo \union {Entry(k, known) : k \in InZone(kind, Source)}

ExportKind(kind) ==
    /\ pc = kind
    /\ zo' = Collected(kind)
    /\ known' = IF kind \in Mapped THEN known \union InZone(kind, Source) ELSE known
    /\ pc' = After[kind]
    /\ UNCHANGED <<store, file, zone, disturbed, edits>>

ExportRoutes ==
    /\ pc = "route"
    /\ file' = Collected("route")
    /\ Stop
    /\ UNCHANGED <<store, zone, disturbed, edits>>

-----------------------------------------------------------------------------
\* A write is answered, or it is not and the command fails.
Lost == Faults /\ Stop

\* importZone starts with the Create of the zone, which the API refuses while
\* there is one of that name (import_zone.go:30-31).
ImportZone(z) ==
    /\ Free /\ file # {}
    /\ KindOf[z] = "zone" /\ NameOf[z] = NewName
    /\ \A k \in live : Label(k) # Label(z)
    /\ Create(z, {})
    /\ zone' = z
    /\ disturbed' = FALSE
    /\ Lost \/ (pc' = "create" /\ zo' = file /\ known' = {})
    /\ UNCHANGED <<file, edits>>

\* (The shared rules before the clusters.)
Rank_RulesFirst == [ cluster |-> 2, domain |-> 2, proxy |-> 3, shared_rules |-> 1, route |-> 5 ]

\* Type by type.
Rank == [ cluster |-> 1, domain |-> 2, proxy |-> 3, shared_rules |-> 4, route |-> 5 ]

\* (Without taking the names of proxies back to keys.)
Keys_NotOfProxies(e) == {k \in known : Label(k) \in e.refs /\ e.kind # "proxy"}

\* What the maps make of an entry's names.  One they lack gives no key.
Keys(e) == {k \in known : Label(k) \in e.refs}

ImportObject(e, k) ==
    /\ pc = "create"
    /\ e \in zo
    /\ \A f \in zo : Rank[e.kind] <= Rank[f.kind]
    /\ Label(k) = <<e.kind, e.name>> /\ ZoneOf[k] = zone
    /\ Create(k, Keys(e))
    /\ \/ Lost
       \/ /\ zo' = zo \ {e}
          /\ known' = IF e.kind \in Mapped THEN known \union {k} ELSE known
          /\ UNCHANGED pc
    /\ UNCHANGED <<file, zone, disturbed, edits>>

Imported ==
    /\ pc = "create" /\ zo = {}
    /\ pc' = "imported" /\ known' = {}
    /\ UNCHANGED <<store, zo, file, zone, disturbed, edits>>

\* An error of any call; the zone is gone.
Fail ==
    /\ ~Free
    /\ Faults
    /\ Stop
    /\ UNCHANGED <<store, file, zone, disturbed, edits>>

-----------------------------------------------------------------------------
\* The other clients of the API.  They give no two objects of a zone one name
\* (two routes one domain and path), and refer to what there is.
Contents(k) ==
    {rs \in SUBSET {r \in live : WellFormed(k, {r}) /\ ZoneOf[r] = ZoneOf[k]} :
        KindOf[k] = "route" => /\ RefsOf(rs, "domain") # {}
                               /\ RefsOf(rs, "shared_rules") # {}}

Taken(k) == \E j \in live : Label(j) = Label(k) /\ ZoneOf[j] = ZoneOf[k]

Edited ==
    /\ edits < MaxEdits /\ edits' = edits + 1
    /\ disturbed' = TRUE
    /\ UNCHANGED process

OtherCreate(k) ==
    /\ KindOf[k] # "zone" /\ ZoneOf[k] \in live /\ ~Taken(k)
    /\ \E rs \in Contents(k) : Create(k, rs)
    /\ Edited

OtherModify(k) == k \in live /\ (\E rs \in Contents(k) : Modify(k, rs)) /\ Edited
OtherDelete(k) == k \in live /\ (\A j \in live : k \notin refs[j]) /\ Delete(k) /\ Edited

\* The user removes what a failed import left ("delete --deep").
CleanUp ==
    /\ Free
    /\ zone \in live
    /\ live' = {k \in live : ZoneOf[k] # zone}
    /\ pc' = "idle"
    /\ UNCHANGED <<refs, sum, zo, known, file, zone, disturbed, edits>>

Export == ExportStart \/ ExportRoutes \/ \E kind \in DOMAIN After : ExportKind(kind)

Import ==
    \/ \E z \in Key : ImportZone(z)
    \/ \E e \in zo, k \in Key : ImportObject(e, k)
    \/ Imported

Next ==
    \/ Export \/ Import \/ Fail \/ CleanUp
    \/ \E k \in Key : OtherCreate(k) \/ OtherModify(k) \/ OtherDelete(k)

Spec == Init /\ [][Next]_vars

-----------------------------------------------------------------------------
\* A zone by the names of its objects.
Described(z) == {Entry(k, Key) : k \in {o \in live : ZoneOf[o] = z /\ o # z}}

\* An export nobody disturbs writes down the whole zone, every reference by
\* the name of what it refers to: the maps are filled before they are used.
FileIsZone ==
    [][ExportRoutes /\ ~disturbed => file' = Described(Source)]_vars

\* Wherever an import stops, each object it has made has all the references
\* its entry names in the file: none was dropped because the object it names
\* was still to come.
NothingDropped ==
    pc \in {"create", "imported"} /\ ~disturbed =>
        \A k \in live : ZoneOf[k] = zone /\ k # zone =>
            \E e \in file :
                /\ e.kind = KindOf[k] /\ e.name = NameOf[k]
                /\ {Label(r) : r \in refs[k]} =
                     e.refs \intersect {<<f.kind, f.name>> : f \in file}

\* An import that succeeds has copied the zone, after however many attempts
\* that failed on the way and were cleaned up, or not.
RoundTrip ==
    pc = "imported" /\ edits = 0 => Described(zone) = Described(Source)

\* "Object keys are replaced with human-readable names, and referential
\* integrity is maintained" (export_zone.go:23-24): every name a reference
\* has is that of an object in the file.
ReferencesKept ==
    \A e \in file : e.refs \subseteq {<<f.kind, f.name>> : f \in file}
=============================================================================
