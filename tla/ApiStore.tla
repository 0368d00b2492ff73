------------------------------ MODULE ApiStore ------------------------------
(***************************************************************************)
(* The Turbine Labs API as tbnctl sees it: a remote store of objects that  *)
(* refer to each other by key.  The service is not part of this            *)
(* repository; what is written here is what the client code relies on:     *)
(*                                                                         *)
(*   - Create answers with an object under a key never used before;        *)
(*   - Modify and Delete carry the checksum of the version the caller      *)
(*     read and are refused when the object has changed or is gone;        *)
(*   - Index answers with the objects that match a filter.                 *)
(*                                                                         *)
(* Whether the service refuses a write that leaves a reference dangling is *)
(* not visible in this repository.  The store below never refuses one (a   *)
(* refusal is one more error of the call, and every call may fail), so     *)
(* that what is shown of the clients is shown of the clients alone.        *)
(***************************************************************************)
EXTENDS Naturals, ObjectKinds

CONSTANTS
    Key,      \* every object key that is or may come into use
    KindOf,   \* the type of the object a key names
    ZoneOf,   \* the zone an object lives in (a zone lives in itself)
    Graphs    \* the possible initial contents: records [live, refs]

\* An object's references are of the types its fields have and stay in its
\* zone: every object tbnctl creates is given the zone of what it refers to.
WellFormed(k, rs) ==
    \A r \in rs : KindOf[r] \in RefKinds[KindOf[k]] /\ ZoneOf[r] = ZoneOf[k]

IsGraph(g) ==
    /\ g.live \in SUBSET Key
    /\ g.refs \in [Key -> SUBSET Key]
    /\ \A k \in Key : WellFormed(k, g.refs[k])

ASSUME KeyAssumption ==
    /\ KindOf \in [Key -> Kinds]
    /\ ZoneOf \in [Key -> Key]
    /\ \A k \in Key : KindOf[ZoneOf[k]] = "zone"
    /\ \A k \in Key : KindOf[k] = "zone" => ZoneOf[k] = k

ASSUME GraphAssumption == \A g \in Graphs : IsGraph(g)

VARIABLES
    live,     \* the keys of the objects that exist
    refs,     \* what each object refers to
    sum       \* the checksum of each object, as a version number;
              \* 0 for a key that was never used

store == <<live, refs, sum>>

StoreTypeOK ==
    /\ live \in SUBSET Key
    /\ refs \in [Key -> SUBSET Key]
    /\ sum \in [Key -> Nat]

StoreInit ==
    /\ \E g \in Graphs : live = g.live /\ refs = g.refs
    /\ sum = [k \in Key |-> IF k \in live THEN 1 ELSE 0]

-----------------------------------------------------------------------------
\* The filters the clients use: by zone, and by a key field of the object.
InZone(kind, z)      == {o \in live : KindOf[o] = kind /\ ZoneOf[o] = z}
Referring(kind, k)   == {o \in live : KindOf[o] = kind /\ k \in refs[o]}
RefsOf(rs, kind)     == {r \in rs : KindOf[r] = kind}

\* A write is accepted when its checksum is that of the object's version.
Current(k, cs) == k \in live /\ sum[k] = cs

Create(k, rs) ==
    /\ sum[k] = 0
    /\ live' = live \union {k}
    /\ refs' = [refs EXCEPT ![k] = rs]
    /\ sum'  = [sum EXCEPT ![k] = 1]

Modify(k, rs) ==
    /\ refs' = [refs EXCEPT ![k] = rs]
    /\ sum'  = [sum EXCEPT ![k] = @ + 1]
    /\ UNCHANGED live

Delete(k) ==
    /\ live' = live \ {k}
    /\ UNCHANGED <<refs, sum>>

=============================================================================
