--------------------------- MODULE ObjectCommands ---------------------------
(***************************************************************************)
(* `tbnctl get`, `create`, `edit` and `list --format` (get.go, create.go,  *)
(* edit.go, list.go and editOrStdin in common.go), run by several users at *)
(* once, on objects of one type.                                           *)
(*                                                                         *)
(* An edit writes back a text: one a user changed in the editor, with the  *)
(* key and the checksum it was opened with, or one piped in, which may be  *)
(* as old as the `get` that printed it.  The key named on the command line *)
(* only says what the editor opens; what is modified is the text's.  A     *)
(* write may be refused, or be made and its answer lost, and a user who    *)
(* got no answer may send the same text again.                             *)
(*                                                                         *)
(* A formatted listing, of objects that refer to these, fetches an object  *)
(* when the first row that refers to it is written, and keeps it in a      *)
(* cache for the rows that follow (the mkGet functions of the adapters).   *)
(***************************************************************************)
EXTENDS Naturals, Sequences

CONSTANTS
    Key,        \* every object key that is or may come into use
    Initial,    \* the objects at the start
    Users,
    NoKey,      \* no key
    Rows,       \* what the objects listed refer to, in the listing's order
    MaxTexts,   \* bound: how many texts the users write
    MaxLost     \* bound: how many answers are lost

ASSUME CommandAssumption ==
    /\ Initial \subseteq Key /\ NoKey \notin Key
    /\ Rows \in Seq(Initial)
    /\ MaxTexts \in Nat /\ MaxLost \in Nat

VARIABLES
    live,       \* the objects that exist
    sum,        \* their checksums, as version numbers; 0: never used
    val,        \* the text each was last written with; 0: not by these users
    pc,         \* of each user's command: "idle", "read", "create", "modify",
                \* "list"
    named,      \* the key on its command line
    dest,       \* the object it is to write
    file,       \* the text the user has in a file; NoText before there is one
    cache,      \* the versions a listing has fetched; 0: not fetched
    rows        \* the versions shown in the rows it has written

\* Auxiliary variables.
VARIABLES
    texts,      \* how many texts were written
    basis,      \* of each, the object and contents its author saw
    modified,   \* how often an edit with each took effect
    lost        \* how many answers were lost

objects == <<live, sum, val>>
command == <<pc, named, dest, cache, rows>>
aux     == <<texts, basis, modified, lost>>
vars    == <<objects, command, file, aux>>

Text == 1..MaxTexts

\* A text is an object under way: its key, its checksum and its contents.
Texts  == [key : Key \union {NoKey}, cs : Nat, new : 0..MaxTexts]
NoText == [key |-> NoKey, cs |-> 0, new |-> 0]

\* A cache with nothing in it, as mkGet makes it.
None == [k \in Key |-> 0]

Bases == [key : Key \union {NoKey}, val : 0..MaxTexts]

TypeOK ==
    /\ live \in SUBSET Key
    /\ sum \in [Key -> Nat]
    /\ val \in [Key -> 0..MaxTexts]
    /\ pc \in [Users -> {"idle", "read", "create", "modify", "list"}]
    /\ named \in [Users -> Key \union {NoKey}]
    /\ dest \in [Users -> Texts] /\ file \in [Users -> Texts]
    /\ cache \in [Users -> [Key -> Nat]]
    /\ rows \in [Users -> Seq(Nat)]
    /\ texts \in 0..MaxTexts
    /\ basis \in [1..texts -> Bases]
    /\ modified \in [Text -> Nat]
    /\ lost \in 0..MaxLost

Init ==
    /\ live = Initial
    /\ sum = [k \in Key |-> IF k \in Initial THEN 1 ELSE 0]
    /\ val = [k \in Key |-> 0]
    /\ pc = [u \in Users |-> "idle"]
    /\ named = [u \in Users |-> NoKey]
    /\ dest = [u \in Users |-> NoText] /\ file = [u \in Users |-> NoText]
    /\ cache = [u \in Users |-> None]
    /\ rows = [u \in Users |-> <<>>]
    /\ texts = 0 /\ lost = 0
    /\ basis = <<>>
    /\ modified = [t \in Text |-> 0]

-----------------------------------------------------------------------------
\* (Without the key in the text.)
Typed_NoKey(k) == [cs |-> sum[k], new |-> texts + 1]

\* What a user types on seeing object k: its key and checksum stay.
Typed(k) == [key |-> k, cs |-> sum[k], new |-> texts + 1]

\* A text is written, by somebody who is looking at k.
MayType(k) ==
    /\ texts < MaxTexts /\ texts' = texts + 1
    /\ basis' = Append(basis, [key |-> k, val |-> IF k = NoKey THEN 0 ELSE val[k]])

\* A command ends; what it had in memory is gone.
Return(u) ==
    /\ pc' = [pc EXCEPT ![u] = "idle"]
    /\ named' = [named EXCEPT ![u] = NoKey]
    /\ dest' = [dest EXCEPT ![u] = NoText]
    /\ cache' = [cache EXCEPT ![u] = None]
    /\ rows' = [rows EXCEPT ![u] = <<>>]

\* `get`, into a file that the user then changes.
Get(u, k) ==
    /\ pc[u] = "idle" /\ k \in live
    /\ MayType(k)
    /\ file' = [file EXCEPT ![u] = Typed(k)]
    /\ UNCHANGED <<objects, command, modified, lost>>

Begin(u, where) == pc[u] = "idle" /\ pc' = [pc EXCEPT ![u] = where]

\* updateKeyed, then editOrStdin: the text on stdin, if there is any ...
EditStdin(u, k) ==
    /\ Begin(u, "modify")
    /\ file[u] # NoText
    /\ named' = [named EXCEPT ![u] = k]
    /\ dest' = [dest EXCEPT ![u] = file[u]]
    /\ UNCHANGED <<objects, cache, rows, file, aux>>

\* ... else the object in an editor.
EditInEditor(u, k) ==
    /\ Begin(u, "read")
    /\ named' = [named EXCEPT ![u] = k]
    /\ UNCHANGED <<objects, dest, cache, rows, file, aux>>

\* The Get, and the editor until it is closed.
Read(u) ==
    /\ pc[u] = "read" /\ named[u] \in live
    /\ MayType(named[u])
    /\ dest' = [dest EXCEPT ![u] = Typed(named[u])]
    /\ pc' = [pc EXCEPT ![u] = "modify"]
    /\ UNCHANGED <<objects, named, cache, rows, file, modified, lost>>

\* The answer of a write arrives, or is lost.
Answered(u) ==
    /\ Return(u)
    /\ UNCHANGED lost \/ (lost < MaxLost /\ lost' = lost + 1)

\* (By key alone, as if the text had no checksum.)
Accepted_NoChecksum(t) == t.key \in live

Accepted(t) == t.key \in live /\ sum[t.key] = t.cs

\* (To the object named on the command line.)
Modify_Named(u) ==
    LET t == dest[u]  k == named[u] IN
    /\ pc[u] = "modify" /\ k \in live /\ sum[k] = t.cs
    /\ sum' = [sum EXCEPT ![k] = @ + 1]
    /\ val' = [val EXCEPT ![k] = t.new]
    /\ modified' = [modified EXCEPT ![t.new] = @ + 1]
    /\ Answered(u)
    /\ UNCHANGED <<live, file, texts, basis>>

Modify(u) ==
    LET t == dest[u] IN
    /\ pc[u] = "modify" /\ Accepted(t)
    /\ sum' = [sum EXCEPT ![t.key] = @ + 1]
    /\ val' = [val EXCEPT ![t.key] = t.new]
    /\ modified' = [modified EXCEPT ![t.new] = @ + 1]
    /\ Answered(u)
    /\ UNCHANGED <<live, file, texts, basis>>

\* The object is not there, the text does not decode, the write is refused,
\* or a call fails.
Failed(u) ==
    /\ pc[u] # "idle"
    /\ Return(u)
    /\ UNCHANGED <<objects, file, aux>>

\* `create`, from the editor or from a file: whatever key and checksum the
\* text has, the object gets a key of its own.
CreateStart(u) ==
    /\ Begin(u, "create")
    /\ \/ MayType(NoKey) /\ dest' = [dest EXCEPT ![u] = [NoText EXCEPT !.new = texts + 1]]
       \/ /\ file[u] # NoText /\ UNCHANGED <<texts, basis>>
          /\ dest' = [dest EXCEPT ![u] = file[u]]
    /\ UNCHANGED <<objects, named, cache, rows, file, modified, lost>>

Create(u, k) ==
    /\ pc[u] = "create" /\ sum[k] = 0
    /\ live' = live \union {k}
    /\ sum' = [sum EXCEPT ![k] = 1]
    /\ val' = [val EXCEPT ![k] = dest[u].new]
    /\ Answered(u)
    /\ UNCHANGED <<file, texts, basis, modified>>

\* `list --format`: the Index call, and the functions for the template, each
\* with an empty cache.
ListStart(u) ==
    /\ Begin(u, "list")
    /\ cache' = [cache EXCEPT ![u] = None]
    /\ UNCHANGED <<objects, named, dest, rows, file, aux>>

\* (Fetched for every row.)
Known_Never(u, k) == 0

\* What the cache holds of an object.
Known(u, k) == cache[u][k]

\* One row; an object that cannot be fetched ends the listing.
Row(u) ==
    LET k == Rows[Len(rows[u]) + 1]
        o == IF Known(u, k) # 0 THEN Known(u, k) ELSE sum[k] IN
    /\ pc[u] = "list" /\ Len(rows[u]) < Len(Rows)
    /\ Known(u, k) # 0 \/ k \in live
    /\ cache' = [cache EXCEPT ![u][k] = o]
    /\ rows' = [rows EXCEPT ![u] = Append(@, o)]
    /\ UNCHANGED <<objects, pc, named, dest, file, aux>>

Listed(u) ==
    /\ pc[u] = "list" /\ Len(rows[u]) = Len(Rows)
    /\ Return(u)
    /\ UNCHANGED <<objects, file, aux>>

\* Another client deletes an object.
OtherDelete(k) ==
    /\ k \in live
    /\ live' = live \ {k}
    /\ UNCHANGED <<sum, val, command, file, aux>>

Next ==
    \/ \E u \in Users :
          \/ Read(u) \/ Modify(u) \/ Failed(u) \/ CreateStart(u)
          \/ ListStart(u) \/ Row(u) \/ Listed(u)
          \/ \E k \in Key : \/ Get(u, k) \/ Create(u, k)
                            \/ EditStdin(u, k) \/ EditInEditor(u, k)
    \/ \E k \in Key : OtherDelete(k)

Spec == Init /\ [][Next]_vars

-----------------------------------------------------------------------------
\* However long an editor stays open or a file lies around, an edit replaces
\* the contents its author was looking at and no others: nobody's change is
\* overwritten unseen.
NoLostEdit ==
    [][\A u \in Users : Modify(u) =>
          LET b == basis[dest[u].new] IN dest[u].key = b.key /\ val[b.key] = b.val]_vars

\* Sending a text again, after its answer was lost or by mistake, does not
\* apply it a second time.
AppliedOnce == \A t \in Text : modified[t] <= 1

\* All of it together: the reads, the open editors, the files and the lost
\* answers amount to edits that happen at an instant (AtomicEdits).
Edits == INSTANCE AtomicEdits
    WITH Other <- 0, dead <- {k \in Key \ live : sum[k] # 0},
         applied <- {t \in Text : modified[t] > 0}
ImplementsAtomicEdits == Edits!Spec

\* A listing never contradicts itself: rows that refer to the same object show
\* the same version of it, while others change it.
OneVersionPerListing ==
    \A u \in Users : \A i, j \in DOMAIN rows[u] :
        Rows[i] = Rows[j] => rows[u][i] = rows[u][j]

=============================================================================
