------------------------------ MODULE InitZone ------------------------------
(***************************************************************************)
(* `tbnctl init-zone` against the API (init_zone.go:390-705).              *)
(*                                                                         *)
(* The command works through a list of objects (see InitZoneArgs).  For    *)
(* each it looks one up by name; if there is none it creates it; if there  *)
(* is one it is kept, or, with --replace, overwritten under the checksum   *)
(* of the version just read.  The keys it learns go into maps from which   *)
(* later objects get their references.  A create or modify is a call of    *)
(* its own, later than the look-up it is based on: calls of other clients  *)
(* and of other init-zone commands come in between, any call may fail, and *)
(* the answer of a write may be lost.  The command can be run again.       *)
(***************************************************************************)
EXTENDS ApiStore, WorkLists

CONSTANTS
    NameOf,     \* the name a key's object has: host:port for a domain, the
                \* path for a route
    Work,       \* the work list: items [kind, name, uses, val, listed]
    Replaces,   \* how users may give the --replace flag
    Tools,      \* the init-zone commands that may run at the same time
    Vals,       \* contents other clients write
    MaxRuns,    \* bound: how many runs and writes of other clients there are
    MaxEdits,   \* bound: how many of them are writes of other clients
    Faults      \* calls may fail and answers be lost

Items == {Work[i] : i \in DOMAIN Work}
Ids   == {<<it.kind, it.name>> : it \in Items}

ASSUME NameAssumption == Key # {} /\ DOMAIN NameOf = Key
ASSUME FlagAssumption == Replaces \subseteq BOOLEAN
ASSUME ValAssumption  == \A g \in Graphs : DOMAIN g.val = Key

\* A route is of one domain; no zone starts with two objects of one name, and
\* no two zones start with one name.
SameName(j, k) == /\ KindOf[j] = KindOf[k] /\ NameOf[j] = NameOf[k]
                  /\ KindOf[j] = "zone" \/ ZoneOf[j] = ZoneOf[k]

ASSUME NamesAssumption == \A g \in Graphs :
    /\ \A k \in g.live : KindOf[k] = "route" => IsSingleton(RefsOf(g.refs[k], "domain"))
    /\ \A j, k \in g.live : (j # k /\ SameName(j, k)) =>
           KindOf[j] = "route" /\ RefsOf(g.refs[j], "domain") # RefsOf(g.refs[k], "domain")

\* What InitZoneFlags!WorkIsOrdered says of every list the program makes.
ASSUME WorkAssumption == IsWorkList(Work)

VARIABLES
    val,        \* what an object holds besides its references
    pc,         \* of each command: "idle", "look", "create", "modify", "done"
    replace,    \* its --replace flag
    pos,        \* the item it is at
    keyOf,      \* its maps from names to keys
    found,      \* the object its last look-up returned ...
    foundSum    \* ... and that object's checksum

\* Auxiliary variables.
VARIABLES
    author,     \* the item an object was last written for; 0 if another client
    settled,    \* how the last command to succeed was run, if no other
                \* client has written since: "no", "kept", "replaced"
    clean,      \* of each command: nobody else wrote since it started
    seen,       \* what was in the object its last look-up returned
    foreign,    \* the objects that other clients made, or made refer elsewhere
    runs,       \* how many times the command was run
    edits       \* how many writes other clients performed

objects == <<live, refs, sum, val>>
tools   == <<pc, replace, pos, keyOf, found, foundSum>>
aux     == <<author, settled, clean, seen, foreign, runs, edits>>
vars    == <<objects, tools, aux>>

TypeOK ==
    /\ StoreTypeOK
    /\ DOMAIN val = Key
    /\ pc \in [Tools -> {"idle", "look", "create", "modify", "done"}]
    /\ replace \in [Tools -> BOOLEAN]
    /\ pos \in [Tools -> 1..Len(Work)]
    /\ DOMAIN keyOf = Tools
    /\ \A p \in Tools : /\ DOMAIN keyOf[p] \subseteq Ids
                       /\ \A id \in DOMAIN keyOf[p] : keyOf[p][id] \in Key
    /\ found \in [Tools -> Key]
    /\ foundSum \in [Tools -> Nat]
    /\ author \in [Key -> {0} \union DOMAIN Work]
    /\ settled \in {"no", "kept", "replaced"}
    /\ clean \in [Tools -> BOOLEAN]
    /\ DOMAIN seen = Tools
    /\ foreign \in SUBSET Key
    /\ runs \in Nat /\ edits \in Nat

NoKeys   == [id \in {} |-> {}]
NoObject == CHOOSE k \in Key : TRUE

\* What an object holds.
Contents(k) == <<refs[k], val[k]>>
Nothing     == <<{}, <<>>>>

Init ==
    /\ StoreInit
    /\ \E g \in Graphs : live = g.live /\ refs = g.refs /\ val = g.val
    /\ pc = [p \in Tools |-> "idle"]
    /\ replace = [p \in Tools |-> FALSE]
    /\ pos = [p \in Tools |-> 1]
    /\ keyOf = [p \in Tools |-> NoKeys]
    /\ found = [p \in Tools |-> NoObject]
    /\ foundSum = [p \in Tools |-> 0]
    /\ author = [k \in Key |-> 0]
    /\ settled = "no"
    /\ clean = [p \in Tools |-> FALSE]
    /\ seen = [p \in Tools |-> Nothing]
    /\ foreign = {}
    /\ runs = 0 /\ edits = 0

-----------------------------------------------------------------------------
item(p) == Work[pos[p]]
Id(it)  == <<it.kind, it.name>>
Zone    == Id(Work[1])

\* The keys of the objects an item refers to, out of the command's maps.
KeysFor(p, it) == {keyOf[p][u] : u \in it.uses}

\* The filters of the Index calls: the name, in the zone; a route is looked up
\* by its domain's key and its path, a zone by its name alone.
\* (Without the ZoneKey of the filter; or without a route's DomainKey.)
Matches_AnyZone(p, it) ==
    {k \in live :
        /\ KindOf[k] = it.kind /\ NameOf[k] = it.name
        /\ it.kind = "route" =>
              \A u \in it.uses : u[1] = "domain" => keyOf[p][u] \in refs[k]}

Matches_AnyDomain(p, it) ==
    {k \in live :
        /\ KindOf[k] = it.kind /\ NameOf[k] = it.name
        /\ it.kind # "zone" => ZoneOf[k] = keyOf[p][Zone]}

Matches(p, it) ==
    {k \in live :
        /\ KindOf[k] = it.kind /\ NameOf[k] = it.name
        /\ it.kind # "zone" => ZoneOf[k] = keyOf[p][Zone]
        /\ it.kind = "route" =>
              \A u \in it.uses : u[1] = "domain" => keyOf[p][u] \in refs[k]}

\* An object found is overwritten with --replace; a domain only if its aliases
\* are not the ones wanted.
\* (Without looking at the flag; with the comparison the wrong way round.)
Overwrite_Always(p, it, k) ==
    /\ it.listed
    /\ it.kind = "domain" => val[k] # it.val

Overwrite_Same(p, it, k) ==
    /\ replace[p] /\ it.listed
    /\ it.kind = "domain" => val[k] = it.val

Overwrite(p, it, k) ==
    /\ replace[p] /\ it.listed
    /\ it.kind = "domain" => val[k] # it.val

\* The item is dealt with: remember its key, unless nothing refers to objects
\* of its type, and go on to the next.
Remember(p, k) ==
    keyOf' = IF item(p).kind \in {"route", "proxy"} THEN keyOf
             ELSE [keyOf EXCEPT ![p] =
                     [id \in DOMAIN @ \union {Id(item(p))} |->
                         IF id = Id(item(p)) THEN k ELSE @[id]]]

Settled(p) == IF ~clean[p] THEN settled
              ELSE IF replace[p] \/ settled = "replaced" THEN "replaced" ELSE "kept"

\* (One item too far.)
Advance_PastEnd(p, k) ==
    /\ Remember(p, k)
    /\ IF pos[p] > Len(Work)
         THEN /\ pc' = [pc EXCEPT ![p] = "done"]
              /\ settled' = Settled(p)
              /\ UNCHANGED pos
         ELSE /\ pc' = [pc EXCEPT ![p] = "look"]
              /\ pos' = [pos EXCEPT ![p] = @ + 1]
              /\ UNCHANGED settled

Advance(p, k) ==
    /\ Remember(p, k)
    /\ IF pos[p] = Len(Work)
         THEN /\ pc' = [pc EXCEPT ![p] = "done"]
              /\ settled' = Settled(p)
              /\ UNCHANGED pos
         ELSE /\ pc' = [pc EXCEPT ![p] = "look"]
              /\ pos' = [pos EXCEPT ![p] = @ + 1]
              /\ UNCHANGED settled

\* The process ends, and what it knew goes with it.
Stop(p) ==
    /\ pc' = [pc EXCEPT ![p] = "idle"]
    /\ pos' = [pos EXCEPT ![p] = 1]
    /\ keyOf' = [keyOf EXCEPT ![p] = NoKeys]
    /\ UNCHANGED settled

\* The object looked up is done with.
Forget(p) ==
    /\ found' = [found EXCEPT ![p] = NoObject]
    /\ foundSum' = [foundSum EXCEPT ![p] = 0]
    /\ seen' = [seen EXCEPT ![p] = Nothing]

Disturb(p) == clean' = [q \in Tools |-> clean[q] /\ q = p]

-----------------------------------------------------------------------------
Start(p, flag) ==
    /\ pc[p] \in {"idle", "done"}
    /\ runs + edits < MaxRuns /\ runs' = runs + 1
    /\ pc' = [pc EXCEPT ![p] = "look"]
    /\ replace' = [replace EXCEPT ![p] = flag]
    /\ pos' = [pos EXCEPT ![p] = 1]
    /\ keyOf' = [keyOf EXCEPT ![p] = NoKeys]
    /\ clean' = [clean EXCEPT ![p] = \A q \in Tools \ {p} : pc[q] \in {"idle", "done"}]
    /\ UNCHANGED <<objects, found, foundSum, author, settled, seen, foreign, edits>>

\* The Index call, and what follows from its answer.
Keep(p) ==
    /\ pc[p] = "look"
    /\ \E k \in Matches(p, item(p)) : ~Overwrite(p, item(p), k) /\ Advance(p, k)
    /\ UNCHANGED <<objects, replace, found, foundSum, author, clean, seen, foreign, runs, edits>>

\* (Without taking over the checksum of the object found.)
WillModify_NoChecksum(p) ==
    /\ pc[p] = "look"
    /\ \E k \in Matches(p, item(p)) :
          /\ Overwrite(p, item(p), k)
          /\ found' = [found EXCEPT ![p] = k]
          /\ seen' = [seen EXCEPT ![p] = Contents(k)]
    /\ pc' = [pc EXCEPT ![p] = "modify"]
    /\ UNCHANGED <<objects, replace, pos, keyOf, foundSum, author, settled, clean, foreign,
                   runs, edits>>

WillModify(p) ==
    /\ pc[p] = "look"
    /\ \E k \in Matches(p, item(p)) :
          /\ Overwrite(p, item(p), k)
          /\ found' = [found EXCEPT ![p] = k]
          /\ foundSum' = [foundSum EXCEPT ![p] = sum[k]]
          /\ seen' = [seen EXCEPT ![p] = Contents(k)]
    /\ pc' = [pc EXCEPT ![p] = "modify"]
    /\ UNCHANGED <<objects, replace, pos, keyOf, author, settled, clean, foreign, runs, edits>>

\* (Whenever there is nothing to modify.)
WillCreate_NotModify(p) ==
    /\ pc[p] = "look"
    /\ \A k \in Matches(p, item(p)) : ~Overwrite(p, item(p), k)
    /\ pc' = [pc EXCEPT ![p] = "create"]
    /\ UNCHANGED <<objects, replace, pos, keyOf, found, foundSum, aux>>

WillCreate(p) ==
    /\ pc[p] = "look"
    /\ Matches(p, item(p)) = {}
    /\ pc' = [pc EXCEPT ![p] = "create"]
    /\ UNCHANGED <<objects, replace, pos, keyOf, found, foundSum, aux>>

\* The write.  Its answer arrives, or is lost and the command fails.
Answered(p, k) == Advance(p, k) \/ (Faults /\ Stop(p))

Written(p, k) ==
    /\ val' = [val EXCEPT ![k] = item(p).val]
    /\ author' = [author EXCEPT ![k] = pos[p]]
    /\ Answered(p, k)
    /\ Forget(p)
    /\ Disturb(p)
    /\ UNCHANGED <<replace, foreign, runs, edits>>

CreateObject(p, k) ==
    /\ pc[p] = "create"
    /\ KindOf[k] = item(p).kind /\ NameOf[k] = item(p).name
    /\ item(p).kind # "zone" => ZoneOf[k] = keyOf[p][Zone]
    /\ Create(k, KeysFor(p, item(p)))
    /\ Written(p, k)

\* (With the checksum of a second look-up.)
ModifyObject_LooksAgain(p, k) ==
    /\ pc[p] = "modify"
    /\ k = found[p]
    /\ k \in live
    /\ Modify(k, KeysFor(p, item(p)))
    /\ Written(p, k)

\* The Modify of the object looked up: all of its contents are new, hand-made
\* rules included.
ModifyObject(p, k) ==
    /\ pc[p] = "modify"
    /\ k = found[p]
    /\ Current(k, foundSum[p])
    /\ Modify(k, KeysFor(p, item(p)))
    /\ Written(p, k)

\* A refused Modify, or any error.
Fail(p) ==
    /\ \/ Faults /\ pc[p] \in {"look", "create", "modify"}
       \/ pc[p] = "modify" /\ ~Current(found[p], foundSum[p])
    /\ Stop(p) /\ Forget(p)
    /\ UNCHANGED <<objects, replace, author, clean, foreign, runs, edits>>

-----------------------------------------------------------------------------
\* The other clients of the API: they may make an object that a command has
\* looked for and is about to make, or change what one refers to.  A route is
\* of one domain and one set of shared rules, and what an object is made to
\* refer to exists.
References(k) ==
    {rs \in SUBSET {r \in live : WellFormed(k, {r})} :
        KindOf[k] = "route" => /\ IsSingleton(RefsOf(rs, "domain"))
                               /\ IsSingleton(RefsOf(rs, "shared_rules"))}

Edited(k) ==
    /\ edits < MaxEdits /\ runs + edits < MaxRuns
    /\ edits' = edits + 1
    /\ author' = [author EXCEPT ![k] = 0]
    /\ settled' = "no"
    /\ clean' = [p \in Tools |-> FALSE]
    /\ UNCHANGED <<tools, seen, runs>>

OtherCreate(k) ==
    /\ ZoneOf[k] \in live \union {k}
    /\ \E rs \in References(k) : Create(k, rs)
    /\ \E v \in Vals : val' = [val EXCEPT ![k] = v]
    /\ foreign' = foreign \union {k}
    /\ Edited(k)

OtherModify(k) ==
    /\ k \in live
    /\ \E rs \in References(k) \union {refs[k]} :
          /\ Modify(k, rs)
          /\ foreign' = IF rs = refs[k] THEN foreign ELSE foreign \union {k}
    /\ \E v \in Vals : val' = [val EXCEPT ![k] = v]
    /\ Edited(k)

OtherDelete(k) ==
    /\ k \in live
    /\ Delete(k) /\ UNCHANGED <<val, foreign>>
    /\ Edited(k)

Step(p) ==
    \/ Keep(p) \/ WillModify(p) \/ WillCreate(p) \/ Fail(p)
    \/ \E k \in Key : CreateObject(p, k) \/ ModifyObject(p, k)

Next ==
    \/ \E p \in Tools : Step(p) \/ \E flag \in Replaces : Start(p, flag)
    \/ \E k \in Key : OtherCreate(k) \/ OtherModify(k) \/ OtherDelete(k)

Spec == Init /\ [][Next]_vars
FairSpec == Spec /\ \A p \in Tools : WF_vars(Step(p))

-----------------------------------------------------------------------------
\* No two objects are of one name; routes may be, if they are of two domains.
Unique(S) ==
    \A j, k \in S :
        (j # k /\ SameName(j, k)) =>
           /\ KindOf[j] = "route"
           /\ RefsOf(refs[j], "domain") # RefsOf(refs[k], "domain")

\* However often a command fails, loses an answer, is killed and run again, it
\* does not make a second object of the same name (a second route of the same
\* domain and path): the look-up of the next run finds what the last one made.
\* The look-up and the create are two calls, so that what somebody else makes
\* in between can get a twin: objects other clients made are left out, and of
\* two commands at once this is not true.
NoDuplicates == Unique(live \ foreign)

\* What a command writes refers to the objects its arguments name, in its
\* zone, whoever made them: the maps never confuse two objects, between types,
\* zones, or items of the list.
RefersToTheNamed ==
    \A k \in live : author[k] # 0 =>
        /\ KindOf[k] = Work[author[k]].kind /\ NameOf[k] = Work[author[k]].name
        /\ {<<KindOf[r], NameOf[r]>> : r \in refs[k]} = Work[author[k]].uses
        /\ \A r \in refs[k] : ZoneOf[r] = ZoneOf[k]

\* Without --replace nothing that exists is touched ("leave them as is",
\* init_zone.go:122); with it, the zone, the clusters and the domains that
\* only --routes names are still as they were.
LeavesTheRest ==
    [][edits' = edits => \A k \in live :
          \/ k \in live' /\ Contents(k)' = Contents(k)
          \/ /\ \E p \in Tools : replace[p] /\ pc[p] = "modify"
             /\ \E it \in Items : /\ it.listed /\ it.kind = KindOf[k]
                                  /\ it.name = NameOf[k]]_vars

\* With --replace, what a command overwrites is what its look-up found: a
\* change that another client, or another command, made in between is not lost
\* unseen.
OverwritesWhatItSaw ==
    [][edits' = edits => \A k \in live \intersect live' :
          Contents(k)' # Contents(k) =>
              \E p \in Tools : pc[p] = "modify" /\ found[p] = k /\ seen[p] = Contents(k)]_vars

\* A command that succeeds, and that nobody interfered with, leaves every
\* object of its arguments in place, and with --replace as the arguments say.
Fulfilled ==
    \A p \in Tools : pc[p] = "done" /\ clean[p] =>
        \A it \in Items : \E k \in Matches(p, it) :
            replace[p] /\ it.listed => refs[k] = KeysFor(p, it) /\ val[k] = it.val

\* Running a command again after it succeeded changes nothing, whatever runs
\* without --replace, and runs that failed, came before or in between; only a
\* first run with --replace after runs without it still has something to do.
\* (Of two objects of a name a look-up finds either, and a run with --replace
\* may take another than the last one did.)
RunAgainIsNoop ==
    [][/\ edits' = edits /\ Unique(live)
       /\ \/ settled = "replaced"
          \/ settled = "kept" /\ \A p \in Tools : ~replace[p]
       => live' = live /\ \A k \in Key : Contents(k)' = Contents(k)]_vars

\* Two commands with the same arguments at once, undisturbed by others: what
\* the one that succeeds wanted is there, and with --replace it is as the
\* arguments say, although the other may have overwritten it or made a second
\* object of the name.
FulfilledTogether ==
    \A p \in Tools : pc[p] = "done" /\ edits = 0 =>
        \A it \in Items : \E k \in live :
            /\ KindOf[k] = it.kind /\ NameOf[k] = it.name
            /\ ZoneOf[k] = keyOf[p][Zone]
            /\ replace[p] /\ it.listed =>
                  /\ val[k] = it.val
                  /\ {<<KindOf[r], NameOf[r]>> : r \in refs[k]} = it.uses

\* A command whose calls are answered and that nobody interferes with ends in
\* success, whatever part of its objects is already there.
Succeeds ==
    \A p \in Tools : pc[p] = "look" ~> (pc[p] = "done" \/ ~clean[p])

=============================================================================
