# A verification project for tbnctl

`tbnctl` is the command line client of the Turbine Labs API. This directory
holds TLA+ models of what its commands do to the objects in the API, TLC
configurations that check them on small instances, and proofs, checked by
TLAPS, that hold for instances of any size. Line numbers refer to the Go files
at the root of the repository.

## 1. The system

Every command is a process of its own. It keeps nothing between two runs,
except the token file of `login`, and takes no lock: everything it shares with
other commands, and with other clients, is the remote API. Two mechanisms
protect the objects there. An object carries a *checksum* that a `Modify` or
`Delete` has to present, and the API refuses the write when the object has
changed since. And a *name* is unique by convention only: commands look an
object up by name before they create it.

| component | source | state | operations |
|---|---|---|---|
| API (external) | used through `service.All` | zones, clusters, domains, routes, shared rules, proxies, with references by key, and checksums | Index with a filter, Get, Create, Modify, Delete |
| delete, deep delete | `delete.go`, `deep_delete.go` | the deleter's maps: what is to be deleted or modified, as it was read | scan the graph below an object, report and ask, delete type by type |
| init-zone | `init_zone.go` | parsed arguments; maps from names to keys | parse and validate; look up, create or overwrite each object |
| export-zone, import-zone | `zone_objects.go`, `export_zone.go`, `import_zone.go` | the `zoneObjects` and its keymaps; the file | list a zone with names for keys; create a zone from such a list |
| get, create, edit | `get.go`, `create.go`, `edit.go`, `common.go` | the text in the editor or on stdin | read, edit, write back under a checksum |
| adapters | `gen_*.go`, `adapter.template` | a cache of objects during one listing | pass typed calls through to the API |
| list | `list.go` | the attributes, the rows so far | make a filter; print, looking up what rows refer to |
| filters | `typeless.go` | the filter being filled | set fields of any filter type by reflection |
| access-tokens | `api_keys.go` | none | list, add, look up and remove |
| login, logout | `login.go`, `logout.go` | the token cache file | read, change and save the file |
| plumbing | `main.go`, `common.go` | flags, codec, API client | dispatch |

**What is hard.** A command is a series of calls, and anything can come between
two of them: writes of other clients, another `tbnctl`, a fault, a lost answer,
a kill, a user who thinks for an hour at the "Proceed?" of a deep delete or in
an editor. No command undoes anything; a user runs it again. So the questions
are what the API is left with at any point where a command may stop, whether
what was read is still true when it is acted on, whether running a command
again does the right thing, and whether keys end up naming what they should.

**What makes each component correct.**

- *Deep delete*: the plan is exactly the graph below the object; only what was
  shown is deleted, and only unchanged; no object that stays refers to one that
  was deleted, at any stopping point; a proxy's concurrent change is not lost;
  when nothing interferes everything below the object goes.
- *init-zone*: arguments mean what the help says; a run from any partial state
  completes; running again changes nothing and duplicates nothing; what is not
  to be replaced is not; references go to the named objects of the zone.
- *export/import*: a file describes the zone by name with every reference kept;
  an import has copied all of it when it succeeds, and each object it has made
  is complete wherever it stops.
- *edit*: an edit replaces what its author saw; a text is applied once.
- *list*: a filter holds what was typed, whatever the order of a map; a command
  ends early only for a reason; the rows of one listing agree with each other.
- *access-tokens*: what is reported removed is removed.
- *login/logout*: however many commands save old copies of the file, its token
  is that of the user it names and can be used, and a token that was logged out
  of does not come back.

`PROJECT.json` lists the hazards with their lines and the properties that are
about them.

## 2. The modules

| module | models | used by |
|---|---|---|
| `ObjectKinds` | the types of object and what each refers to | `ApiStore`, `WorkLists` |
| `ApiStore` | the API's objects: `live`, `refs`, `sum` (checksums as version numbers), and its calls | `DeepDelete`, `InitZone`, `ZoneTransfer` |
| `ConfirmedRemoval` | abstract: what a deep delete promises | `DeepDelete` |
| `DeepDelete` | `delete` and `delete --deep` | `MCDeepDelete`, `DeepDeleteProofs` |
| `WorkLists` | what an init-zone command's list of objects is: the property of one module, the assumption of another | `InitZoneArgs`, `InitZone` |
| `InitZoneArgs` | `parse*`, `validate*` and the order of `addObjects`, as operators | `InitZoneFlags`, `MCInitZone` |
| `InitZoneFlags` | a user typing an init-zone command | `CommandLines` |
| `InitZone` | the calls `init-zone` makes for its list of objects | `MCInitZone`, `InitZoneProofs`, `InitZoneOutcomeProofs` |
| `ZoneTransfer` | `export-zone` and `import-zone` | `MCZoneTransfer`, `ZoneTransferProofs` |
| `AtomicEdits` | abstract: what get, create and edit promise | `ObjectCommands` |
| `ObjectCommands` | `get`, `create`, `edit` and formatted listings, by several users | `MCObjectCommands`, `ObjectCommandsProofs` |
| `Filters` | `typeless.go`: an attribute's text into a field, as operators | `ListArgs` |
| `ListArgs` | a user typing a list command, and `populateFilter` | `CommandLines` |
| `CommandLines` | the two commands that are typed, together | `MCCommandLines`, `CommandLinesProofs` |
| `LoopLaws` | laws of the loops over lists, with proofs | `CommandLinesProofs` |
| `AuthCache` | `login` and `logout` from several terminals | `AuthCacheProofs` |
| `AccessTokens` | `access-tokens add` and `remove` | |

The modules that end in `Proofs` hold the theorems about the module they are
named after (`InitZoneOutcomeProofs` more of those about `InitZone`); those that
begin with `MC` give it small zones and command lines.

**ApiStore.** The service is not in the repository. The module holds what the
clients rely on: a created object has a new key, a write under an old checksum
is refused, an Index returns what matches. It never refuses a write for leaving
a dangling reference, since nothing here says whether the service does; so what
is shown of a client does not lean on the service. The type of an object, its
zone and its name belong to its key, as constant functions: no command changes
them.

**DeepDelete.** One action per call of the API, in the order of the code; `pc`
names the call that is next. `plan` is the union of the deleter's maps and
`pmods` is `proxyMods`; `snapRefs` and `snapSum` are the objects as they were
put there. `Collecting` is `addZoneKey` to `addOrphans`; `Confirm` is the
answer to `terminal.Ask`; `ExecDelete` and `ExecModify` are the loops of
`execute`, in the order of `Rank` and in any order within one map, as Go
iterates. `OrphanError` is the dropped error of `addOrphans`. `Fail` ends the
command at any call; a write may also take effect and its answer be lost
(`Handled`). A command can be followed by others, deep or plain, on any target.
`Promise` maps all of it to `ConfirmedRemoval`: the user agrees to a set of
objects as they were shown, and each is removed, or let go of, only as shown and
when nothing that others have not written needs it. The agreement is what is
left of the loops of `execute`; the scan, and calls that fail, are stutters.

**InitZoneArgs, InitZoneFlags, InitZone.** An argument is a record of its parts;
a part that is missing is `""`. `WorkOf` gives the list of objects that
`addRouteDependencies`, `addRoutes` and `addProxies` go through, each with the
objects it refers to and whether `--replace` applies. `InitZone` takes such a
list as a constant and works on it: `Keep`, `WillModify` and `WillCreate` are
what follows from the Index call, `CreateObject` and `ModifyObject` the later
write. `keyOf` is `domainKeyMap`, `sharedRulesKeyMap` and the local keys; `seen`
(auxiliary) is what was in the object that the look-up found. Each run is with
or without `--replace`. Other clients create, modify and delete objects between
any two calls (`OtherCreate`, `OtherModify`, `OtherDelete`), and may give one
other references; `foreign` (auxiliary) is what they made or made refer
elsewhere. What `InitZone` assumes of the list (`WorkAssumption`) is
`IsWorkList` of `WorkLists`; that every accepted command line gives such a list
is part of `WorkIsOrdered` of `InitZoneFlags`, so the two modules meet in one
definition.

**ZoneTransfer.** `zo` is the `zoneObjects`, `known` the objects in its keymaps,
`file` what an export printed. A name that no map has is `Blank`.

**ObjectCommands, AtomicEdits.** A text is a record of the key and checksum it
came with and the contents it holds, a number; `basis` is auxiliary and says
which object and contents its author was looking at. The bodies of objects are
otherwise opaque. A text goes from `get` to a file and from a file to `edit` or
`create`, or through the editor in one command; the object modified is the
text's, whatever key is named. A formatted listing writes a row at a time:
`cache` has the versions that the adapters' `mkGet*` closures have fetched,
`rows` what was shown. `AtomicEdits` has none of this: texts are written on
seeing an object, and take effect at an instant. It lets a text that was sent
twice make two objects (`New`): nothing in `create` prevents it.

**Filters, ListArgs, CommandLines.** `set`, `setp` and `boolish` are operators
over a field's shape and base type, whatever the filter type is; a text is the
parts that the slice separator divides, each a word or a number; `Lower` gives
the words in lower case, as which `boolish` reads them. Integers have the ranges
that `Half` gives their types: half the number of values. `populateFilter` is
two actions, `Fill` and `Ignore`, for the attributes in any order, since Go
ranges over a map. `CommandLines` puts this beside `InitZoneFlags`, as the two
commands that make much of their arguments.

**AuthCache.** `file` and each terminal's `cache` are the `TokenCache`s: the
name, the token, and whether `populateDefaults` has named the client. The
actions divide a command where another may run: at the read, the two prompts,
the request, the save. `granted` and `ended` are auxiliary.

**Mutants.** A definition `X_Something` after a comment in parentheses is a
version of `X` with a bug one could have written. No specification uses it; each
property is known to be violated under one of them.

## 3. What is checked

Runs that pass, with what they show:

| run | instance and bounds | properties |
|---|---|---|
| `deep_delete` | a domain, shared rules and the zone as targets, two starting graphs; 1 write of another client, faults anywhere, any number of commands | `NoDanglingUse`, `PlanIsGraphBelow`, `NoLostUpdate`, `DeletesWhatWasShown`, `OnlyRoutesBelow`, `ImplementsPromise` |
| `deep_delete_quiet` | every type of target but the cluster, one graph, plain and deep deletes one after the other, no faults or other clients, fairness | `PlanIsGraphBelow`, `WholeGraphGoes` |
| `command_lines` | all init-zone command lines of up to 4 arguments and all list command lines of up to 3 attributes, malformed ones included | `AliasesCombined`, `SameRouteTwiceIsRejected`, `WorkIsOrdered`; `FilterIsWhatWasTyped`, `EndsForAReason`, `OnlyShownFieldsFilter` |
| `init_zone_reruns` | 3 runs, or 2 and a write of another client anywhere (a new object, new contents or references, a delete), each run with or without `--replace`, from an empty zone or one made by hand, faults and lost answers | `NoDuplicates`, `RefersToTheNamed`, `Fulfilled`, `LeavesTheRest`, `OverwritesWhatItSaw`, `RunAgainIsNoop` |
| `init_zone_together` | 2 commands at once with `--replace`, from any part of the zone, fairness | `RefersToTheNamed`, `FulfilledTogether`, `Succeeds` |
| `zone_transfer` | exports, imports, clean-ups, faults; two import attempts, 2 foreign writes anywhere | `RoundTrip`, `NothingDropped`, `FileIsZone` |
| `object_edits` | 2 users, 3 keys, 2 texts, listings of 3 rows, 1 lost answer | `AppliedOnce`, `NoLostEdit`, `OneVersionPerListing`, `ImplementsAtomicEdits` |
| `login_logout` | 3 terminals, 2 users, 3 tokens, failed writes | `TokenIsTheUsers`, `OffersAName`, `EndedStaysEnded` |

`DeepDelete`, `InitZone`, `ZoneTransfer`, `ObjectCommands` and `AuthCache` have
their `TypeOK` checked in one of them as well. What the harder ones say:
`FilterIsWhatWasTyped` compares the filter, however the map was ordered, with
the last argument for each field read by what `list`'s help says of its type: a
bool is true if and only if the text is one of `true`, `t`, `yes`, `y` and `1`,
in either case. It says exactly which numbers may come out as others: those too
wide for a field narrower than 64 bits. `OnlyShownFieldsFilter` holds in one
direction only: plain unsigned fields are shown by `--show-filter-fields`, and
no value of theirs is accepted. `RunAgainIsNoop` follows a command through the
runs that failed before and in between, and with another client's writes before
them; it has nothing to say where two objects are of one name, of which a
look-up returns either. `NoDuplicates` leaves out what other clients made, since
they may make the object a command has just looked for. `OverwritesWhatItSaw` is
about the `Modify` of init-zone, a call later than the look-up whose checksum it
presents. `OneVersionPerListing` is about objects that change between two rows.
`WholeGraphGoes` has two exceptions, both the work of earlier plain deletes: a
route whose domain is gone cannot be deep deleted, and when a route below the
target names shared rules that are gone, fetching them ends `addOrphans`, its
error is dropped, and other rules may stay, depending on the order of a map.
`EndedStaysEnded` holds although copies are old, because no command writes a
token it has merely read.

Runs that end in a violation show where the program and its own words disagree:

| run | the words | what the code does |
|---|---|---|
| `deep_delete_swallowed` | `--deep` deletes "the entire object graph" (delete.go:97) | an error of `addOrphans` is dropped (deep_delete.go:378): shared rules stay, success is reported. A failed call is not needed: it is enough that a route names rules that are gone |
| `init_zone_metadata` | a route is given a cluster with metadata (init_zone.go:65-66) | two routes to one cluster share one set of rules, and one metadata (568) |
| `zone_transfer_race` | an export maintains referential integrity (export_zone.go:23-24) | objects added between two Index calls give blank names (zone_objects.go:175) |
| `access_tokens_remove` | `remove` removes the key (api_keys.go:108) | a failed Delete goes unseen: `err` is shadowed (67) |

Three lesser differences have no run of their own. The second look-up of routes
in `addSharedRules` (deep_delete.go:236) brings a route that began to use
candidate shared rules after `addOrphans`' Index into the plan, although the
comment at 270 keeps such rules out; it is in the report the user confirms, and
`OnlyRoutesBelow` says that no other route is added by it.
`--replace` overwrites the aliases of listed domains too (init_zone.go:431; the
flag's text at 122 names Routes, SharedRules and Proxies); `LeavesTheRest`
counts them among what may be overwritten. An edit demands a key even when the
object comes from stdin (common.go:64, against edit.go:103).

**The bounds, and why they are enough.** Foreign writes are bounded by
`MaxEdits`. One write, placed between any two calls, is enough for each race of
*one* stale read and its use, which is all a checksum is about; export needs two
(an object, and one that refers to it). In `InitZone` a foreign write takes the
place of a run (`MaxRuns` is for both): three runs, or two with a write before,
between or during them. The quiet deep deletes take one graph, since all that
earlier commands can make of it are further graphs, and leave out the cluster,
for which `--deep` is ignored (deep_delete.go:458). The graphs of the deep
deletes have what a rule distinguishes: routes of one domain that share rules,
rules used by routes of two domains, a proxy of two domains. The zones of
`zone_transfer` have one object of each type, one zone a route with all it needs
and the other a proxy: together they hold every kind of reference, and foreign
writes add to them. `MaxRuns` and `MaxTexts` let a command be run again after a
run that failed and one that succeeded. Each name has one or two keys to be
created under: a command that would need one more stands still, which loses
behaviours but adds none. In `InitZone` a zone's name has one key, so that two
commands that race for the zone itself are cut off there. Three terminals are
enough for two stale copies and a third command that changes the file under
both; the login service grants three tokens, one to each. Integers of 3 and 5
bits stand for those of 8 and 64 (`MCHalf`): the typed numbers lie within both,
between the two, and beyond both, with either sign. Three attributes let one
argument override another while a third ends the command. Two texts and three
keys are an edit against an edit, a create repeated after a lost answer, and a
listing in which one object appears twice with another in between. Deadlock is
not checked where the bounds, or the end of all commands, stop the system.

**Fairness.** `DeepDelete!FairSpec` has weak fairness of the command's own steps
as a whole, `InitZone!FairSpec` of each process: a call of the API returns, and
the user answers. Nothing is assumed of other clients or of when commands are
started. Both liveness properties are checked without faults: a command that may
fail at each call need not succeed.

## 4. What is proved

Every theorem is for any size of its constants (keys, graphs, users, terminals,
rows, runs, foreign writes) and with faults.

| module | theorem | establishes |
|---|---|---|
| `DeepDeleteProofs` | `TypeCorrect`, `NeverDangles`, `NeverLosesUpdate`, `DeletesOnlyWhatWasShown`, `NeverWidens` | `TypeOK`, `NoDanglingUse`, `NoLostUpdate`, `DeletesWhatWasShown`, `OnlyRoutesBelow` |
| | `PlansTheGraph` | `PlanIsGraphBelow` |
| | `Implements` | `ImplementsPromise`: `DeepDelete` implements `ConfirmedRemoval` |
| `InitZoneProofs` | `TypeCorrect`, `RefersAsNamed`, `SparesTheRest` | `TypeOK`, `RefersToTheNamed`, `LeavesTheRest` |
| | `NeverOverwritesUnseen` | `OverwritesWhatItSaw` |
| | `NeverTwins` | `NoDuplicates`, of one command at a time |
| `InitZoneOutcomeProofs` | `FulfilledAlone` | `Fulfilled`, for lists that have each object once |
| | `FulfilledIfUnique` | `Fulfilled` for every list, where no two objects are of one name |
| | `FulfilledBeside` | `FulfilledTogether` |
| | `AgainIsNoop` | `RunAgainIsNoop`, of one command at a time |
| `CommandLinesProofs` | `SameRouteIsAnError`, `AliasesAreCombined` | `SameRouteTwiceIsRejected`, `AliasesCombined` |
| | `WorkListIsOrdered` | `WorkIsOrdered` |
| | `FiltersAsTyped`, `EndsWithReason`, `OnlyShownFilters` | `FilterIsWhatWasTyped`, `EndsForAReason`, `OnlyShownFieldsFilter` |
| `ZoneTransferProofs` | `TypeCorrect`, `FilesDescribe`, `ImportsDropNothing`, `ImportsCopy` | `TypeOK`, `FileIsZone`, `NothingDropped`, `RoundTrip` |
| `ObjectCommandsProofs` | `TypeCorrect`, `NeverTwice`, `NeverLost`, `ListingsAgree` | `TypeOK`, `AppliedOnce`, `NoLostEdit`, `OneVersionPerListing` |
| | `Implements` | `ImplementsAtomicEdits`: `ObjectCommands` implements `AtomicEdits` |
| `AuthCacheProofs` | `TypeCorrect`, `NeverMixed`, `OffersOnlyNames`, `NeverBack` | `TypeOK`, `TokenIsTheUsers`, `OffersAName`, `EndedStaysEnded` |

The assumptions are the named ASSUMEs of the modules: each key has a type and a
zone, initial references respect the schema (`RefKinds`) and stay in live zones,
names are distinct at the start, the work list is one (`WorkAssumption`), an
argument has the parts it has (`ArgsAssumption`, `AttrArgsAssumption`), no two
fields of a filter have one name, the widest integers are the widest
(`HalfAssumption`), lower case is lower case (`LowerAssumption`), and the bounds
have their types. TLC evaluates all of them on the instances above.

**DeepDelete.** `NoDanglingUse` is not inductive. Deleting an object `k` is safe
because nothing that only tbnctl has handled refers to it any more, and that
needs a reason why the scan found every such object and why `execute` has dealt
with it before. The inductive invariant `IInv` states it in parts: *Versions*
(an object read and not changed since is as it was read, so an accepted checksum
means that the snapshot is current); *Schema* (references follow `RefKinds`, in
one zone); *Shape* (what `plan` and `pmods` may hold for each kind of target);
*Coverage* (an object that uses a planned one, and that no other client wrote,
is itself in the plan or about to be modified, once its type has been scanned);
and *Ordering* (of two such objects the user is not handled after the used,
because `Rank` follows the references). A foreign write marks what it touches
`foreign` and so leaves the property's reach; a delete by a checksum that is
current meets an object whose users are gone. The action properties follow from
*Versions*; `OnlyRoutesBelow` adds *Narrow*, that the planned routes nobody else
wrote are those below the target, for which *Coverage* says what a second
look-up finds. For the refinement one more invariant, *Loosening*, says that the
target is in the plan after the first scan and that the proxies to be modified
were read as referring to it, so that writing one back lets go of something
agreed on. `PlanIsGraphBelow` needs what the plan is *exactly*, step by step:
*Scanning* says for each call of the scan which objects are planned and which
are still candidates, and that all are as they were read, as long as nobody else
writes and no error is dropped. The hard step is the last one, where a candidate
stays in the plan although the scan looks only at routes planned so far.

**InitZone.** A command could take a key from a map that does not have it, so even
the types need *Filled*: the maps have every object further up the list. *Named*
(what is filed under a type and a name has them, and is in the command's zone)
and *Found* (the object about to be overwritten is the item's, which is one
that `--replace` applies to) give the first two properties for any number of
commands at once. For `OverwritesWhatItSaw`, *Saw* says that while the checksum is
good the object holds what the look-up found. `NeverTwins` assumes one command
at a time and adds *Distinct*: between its look-up and its create the only
matches are of others' making; and a route it overwrites is of the domain it is
written with.

What a command leaves behind is in `InitZoneOutcomeProofs`. It rests on
*OneDomain* (a route has one domain, a domain refers to nothing) and *Looked*
(as long as the checksum is good, the object a command is about to overwrite is
still one its look-up would find), which hold for any number of commands.
*Undisturbed* says that all objects in the maps still exist and each item the
command is past is in place, as wanted if `--replace` applied: the next item's
write must not undo an earlier one. It would if two items said different things
of one object; so the theorems assume `ItemsAgree`, and `WorkListIsOrdered`
shows that of every command line but those that give one cluster two metadata.
That excluded case is the run `init_zone_metadata`. It could also if a later
item of the same name found a *second* object, made by another client, and filed
its key instead. So `FulfilledAlone` wants each object listed once (`EachOnce`),
and `FulfilledIfUnique` speaks of states where no two objects are of one name.
*Together* says the same of any number of commands by name instead of by key,
and needs neither. For `RunAgainIsNoop`, *Settles* says that while nothing
foreign has happened since and names are unique, there are keys for which the
whole list is in place, and that a run under way finds those and no others.

**ZoneTransfer.** *Contained*, *Apart* and *Filed* are about the store and the
two zones; *Collecting* says what an undisturbed export has after each Index
call, *Exact* that its file is the zone while no other client writes, and
*Importing* that an undisturbed import has made the entries it is done with and
nothing else, with keymaps that have all that the next types refer to.

**ObjectCommands.** *Held* says of every text in a file or under way that its
checksum stands for the version its author saw: while that is the version in the
API, the contents are what was seen and the text has not been applied. A
write that is accepted therefore replaces what was seen, and makes its own
checksum old, so that the text cannot be applied again. *Lists* ties each row to
the cache.

**AuthCache.** *Saving*: a login that is about to save has a token that nobody
else has, that is its user's, and that was never in the file. *Asking* carries the
name and the defaults through the prompts. *Leaving*: a logout's copy has a
token that is in the file or was. *Granted* is about the file.

**CommandLines.** What the parser folds over its arguments is a statement about
lists of any length. The provers cannot use an induction theorem, which has an
operator for a parameter, but they can use a theorem about a constant operator:
`LoopLaws` proves, for a loop body that is a CONSTANT, what `FoldLeft` returns for
an empty list and one element more, and `CommandLinesProofs` takes an
INSTANCE of it for each of the three loops. The induction itself is
over the command line as it is typed: *DomainsRead*, *RoutesRead* and
*ProxiesRead* say what the arguments so far have been read as (entries of
different names; all the aliases of a name, in order; as many routes as
arguments, no two for one place), and typing one argument more preserves
them. `LoopLaws` also says where each part of a concatenation is in the
whole (`FlattenPlaces`); with it *LaidOut* gives the place of every item on the
work list, from which `WorkIsOrdered` follows by cases: the domain of a
route is implied by the first route that names it, or named by an argument.
For filters, *Typed* says which argument of a name counts and *Filling* that the
fields of the attributes taken so far have the values of those arguments, in
whatever order they are taken; `SetMeans` compares `set` with the meaning of a
text, type by type.

Only model-checked: liveness (`WholeGraphGoes`, `Succeeds`), which is out of the
prover's reach. `NoDuplicates` and `RunAgainIsNoop` are checked and proved of one
command at a time because two at once do make duplicates.

## 5. What is not modelled

Text: how arguments, attributes and objects are split, encoded and printed,
floating point numbers among them; the templates, headers and columns of a
listing. Users and listeners: the first refer to nothing, the second are ignored
by deep deletes (`deep_delete.go:475`); the generic commands treat both as any
other type. OAuth itself, and the API service: external. The plumbing of
`main.go` and `common.go` runs once, before a command, and keeps no state. The
vendored libraries and the generator's templates.

## 6. What could come next

An abstract store whose clients only remove what nothing needs and only add what
refers to what is there, with `InitZone` and `ZoneTransfer` shown to implement
it as `DeepDelete` implements `ConfirmedRemoval`.
