------------------------------- MODULE ListArgs -------------------------------
(***************************************************************************)
(* A user types a `tbnctl list` command, one attribute after the other, and*)
(* FilteredIndex makes a filter of them: populateFilter goes over the map  *)
(* of attributes in whatever order the map gives them, and the command may *)
(* end half way.                                                           *)
(***************************************************************************)
EXTENDS Filters

CONSTANTS
    AttrArgs,   \* the arguments a user may type: records [name, text]
    MaxAttrs    \* bound: how many

ASSUME MaxAttrsAssumption == MaxAttrs \in Nat

ASSUME AttrArgsAssumption == \A a \in AttrArgs :
    /\ a.text \in Seq(ToSet(a.text))
    /\ \A p \in ToSet(a.text) : p = Word(p[2]) \/ (p = Number(p[2]) /\ p[2] \in Int)

VARIABLES
    typed,      \* the arguments
    phase,      \* "typing", "filling", "listed", "dead"
    todo,       \* the attributes populateFilter has still to look at
    filter      \* the fields of the filter

listVars == <<typed, phase, todo, filter>>

ListInit ==
    /\ typed = <<>> /\ phase = "typing" /\ todo = {}
    /\ filter = [i \in DOMAIN Fields |-> Zero(Fields[i])]

TypeAttr(a) ==
    /\ phase = "typing" /\ Len(typed) < MaxAttrs
    /\ typed' = Append(typed, a)
    /\ UNCHANGED <<phase, todo, filter>>

attrs == argsToAttrs(typed)

FilteredIndex ==
    /\ phase = "typing"
    /\ phase' = "filling" /\ todo' = DOMAIN attrs
    /\ UNCHANGED <<typed, filter>>

\* populateFilter, one attribute: one that no field has is passed over.
Ignore(name) ==
    /\ phase = "filling" /\ name \in todo /\ Named(name) = {}
    /\ todo' = todo \ {name}
    /\ UNCHANGED <<typed, phase, filter>>

Fill(name) ==
    /\ phase = "filling" /\ name \in todo
    /\ \E i \in Named(name) :
          LET v == set(Fields[i], attrs[name]) IN
          IF v = Dies
          THEN phase' = "dead" /\ UNCHANGED <<todo, filter>>
          ELSE /\ filter' = [filter EXCEPT ![i] = v]
               /\ todo' = todo \ {name}
               /\ UNCHANGED phase
    /\ UNCHANGED typed

Index ==
    /\ phase = "filling" /\ todo = {}
    /\ phase' = "listed"
    /\ UNCHANGED <<typed, todo, filter>>

ListNext ==
    \/ \E a \in AttrArgs : TypeAttr(a) \/ Fill(a.name) \/ Ignore(a.name)
    \/ FilteredIndex \/ Index

-----------------------------------------------------------------------------
\* The argument that says what field i is to hold: the last that names it.
LastTyped(i) ==
    {typed[n] : n \in {m \in DOMAIN typed : i \in Named(typed[m].name)
                        /\ \A l \in (m + 1)..Len(typed) : typed[l].name # typed[m].name}}

Single(f) == f.shape \in {"plain", "pointer"}
Points(f) == f.shape \in {"pointer", "slice of pointers"}

\* "Boolean true values may be represented by true, t, yes, y, or 1, and is
\* case insensitive" (list.go:226-227); every other text means false.
TrueTexts ==
    LET yes == {"true", "t", "yes", "y"}
    IN  {<<Word(w)>> : w \in yes \union {u \in DOMAIN Lower : Lower[u] \in yes}}
            \union {<<Number(1)>>}

\* The values of a type, as list's help has them (list.go:223-227): a number
\* the type has is meant as it is.
Fits(n, t) == IF t \in Signed THEN -Half[t] <= n /\ n < Half[t] ELSE n \in 0..(2 * Half[t] - 1)

Meant(t, v, text) ==
    CASE t = "string" -> v = <<"string", text>>
      [] t = "bool"   -> v[1] = "bool" /\ (v[2] <=> text \in TrueTexts)
      [] t = "time"   -> v = <<"time", text[1][2]>>
      [] OTHER        -> Fits(text[1][2], t) \/ t \in {"int64", "uint64"} => v = <<"int", text[1][2]>>

NoValue(t, pointer, text) ==
    \/ t = "struct" \/ (t \in Unsigned /\ ~pointer)
    \/ t \in Signed \union Unsigned \union {"time"} /\
          \/ ~IsNumber(text)
          \/ ~Fits(text[1][2], IF t \in Unsigned THEN "uint64" ELSE "int64")

\* A field holds what a text means, a slice part by part; or a text, in a
\* single part of a slice even, is no value for it.
Holds(f, v, text) ==
    IF Single(f) THEN Meant(f.of, v, text)
    ELSE /\ Len(v[2]) = Len(text)
         /\ \A n \in DOMAIN text : Meant(f.of, v[2][n], <<text[n]>>)

Refuses(f, text) ==
    IF Single(f) THEN NoValue(f.of, Points(f), text)
    ELSE \E n \in DOMAIN text : NoValue(f.of, Points(f), <<text[n]>>)

\* The Index call is given what was typed and nothing else: a field that was
\* named holds what its last argument means, and a field that was not is as in
\* an empty filter; in whatever order the map is read.  A number too wide for a
\* narrow field is the exception: its upper bits are dropped; in the widest
\* fields no number is ever another.
FilterIsWhatWasTyped ==
    phase = "listed" => \A i \in DOMAIN Fields :
        /\ LastTyped(i) = {} => filter[i] = Zero(Fields[i])
        /\ \A a \in LastTyped(i) : Holds(Fields[i], filter[i], a.text)

\* The command ends if some field is given what is no value of its type; never
\* for an attribute that no field has, or that a later one replaces; and never
\* depending on the order of the map.
EndsForAReason ==
    LET bad == \E i \in DOMAIN Fields : \E a \in LastTyped(i) : Refuses(Fields[i], a.text)
    IN  (phase = "dead" => bad) /\ (phase = "listed" => ~bad)

\* What --show-filter-fields does not show filters nothing.
OnlyShownFieldsFilter ==
    phase = "listed" =>
        \A i \in DOMAIN Fields : filter[i] # Zero(Fields[i]) =>
            getAssignmentName(Fields[i]) \in describeFields

=============================================================================
