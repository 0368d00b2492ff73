------------------------------- MODULE Filters -------------------------------
(***************************************************************************)
(* The filter of an Index call, made of the name=value arguments of `tbnctl*)
(* list` (list.go, typeless.go): by reflection, for any filter type.       *)
(*                                                                         *)
(* A value is typed as parts, which the slice separator divides; a part is *)
(* a word or a number.  A word that only looks like a number (1e3, 4.0) is *)
(* left out, and so is the rounding of floats.                             *)
(***************************************************************************)
EXTENDS Integers, Sequences, SequencesExt

CONSTANTS
    Fields,     \* the fields of the filter type: records [go, tag, shape, of]
    Half,       \* of each type of integer, half the number of its values
    Lower       \* of each word with capitals, that word in small letters

Signed   == {"int8", "int64"}       \* (and the widths in between)
Unsigned == {"uint8", "uint64"}
\* Types the program does not know count as "struct".
Bases    == Signed \union Unsigned \union {"string", "bool", "time", "struct"}
Shapes   == {"plain", "pointer", "slice", "slice of pointers"}

ASSUME FieldsAssumption ==
    \A i \in DOMAIN Fields : Fields[i].shape \in Shapes /\ Fields[i].of \in Bases

ASSUME HalfAssumption ==
    /\ Half \in [Signed \union Unsigned -> Nat \ {0}]
    /\ \A t \in DOMAIN Half : Half[t] <= Half["int64"] /\ Half["int64"] = Half["uint64"]

\* Words that are in small letters as they stand.
ASSUME LowerAssumption == DOMAIN Lower \intersect {"true", "t", "yes", "y"} = {}

Word(w)   == <<"word", w>>
Number(n) == <<"number", n>>
Empty     == <<Word("")>>

\* What a field may hold.  (A text that is no value of its type ends the
\* command, by must or by Fatalf.)
Dies == <<"dies">>
Nil  == <<"nil">>

Zero(f) == IF f.shape # "plain" THEN Nil ELSE
    CASE f.of = "string" -> <<"string", Empty>>
      [] f.of = "bool"   -> <<"bool", FALSE>>
      [] f.of \in Signed \union Unsigned -> <<"int", 0>>
      [] OTHER -> <<f.of, "zero">>

-----------------------------------------------------------------------------
IsNumber(text) == Len(text) = 1 /\ text[1][1] = "number"
IsWord(text)   == Len(text) = 1 /\ text[1][1] = "word"

\* strings.ToLower, of a word.
ToLower(w) == IF w \in DOMAIN Lower THEN Lower[w] ELSE w

\* Anything that is not one of these is false.
boolish(text) == \/ IsWord(text) /\ ToLower(text[1][2]) \in {"true", "t", "yes", "y"}
                 \/ text = <<Number(1)>>

\* strconv.ParseInt and ParseUint, always for the widest integers.
ParsesInt(text)  == IsNumber(text) /\ -Half["int64"] <= text[1][2] /\ text[1][2] < Half["int64"]
ParsesUint(text) == IsNumber(text) /\ text[1][2] \in 0..(2 * Half["uint64"] - 1)

\* The conversion to the field's own width drops the bits that do not fit.
Narrowed(n, t) ==
    IF t \in Signed THEN ((n + Half[t]) % (2 * Half[t])) - Half[t] ELSE n % (2 * Half[t])

\* One value, put where the field is or, by setp, where it points; set does
\* not know the unsigned types.
One(t, text, pointer) ==
    CASE t = "string" -> <<"string", text>>
      [] t = "bool"   -> <<"bool", boolish(text)>>
      [] t \in Signed /\ ParsesInt(text) -> <<"int", Narrowed(text[1][2], t)>>
      [] t \in Unsigned /\ pointer /\ ParsesUint(text) -> <<"int", Narrowed(text[1][2], t)>>
      [] t = "time" /\ ParsesInt(text) -> <<"time", text[1][2]>>
      [] OTHER -> Dies

\* (A part that is no value is left as it was.)
set_SkipsBad(f, text) ==
    IF f.shape \in {"plain", "pointer"} THEN One(f.of, text, f.shape = "pointer")
    ELSE <<"slice", SelectSeq([i \in DOMAIN text |->
              One(f.of, <<text[i]>>, f.shape = "slice of pointers")], LAMBDA v : v # Dies)>>

set(f, text) ==
    IF f.shape \in {"plain", "pointer"} THEN One(f.of, text, f.shape = "pointer")
    ELSE LET vs == [i \in DOMAIN text |->
                      One(f.of, <<text[i]>>, f.shape = "slice of pointers")]
         IN  IF \E i \in DOMAIN vs : vs[i] = Dies THEN Dies ELSE <<"slice", vs>>

-----------------------------------------------------------------------------
getAssignmentName(f) == IF f.tag = "" THEN f.go ELSE f.tag

\* The field an attribute names, if there is one.
Named(name) == {i \in DOMAIN Fields : getAssignmentName(Fields[i]) = name}

ASSUME NamesAssumption ==
    \A i, j \in DOMAIN Fields :
        getAssignmentName(Fields[i]) = getAssignmentName(Fields[j]) => i = j

\* (The names the fields have in the program.)
describeFields_GoNames ==
    {Fields[i].go : i \in {j \in DOMAIN Fields :
        Fields[j].of = "struct" => Fields[j].shape # "plain"}}

\* What --show-filter-fields offers: what kindName has a name for.
describeFields ==
    {getAssignmentName(Fields[i]) : i \in {j \in DOMAIN Fields :
        Fields[j].of = "struct" => Fields[j].shape # "plain"}}

\* (The first argument of a name counts.)
argsToAttrs_FirstWins(args) ==
    [name \in {a.name : a \in ToSet(args)} |->
        args[CHOOSE i \in DOMAIN args : /\ args[i].name = name
                /\ \A j \in DOMAIN args : args[j].name = name => i <= j].text]

\* A map, into which the arguments are put in order.
argsToAttrs(args) ==
    [name \in {a.name : a \in ToSet(args)} |->
        args[CHOOSE i \in DOMAIN args : /\ args[i].name = name
                /\ \A j \in DOMAIN args : args[j].name = name => j <= i].text]

=============================================================================
