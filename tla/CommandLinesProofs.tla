------------------------- MODULE CommandLinesProofs -------------------------
(***************************************************************************)
(* Proofs about CommandLines: what list and init-zone make of arguments,   *)
(* for every filter type, every argument and command lines of any length.  *)
(*                                                                         *)
(* A list command: Typed and Filling say which argument of a name counts   *)
(* and what the fields of the attributes taken so far hold.                *)
(* An init-zone command: DomainsRead, RoutesRead and ProxiesRead say what  *)
(* the arguments typed so far are read as; LaidOut, where each object is   *)
(* on the list that is made of them.                                       *)
(***************************************************************************)
EXTENDS CommandLines, SequenceTheorems, TLAPS

-----------------------------------------------------------------------------
\* One value of a filter.

\* The conversion to a narrower integer leaves alone what fits.
LEMMA NarrowedFits ==
    ASSUME NEW t \in Signed \union Unsigned, NEW n \in Int, Fits(n, t)
    PROVE  Narrowed(n, t) = n
<1>1. Half[t] \in Nat \ {0}
  BY HalfAssumption
<1>2. \A m \in Nat : m < 2 * Half[t] => m % (2 * Half[t]) = m
  BY <1>1
<1>3. CASE t \in Signed
  <2>1. n + Half[t] \in Nat /\ n + Half[t] < 2 * Half[t]
    BY <1>1, <1>3 DEF Fits
  <2> QED BY <1>1, <1>2, <1>3, <2>1 DEF Narrowed
<1>4. CASE t \notin Signed
  <2>1. n \in Nat /\ n < 2 * Half[t]
    BY <1>1, <1>4 DEF Fits
  <2> QED BY <1>1, <1>2, <1>4, <2>1 DEF Narrowed
<1> QED BY <1>3, <1>4

IsPart(p) == p = Word(p[2]) \/ (p = Number(p[2]) /\ p[2] \in Int)

\* What was parsed for a type is in the range of the widest type of its sort.
LEMMA Parsed ==
    ASSUME NEW text, Len(text) = 1 => IsPart(text[1])
    PROVE  /\ ParsesInt(text) <=> IsNumber(text) /\ Fits(text[1][2], "int64")
           /\ ParsesUint(text) <=> IsNumber(text) /\ Fits(text[1][2], "uint64")
           /\ IsNumber(text) => text[1][2] \in Int
<1>1. IsNumber(text) => text[1][2] \in Int
  BY DEF IsNumber, IsPart, Word, Number
<1> QED BY <1>1 DEF ParsesInt, ParsesUint, Fits, Signed

\* boolish tells the texts that help gives for true from all others.
LEMMA BoolishIsTrue ==
    ASSUME NEW text, Len(text) = 1 => IsPart(text[1]) /\ text = <<text[1]>>
    PROVE  boolish(text) <=> text \in TrueTexts
<1> DEFINE yes == {"true", "t", "yes", "y"}
           spelled == yes \union {u \in DOMAIN Lower : Lower[u] \in yes}
<1>1. text \in TrueTexts <=> (\E w \in spelled : text = <<Word(w)>>) \/ text = <<Number(1)>>
  BY DEF TrueTexts
<1>2. ASSUME NEW w \in spelled PROVE ToLower(w) \in yes
  BY LowerAssumption DEF ToLower
<1>3. ASSUME NEW w, ToLower(w) \in yes PROVE w \in spelled
  BY <1>3 DEF ToLower
<1>4. ASSUME NEW w \in spelled, text = <<Word(w)>> PROVE boolish(text)
  <2>1. IsWord(text) /\ text[1][2] = w
    BY <1>4 DEF IsWord, Word
  <2> QED BY <1>2, <2>1 DEF boolish
<1>5. ASSUME IsWord(text), ToLower(text[1][2]) \in yes PROVE text \in TrueTexts
  <2>1. text[1] = Word(text[1][2])
    BY <1>5 DEF IsWord, IsPart, Word, Number
  <2>2. text = <<text[1]>>
    BY <1>5 DEF IsWord
  <2> QED BY <1>1, <1>3, <1>5, <2>1, <2>2
<1> QED BY <1>1, <1>4, <1>5 DEF boolish

\* One is the meaning of a text, or there is none.
LEMMA OneMeans ==
    ASSUME NEW t \in Bases, NEW text, NEW pointer \in BOOLEAN,
           Len(text) = 1 => IsPart(text[1]) /\ text = <<text[1]>>
    PROVE  IF One(t, text, pointer) = Dies THEN NoValue(t, pointer, text)
           ELSE ~NoValue(t, pointer, text) /\ Meant(t, One(t, text, pointer), text)
<1> DEFINE v == One(t, text, pointer)
<1>1. CASE t = "string"
  BY <1>1 DEF One, Dies, NoValue, Meant, Signed, Unsigned
<1>2. CASE t = "bool"
  <2>1. v = <<"bool", boolish(text)>>
    BY <1>2 DEF One, Signed, Unsigned
  <2>2. boolish(text) <=> text \in TrueTexts
    BY BoolishIsTrue
  <2>3. ~NoValue(t, pointer, text) /\ v # Dies
    BY <1>2, <2>1 DEF NoValue, Dies, Signed, Unsigned
  <2> QED BY <1>2, <2>1, <2>2, <2>3 DEF Meant
<1>3. CASE t = "time"
  BY <1>3, Parsed DEF One, Dies, NoValue, Meant, Signed, Unsigned
<1>4. CASE t = "struct"
  BY <1>4 DEF One, Dies, NoValue, Meant, Signed, Unsigned
<1>5. CASE t \in Signed
  <2>1. v = IF ParsesInt(text) THEN <<"int", Narrowed(text[1][2], t)>> ELSE Dies
    BY <1>5 DEF One, Signed, Unsigned
  <2>2. ParsesInt(text) <=> ~NoValue(t, pointer, text)
    BY <1>5, Parsed DEF NoValue, Signed, Unsigned
  <2>3. ASSUME ParsesInt(text), Fits(text[1][2], t) \/ t \in {"int64", "uint64"}
        PROVE  v = <<"int", text[1][2]>>
    <3>1. text[1][2] \in Int /\ Fits(text[1][2], t)
      BY <1>5, <2>3, Parsed DEF Signed
    <3> QED BY <1>5, <2>1, <2>3, <3>1, NarrowedFits
  <2>4. <<"int", Narrowed(text[1][2], t)>> # Dies
    BY DEF Dies
  <2> QED BY <1>5, <2>1, <2>2, <2>3, <2>4 DEF Meant, Signed
<1>6. CASE t \in Unsigned
  <2>1. v = IF pointer /\ ParsesUint(text) THEN <<"int", Narrowed(text[1][2], t)>> ELSE Dies
    BY <1>6 DEF One, Signed, Unsigned
  <2>2. pointer /\ ParsesUint(text) <=> ~NoValue(t, pointer, text)
    BY <1>6, Parsed DEF NoValue, Signed, Unsigned
  <2>3. ASSUME ParsesUint(text), pointer, Fits(text[1][2], t) \/ t \in {"int64", "uint64"}
        PROVE  v = <<"int", text[1][2]>>
    <3>1. text[1][2] \in Int /\ Fits(text[1][2], t)
      BY <1>6, <2>3, Parsed DEF Unsigned
    <3> QED BY <1>6, <2>1, <2>3, <3>1, NarrowedFits
  <2>4. <<"int", Narrowed(text[1][2], t)>> # Dies
    BY DEF Dies
  <2> QED BY <1>6, <2>1, <2>2, <2>3, <2>4 DEF Meant, Unsigned
<1> QED BY <1>1, <1>2, <1>3, <1>4, <1>5, <1>6 DEF Bases

\* A field is set to what its argument means, or the argument is refused.
LEMMA SetMeans ==
    ASSUME NEW i \in DOMAIN Fields, NEW a \in AttrArgs
    PROVE  LET f == Fields[i] IN
           IF set(f, a.text) = Dies THEN Refuses(f, a.text)
           ELSE ~Refuses(f, a.text) /\ Holds(f, set(f, a.text), a.text)
<1> DEFINE f == Fields[i]
           text == a.text
           vs == [n \in DOMAIN text |-> One(f.of, <<text[n]>>, f.shape = "slice of pointers")]
<1>1. f.shape \in Shapes /\ f.of \in Bases
  BY FieldsAssumption
<1>2. /\ \A n \in DOMAIN text : IsPart(text[n])
      /\ Len(text) \in Nat /\ DOMAIN text = 1..Len(text)
      /\ Len(text) = 1 => text = <<text[1]>>
  <2>1. text \in Seq(ToSet(text)) /\ \A p \in ToSet(text) : IsPart(p)
    BY AttrArgsAssumption DEF IsPart
  <2>2. \A n \in DOMAIN text : text[n] \in ToSet(text)
    BY DEF ToSet
  <2> QED BY <2>1, <2>2
<1>3. CASE Single(f)
  <2>1. set(f, text) = One(f.of, text, f.shape = "pointer")
    BY <1>3 DEF set, Single
  <2>2. \A tt : NoValue(f.of, Points(f), tt) <=> NoValue(f.of, f.shape = "pointer", tt)
    <3>1. Points(f) <=> f.shape = "pointer"
      BY <1>3 DEF Points, Single
    <3> HIDE DEF f
    <3> QED BY <3>1 DEF NoValue
  <2>3. Len(text) = 1 => IsPart(text[1]) /\ text = <<text[1]>>
    BY <1>2
  <2>4. IF One(f.of, text, f.shape = "pointer") = Dies THEN NoValue(f.of, f.shape = "pointer", text)
        ELSE /\ ~NoValue(f.of, f.shape = "pointer", text)
             /\ Meant(f.of, One(f.of, text, f.shape = "pointer"), text)
    BY <1>1, <2>3, OneMeans
  <2> QED BY <1>3, <2>1, <2>2, <2>4 DEF Refuses, Holds
<1>4. CASE ~Single(f)
  <2>1. set(f, text) = IF \E n \in DOMAIN vs : vs[n] = Dies THEN Dies ELSE <<"slice", vs>>
    BY <1>4 DEF set, Single
  <2>2. \A tt : NoValue(f.of, Points(f), tt) <=> NoValue(f.of, f.shape = "slice of pointers", tt)
    <3>1. Points(f) <=> f.shape = "slice of pointers"
      BY <1>4 DEF Points, Single
    <3> HIDE DEF f
    <3> QED BY <3>1 DEF NoValue
  <2>3. <<"slice", vs>> # Dies
    BY DEF Dies
  <2>4. \A n \in DOMAIN text :
           IF vs[n] = Dies THEN NoValue(f.of, f.shape = "slice of pointers", <<text[n]>>)
           ELSE /\ ~NoValue(f.of, f.shape = "slice of pointers", <<text[n]>>)
                /\ Meant(f.of, vs[n], <<text[n]>>)
    <3> TAKE n \in DOMAIN text
    <3>1. IsPart(<<text[n]>>[1]) /\ <<text[n]>> = <<(<<text[n]>>)[1]>>
      BY <1>2
    <3> QED BY <1>1, <3>1, OneMeans
  <2>5. Len(vs) = Len(text)
    BY <1>2
  <2>6. DOMAIN vs = DOMAIN text
    OBVIOUS
  <2>7. CASE \E n \in DOMAIN vs : vs[n] = Dies
    BY <1>4, <2>1, <2>2, <2>4, <2>6, <2>7 DEF Refuses
  <2>8. CASE \A n \in DOMAIN vs : vs[n] # Dies
    <3>1. set(f, text) = <<"slice", vs>>
      BY <2>1, <2>8
    <3> HIDE DEF vs
    <3>2. set(f, text)[2] = vs
      BY <3>1
    <3> QED BY <1>4, <2>2, <2>3, <2>4, <2>5, <2>6, <2>8, <3>1, <3>2 DEF Refuses, Holds
  <2> QED BY <2>7, <2>8
<1> QED BY <1>3, <1>4

-----------------------------------------------------------------------------
\* The map of attributes holds the last argument of each name.
IsLast(n) == /\ n \in DOMAIN typed
             /\ \A l \in DOMAIN typed : typed[l].name = typed[n].name => l <= n

Typed == /\ typed \in Seq(AttrArgs)
         /\ \A n \in DOMAIN typed : \E l : typed[l].name = typed[n].name /\ IsLast(l)

LEMMA LastCounts ==
    ASSUME Typed
    PROVE  /\ DOMAIN attrs = {typed[n].name : n \in DOMAIN typed}
           /\ \A n : IsLast(n) => attrs[typed[n].name] = typed[n].text
<1>1. /\ ToSet(typed) = {typed[n] : n \in DOMAIN typed}
      /\ Len(typed) \in Nat /\ DOMAIN typed = 1..Len(typed)
  BY DEF ToSet, Typed
<1>2. DOMAIN attrs = {a.name : a \in ToSet(typed)}
  BY DEF attrs, argsToAttrs
<1>3. DOMAIN attrs = {typed[n].name : n \in DOMAIN typed}
  BY <1>1, <1>2
<1>4. ASSUME NEW n, IsLast(n)
      PROVE  attrs[typed[n].name] = typed[n].text
  <2> DEFINE name == typed[n].name
             Only(i) == typed[i].name = name
                           /\ \A j \in DOMAIN typed : typed[j].name = name => j <= i
  <2>1. attrs[name] = typed[CHOOSE i \in DOMAIN typed : Only(i)].text
    BY <1>2, <1>3, <1>4 DEF attrs, argsToAttrs, IsLast
  <2>2. \A i \in DOMAIN typed : Only(i) => i = n
    BY <1>1, <1>4 DEF IsLast
  <2>3. n \in DOMAIN typed /\ Only(n)
    BY <1>4 DEF IsLast
  <2> HIDE DEF Only
  <2>4. (CHOOSE i \in DOMAIN typed : Only(i)) = n
    BY <2>2, <2>3
  <2> QED BY <2>1, <2>4
<1> QED BY <1>3, <1>4

\* A field is named by some argument, or by none.
NameOfField(i) == getAssignmentName(Fields[i])

LEMMA FieldTyped ==
    ASSUME Typed, NEW i \in DOMAIN Fields
    PROVE  /\ \A a \in LastTyped(i) : /\ a \in AttrArgs
                                      /\ NameOfField(i) \in DOMAIN attrs
                                      /\ attrs[NameOfField(i)] = a.text
           /\ NameOfField(i) \in DOMAIN attrs => LastTyped(i) # {}
<1>0. Len(typed) \in Nat /\ DOMAIN typed = 1..Len(typed)
  BY DEF Typed
<1>1. \A n \in DOMAIN typed :
         IsLast(n) <=> \A l \in (n + 1)..Len(typed) : typed[l].name # typed[n].name
  <2> TAKE n \in DOMAIN typed
  <2>1. \A l \in DOMAIN typed : l <= n \/ l \in (n + 1)..Len(typed)
    BY <1>0
  <2>2. \A l \in (n + 1)..Len(typed) : l \in DOMAIN typed /\ ~(l <= n)
    BY <1>0
  <2> QED BY <2>1, <2>2 DEF IsLast
<1>2. \A name : i \in Named(name) <=> name = NameOfField(i)
  BY DEF Named, NameOfField
<1>3. LastTyped(i) = {typed[n] : n \in {m \in DOMAIN typed : IsLast(m) /\ typed[m].name = NameOfField(i)}}
  BY <1>1, <1>2 DEF LastTyped
<1>4. ASSUME NEW a \in LastTyped(i)
      PROVE  a \in AttrArgs /\ NameOfField(i) \in DOMAIN attrs /\ attrs[NameOfField(i)] = a.text
  <2>1. PICK n \in DOMAIN typed : IsLast(n) /\ typed[n].name = NameOfField(i) /\ a = typed[n]
    BY <1>3
  <2>2. typed[n] \in AttrArgs
    BY <1>0 DEF Typed
  <2> QED BY <2>1, <2>2, LastCounts
<1>5. ASSUME NameOfField(i) \in DOMAIN attrs
      PROVE  LastTyped(i) # {}
  <2>1. PICK n \in DOMAIN typed : typed[n].name = NameOfField(i)
    BY <1>5, LastCounts
  <2>2. PICK l : typed[l].name = typed[n].name /\ IsLast(l)
    BY DEF Typed
  <2>3. l \in DOMAIN typed
    BY <2>2 DEF IsLast
  <2> QED BY <1>3, <2>1, <2>2, <2>3
<1> QED BY <1>4, <1>5

-----------------------------------------------------------------------------
\* What populateFilter has done so far.
Value(i) == set(Fields[i], attrs[NameOfField(i)])

Filling ==
    /\ phase \in {"typing", "filling", "listed", "dead"}
    /\ DOMAIN filter = DOMAIN Fields
    /\ todo \subseteq DOMAIN attrs
    /\ phase = "typing" => todo = {} /\ \A i \in DOMAIN Fields : filter[i] = Zero(Fields[i])
    /\ phase # "typing" =>
          \A i \in DOMAIN Fields :
              IF NameOfField(i) \in DOMAIN attrs \ todo
                THEN filter[i] = Value(i) /\ Value(i) # Dies
                ELSE filter[i] = Zero(Fields[i])
    /\ phase = "listed" => todo = {}
    /\ phase = "dead" =>
          \E i \in DOMAIN Fields : NameOfField(i) \in DOMAIN attrs /\ Value(i) = Dies

ListInv == Typed /\ Filling

LEMMA ListInitInv == ListInit => ListInv
  BY DEF ListInit, ListInv, Typed, Filling

LEMMA NextTyped ==
    ASSUME Typed, [ListNext]_listVars
    PROVE  Typed'
<1>1. CASE typed' = typed
  BY <1>1 DEF Typed, IsLast
<1>2. ASSUME NEW a \in AttrArgs, typed' = Append(typed, a)
      PROVE  Typed'
  <2>1. /\ typed' \in Seq(AttrArgs)
        /\ DOMAIN typed = 1..Len(typed) /\ DOMAIN typed' = 1..(Len(typed) + 1)
        /\ Len(typed) \in Nat
        /\ typed'[Len(typed) + 1] = a
        /\ \A n \in DOMAIN typed : typed'[n] = typed[n]
    BY <1>2 DEF Typed
  <2>2. ASSUME NEW n \in DOMAIN typed'
        PROVE  \E l : typed'[l].name = typed'[n].name /\ IsLast(l)'
    <3>1. CASE typed'[n].name = a.name
      <4>1. PICK last \in DOMAIN typed' : last = Len(typed) + 1
        BY <2>1
      <4>2. IsLast(last)'
        BY <2>1, <4>1 DEF IsLast
      <4> QED BY <2>1, <3>1, <4>1, <4>2
    <3>2. CASE typed'[n].name # a.name
      <4>1. n \in DOMAIN typed
        BY <2>1, <2>2, <3>2
      <4>2. PICK l : typed[l].name = typed[n].name /\ IsLast(l)
        BY <4>1 DEF Typed
      <4>3. l \in DOMAIN typed /\ typed'[l].name = typed'[n].name
        BY <2>1, <4>1, <4>2 DEF IsLast
      <4>4. IsLast(l)'
        BY <2>1, <3>2, <4>2, <4>3 DEF IsLast
      <4> QED BY <4>3, <4>4
    <3> QED BY <3>1, <3>2
  <2> QED BY <2>1, <2>2 DEF Typed
<1> QED BY <1>1, <1>2 DEF ListNext, TypeAttr, FilteredIndex, Ignore, Fill, Index, listVars

LEMMA NextFilling ==
    ASSUME ListInv, [ListNext]_listVars
    PROVE  Filling'
<1> USE DEF ListInv
<1>1. ASSUME NEW a \in AttrArgs, TypeAttr(a)
      PROVE  Filling'
  BY <1>1 DEF Filling, TypeAttr
<1>2. ASSUME NEW a \in AttrArgs, Fill(a.name)
      PROVE  Filling'
  <2> DEFINE name == a.name
  <2>1. /\ phase = "filling" /\ name \in todo /\ typed' = typed
        /\ \E i \in Named(name) :
              LET v == set(Fields[i], attrs[name]) IN
              IF v = Dies
              THEN phase' = "dead" /\ UNCHANGED <<todo, filter>>
              ELSE /\ filter' = [filter EXCEPT ![i] = v]
                   /\ todo' = todo \ {name}
                   /\ UNCHANGED phase
    BY <1>2 DEF Fill
  <2>2. PICK i \in Named(name) :
              LET v == set(Fields[i], attrs[name]) IN
              IF v = Dies
              THEN phase' = "dead" /\ UNCHANGED <<todo, filter>>
              ELSE /\ filter' = [filter EXCEPT ![i] = v]
                   /\ todo' = todo \ {name}
                   /\ UNCHANGED phase
    BY <2>1
  <2>3. /\ i \in DOMAIN Fields /\ NameOfField(i) = name
        /\ \A j \in DOMAIN Fields : NameOfField(j) = name => j = i
    BY NamesAssumption DEF Named, NameOfField
  <2>4. attrs' = attrs /\ name \in DOMAIN attrs
    BY <2>1 DEF Filling, attrs
  <2>5. Value(i) = set(Fields[i], attrs[name]) /\ \A j : Value(j)' = Value(j)
    BY <2>3, <2>4 DEF Value
  <2>6. CASE Value(i) = Dies
    <3>1. phase' = "dead" /\ todo' = todo /\ filter' = filter
      BY <2>2, <2>5, <2>6
    <3> QED BY <2>1, <2>3, <2>4, <2>5, <2>6, <3>1 DEF Filling
  <2>7. CASE Value(i) # Dies
    <3>1. phase' = "filling" /\ todo' = todo \ {name} /\ filter' = [filter EXCEPT ![i] = Value(i)]
      BY <2>1, <2>2, <2>5, <2>7
    <3>2. DOMAIN filter = DOMAIN Fields
      BY DEF Filling
    <3>3. \A j \in DOMAIN Fields : filter'[j] = IF j = i THEN Value(i) ELSE filter[j]
      BY <3>1, <3>2
    <3>4. ASSUME NEW j \in DOMAIN Fields
          PROVE  IF NameOfField(j) \in DOMAIN attrs \ todo'
                 THEN filter'[j] = Value(j) /\ Value(j) # Dies
                 ELSE filter'[j] = Zero(Fields[j])
      BY <2>1, <2>3, <2>4, <2>7, <3>1, <3>3 DEF Filling
    <3> QED BY <2>1, <2>4, <2>5, <3>1, <3>2, <3>4 DEF Filling
  <2> QED BY <2>6, <2>7
<1>3. ASSUME NEW a \in AttrArgs, Ignore(a.name)
      PROVE  Filling'
  <2> DEFINE name == a.name
  <2>1. /\ phase = "filling" /\ name \in todo /\ Named(name) = {}
        /\ todo' = todo \ {name} /\ UNCHANGED <<typed, phase, filter>>
    BY <1>3 DEF Ignore
  <2>2. \A j \in DOMAIN Fields : NameOfField(j) # name
    BY <2>1 DEF Named, NameOfField
  <2>3. attrs' = attrs /\ \A j : Value(j)' = Value(j)
    BY <2>1 DEF attrs, Value
  <2> QED BY <2>1, <2>2, <2>3 DEF Filling
<1>4. CASE FilteredIndex
  BY <1>4 DEF Filling, FilteredIndex, attrs
<1>5. CASE Index
  BY <1>5 DEF Filling, Index, attrs, Value
<1>6. CASE UNCHANGED listVars
  BY <1>6 DEF Filling, listVars, attrs, Value
<1> QED BY <1>1, <1>2, <1>3, <1>4, <1>5, <1>6 DEF ListNext

LEMMA ListInvHolds == CommandLine => []ListInv
<1>1. CommandInit => ListInv
  BY ListInitInv DEF CommandInit
<1>2. ListInv /\ [CommandNext]_<<flags, listVars>> => ListInv'
  <2> SUFFICES ASSUME ListInv, [CommandNext]_<<flags, listVars>> PROVE ListInv'
    OBVIOUS
  <2>1. [ListNext]_listVars
    BY DEF CommandNext
  <2> QED BY <2>1, NextTyped, NextFilling DEF ListInv
<1> QED BY <1>1, <1>2, PTL DEF CommandLine

\* A list asks the API for what was typed and nothing else, for every filter
\* type, in whatever order the map of attributes is read.
THEOREM FiltersAsTyped == CommandLine => []FilterIsWhatWasTyped
<1>1. ListInv => FilterIsWhatWasTyped
  <2> SUFFICES ASSUME ListInv, phase = "listed", NEW i \in DOMAIN Fields
               PROVE  /\ LastTyped(i) = {} => filter[i] = Zero(Fields[i])
                      /\ \A a \in LastTyped(i) : Holds(Fields[i], filter[i], a.text)
    BY DEF FilterIsWhatWasTyped
  <2>1. Typed /\ Filling /\ todo = {}
    BY DEF ListInv, Filling
  <2>2. ASSUME LastTyped(i) = {} PROVE filter[i] = Zero(Fields[i])
    BY <2>1, <2>2, FieldTyped DEF Filling
  <2>3. ASSUME NEW a \in LastTyped(i) PROVE Holds(Fields[i], filter[i], a.text)
    <3>1. /\ a \in AttrArgs /\ NameOfField(i) \in DOMAIN attrs
          /\ Value(i) = set(Fields[i], a.text)
      BY <2>1, FieldTyped DEF Value
    <3>2. filter[i] = Value(i) /\ Value(i) # Dies
      BY <2>1, <3>1 DEF Filling
    <3> QED BY <3>1, <3>2, SetMeans
  <2> QED BY <2>2, <2>3
<1> QED BY <1>1, ListInvHolds, PTL

\* A list ends without a call if and only if some last argument is no value of
\* the field it names.
THEOREM EndsWithReason == CommandLine => []EndsForAReason
<1>1. ListInv => EndsForAReason
  <2> SUFFICES ASSUME ListInv PROVE EndsForAReason
    OBVIOUS
  <2>1. Typed /\ Filling
    BY DEF ListInv
  <2>2. ASSUME phase = "dead"
        PROVE  \E i \in DOMAIN Fields : \E a \in LastTyped(i) : Refuses(Fields[i], a.text)
    <3>1. PICK i \in DOMAIN Fields : NameOfField(i) \in DOMAIN attrs /\ Value(i) = Dies
      BY <2>1, <2>2 DEF Filling
    <3>2. PICK a \in LastTyped(i) : TRUE
      BY <2>1, <3>1, FieldTyped
    <3>3. a \in AttrArgs /\ Value(i) = set(Fields[i], a.text)
      BY <2>1, <3>2, FieldTyped DEF Value
    <3> QED BY <3>1, <3>2, <3>3, SetMeans
  <2>3. ASSUME phase = "listed", NEW i \in DOMAIN Fields, NEW a \in LastTyped(i)
        PROVE  ~Refuses(Fields[i], a.text)
    <3>1. /\ a \in AttrArgs /\ NameOfField(i) \in DOMAIN attrs
          /\ Value(i) = set(Fields[i], a.text)
      BY <2>1, FieldTyped DEF Value
    <3>2. Value(i) # Dies
      BY <2>1, <2>3, <3>1 DEF Filling
    <3> QED BY <3>1, <3>2, SetMeans
  <2> QED BY <2>2, <2>3 DEF EndsForAReason
<1> QED BY <1>1, ListInvHolds, PTL

\* A field that --show-filter-fields does not show filters nothing.
THEOREM OnlyShownFilters == CommandLine => []OnlyShownFieldsFilter
<1>1. ASSUME ListInv, phase = "listed", NEW i \in DOMAIN Fields, filter[i] # Zero(Fields[i])
      PROVE  getAssignmentName(Fields[i]) \in describeFields
  <2>1. filter[i] = Value(i) /\ Value(i) # Dies
    <3>1. Filling /\ phase # "typing"
      BY <1>1 DEF ListInv
    <3>2. \/ filter[i] = Value(i) /\ Value(i) # Dies
          \/ filter[i] = Zero(Fields[i])
      BY <3>1 DEF Filling
    <3> QED BY <1>1, <3>2
  <2>2. ~(Fields[i].of = "struct" /\ Fields[i].shape = "plain")
    BY <1>1, <2>1, Zenon DEF Value, set, One, Signed, Unsigned
  <2> QED BY <2>2 DEF describeFields
<1>2. ListInv => OnlyShownFieldsFilter
  BY <1>1, Zenon DEF OnlyShownFieldsFilter
<1> QED BY <1>2, ListInvHolds, PTL

-----------------------------------------------------------------------------
\* The loops that read the arguments of an init-zone.
DomainLoop == INSTANCE LoopLaws WITH Body <- AddDomain, Start <- Accepted(<<>>)
ProxyLoop  == INSTANCE LoopLaws WITH Body <- AddProxy, Start <- Accepted(<<>>)
RouteLoop  == INSTANCE LoopLaws WITH Body <- AddRoute, Start <- Accepted(<<>>)

LEMMA ParseStep ==
    /\ ParseDomains(<<>>) = Accepted(<<>>)
    /\ ParseRoutes(<<>>) = Accepted(<<>>)
    /\ ParseProxies(<<>>) = Accepted(<<>>)
    /\ \A list \in Seq(DomainArgs), a \in DomainArgs :
          ParseDomains(Append(list, a)) = AddDomain(ParseDomains(list), a)
    /\ \A list \in Seq(RouteArgs), a \in RouteArgs :
          ParseRoutes(Append(list, a)) = AddRoute(ParseRoutes(list), a)
    /\ \A list \in Seq(ProxyArgs), a \in ProxyArgs :
          ParseProxies(Append(list, a)) = AddProxy(ParseProxies(list), a)
<1>1. /\ \A list : ParseDomains(list) = DomainLoop!After(list)
      /\ \A list : ParseRoutes(list) = RouteLoop!After(list)
      /\ \A list : ParseProxies(list) = ProxyLoop!After(list)
  <2>1. \A list : ParseDomains(list) = DomainLoop!After(list)
    BY DEF ParseDomains, DomainLoop!After, FoldLeft, MapThenFoldSet, Max,
           DomainLoop!FoldLeft, DomainLoop!MapThenFoldSet, DomainLoop!Max
  <2>2. \A list : ParseRoutes(list) = RouteLoop!After(list)
    BY DEF ParseRoutes, RouteLoop!After, FoldLeft, MapThenFoldSet, Max,
           RouteLoop!FoldLeft, RouteLoop!MapThenFoldSet, RouteLoop!Max
  <2>3. \A list : ParseProxies(list) = ProxyLoop!After(list)
    BY DEF ParseProxies, ProxyLoop!After, FoldLeft, MapThenFoldSet, Max,
           ProxyLoop!FoldLeft, ProxyLoop!MapThenFoldSet, ProxyLoop!Max
  <2> QED BY <2>1, <2>2, <2>3
<1> QED BY <1>1, DomainLoop!AfterNone, RouteLoop!AfterNone, ProxyLoop!AfterNone,
           DomainLoop!AfterAppend, RouteLoop!AfterAppend, ProxyLoop!AfterAppend

\* The init-zone command line typed so far grows at one end.
LEMMA TypedMore ==
    ASSUME [Next]_flags
    PROVE  \/ UNCHANGED flags
           \/ \E a \in DomainArgs : /\ domainStrs' = Append(domainStrs, a)
                                    /\ UNCHANGED <<routesStrs, proxyStrs>>
           \/ \E a \in RouteArgs : /\ routesStrs' = Append(routesStrs, a)
                                   /\ UNCHANGED <<domainStrs, proxyStrs>>
           \/ \E a \in ProxyArgs : /\ proxyStrs' = Append(proxyStrs, a)
                                   /\ UNCHANGED <<domainStrs, routesStrs>>
  BY DEF Next, TypeDomain, TypeRoute, TypeProxy

-----------------------------------------------------------------------------
\* Routes.
Normal(a) == [a EXCEPT !.path = NormalPath(@)]

LEMMA NormalRoute ==
    ASSUME NEW a \in RouteArgs
    PROVE  /\ Normal(a).domain = a.domain /\ Normal(a).path = NormalPath(a.path)
           /\ Normal(a).cluster = a.cluster /\ Normal(a).metadata = a.metadata
  BY ArgsAssumption DEF Normal

SamePlace(a, b) == a.domain = b.domain /\ NormalPath(a.path) = NormalPath(b.path)

RoutesRead ==
    /\ routesStrs \in Seq(RouteArgs)
    /\ ParseRoutes(routesStrs).ok <=>
          /\ \A i \in DOMAIN routesStrs : RouteOK(routesStrs[i])
          /\ \A i, j \in DOMAIN routesStrs : SamePlace(routesStrs[i], routesStrs[j]) => i = j
    /\ ParseRoutes(routesStrs).ok =>
          ParseRoutes(routesStrs).list = [i \in DOMAIN routesStrs |-> Normal(routesStrs[i])]

LEMMA InitRoutes == Init => RoutesRead
  BY ParseStep DEF Init, RoutesRead, Accepted

LEMMA NextRoutes ==
    ASSUME RoutesRead, [Next]_flags
    PROVE  RoutesRead'
<1>1. CASE UNCHANGED routesStrs
  BY <1>1 DEF RoutesRead
<1>2. ASSUME NEW a \in RouteArgs, routesStrs' = Append(routesStrs, a)
      PROVE  RoutesRead'
  <2> DEFINE n == Len(routesStrs)
             acc == ParseRoutes(routesStrs)
             res == ParseRoutes(routesStrs)'
  <2>1. /\ routesStrs \in Seq(RouteArgs) /\ routesStrs' \in Seq(RouteArgs) /\ n \in Nat
        /\ DOMAIN routesStrs = 1..n /\ DOMAIN routesStrs' = 1..(n + 1)
        /\ routesStrs'[n + 1] = a /\ \A i \in 1..n : routesStrs'[i] = routesStrs[i]
    BY <1>2 DEF RoutesRead
  <2>2. res = AddRoute(acc, a)
    BY <1>2, <2>1, ParseStep
  <2> DEFINE clash == \E i \in DOMAIN acc.list : /\ acc.list[i].domain = Normal(a).domain
                                               /\ acc.list[i].path = Normal(a).path
             good == acc.ok /\ RouteOK(a) /\ ~clash
  <2>3. res = IF good THEN Accepted(Append(acc.list, Normal(a))) ELSE Rejected
    BY <2>2 DEF AddRoute, Normal
  <2>4. res.ok <=> good
    BY <2>3 DEF Accepted, Rejected
  <2>5. acc.ok => (clash <=> \E i \in 1..n : SamePlace(routesStrs[i], a))
    <3> SUFFICES ASSUME acc.ok PROVE clash <=> \E i \in 1..n : SamePlace(routesStrs[i], a)
      OBVIOUS
    <3>1. acc.list = [i \in 1..n |-> Normal(routesStrs[i])]
      BY <2>1 DEF RoutesRead
    <3>2. \A i \in 1..n : routesStrs[i] \in RouteArgs
      BY <2>1
    <3> QED BY <3>1, <3>2, NormalRoute DEF SamePlace
  <2>6. acc.ok <=> /\ \A i \in 1..n : RouteOK(routesStrs[i])
                   /\ \A i, j \in 1..n : SamePlace(routesStrs[i], routesStrs[j]) => i = j
    BY <2>1 DEF RoutesRead
  <2>7. (\A i \in 1..(n + 1) : RouteOK(routesStrs'[i])) <=>
            (\A i \in 1..n : RouteOK(routesStrs[i])) /\ RouteOK(a)
    BY <2>1
  <2>8. (\A i, j \in 1..(n + 1) : SamePlace(routesStrs'[i], routesStrs'[j]) => i = j) <=>
            /\ \A i, j \in 1..n : SamePlace(routesStrs[i], routesStrs[j]) => i = j
            /\ ~\E i \in 1..n : SamePlace(routesStrs[i], a)
    <3>1. \A x, y : SamePlace(x, y) <=> SamePlace(y, x)
      BY DEF SamePlace
    <3> QED BY <2>1, <3>1
  <2>9. res.ok <=>
            /\ \A i \in DOMAIN routesStrs' : RouteOK(routesStrs'[i])
            /\ \A i, j \in DOMAIN routesStrs' : SamePlace(routesStrs'[i], routesStrs'[j]) => i = j
    BY <2>1, <2>4, <2>5, <2>6, <2>7, <2>8
  <2>10. res.ok => res.list = [i \in DOMAIN routesStrs' |-> Normal(routesStrs'[i])]
    <3> SUFFICES ASSUME res.ok
                 PROVE  res.list = [i \in DOMAIN routesStrs' |-> Normal(routesStrs'[i])]
      OBVIOUS
    <3>1. acc.ok /\ res.list = Append(acc.list, Normal(a))
      BY <2>3, <2>4 DEF Accepted
    <3>2. acc.list = [i \in 1..n |-> Normal(routesStrs[i])]
      BY <2>1, <3>1 DEF RoutesRead
    <3> QED BY <2>1, <3>1, <3>2
  <2> QED BY <2>1, <2>9, <2>10 DEF RoutesRead
<1> QED BY <1>1, <1>2, TypedMore DEF flags

\* The same route twice is an error however its path is written, and nothing
\* else about well-formed routes is, for command lines of any length.
THEOREM SameRouteIsAnError == CommandLine => []SameRouteTwiceIsRejected
<1>1. RoutesRead => SameRouteTwiceIsRejected
  <2> DEFINE routes == [i \in DOMAIN routesStrs |->
                          <<routesStrs[i].domain,
                            IF routesStrs[i].path = "" THEN "/" ELSE routesStrs[i].path>>]
  <2>1. IsInjective(routes) <=> \A i, j \in DOMAIN routesStrs :
                                   SamePlace(routesStrs[i], routesStrs[j]) => i = j
    BY DEF IsInjective, SamePlace, NormalPath
  <2> HIDE DEF routes
  <2> QED BY <2>1 DEF RoutesRead, SameRouteTwiceIsRejected, routes
<1>2. CommandInit => RoutesRead
  BY InitRoutes DEF CommandInit
<1>3. RoutesRead /\ [CommandNext]_<<flags, listVars>> => RoutesRead'
  BY NextRoutes DEF CommandNext
<1> QED BY <1>1, <1>2, <1>3, PTL DEF CommandLine

-----------------------------------------------------------------------------
\* FlattenSeq, as the laws have it.
LEMMA Flattening ==
    /\ FlattenSeq(<<>>) = <<>>
    /\ \A T : \A list \in Seq(Seq(T)) :
          /\ FlattenSeq(list) \in Seq(T)
          /\ \A s \in Seq(T) : FlattenSeq(Append(list, s)) = FlattenSeq(list) \o s
          /\ \E off : DomainLoop!Placed(FlattenSeq(list), list, off)
<1>1. \A list : FlattenSeq(list) = DomainLoop!FlattenSeq(list)
  BY DEF FlattenSeq, DomainLoop!FlattenSeq
<1>2. \A T : \A list \in Seq(Seq(T)) :
          /\ FlattenSeq(list) \in Seq(T)
          /\ \E off : DomainLoop!Placed(FlattenSeq(list), list, off)
  BY <1>1, DomainLoop!FlattenPlaces
<1>3. ASSUME NEW T, NEW list \in Seq(Seq(T)), NEW s \in Seq(T)
      PROVE  FlattenSeq(Append(list, s)) = FlattenSeq(list) \o s
  <2>1. DomainLoop!FlattenSeq(list) \in Seq(T)
    BY <1>1, <1>2
  <2>2. DomainLoop!FlattenSeq(Append(list, s)) = DomainLoop!FlattenSeq(list) \o s
    BY <2>1, DomainLoop!FlattenAppend
  <2> QED BY <1>1, <2>2
<1>4. FlattenSeq(<<>>) = <<>>
  BY DEF FlattenSeq
<1> QED BY <1>2, <1>3, <1>4

-----------------------------------------------------------------------------
\* Domains.  Aliases is the set of all aliases there are.
Aliases == UNION {ToSet(a.aliases) : a \in DomainArgs}

Part(n, a) == IF a.name = n THEN a.aliases ELSE <<>>

Parts(n, list) == [j \in DOMAIN list |-> IF list[j].name = n THEN list[j].aliases ELSE <<>>]

Gathered(n, list) == FlattenSeq(Parts(n, list))

LEMMA PartsTyped ==
    ASSUME NEW n, NEW list \in Seq(DomainArgs)
    PROVE  Parts(n, list) \in Seq(Seq(Aliases)) /\ Gathered(n, list) \in Seq(Aliases)
<1>1. \A a \in DomainArgs : a.aliases \in Seq(Aliases)
  <2> TAKE a \in DomainArgs
  <2>1. ToSet(a.aliases) \subseteq Aliases
    BY DEF Aliases
  <2>2. a.aliases \in Seq(ToSet(a.aliases))
    BY ArgsAssumption
  <2> QED BY <2>1, <2>2
<1>2. <<>> \in Seq(Aliases)
  OBVIOUS
<1>3. Parts(n, list) \in Seq(Seq(Aliases))
  <2>1. Len(list) \in Nat /\ DOMAIN list = 1..Len(list) /\ \A j \in DOMAIN list : list[j] \in DomainArgs
    OBVIOUS
  <2>2. \A j \in DOMAIN list : Parts(n, list)[j] \in Seq(Aliases)
    BY <1>1, <1>2, <2>1 DEF Parts
  <2>3. Parts(n, list) = [j \in 1..Len(list) |-> Parts(n, list)[j]]
    BY <2>1 DEF Parts
  <2> QED BY <2>1, <2>2, <2>3
<1> QED BY <1>3, Flattening DEF Gathered

LEMMA GatheredMore ==
    ASSUME NEW n, NEW list \in Seq(DomainArgs), NEW a \in DomainArgs
    PROVE  Gathered(n, Append(list, a)) = Gathered(n, list) \o Part(n, a)
<1>1. Parts(n, list) \in Seq(Seq(Aliases)) /\ Part(n, a) \in Seq(Aliases)
  <2>0. <<a>> \in Seq(DomainArgs)
    OBVIOUS
  <2>1. Parts(n, <<a>>) \in Seq(Seq(Aliases))
    BY <2>0, PartsTyped
  <2>2. Parts(n, <<a>>)[1] = Part(n, a)
    BY DEF Parts, Part
  <2>3. 1 \in DOMAIN Parts(n, <<a>>)
    BY DEF Parts
  <2> QED BY <2>1, <2>2, <2>3, PartsTyped
<1>2. Parts(n, Append(list, a)) = Append(Parts(n, list), Part(n, a))
  BY DEF Parts, Part
<1> QED BY <1>1, <1>2, Flattening DEF Gathered

LEMMA GatheredNone ==
    ASSUME NEW n, NEW list \in Seq(DomainArgs), \A j \in DOMAIN list : list[j].name # n
    PROVE  Gathered(n, list) = <<>>
<1>1. PICK off : DomainLoop!Placed(Gathered(n, list), Parts(n, list), off)
  BY PartsTyped, Flattening DEF Gathered
<1>2. \A i \in DOMAIN Parts(n, list) : DOMAIN Parts(n, list)[i] = {}
  BY DEF Parts
<1>3. DOMAIN Gathered(n, list) = {}
  BY <1>1, <1>2 DEF DomainLoop!Placed
<1>4. Gathered(n, list) \in Seq(Aliases)
  BY PartsTyped
<1> QED BY <1>3, <1>4

\* IndexOf finds the entry of a name, if entries have different names.
Distinct(list) == \A i, j \in DOMAIN list : list[i].name = list[j].name => i = j

LEMMA IndexFound ==
    ASSUME NEW list, NEW n, DOMAIN list \subseteq Nat \ {0}
    PROVE  /\ IndexOf(list, n) = 0 <=> \A i \in DOMAIN list : list[i].name # n
           /\ IndexOf(list, n) # 0 =>
                 /\ IndexOf(list, n) \in DOMAIN list
                 /\ list[IndexOf(list, n)].name = n
<1>1. CASE \E i \in DOMAIN list : list[i].name = n
  <2>1. IndexOf(list, n) = CHOOSE i \in DOMAIN list : list[i].name = n
    BY <1>1 DEF IndexOf
  <2>2. IndexOf(list, n) \in DOMAIN list /\ list[IndexOf(list, n)].name = n
    BY <1>1, <2>1
  <2> QED BY <1>1, <2>2
<1>2. CASE ~\E i \in DOMAIN list : list[i].name = n
  BY <1>2 DEF IndexOf
<1> QED BY <1>1, <1>2

DomainEntry == [name : {a.name : a \in DomainArgs}, aliases : Seq(Aliases)]

DomainsRead ==
    /\ domainStrs \in Seq(DomainArgs)
    /\ ParseDomains(domainStrs).ok =>
          LET list == ParseDomains(domainStrs).list IN
          /\ list \in Seq(DomainEntry) /\ Distinct(list)
          /\ {list[i].name : i \in DOMAIN list} = {domainStrs[j].name : j \in DOMAIN domainStrs}
          /\ \A i \in DOMAIN list : list[i].aliases = Gathered(list[i].name, domainStrs)

LEMMA InitDomains == Init => DomainsRead
<1> SUFFICES ASSUME Init PROVE DomainsRead
  OBVIOUS
<1>1. domainStrs = <<>> /\ ParseDomains(domainStrs).list = <<>>
  BY ParseStep DEF Init, Accepted
<1>2. <<>> \in Seq(DomainEntry) /\ <<>> \in Seq(DomainArgs) /\ DOMAIN <<>> = {}
  OBVIOUS
<1> QED BY <1>1, <1>2 DEF DomainsRead, Distinct

LEMMA NextDomains ==
    ASSUME DomainsRead, [Next]_flags
    PROVE  DomainsRead'
<1>1. CASE UNCHANGED domainStrs
  BY <1>1 DEF DomainsRead
<1>2. ASSUME NEW a \in DomainArgs, domainStrs' = Append(domainStrs, a)
      PROVE  DomainsRead'
  <2> DEFINE n == Len(domainStrs)
             acc == ParseDomains(domainStrs)
             res == ParseDomains(domainStrs)'
             at == IndexOf(acc.list, a.name)
  <2>1. /\ domainStrs \in Seq(DomainArgs) /\ domainStrs' \in Seq(DomainArgs) /\ n \in Nat
        /\ DOMAIN domainStrs = 1..n /\ DOMAIN domainStrs' = 1..(n + 1)
        /\ domainStrs'[n + 1] = a /\ \A i \in 1..n : domainStrs'[i] = domainStrs[i]
    BY <1>2 DEF DomainsRead
  <2>2. res = AddDomain(acc, a)
    BY <1>2, <2>1, ParseStep
  <2> SUFFICES ASSUME res.ok
               PROVE  LET list == res.list IN
          /\ list \in Seq(DomainEntry) /\ Distinct(list)
          /\ {list[i].name : i \in DOMAIN list} = {domainStrs'[j].name : j \in DOMAIN domainStrs'}
          /\ \A i \in DOMAIN list : list[i].aliases = Gathered(list[i].name, domainStrs')
    BY <2>1 DEF DomainsRead
  <2>3. acc.ok /\ res.list = IF at = 0 THEN Append(acc.list, a)
                             ELSE [acc.list EXCEPT ![at].aliases = @ \o a.aliases]
    BY <2>2 DEF AddDomain, Accepted, Rejected
  <2>4. /\ acc.list \in Seq(DomainEntry) /\ Distinct(acc.list)
        /\ {acc.list[i].name : i \in DOMAIN acc.list} = {domainStrs[j].name : j \in DOMAIN domainStrs}
        /\ \A i \in DOMAIN acc.list : acc.list[i].aliases = Gathered(acc.list[i].name, domainStrs)
    BY <2>3 DEF DomainsRead
  <2>5. {domainStrs'[j].name : j \in DOMAIN domainStrs'} =
            {domainStrs[j].name : j \in DOMAIN domainStrs} \union {a.name}
    BY <2>1
  <2>6. \A nm : Gathered(nm, domainStrs)' = Gathered(nm, domainStrs) \o Part(nm, a)
    BY <1>2, <2>1, GatheredMore
  <2>7. a \in DomainEntry
    <3>1. a.aliases \in Seq(ToSet(a.aliases)) /\ a = [name |-> a.name, aliases |-> a.aliases]
      BY ArgsAssumption
    <3>2. ToSet(a.aliases) \subseteq Aliases
      BY DEF Aliases
    <3>3. a.aliases \in Seq(Aliases)
      BY <3>1, <3>2
    <3>4. a.name \in {b.name : b \in DomainArgs}
      OBVIOUS
    <3> QED BY <3>1, <3>3, <3>4 DEF DomainEntry
  <2>8. /\ DOMAIN acc.list = 1..Len(acc.list) /\ Len(acc.list) \in Nat
        /\ DOMAIN acc.list \subseteq Nat \ {0}
    BY <2>4
  <2> HIDE DEF acc, res, at
  <2>9. CASE at = 0
    <3> DEFINE m == Len(acc.list)
    <3>1. \A i \in DOMAIN acc.list : acc.list[i].name # a.name
      BY <2>8, <2>9, IndexFound DEF at
    <3>2. /\ res.list \in Seq(DomainEntry) /\ DOMAIN res.list = 1..(m + 1)
          /\ res.list[m + 1] = a /\ \A i \in 1..m : res.list[i] = acc.list[i]
      BY <2>3, <2>4, <2>7, <2>8, <2>9
    <3>3. Distinct(res.list)
      <4> SUFFICES ASSUME NEW i \in 1..(m + 1), NEW j \in 1..(m + 1),
                          res.list[i].name = res.list[j].name
                   PROVE  i = j
        BY <3>2 DEF Distinct
      <4>1. /\ i \in 1..m => i \in DOMAIN acc.list /\ res.list[i] = acc.list[i]
            /\ j \in 1..m => j \in DOMAIN acc.list /\ res.list[j] = acc.list[j]
            /\ i \notin 1..m => i = m + 1
            /\ j \notin 1..m => j = m + 1
        BY <2>8, <3>2
      <4> QED BY <2>4, <3>1, <3>2, <4>1 DEF Distinct
    <3>4. {res.list[i].name : i \in DOMAIN res.list} =
             {acc.list[i].name : i \in DOMAIN acc.list} \union {a.name}
      BY <2>8, <3>2
    <3>5. \A j \in DOMAIN domainStrs : domainStrs[j].name # a.name
      BY <2>4, <3>1
    <3>6. ASSUME NEW i \in DOMAIN res.list
          PROVE  res.list[i].aliases = Gathered(res.list[i].name, domainStrs')
      <4>1. CASE i = m + 1
        <5>1. Gathered(a.name, domainStrs) = <<>>
          BY <2>1, <3>5, GatheredNone
        <5>2. Gathered(a.name, domainStrs)' = <<>> \o a.aliases
          BY <2>6, <5>1 DEF Part
        <5> QED BY <2>7, <3>2, <4>1, <5>2 DEF DomainEntry
      <4>2. CASE i \in 1..m
        <5>1. acc.list[i].aliases = Gathered(acc.list[i].name, domainStrs)
              /\ acc.list[i].name # a.name /\ res.list[i] = acc.list[i]
          BY <2>4, <2>8, <3>1, <3>2, <4>2
        <5>2. Gathered(acc.list[i].name, domainStrs') = acc.list[i].aliases \o <<>>
          BY <2>6, <5>1 DEF Part
        <5>3. acc.list[i].aliases \in Seq(Aliases)
          <6>1. acc.list[i] \in DomainEntry
            BY <2>4, <2>8, <4>2
          <6> QED BY <6>1 DEF DomainEntry
        <5> QED BY <5>1, <5>2, <5>3
      <4> QED BY <2>8, <3>2, <4>1, <4>2
    <3> QED BY <2>4, <2>5, <3>2, <3>3, <3>4, <3>6
  <2>10. CASE at # 0
    <3>1. at \in DOMAIN acc.list /\ acc.list[at].name = a.name
      BY <2>8, <2>10, IndexFound DEF at
    <3>2. acc.list[at] \in DomainEntry
      BY <2>4, <3>1
    <3>3. /\ DOMAIN res.list = DOMAIN acc.list
          /\ \A i \in DOMAIN acc.list : res.list[i] =
                IF i = at THEN [acc.list[at] EXCEPT !.aliases = @ \o a.aliases]
                ELSE acc.list[i]
      BY <2>3, <2>10, <3>1
    <3>4. [acc.list[at] EXCEPT !.aliases = @ \o a.aliases] \in DomainEntry
      <4>1. acc.list[at].aliases \in Seq(Aliases) /\ a.aliases \in Seq(Aliases)
        BY <2>7, <3>2 DEF DomainEntry
      <4>2. acc.list[at].aliases \o a.aliases \in Seq(Aliases)
        BY <4>1
      <4> QED BY <3>2, <4>2 DEF DomainEntry
    <3>5. /\ res.list[at].name = a.name
          /\ res.list[at].aliases = acc.list[at].aliases \o a.aliases
      BY <3>1, <3>2, <3>3 DEF DomainEntry
    <3>6. res.list \in Seq(DomainEntry)
      BY <2>3, <2>4, <2>10, <3>1, <3>4
    <3>7. \A i \in DOMAIN acc.list : res.list[i].name = acc.list[i].name
      BY <3>1, <3>3, <3>5
    <3>8. Distinct(res.list)
      BY <2>4, <3>3, <3>7 DEF Distinct
    <3>9. /\ {res.list[i].name : i \in DOMAIN res.list} = {acc.list[i].name : i \in DOMAIN acc.list}
          /\ a.name \in {acc.list[i].name : i \in DOMAIN acc.list}
      BY <3>1, <3>3, <3>7
    <3>10. ASSUME NEW i \in DOMAIN res.list
           PROVE  res.list[i].aliases = Gathered(res.list[i].name, domainStrs')
      <4>1. acc.list[i].aliases = Gathered(acc.list[i].name, domainStrs) /\ i \in DOMAIN acc.list
        BY <2>4, <3>3
      <4>2. Gathered(acc.list[i].name, domainStrs') = acc.list[i].aliases \o Part(acc.list[i].name, a)
        BY <2>6, <4>1
      <4>3. CASE i = at
        BY <3>1, <3>5, <4>1, <4>2, <4>3 DEF Part
      <4>4. CASE i # at
        <5>1. acc.list[i].name # a.name
          BY <2>4, <3>1, <4>1, <4>4 DEF Distinct
        <5>2. acc.list[i].aliases \in Seq(Aliases)
          <6>1. acc.list[i] \in DomainEntry
            BY <2>4, <4>1
          <6> QED BY <6>1 DEF DomainEntry
        <5>3. Part(acc.list[i].name, a) = <<>>
          BY <5>1 DEF Part
        <5>4. res.list[i] = acc.list[i]
          BY <3>3, <4>1, <4>4
        <5> QED BY <4>2, <5>2, <5>3, <5>4
      <4> QED BY <4>3, <4>4
    <3> QED BY <2>4, <2>5, <3>6, <3>8, <3>9, <3>10
  <2> QED BY <2>9, <2>10
<1> QED BY <1>1, <1>2, TypedMore DEF flags

\* Each domain has one entry, with the aliases of all its arguments in order,
\* for command lines of any length.
THEOREM AliasesAreCombined == CommandLine => []AliasesCombined
<1>1. DomainsRead => AliasesCombined
  <2> SUFFICES ASSUME DomainsRead, args.ok PROVE AliasesCombined
    BY DEF AliasesCombined
  <2>1. ParseDomains(domainStrs).ok /\ args.domains = ParseDomains(domainStrs).list
    BY DEF args, Parse
  <2>2. /\ {args.domains[i].name : i \in DOMAIN args.domains} = {domainStrs[j].name : j \in DOMAIN domainStrs}
        /\ \A i \in DOMAIN args.domains :
              args.domains[i].aliases = FlattenSeq(Parts(args.domains[i].name, domainStrs))
    BY <2>1 DEF DomainsRead, Gathered
  <2> QED BY <2>2 DEF AliasesCombined, Parts
<1>2. CommandInit => DomainsRead
  BY InitDomains DEF CommandInit
<1>3. DomainsRead /\ [CommandNext]_<<flags, listVars>> => DomainsRead'
  BY NextDomains DEF CommandNext
<1> QED BY <1>1, <1>2, <1>3, PTL DEF CommandLine

-----------------------------------------------------------------------------
\* Proxies.
DomainNames == {a.domain : a \in ProxyArgs}
ProxyEntry  == [name : {a.name : a \in ProxyArgs}, domains : Seq(DomainNames)]

Serves(p, a) == p.name = a.name /\ a.domain \in ToSet(p.domains)

ProxiesRead ==
    /\ proxyStrs \in Seq(ProxyArgs)
    /\ ParseProxies(proxyStrs).ok =>
          LET list == ParseProxies(proxyStrs).list IN
          /\ list \in Seq(ProxyEntry) /\ Distinct(list)
          /\ \A j \in DOMAIN proxyStrs : \E i \in DOMAIN list : Serves(list[i], proxyStrs[j])

LEMMA InitProxies == Init => ProxiesRead
<1> SUFFICES ASSUME Init PROVE ProxiesRead
  OBVIOUS
<1>1. proxyStrs = <<>> /\ ParseProxies(proxyStrs).list = <<>>
  BY ParseStep DEF Init, Accepted
<1>2. <<>> \in Seq(ProxyEntry) /\ <<>> \in Seq(ProxyArgs) /\ DOMAIN <<>> = {}
  OBVIOUS
<1> QED BY <1>1, <1>2 DEF ProxiesRead, Distinct

\* What a domain more does to the entry of a proxy.
LEMMA ServesMore ==
    ASSUME NEW p \in ProxyEntry, NEW d \in DomainNames
    PROVE  LET q == [p EXCEPT !.domains = Append(@, d)] IN
           /\ q \in ProxyEntry /\ q.name = p.name
           /\ ToSet(q.domains) = ToSet(p.domains) \union {d}
<1> DEFINE q == [p EXCEPT !.domains = Append(@, d)]
<1>1. p.domains \in Seq(DomainNames) /\ q.domains = Append(p.domains, d) /\ q.name = p.name
  BY DEF ProxyEntry
<1>2. q \in ProxyEntry
  <2>1. Append(p.domains, d) \in Seq(DomainNames)
    BY <1>1
  <2> QED BY <2>1 DEF ProxyEntry
<1>3. /\ DOMAIN p.domains = 1..Len(p.domains) /\ Len(p.domains) \in Nat
      /\ DOMAIN q.domains = 1..(Len(p.domains) + 1)
      /\ q.domains[Len(p.domains) + 1] = d
      /\ \A i \in DOMAIN p.domains : q.domains[i] = p.domains[i]
  BY <1>1
<1> HIDE DEF q
<1>4. ToSet(q.domains) = ToSet(p.domains) \union {d}
  BY <1>3 DEF ToSet
<1> QED BY <1>1, <1>2, <1>4 DEF q

LEMMA NextProxies ==
    ASSUME ProxiesRead, [Next]_flags
    PROVE  ProxiesRead'
<1>1. CASE UNCHANGED proxyStrs
  BY <1>1 DEF ProxiesRead
<1>2. ASSUME NEW a \in ProxyArgs, proxyStrs' = Append(proxyStrs, a)
      PROVE  ProxiesRead'
  <2> DEFINE n == Len(proxyStrs)
             acc == ParseProxies(proxyStrs)
             res == ParseProxies(proxyStrs)'
             at == IndexOf(acc.list, a.name)
             entry == [name |-> a.name, domains |-> <<a.domain>>]
             more == [acc.list[at] EXCEPT !.domains = Append(@, a.domain)]
  <2>1. /\ proxyStrs \in Seq(ProxyArgs) /\ proxyStrs' \in Seq(ProxyArgs) /\ n \in Nat
        /\ DOMAIN proxyStrs = 1..n /\ DOMAIN proxyStrs' = 1..(n + 1)
        /\ proxyStrs'[n + 1] = a /\ \A i \in 1..n : proxyStrs'[i] = proxyStrs[i]
    BY <1>2 DEF ProxiesRead
  <2>2. res = AddProxy(acc, a)
    BY <1>2, <2>1, ParseStep
  <2> SUFFICES ASSUME res.ok
               PROVE  LET list == res.list IN
          /\ list \in Seq(ProxyEntry) /\ Distinct(list)
          /\ \A j \in DOMAIN proxyStrs' : \E i \in DOMAIN list : Serves(list[i], proxyStrs'[j])
    BY <2>1 DEF ProxiesRead
  <2>3. acc.ok /\ res.list = IF at = 0 THEN Append(acc.list, entry)
                             ELSE [acc.list EXCEPT ![at].domains = Append(@, a.domain)]
    BY <2>2 DEF AddProxy, Accepted, Rejected
  <2>4. /\ acc.list \in Seq(ProxyEntry) /\ Distinct(acc.list)
        /\ \A j \in DOMAIN proxyStrs : \E i \in DOMAIN acc.list : Serves(acc.list[i], proxyStrs[j])
    BY <2>3 DEF ProxiesRead
  <2>5. /\ DOMAIN acc.list = 1..Len(acc.list) /\ Len(acc.list) \in Nat
        /\ DOMAIN acc.list \subseteq Nat \ {0}
        /\ \A i \in DOMAIN acc.list : acc.list[i] \in ProxyEntry
    BY <2>4
  <2>6. a.domain \in DomainNames
    BY DEF DomainNames
  <2> HIDE DEF acc, res, at
  <2>7. CASE at = 0
    <3> DEFINE m == Len(acc.list)
    <3>1. \A i \in DOMAIN acc.list : acc.list[i].name # a.name
      BY <2>5, <2>7, IndexFound DEF at
    <3>2. entry \in ProxyEntry /\ Serves(entry, a)
      <4>1. <<a.domain>> \in Seq(DomainNames) /\ a.domain \in ToSet(<<a.domain>>)
        BY <2>6 DEF ToSet
      <4> QED BY <4>1 DEF ProxyEntry, Serves
    <3>3. entry.name = a.name
      OBVIOUS
    <3> HIDE DEF entry
    <3>4. /\ res.list \in Seq(ProxyEntry) /\ DOMAIN res.list = 1..(m + 1)
          /\ res.list[m + 1] = entry /\ \A i \in 1..m : res.list[i] = acc.list[i]
      BY <2>3, <2>4, <2>7, <3>2
    <3>5. Distinct(res.list)
      <4> SUFFICES ASSUME NEW i \in 1..(m + 1), NEW j \in 1..(m + 1),
                          res.list[i].name = res.list[j].name
                   PROVE  i = j
        BY <3>4 DEF Distinct
      <4>1. /\ i \in 1..m => i \in DOMAIN acc.list /\ res.list[i] = acc.list[i]
            /\ j \in 1..m => j \in DOMAIN acc.list /\ res.list[j] = acc.list[j]
            /\ i \notin 1..m => i = m + 1
            /\ j \notin 1..m => j = m + 1
        BY <2>5, <3>4
      <4> QED BY <2>4, <3>1, <3>3, <3>4, <4>1 DEF Distinct
    <3>6. ASSUME NEW j \in DOMAIN proxyStrs'
          PROVE  \E i \in DOMAIN res.list : Serves(res.list[i], proxyStrs'[j])
      <4>1. CASE j = n + 1
        <5>1. m + 1 \in DOMAIN res.list
          BY <2>5, <3>4
        <5> QED BY <2>1, <3>2, <3>4, <4>1, <5>1
      <4>2. CASE j \in 1..n
        <5>1. PICK i \in DOMAIN acc.list : Serves(acc.list[i], proxyStrs[j])
          BY <2>1, <2>4, <4>2
        <5>2. i \in DOMAIN res.list /\ res.list[i] = acc.list[i]
          BY <2>5, <3>4
        <5> QED BY <2>1, <4>2, <5>1, <5>2
      <4> QED BY <2>1, <4>1, <4>2
    <3> QED BY <3>4, <3>5, <3>6
  <2>8. CASE at # 0
    <3>1. at \in DOMAIN acc.list /\ acc.list[at].name = a.name
      BY <2>5, <2>8, IndexFound DEF at
    <3>2. /\ more \in ProxyEntry /\ more.name = a.name
          /\ ToSet(more.domains) = ToSet(acc.list[at].domains) \union {a.domain}
      BY <2>5, <2>6, <3>1, ServesMore
    <3>3. /\ DOMAIN res.list = DOMAIN acc.list
          /\ \A i \in DOMAIN acc.list : res.list[i] = IF i = at THEN more ELSE acc.list[i]
      BY <2>3, <2>8, <3>1
    <3>4. res.list = [acc.list EXCEPT ![at] = more]
      BY <2>3, <2>8
    <3> HIDE DEF more
    <3>5. res.list \in Seq(ProxyEntry)
      BY <2>4, <3>1, <3>2, <3>4
    <3>6. Distinct(res.list)
      BY <2>4, <3>1, <3>2, <3>3 DEF Distinct
    <3>7. ASSUME NEW j \in DOMAIN proxyStrs'
          PROVE  \E i \in DOMAIN res.list : Serves(res.list[i], proxyStrs'[j])
      <4>1. CASE j = n + 1
        BY <2>1, <3>1, <3>2, <3>3, <4>1 DEF Serves
      <4>2. CASE j \in 1..n
        <5>1. PICK i \in DOMAIN acc.list : Serves(acc.list[i], proxyStrs[j])
          BY <2>1, <2>4, <4>2
        <5> QED BY <2>1, <3>1, <3>2, <3>3, <4>2, <5>1 DEF Serves
      <4> QED BY <2>1, <4>1, <4>2
    <3> QED BY <3>5, <3>6, <3>7
  <2> QED BY <2>7, <2>8
<1> QED BY <1>1, <1>2, TypedMore DEF flags

-----------------------------------------------------------------------------
\* The work list.  A route's domain has an item before it if an argument, or
\* an earlier route, names it.
Had(a, i) == \/ \E k \in DOMAIN a.domains : a.domains[k].name = a.routes[i].domain
             \/ \E j \in 1..(i - 1) : a.routes[j].domain = a.routes[i].domain

Deps(a, i) == Dependencies(a.domains, a.routes, i)

LEMMA DepsAre ==
    ASSUME NEW a, NEW i
    PROVE  Deps(a, i) = IF Had(a, i)
                          THEN <<ClusterItem(a.routes[i]), RulesItem(a.routes[i])>>
                          ELSE <<ImpliedItem(a.routes[i]), ClusterItem(a.routes[i]),
                                 RulesItem(a.routes[i])>>
<1> DEFINE had == \/ \E k \in DOMAIN a.domains : a.domains[k].name = a.routes[i].domain
                  \/ \E j \in 1..(i - 1) : a.routes[j].domain = a.routes[i].domain
           r == a.routes[i]
<1>1. Deps(a, i) = (IF had THEN <<>> ELSE <<ImpliedItem(r)>>) \o <<ClusterItem(r), RulesItem(r)>>
  BY DEF Deps, Dependencies
<1>2. \A x, y, z : <<>> \o <<x, y>> = <<x, y>> /\ <<z>> \o <<x, y>> = <<z, x, y>>
  <2> TAKE x, y, z
  <2>1. <<x, y>> \in Seq({x, y, z}) /\ <<z>> \in Seq({x, y, z}) /\ <<z, x, y>> \in Seq({x, y, z})
    OBVIOUS
  <2>2. <<>> \o <<x, y>> = <<x, y>>
    BY <2>1, ConcatEmptySeq
  <2>3. PICK w : w = <<z>> \o <<x, y>>
    OBVIOUS
  <2>4. w \in Seq({x, y, z}) /\ Len(w) = 3 /\ w[1] = z /\ w[2] = x /\ w[3] = y
    <3>1. /\ w \in Seq({x, y, z}) /\ Len(w) = 1 + 2
          /\ \A n \in 1..(1 + 2) : w[n] = IF n <= 1 THEN <<z>>[n] ELSE <<x, y>>[n - 1]
      BY <2>1, <2>3, ConcatProperties
    <3> QED BY <3>1
  <2>5. w = <<z, x, y>>
    BY <2>4
  <2> QED BY <2>2, <2>3, <2>5
<1>3. Had(a, i) <=> had
  BY DEF Had
<1> HIDE DEF had
<1> QED BY <1>1, <1>2, <1>3

LEMMA ConcatPlaces ==
    ASSUME NEW T, NEW s \in Seq(T), NEW t \in Seq(T)
    PROVE  /\ s \o t \in Seq(T) /\ Len(s \o t) = Len(s) + Len(t)
           /\ \A i \in 1..Len(s) : (s \o t)[i] = s[i]
           /\ \A i \in 1..Len(t) : (s \o t)[Len(s) + i] = t[i]
<1>1. s \o t \in Seq(T) /\ Len(s \o t) = Len(s) + Len(t)
  BY ConcatProperties
<1>2. Len(s) \in Nat /\ Len(t) \in Nat
  OBVIOUS
<1>3. \A i \in 1..(Len(s) + Len(t)) : (s \o t)[i] = IF i <= Len(s) THEN s[i] ELSE t[i - Len(s)]
  BY ConcatProperties
<1>4. \A i \in 1..Len(s) : (s \o t)[i] = s[i]
  BY <1>2, <1>3
<1>5. \A i \in 1..Len(t) : (s \o t)[Len(s) + i] = t[i]
  <2> TAKE i \in 1..Len(t)
  <2>1. /\ Len(s) + i \in 1..(Len(s) + Len(t)) /\ ~(Len(s) + i <= Len(s))
        /\ (Len(s) + i) - Len(s) = i
    BY <1>2
  <2> QED BY <1>3, <2>1
<1> QED BY <1>1, <1>4, <1>5

Known(a) == {a.domains[i].name : i \in DOMAIN a.domains}
                \union {a.routes[i].domain : i \in DOMAIN a.routes}

ZoneItem(zone) == Item("zone", zone, {}, <<>>, FALSE)

\* Where each item is on the list.
LaidOut(list, zone, a, off, nf) ==
    LET nd == Len(a.domains)
        nr == Len(a.routes)
        np == Len(a.proxies)
    IN  /\ nf \in Nat /\ off \in [1..nr -> Nat]
        /\ Len(list) = 1 + nd + nf + nr + np /\ DOMAIN list = 1..Len(list)
        /\ list[1] = ZoneItem(zone)
        /\ \A i \in 1..nd : list[1 + i] = DomainItem(a.domains[i])
        /\ \A i \in 1..nr : \A m \in DOMAIN Deps(a, i) :
              off[i] + m \in 1..nf /\ list[1 + nd + off[i] + m] = Deps(a, i)[m]
        /\ \A x \in 1..nf : \E i \in 1..nr : \E m \in DOMAIN Deps(a, i) : x = off[i] + m
        /\ \A i \in 1..nr : list[1 + nd + nf + i] = RouteItem(a.routes[i])
        /\ \A i \in 1..np : list[1 + nd + nf + nr + i] = ProxyItem(a.proxies[i], Known(a))

IsList(s) == Len(s) \in Nat /\ DOMAIN s = 1..Len(s)

LEMMA WorkLaidOut ==
    ASSUME NEW zone, NEW a, IsList(a.domains), IsList(a.routes), IsList(a.proxies)
    PROVE  \E off, nf : LaidOut(WorkOf(zone, a), zone, a, off, nf)
<1> DEFINE nd == Len(a.domains)
           nr == Len(a.routes)
           np == Len(a.proxies)
           s1 == <<ZoneItem(zone)>>
           s2 == [i \in DOMAIN a.domains |-> DomainItem(a.domains[i])]
           parts == [i \in DOMAIN a.routes |-> Dependencies(a.domains, a.routes, i)]
           s3 == FlattenSeq(parts)
           s4 == [i \in DOMAIN a.routes |-> RouteItem(a.routes[i])]
           s5 == [i \in DOMAIN a.proxies |-> ProxyItem(a.proxies[i], Known(a))]
           T == {ZoneItem(zone)} \union {s2[i] : i \in DOMAIN s2} \union {s4[i] : i \in DOMAIN s4}
                  \union {s5[i] : i \in DOMAIN s5}
                  \union {ImpliedItem(a.routes[i]) : i \in DOMAIN a.routes}
                  \union {ClusterItem(a.routes[i]) : i \in DOMAIN a.routes}
                  \union {RulesItem(a.routes[i]) : i \in DOMAIN a.routes}
<1>1. WorkOf(zone, a) = s1 \o s2 \o s3 \o s4 \o s5
  BY DEF WorkOf, Known, ZoneItem
<1>2. /\ nd \in Nat /\ nr \in Nat /\ np \in Nat
      /\ DOMAIN a.domains = 1..nd /\ DOMAIN a.routes = 1..nr /\ DOMAIN a.proxies = 1..np
  BY DEF IsList
<1>3. s1 \in Seq(T) /\ Len(s1) = 1 /\ s1[1] = ZoneItem(zone)
  <2>1. ZoneItem(zone) \in T
    OBVIOUS
  <2> HIDE DEF T
  <2> QED BY <2>1
<1>4. s2 \in Seq(T) /\ Len(s2) = nd
  <2>1. \A i \in 1..nd : s2[i] \in T
    BY <1>2
  <2>2. s2 = [i \in 1..nd |-> s2[i]]
    BY <1>2
  <2> HIDE DEF T, s2
  <2> QED BY <1>2, <2>1, <2>2
<1>5. s4 \in Seq(T) /\ Len(s4) = nr
  <2>1. \A i \in 1..nr : s4[i] \in T
    BY <1>2
  <2>2. s4 = [i \in 1..nr |-> s4[i]]
    BY <1>2
  <2> HIDE DEF T, s4
  <2> QED BY <1>2, <2>1, <2>2
<1>6. s5 \in Seq(T) /\ Len(s5) = np
  <2>1. \A i \in 1..np : s5[i] \in T
    BY <1>2
  <2>2. s5 = [i \in 1..np |-> s5[i]]
    BY <1>2
  <2> HIDE DEF T, s5
  <2> QED BY <1>2, <2>1, <2>2
<1>7. parts \in Seq(Seq(T)) /\ Len(parts) = nr /\ \A i \in 1..nr : parts[i] = Deps(a, i)
  <2>1. ASSUME NEW i \in 1..nr
        PROVE  parts[i] \in Seq(T) /\ parts[i] = Deps(a, i)
    <3>1. parts[i] = Deps(a, i)
      BY <1>2 DEF Deps
    <3>2. /\ ImpliedItem(a.routes[i]) \in T /\ ClusterItem(a.routes[i]) \in T
          /\ RulesItem(a.routes[i]) \in T
      BY <1>2
    <3> HIDE DEF T, parts
    <3>3. \A x, y, z \in T : <<x, y>> \in Seq(T) /\ <<x, y, z>> \in Seq(T)
      OBVIOUS
    <3>4. Deps(a, i) \in Seq(T)
      BY <3>2, <3>3, DepsAre
    <3> QED BY <3>1, <3>4
  <2>2. parts = [i \in 1..nr |-> parts[i]]
    BY <1>2
  <2> DEFINE ST == Seq(T)
  <2>3. \A i \in 1..nr : parts[i] \in ST
    BY <2>1
  <2> HIDE DEF ST, T, parts
  <2>4. parts \in Seq(ST) /\ Len(parts) = nr
    BY <1>2, <2>2, <2>3
  <2> QED BY <2>1, <2>4 DEF ST
<1> HIDE DEF s1, s2, parts, s3, s4, s5, T
<1>8. /\ s3 \in Seq(T)
      /\ \E off : DomainLoop!Placed(s3, parts, off)
  BY <1>7, Flattening DEF s3
<1>9. PICK off : DomainLoop!Placed(s3, parts, off)
  BY <1>8
<1> DEFINE nf == Len(s3)
<1>0. Len(s3) = nf /\ Len(s3) \in Nat
  BY <1>8
<1> HIDE DEF nf
<1>10. PICK w2 : w2 = s1 \o s2
  OBVIOUS
<1>11. PICK w3 : w3 = w2 \o s3
  OBVIOUS
<1>12. PICK w4 : w4 = w3 \o s4
  OBVIOUS
<1>13. PICK w5 : w5 = w4 \o s5
  OBVIOUS
<1>14. w5 = WorkOf(zone, a)
  BY <1>1, <1>10, <1>11, <1>12, <1>13
<1> HIDE DEF nd, nr, np
<1>15. /\ w2 \in Seq(T) /\ Len(w2) = 1 + nd /\ w2[1] = ZoneItem(zone)
       /\ \A i \in 1..nd : w2[1 + i] = s2[i]
  <2>1. s1 \in Seq(T) /\ s2 \in Seq(T)
    BY <1>2, <1>3, <1>4
  <2>2. /\ w2 \in Seq(T) /\ Len(w2) = Len(s1) + Len(s2)
        /\ \A i \in 1..Len(s1) : w2[i] = s1[i]
        /\ \A i \in 1..Len(s2) : w2[Len(s1) + i] = s2[i]
    BY <2>1, <1>10, ConcatPlaces
  <2> QED BY <2>2, <1>2, <1>3, <1>4
<1>16. /\ w3 \in Seq(T) /\ Len(w3) = (1 + nd) + nf /\ nf \in Nat
       /\ \A i \in 1..(1 + nd) : w3[i] = w2[i]
       /\ \A i \in 1..nf : w3[(1 + nd) + i] = s3[i]
  <2>1. w2 \in Seq(T) /\ s3 \in Seq(T)
    BY <1>0, <1>8, <1>15
  <2>2. /\ w3 \in Seq(T) /\ Len(w3) = Len(w2) + Len(s3)
        /\ \A i \in 1..Len(w2) : w3[i] = w2[i]
        /\ \A i \in 1..Len(s3) : w3[Len(w2) + i] = s3[i]
    BY <2>1, <1>11, ConcatPlaces
  <2> QED BY <2>2, <1>0, <1>8, <1>15
<1>17. /\ w4 \in Seq(T) /\ Len(w4) = ((1 + nd) + nf) + nr
       /\ \A i \in 1..((1 + nd) + nf) : w4[i] = w3[i]
       /\ \A i \in 1..nr : w4[((1 + nd) + nf) + i] = s4[i]
  <2>1. w3 \in Seq(T) /\ s4 \in Seq(T)
    BY <1>5, <1>16
  <2>2. /\ w4 \in Seq(T) /\ Len(w4) = Len(w3) + Len(s4)
        /\ \A i \in 1..Len(w3) : w4[i] = w3[i]
        /\ \A i \in 1..Len(s4) : w4[Len(w3) + i] = s4[i]
    BY <2>1, <1>12, ConcatPlaces
  <2> QED BY <2>2, <1>5, <1>16
<1>18. /\ w5 \in Seq(T) /\ Len(w5) = (((1 + nd) + nf) + nr) + np
       /\ \A i \in 1..(((1 + nd) + nf) + nr) : w5[i] = w4[i]
       /\ \A i \in 1..np : w5[(((1 + nd) + nf) + nr) + i] = s5[i]
  <2>1. w4 \in Seq(T) /\ s5 \in Seq(T)
    BY <1>6, <1>17
  <2>2. /\ w5 \in Seq(T) /\ Len(w5) = Len(w4) + Len(s5)
        /\ \A i \in 1..Len(w4) : w5[i] = w4[i]
        /\ \A i \in 1..Len(s5) : w5[Len(w4) + i] = s5[i]
    BY <2>1, <1>13, ConcatPlaces
  <2> QED BY <2>2, <1>6, <1>17
<1>19. /\ \A i \in 1..nd : s2[i] = DomainItem(a.domains[i])
       /\ \A i \in 1..nr : s4[i] = RouteItem(a.routes[i])
       /\ \A i \in 1..np : s5[i] = ProxyItem(a.proxies[i], Known(a))
  BY <1>2 DEF s2, s4, s5, nd, nr, np
<1>20. /\ off \in [1..nr -> Nat]
       /\ \A i \in 1..nr : \A m \in DOMAIN Deps(a, i) :
             off[i] + m \in 1..nf /\ s3[off[i] + m] = Deps(a, i)[m]
       /\ \A x \in 1..nf : \E i \in 1..nr : \E m \in DOMAIN Deps(a, i) : x = off[i] + m
  <2>1. DOMAIN parts = 1..nr /\ DOMAIN s3 = 1..nf
    BY <1>0, <1>7, <1>8
  <2>2. off \in [1..nr -> Nat]
    BY <1>9, <2>1 DEF DomainLoop!Placed
  <2>3. \A i \in 1..nr : \A m \in DOMAIN parts[i] :
             off[i] + m \in 1..nf /\ s3[off[i] + m] = parts[i][m]
    BY <1>9, <2>1 DEF DomainLoop!Placed
  <2>4. \A x \in 1..nf : \E i \in 1..nr : \E m \in DOMAIN parts[i] : x = off[i] + m
    BY <1>9, <2>1 DEF DomainLoop!Placed
  <2>5. \A i \in 1..nr : parts[i] = Deps(a, i)
    BY <1>7
  <2>6. \A i \in 1..nr : \A m \in DOMAIN Deps(a, i) :
             off[i] + m \in 1..nf /\ s3[off[i] + m] = Deps(a, i)[m]
    BY <2>3, <2>5
  <2>7. \A x \in 1..nf : \E i \in 1..nr : \E m \in DOMAIN Deps(a, i) : x = off[i] + m
    BY <2>4, <2>5
  <2> QED BY <2>2, <2>6, <2>7
<1>21. /\ w5[1] = ZoneItem(zone)
       /\ \A i \in 1..nd : w5[1 + i] = DomainItem(a.domains[i])
  BY <1>2, <1>15, <1>16, <1>17, <1>18, <1>19
<1>22. \A x \in 1..nf : w5[1 + nd + x] = s3[x]
  BY <1>2, <1>16, <1>17, <1>18
<1>23. \A i \in 1..nr : w5[1 + nd + nf + i] = RouteItem(a.routes[i])
  BY <1>2, <1>16, <1>17, <1>18, <1>19
<1>24. \A i \in 1..np : w5[1 + nd + nf + nr + i] = ProxyItem(a.proxies[i], Known(a))
  BY <1>18, <1>19
<1>25. \A i \in 1..nr : \A m \in DOMAIN Deps(a, i) :
          off[i] + m \in 1..nf /\ w5[1 + nd + off[i] + m] = Deps(a, i)[m]
  <2> TAKE i \in 1..nr
  <2> TAKE m \in DOMAIN Deps(a, i)
  <2>1. off[i] + m \in 1..nf /\ s3[off[i] + m] = Deps(a, i)[m]
    BY <1>20
  <2>2. off[i] \in Nat /\ m \in Int
    <3>1. m \in {1, 2, 3}
      BY DepsAre
    <3> QED BY <1>20, <3>1
  <2>3. 1 + nd + (off[i] + m) = 1 + nd + off[i] + m
    BY <1>2, <2>2
  <2> QED BY <1>22, <2>1, <2>3
<1>26. LaidOut(w5, zone, a, off, nf)
  <2>1. DOMAIN w5 = 1..Len(w5)
    BY <1>18
  <2> QED BY <1>16, <1>18, <1>20, <1>21, <1>23, <1>24, <1>25, <2>1 DEF LaidOut, nd, nr, np
<1> QED BY <1>14, <1>26

\* What an item on the list can be, and what is before it.
PlaceOf(list, zone, a, off, nf, x) ==
    \/ x = 1 /\ list[x] = ZoneItem(zone)
    \/ \E i \in DOMAIN a.domains : x = 1 + i /\ list[x] = DomainItem(a.domains[i])
    \/ \E i \in DOMAIN a.routes : /\ ~Had(a, i) /\ x # 1
                                  /\ x = 1 + Len(a.domains) + off[i] + 1
                                  /\ x <= 1 + Len(a.domains) + nf
                                  /\ list[x] = ImpliedItem(a.routes[i])
    \/ \E i \in DOMAIN a.routes : list[x] = ClusterItem(a.routes[i]) /\ x # 1
    \/ \E i \in DOMAIN a.routes : /\ list[x] = RulesItem(a.routes[i])
                                  /\ x - 1 \in 1..(x - 1)
                                  /\ list[x - 1] = ClusterItem(a.routes[i])
    \/ \E i \in DOMAIN a.routes : /\ x = 1 + Len(a.domains) + nf + i
                                  /\ list[x] = RouteItem(a.routes[i])
    \/ \E i \in DOMAIN a.proxies : /\ x = 1 + Len(a.domains) + nf + Len(a.routes) + i
                                   /\ list[x] = ProxyItem(a.proxies[i], Known(a))

LEMMA ItemCase ==
    ASSUME NEW list, NEW zone, NEW a, NEW off, NEW nf, LaidOut(list, zone, a, off, nf),
           IsList(a.domains), IsList(a.routes), IsList(a.proxies),
           NEW x \in DOMAIN list
    PROVE  PlaceOf(list, zone, a, off, nf, x)
<1> DEFINE nd == Len(a.domains)
           nr == Len(a.routes)
           np == Len(a.proxies)
<1>1. /\ nd \in Nat /\ nr \in Nat /\ np \in Nat
      /\ DOMAIN a.domains = 1..nd /\ DOMAIN a.routes = 1..nr /\ DOMAIN a.proxies = 1..np
  BY DEF IsList
<1>2. /\ nf \in Nat /\ off \in [1..nr -> Nat]
      /\ x \in 1..(1 + nd + nf + nr + np)
      /\ list[1] = ZoneItem(zone)
      /\ \A i \in 1..nd : list[1 + i] = DomainItem(a.domains[i])
      /\ \A i \in 1..nr : \A m \in DOMAIN Deps(a, i) :
            off[i] + m \in 1..nf /\ list[1 + nd + off[i] + m] = Deps(a, i)[m]
      /\ \A y \in 1..nf : \E i \in 1..nr : \E m \in DOMAIN Deps(a, i) : y = off[i] + m
      /\ \A i \in 1..nr : list[1 + nd + nf + i] = RouteItem(a.routes[i])
      /\ \A i \in 1..np : list[1 + nd + nf + nr + i] = ProxyItem(a.proxies[i], Known(a))
  BY DEF LaidOut
<1> HIDE DEF nd, nr, np
<1>0. nf \in Nat /\ x \in 1..(1 + nd + nf + nr + np)
  BY <1>2
<1>3. CASE x = 1
  BY <1>2, <1>3 DEF PlaceOf
<1>4. CASE x \in 2..(1 + nd)
  <2>1. PICK i \in 1..nd : x = 1 + i
    <3>1. x - 1 \in 1..nd /\ x = 1 + (x - 1)
      BY <1>1, <1>4
    <3> QED BY <3>1
  <2>2. list[x] = DomainItem(a.domains[i]) /\ i \in DOMAIN a.domains
    BY <1>1, <1>2, <2>1
  <2> QED BY <2>1, <2>2 DEF PlaceOf
<1>5. CASE x \in (1 + nd + 1)..(1 + nd + nf)
  <2>1. PICK y \in 1..nf : x = 1 + nd + y
    <3>1. x - (1 + nd) \in 1..nf /\ x = 1 + nd + (x - (1 + nd))
      BY <1>0, <1>1, <1>5
    <3> QED BY <3>1
  <2>2. PICK i \in 1..nr : \E m \in DOMAIN Deps(a, i) : y = off[i] + m
    BY <1>2
  <2>3. PICK m \in DOMAIN Deps(a, i) : y = off[i] + m
    BY <2>2
  <2>4. m \in {1, 2, 3} /\ off[i] \in Nat
    BY <1>2, DepsAre
  <2>5. x = 1 + nd + off[i] + m /\ list[x] = Deps(a, i)[m] /\ x <= 1 + nd + nf
    <3>1. x = 1 + nd + off[i] + m
      BY <1>1, <2>1, <2>3, <2>4
    <3>2. x <= 1 + nd + nf
      BY <1>0, <1>1, <2>1
    <3> QED BY <1>2, <2>3, <3>1, <3>2
  <2>6. /\ x - 1 \in 1..(x - 1) /\ x # 1 /\ x - 1 = 1 + nd + off[i] + (m - 1)
    BY <1>1, <2>4, <2>5
  <2>7. m - 1 \in DOMAIN Deps(a, i) => list[x - 1] = Deps(a, i)[m - 1]
    BY <1>2, <2>6
  <2>8. CASE Had(a, i)
    <3>1. Deps(a, i) = <<ClusterItem(a.routes[i]), RulesItem(a.routes[i])>>
      BY <2>8, DepsAre
    <3>2. /\ m \in {1, 2}
          /\ m = 1 => list[x] = ClusterItem(a.routes[i])
          /\ m = 2 => list[x] = RulesItem(a.routes[i]) /\ list[x - 1] = ClusterItem(a.routes[i])
      BY <2>3, <2>5, <2>7, <3>1
    <3> QED BY <1>1, <2>6, <3>2 DEF PlaceOf
  <2>9. CASE ~Had(a, i)
    <3>1. Deps(a, i) = <<ImpliedItem(a.routes[i]), ClusterItem(a.routes[i]), RulesItem(a.routes[i])>>
      BY <2>9, DepsAre
    <3>2. /\ m \in {1, 2, 3}
          /\ m = 1 => list[x] = ImpliedItem(a.routes[i])
          /\ m = 2 => list[x] = ClusterItem(a.routes[i])
          /\ m = 3 => list[x] = RulesItem(a.routes[i]) /\ list[x - 1] = ClusterItem(a.routes[i])
      BY <2>4, <2>5, <2>7, <3>1
    <3> QED BY <1>1, <2>5, <2>6, <2>9, <3>2 DEF nd, PlaceOf
  <2> QED BY <2>8, <2>9
<1>6. CASE x \in (1 + nd + nf + 1)..(1 + nd + nf + nr)
  <2>1. PICK i \in 1..nr : x = 1 + nd + nf + i
    <3>1. x - (1 + nd + nf) \in 1..nr /\ x = 1 + nd + nf + (x - (1 + nd + nf))
      BY <1>0, <1>1, <1>6
    <3> QED BY <3>1
  <2>2. list[x] = RouteItem(a.routes[i]) /\ i \in DOMAIN a.routes
    BY <1>1, <1>2, <2>1
  <2> QED BY <2>1, <2>2 DEF nd, PlaceOf
<1>7. CASE x \in (1 + nd + nf + nr + 1)..(1 + nd + nf + nr + np)
  <2>1. PICK i \in 1..np : x = 1 + nd + nf + nr + i
    <3>1. /\ x - (1 + nd + nf + nr) \in 1..np
          /\ x = 1 + nd + nf + nr + (x - (1 + nd + nf + nr))
      BY <1>0, <1>1, <1>7
    <3> QED BY <3>1
  <2>2. list[x] = ProxyItem(a.proxies[i], Known(a)) /\ i \in DOMAIN a.proxies
    BY <1>1, <1>2, <2>1
  <2> QED BY <2>1, <2>2 DEF nd, nr, PlaceOf
<1>8. \/ x = 1 \/ x \in 2..(1 + nd) \/ x \in (1 + nd + 1)..(1 + nd + nf)
      \/ x \in (1 + nd + nf + 1)..(1 + nd + nf + nr)
      \/ x \in (1 + nd + nf + nr + 1)..(1 + nd + nf + nr + np)
  BY <1>0, <1>1
<1> QED BY <1>3, <1>4, <1>5, <1>6, <1>7, <1>8

\* A route's domain and shared rules come before all routes.
LEMMA MadeBefore ==
    ASSUME NEW list, NEW zone, NEW a, NEW off, NEW nf, LaidOut(list, zone, a, off, nf),
           IsList(a.domains), IsList(a.routes), IsList(a.proxies),
           NEW i \in DOMAIN a.routes
    PROVE  LET made == {<<list[j].kind, list[j].name>> : j \in 1..(1 + Len(a.domains) + nf)} IN
           /\ <<"domain", a.routes[i].domain>> \in made
           /\ <<"shared_rules", a.routes[i].cluster>> \in made
<1> DEFINE nd == Len(a.domains)
           nr == Len(a.routes)
           made == {<<list[j].kind, list[j].name>> : j \in 1..(1 + nd + nf)}
           d == a.routes[i].domain
           Same == {j \in DOMAIN a.routes : a.routes[j].domain = d}
<1>1. /\ nd \in Nat /\ nr \in Nat /\ nf \in Nat /\ off \in [1..nr -> Nat]
      /\ DOMAIN a.domains = 1..nd /\ DOMAIN a.routes = 1..nr
      /\ \A j \in 1..nd : list[1 + j] = DomainItem(a.domains[j])
      /\ \A j \in 1..nr : \A m \in DOMAIN Deps(a, j) :
            off[j] + m \in 1..nf /\ list[1 + nd + off[j] + m] = Deps(a, j)[m]
  BY DEF IsList, LaidOut
<1>0. nd \in Nat /\ nr \in Nat /\ nf \in Nat
  BY <1>1
<1>2. /\ \A r : ImpliedItem(r).kind = "domain" /\ ImpliedItem(r).name = r.domain
      /\ \A r : DomainItem(r).kind = "domain" /\ DomainItem(r).name = r.name
      /\ \A r : RulesItem(r).kind = "shared_rules" /\ RulesItem(r).name = r.cluster
  BY DEF ImpliedItem, DomainItem, RulesItem, Item
<1>3. PICK j \in Same : \A l \in Same : j <= l
  <2>1. Same \subseteq Nat /\ i \in Same
    BY <1>1
  <2> HIDE DEF Same
  <2> QED BY <2>1, DomainLoop!LeastNumber
<1> HIDE DEF nd, nr
<1>9. \A l \in 1..(1 + nd + nf) : <<list[l].kind, list[l].name>> \in made
  OBVIOUS
<1> HIDE DEF made
<1>4. <<"domain", d>> \in made
  <2>1. CASE \E k \in DOMAIN a.domains : a.domains[k].name = d
    <3>1. PICK k \in DOMAIN a.domains : a.domains[k].name = d
      BY <2>1
    <3>2. k \in 1..nd /\ list[1 + k] = DomainItem(a.domains[k])
      BY <1>1, <3>1
    <3>4. 1 + k \in 1..(1 + nd + nf)
      BY <1>0, <3>2
    <3>3. list[1 + k].kind = "domain" /\ list[1 + k].name = d
      BY <1>2, <3>1, <3>2
    <3> QED BY <1>9, <3>3, <3>4
  <2>2. CASE ~\E k \in DOMAIN a.domains : a.domains[k].name = d
    <3>1. ~Had(a, j)
      <4>1. \A l \in 1..(j - 1) : l \in DOMAIN a.routes /\ ~(j <= l)
        BY <1>1, <1>3
      <4> QED BY <1>3, <2>2, <4>1 DEF Had
    <3>2. Deps(a, j) = <<ImpliedItem(a.routes[j]), ClusterItem(a.routes[j]), RulesItem(a.routes[j])>>
      BY <3>1, DepsAre
    <3>3. 1 \in DOMAIN Deps(a, j) /\ Deps(a, j)[1] = ImpliedItem(a.routes[j])
      BY <3>2
    <3>4. j \in 1..nr /\ off[j] \in Nat
      BY <1>1, <1>3
    <3>5. off[j] + 1 \in 1..nf /\ list[1 + nd + off[j] + 1] = ImpliedItem(a.routes[j])
      BY <1>1, <3>3, <3>4
    <3>6. 1 + nd + off[j] + 1 \in 1..(1 + nd + nf)
      BY <1>0, <3>4, <3>5
    <3>7. a.routes[j].domain = d
      BY <1>3
    <3>8. PICK l \in 1..(1 + nd + nf) : list[l] = ImpliedItem(a.routes[j])
      BY <3>5, <3>6
    <3>9. list[l].kind = "domain" /\ list[l].name = d
      BY <1>2, <3>7, <3>8
    <3> QED BY <1>9, <3>9
  <2> QED BY <2>1, <2>2
<1>5. <<"shared_rules", a.routes[i].cluster>> \in made
  <2>1. PICK m \in {2, 3} : m \in DOMAIN Deps(a, i) /\ Deps(a, i)[m] = RulesItem(a.routes[i])
    BY DepsAre
  <2>2. i \in 1..nr /\ off[i] \in Nat /\ m \in Nat
    BY <1>1, <2>1
  <2>7. /\ off[i] + m \in 1..nf
        /\ list[1 + nd + off[i] + m] = Deps(a, i)[m]
    BY <1>1, <2>1, <2>2
  <2>3. off[i] + m \in 1..nf /\ list[1 + nd + off[i] + m] = RulesItem(a.routes[i])
    BY <2>1, <2>7
  <2>4. 1 + nd + off[i] + m \in 1..(1 + nd + nf)
    BY <1>0, <2>2, <2>3
  <2>5. PICK l \in 1..(1 + nd + nf) : list[l] = RulesItem(a.routes[i])
    BY <2>3, <2>4
  <2>6. list[l].kind = "shared_rules" /\ list[l].name = a.routes[i].cluster
    BY <1>2, <2>5
  <2> QED BY <1>9, <2>6
<1> QED BY <1>4, <1>5 DEF nd, made

\* The parts of the items.
LEMMA RulesParts ==
    ASSUME NEW r
    PROVE  /\ RulesItem(r).kind = "shared_rules" /\ RulesItem(r).name = r.cluster
           /\ RulesItem(r).uses = {<<"cluster", r.cluster>>} /\ RulesItem(r).listed = TRUE
           /\ RulesItem(r).val = r.metadata
  BY DEF RulesItem, Item

LEMMA RouteParts ==
    ASSUME NEW r
    PROVE  /\ RouteItem(r).kind = "route" /\ RouteItem(r).name = r.path
           /\ RouteItem(r).uses = {<<"domain", r.domain>>, <<"shared_rules", r.cluster>>}
           /\ RouteItem(r).listed = TRUE /\ RouteItem(r).val = <<>>
  BY DEF RouteItem, Item

LEMMA ProxyParts ==
    ASSUME NEW p, NEW known
    PROVE  /\ ProxyItem(p, known).kind = "proxy" /\ ProxyItem(p, known).name = p.name
           /\ ProxyItem(p, known).listed = TRUE
           /\ \A u \in ProxyItem(p, known).uses :
                 \E d \in ToSet(p.domains) \intersect known : u = <<"domain", d>>
           /\ \A d \in ToSet(p.domains) \intersect known :
                 <<"domain", d>> \in ProxyItem(p, known).uses
  BY DEF ProxyItem, Item

\* Every object comes after what it refers to.
LEMMA WorkInOrder ==
    ASSUME NEW list, NEW zone, NEW a, NEW off, NEW nf, LaidOut(list, zone, a, off, nf),
           IsList(a.domains), IsList(a.routes), IsList(a.proxies),
           ProxiesValid(a.proxies, a.routes)
    PROVE  IsWorkList(list)
<1> DEFINE nd == Len(a.domains)
           nr == Len(a.routes)
           np == Len(a.proxies)
           Before(x) == {<<list[j].kind, list[j].name>> : j \in 1..(x - 1)}
           Good(x) == /\ list[x].uses \subseteq Before(x)
                      /\ list[x].kind = "zone" <=> x = 1
                      /\ list[x].kind \in Kinds /\ list[x].listed \in BOOLEAN
                      /\ \A u \in list[x].uses : u[1] \in RefKinds[list[x].kind]
                      /\ list[x].kind = "route" =>
                            IsSingleton({u \in list[x].uses : u[1] = "domain"})
           Bare(x) == /\ x # 1 /\ list[x].uses = {} /\ list[x].kind \in {"domain", "cluster"}
                      /\ list[x].listed \in BOOLEAN
<1>1. /\ nd \in Nat /\ nr \in Nat /\ np \in Nat /\ nf \in Nat
      /\ DOMAIN a.domains = 1..nd /\ DOMAIN a.routes = 1..nr /\ DOMAIN a.proxies = 1..np
      /\ Len(list) = 1 + nd + nf + nr + np /\ DOMAIN list = 1..Len(list)
      /\ list[1] = ZoneItem(zone)
  BY DEF IsList, LaidOut
<1>2. ASSUME NEW i \in DOMAIN a.routes, NEW x \in Nat, x > 1 + nd + nf
      PROVE  <<"domain", a.routes[i].domain>> \in Before(x)
             /\ <<"shared_rules", a.routes[i].cluster>> \in Before(x)
  <2> DEFINE made == {<<list[j].kind, list[j].name>> : j \in 1..(1 + nd + nf)}
  <2>1. <<"domain", a.routes[i].domain>> \in made /\ <<"shared_rules", a.routes[i].cluster>> \in made
    BY MadeBefore
  <2>2. made \subseteq Before(x)
    <3>1. \A j \in 1..(1 + nd + nf) : j \in 1..(x - 1)
      BY <1>1, <1>2
    <3> HIDE DEF nd
    <3> QED BY <3>1
  <2> HIDE DEF made, Before
  <2> QED BY <2>1, <2>2
<1> HIDE DEF nd, nr, np, Before
<1>3. ASSUME NEW x \in DOMAIN list
      PROVE  Good(x)
  <2>1. CASE x = 1 /\ list[x] = ZoneItem(zone)
    <3>1. /\ list[x].kind = "zone" /\ list[x].uses = {} /\ list[x].listed = FALSE
      BY <2>1 DEF ZoneItem, Item
    <3> QED BY <2>1, <3>1 DEF Kinds
  <2>2. CASE Bare(x)
    BY <2>2 DEF Kinds
  <2>3. ASSUME NEW i \in DOMAIN a.routes, list[x] = RulesItem(a.routes[i]), x - 1 \in 1..(x - 1),
               list[x - 1] = ClusterItem(a.routes[i])
        PROVE  Good(x)
    <3>1. /\ list[x].kind = "shared_rules" /\ list[x].listed = TRUE
          /\ list[x].uses = {<<"cluster", a.routes[i].cluster>>}
      BY <2>3, RulesParts
    <3>6. list[x - 1].kind = "cluster" /\ list[x - 1].name = a.routes[i].cluster
      BY <2>3 DEF ClusterItem, Item
    <3>2. <<list[x - 1].kind, list[x - 1].name>> \in Before(x)
      BY <2>3 DEF Before
    <3>3. list[x].uses \subseteq Before(x)
      BY <3>1, <3>2, <3>6
    <3>4. \A u \in list[x].uses : u[1] \in RefKinds[list[x].kind]
      BY <3>1 DEF RefKinds
    <3>5. x # 1
      BY <1>1, <2>3
    <3> QED BY <3>1, <3>3, <3>4, <3>5 DEF Kinds
  <2>4. ASSUME NEW i \in DOMAIN a.routes, x = 1 + nd + nf + i, list[x] = RouteItem(a.routes[i])
        PROVE  Good(x)
    <3> DEFINE d == a.routes[i].domain
               c == a.routes[i].cluster
    <3>1. /\ list[x].kind = "route" /\ list[x].listed = TRUE
          /\ list[x].uses = {<<"domain", d>>, <<"shared_rules", c>>}
      BY <2>4, RouteParts
    <3>2. x \in Nat /\ x > 1 + nd + nf /\ x # 1
      BY <1>1, <2>4
    <3>3. <<"domain", d>> \in Before(x) /\ <<"shared_rules", c>> \in Before(x)
      BY <1>2, <3>2
    <3>4. list[x].uses \subseteq Before(x)
      BY <3>1, <3>3
    <3>5. \A u \in list[x].uses : u[1] \in RefKinds[list[x].kind]
      BY <3>1 DEF RefKinds
    <3>6. IsSingleton({u \in list[x].uses : u[1] = "domain"})
      <4>1. {u \in list[x].uses : u[1] = "domain"} = {<<"domain", d>>}
        <5>1. <<"domain", d>>[1] = "domain" /\ <<"shared_rules", c>>[1] = "shared_rules"
          OBVIOUS
        <5> QED BY <3>1, <5>1
      <4> QED BY <4>1 DEF IsSingleton
    <3> QED BY <3>1, <3>2, <3>4, <3>5, <3>6 DEF Kinds
  <2>5. ASSUME NEW i \in DOMAIN a.proxies, x = 1 + nd + nf + nr + i,
               list[x] = ProxyItem(a.proxies[i], Known(a))
        PROVE  Good(x)
    <3>1. /\ list[x].kind = "proxy" /\ list[x].listed = TRUE
      BY <2>5 DEF ProxyItem, Item
    <3>5. \A u \in list[x].uses :
             \E d \in ToSet(a.proxies[i].domains) \intersect Known(a) : u = <<"domain", d>>
      BY <2>5 DEF ProxyItem, Item
    <3>2. x \in Nat /\ x > 1 + nd + nf /\ x # 1
      BY <1>1, <2>5
    <3>3. list[x].uses \subseteq Before(x)
      <4> SUFFICES ASSUME NEW u \in list[x].uses PROVE u \in Before(x)
        OBVIOUS
      <4>1. PICK d \in ToSet(a.proxies[i].domains) : u = <<"domain", d>>
        BY <3>5
      <4>2. PICK j \in DOMAIN a.routes : a.routes[j].domain = d
        BY <4>1 DEF ProxiesValid
      <4> QED BY <1>2, <3>2, <4>1, <4>2
    <3>4. \A u \in list[x].uses : u[1] \in RefKinds[list[x].kind]
      <4>1. \A u \in list[x].uses : u[1] = "domain"
        BY <3>5
      <4> QED BY <3>1, <4>1 DEF RefKinds
    <3> QED BY <3>1, <3>2, <3>3, <3>4 DEF Kinds
  <2>6. ASSUME NEW i \in DOMAIN a.domains, x = 1 + i, list[x] = DomainItem(a.domains[i])
        PROVE  Bare(x)
    BY <1>1, <2>6 DEF DomainItem, Item
  <2>7. ASSUME NEW i \in DOMAIN a.routes, x # 1, list[x] = ImpliedItem(a.routes[i])
        PROVE  Bare(x)
    BY <2>7 DEF ImpliedItem, Item
  <2>8. ASSUME NEW i \in DOMAIN a.routes, x # 1, list[x] = ClusterItem(a.routes[i])
        PROVE  Bare(x)
    BY <2>8 DEF ClusterItem, Item
  <2>9. \/ x = 1 /\ list[x] = ZoneItem(zone)
        \/ \E i \in DOMAIN a.domains : x = 1 + i /\ list[x] = DomainItem(a.domains[i])
        \/ \E i \in DOMAIN a.routes : x # 1 /\ list[x] = ImpliedItem(a.routes[i])
        \/ \E i \in DOMAIN a.routes : list[x] = ClusterItem(a.routes[i]) /\ x # 1
        \/ \E i \in DOMAIN a.routes : /\ list[x] = RulesItem(a.routes[i])
                                      /\ x - 1 \in 1..(x - 1)
                                      /\ list[x - 1] = ClusterItem(a.routes[i])
        \/ \E i \in DOMAIN a.routes : x = 1 + nd + nf + i /\ list[x] = RouteItem(a.routes[i])
        \/ \E i \in DOMAIN a.proxies : /\ x = 1 + nd + nf + nr + i
                                       /\ list[x] = ProxyItem(a.proxies[i], Known(a))
    <3>1. PlaceOf(list, zone, a, off, nf, x)
      BY ItemCase
    <3> QED BY <3>1, Zenon DEF PlaceOf, nd, nr
  <2> HIDE DEF Good, Bare
  <2> QED BY <2>1, <2>2, <2>3, <2>4, <2>5, <2>6, <2>7, <2>8, <2>9, Zenon
<1>4. Len(list) \in Nat \ {0}
  BY <1>1
<1> QED BY <1>1, <1>3, <1>4 DEF IsWorkList, Before, Good

\* Had by a domain that an argument or an earlier route names.
LEMMA HadOf ==
    ASSUME NEW a, NEW i \in DOMAIN a.routes, NEW j \in DOMAIN a.routes, IsList(a.routes),
           ~Had(a, i), ~Had(a, j), a.routes[i].domain = a.routes[j].domain
    PROVE  i = j
<1>1. i \in Nat \ {0} /\ j \in Nat \ {0}
  BY DEF IsList
<1>2. ~(i \in 1..(j - 1)) /\ ~(j \in 1..(i - 1))
  BY DEF Had
<1> QED BY <1>1, <1>2

LEMMA ItemKinds ==
    /\ \A z : ZoneItem(z).kind = "zone"
    /\ \A d : DomainItem(d).kind = "domain"
    /\ \A r : ImpliedItem(r).kind = "domain"
    /\ \A r : RouteItem(r).kind = "route"
    /\ \A p, known : ProxyItem(p, known).kind = "proxy"
  BY DEF ZoneItem, DomainItem, ImpliedItem, RouteItem, ProxyItem, Item

\* Each object but clusters and their shared rules is on the list once.
LEMMA WorkedOnce ==
    ASSUME NEW list, NEW zone, NEW a, NEW off, NEW nf, LaidOut(list, zone, a, off, nf),
           IsList(a.domains), IsList(a.routes), IsList(a.proxies),
           Distinct(a.domains), Distinct(a.proxies), RoutesValid(a.routes),
           NEW x \in DOMAIN list, NEW y \in DOMAIN list,
           list[x].kind \notin {"shared_rules", "cluster"}, SameObject(list[x], list[y])
    PROVE  x = y
<1> DEFINE Plain(w) ==
        \/ w = 1 /\ list[w] = ZoneItem(zone)
        \/ \E i \in DOMAIN a.domains : w = 1 + i /\ list[w] = DomainItem(a.domains[i])
        \/ \E i \in DOMAIN a.routes : /\ ~Had(a, i) /\ w = 1 + Len(a.domains) + off[i] + 1
                                      /\ list[w] = ImpliedItem(a.routes[i])
        \/ \E i \in DOMAIN a.routes : /\ w = 1 + Len(a.domains) + nf + i
                                      /\ list[w] = RouteItem(a.routes[i])
        \/ \E i \in DOMAIN a.proxies : /\ w = 1 + Len(a.domains) + nf + Len(a.routes) + i
                                       /\ list[w] = ProxyItem(a.proxies[i], Known(a))
<1>0. "zone" # "domain" /\ "zone" # "route" /\ "zone" # "proxy"
      /\ "domain" # "route" /\ "domain" # "proxy" /\ "route" # "proxy"
  OBVIOUS
<1>1. list[x].kind = list[y].kind /\ list[x].name = list[y].name
  BY DEF SameObject
<1>2. ASSUME NEW w \in DOMAIN list, list[w].kind \notin {"shared_rules", "cluster"}
      PROVE  Plain(w)
  <2>1. PlaceOf(list, zone, a, off, nf, w)
    BY ItemCase
  <2>2. /\ \A r : list[w] # ClusterItem(r)
        /\ \A r : list[w] # RulesItem(r)
    BY <1>2 DEF ClusterItem, RulesItem, Item
  <2> QED BY <2>1, <2>2, Zenon DEF PlaceOf
<1>3. Plain(x) /\ Plain(y)
  BY <1>1, <1>2
<1>4. ASSUME NEW v, NEW w, Plain(v), Plain(w), SameObject(list[v], list[w]),
             list[v].kind = "zone"
      PROVE  v = w
  <2>1. \A u : Plain(u) /\ list[u].kind = "zone" => u = 1
    BY <1>0, ItemKinds, Zenon
  <2> QED BY <1>4, <2>1 DEF SameObject
<1>5. ASSUME NEW v, NEW w, Plain(v), Plain(w), SameObject(list[v], list[w]),
             list[v].kind = "domain"
      PROVE  v = w
  <2> DEFINE Given(u) == \E i \in DOMAIN a.domains : u = 1 + i /\ list[u].name = a.domains[i].name
             Implied(u) == \E i \in DOMAIN a.routes : /\ ~Had(a, i)
                                                      /\ u = 1 + Len(a.domains) + off[i] + 1
                                                      /\ list[u].name = a.routes[i].domain
  <2>0. /\ \A d : DomainItem(d).name = d.name
        /\ \A r : ImpliedItem(r).name = r.domain
    BY DEF DomainItem, ImpliedItem, Item
  <2>1. \A u : Plain(u) /\ list[u].kind = "domain" => Given(u) \/ Implied(u)
    <3> SUFFICES ASSUME NEW u, Plain(u), list[u].kind = "domain"
                 PROVE  Given(u) \/ Implied(u)
      OBVIOUS
    <3>1. \/ \E i \in DOMAIN a.domains : u = 1 + i /\ list[u] = DomainItem(a.domains[i])
          \/ \E i \in DOMAIN a.routes : /\ ~Had(a, i) /\ u = 1 + Len(a.domains) + off[i] + 1
                                        /\ list[u] = ImpliedItem(a.routes[i])
      BY <1>0, ItemKinds, Zenon
    <3>2. CASE \E i \in DOMAIN a.domains : u = 1 + i /\ list[u] = DomainItem(a.domains[i])
      BY <2>0, <3>2, Zenon
    <3>3. CASE \E i \in DOMAIN a.routes : /\ ~Had(a, i) /\ u = 1 + Len(a.domains) + off[i] + 1
                                          /\ list[u] = ImpliedItem(a.routes[i])
      BY <2>0, <3>3, Zenon
    <3> QED BY <3>1, <3>2, <3>3, Zenon
  <2>2. list[v].name = list[w].name /\ list[w].kind = "domain"
    BY <1>5 DEF SameObject
  <2>3. Given(v) \/ Implied(v)
    BY <1>5, <2>1
  <2>4. Given(w) \/ Implied(w)
    BY <1>5, <2>1, <2>2
  <2> HIDE DEF Plain
  <2>5. CASE Given(v) /\ Given(w)
    BY <2>2, <2>5 DEF Distinct
  <2>6. CASE Given(v) /\ Implied(w)
    BY <2>2, <2>6 DEF Had
  <2>7. CASE Implied(v) /\ Given(w)
    BY <2>2, <2>7 DEF Had
  <2>8. CASE Implied(v) /\ Implied(w)
    BY <2>2, <2>8, HadOf
  <2> QED BY <2>3, <2>4, <2>5, <2>6, <2>7, <2>8
<1>6. ASSUME NEW v, NEW w, Plain(v), Plain(w), SameObject(list[v], list[w]),
             list[v].kind = "route"
      PROVE  v = w
  <2> DEFINE Routed(u, i) == u = 1 + Len(a.domains) + nf + i /\ list[u] = RouteItem(a.routes[i])
  <2>1. \A u : Plain(u) /\ list[u].kind = "route" => \E i \in DOMAIN a.routes : Routed(u, i)
    BY <1>0, ItemKinds, Zenon
  <2>2. list[w].kind = "route"
    BY <1>6 DEF SameObject
  <2>3. PICK i \in DOMAIN a.routes : Routed(v, i)
    BY <1>6, <2>1
  <2>4. PICK j \in DOMAIN a.routes : Routed(w, j)
    BY <1>6, <2>1, <2>2
  <2> DEFINE r == a.routes[i]
             s == a.routes[j]
  <2>5. /\ list[v].name = r.path /\ list[w].name = s.path
        /\ list[v].uses = {<<"domain", r.domain>>, <<"shared_rules", r.cluster>>}
        /\ list[w].uses = {<<"domain", s.domain>>, <<"shared_rules", s.cluster>>}
    <3>1. /\ list[v].name = r.path
          /\ list[v].uses = {<<"domain", r.domain>>, <<"shared_rules", r.cluster>>}
      BY <2>3, RouteParts
    <3>2. /\ list[w].name = s.path
          /\ list[w].uses = {<<"domain", s.domain>>, <<"shared_rules", s.cluster>>}
      BY <2>4, RouteParts
    <3> QED BY <3>1, <3>2
  <2> HIDE DEF r, s
  <2>6. r.path = s.path
    BY <1>6, <2>5 DEF SameObject
  <2>7. r.domain = s.domain
    <3>1. <<"domain", r.domain>> \in list[v].uses /\ <<"domain", r.domain>>[1] = "domain"
      BY <2>5
    <3>2. <<"domain", r.domain>> \in list[w].uses
      BY <1>6, <3>1 DEF SameObject
    <3> QED BY <2>5, <3>2
  <2>8. i = j
    BY <2>6, <2>7 DEF RoutesValid, r, s
  <2> QED BY <2>3, <2>4, <2>8
<1>7. ASSUME NEW v, NEW w, Plain(v), Plain(w), SameObject(list[v], list[w]),
             list[v].kind = "proxy"
      PROVE  v = w
  <2> DEFINE Fronts(u, i) == /\ u = 1 + Len(a.domains) + nf + Len(a.routes) + i
                             /\ list[u] = ProxyItem(a.proxies[i], Known(a))
  <2>1. \A u : Plain(u) /\ list[u].kind = "proxy" => \E i \in DOMAIN a.proxies : Fronts(u, i)
    BY <1>0, ItemKinds, Zenon
  <2>2. list[w].kind = "proxy" /\ list[v].name = list[w].name
    BY <1>7 DEF SameObject
  <2>3. PICK i \in DOMAIN a.proxies : Fronts(v, i)
    BY <1>7, <2>1
  <2>4. PICK j \in DOMAIN a.proxies : Fronts(w, j)
    BY <1>7, <2>1, <2>2
  <2>5. list[v].name = a.proxies[i].name /\ list[w].name = a.proxies[j].name
    BY <2>3, <2>4 DEF ProxyItem, Item
  <2>6. i = j
    BY <2>2, <2>5 DEF Distinct
  <2> QED BY <2>3, <2>4, <2>6
<1>8. list[x].kind \in {"zone", "domain", "route", "proxy"}
  BY <1>3 DEF ZoneItem, DomainItem, ImpliedItem, RouteItem, ProxyItem, Item
<1> HIDE DEF Plain
<1> QED BY <1>3, <1>4, <1>5, <1>6, <1>7, <1>8

\* All that is said of one object is the same, if a cluster has one metadata.
LEMMA WorkAgrees ==
    ASSUME NEW list, NEW zone, NEW a, NEW off, NEW nf, LaidOut(list, zone, a, off, nf),
           IsList(a.domains), IsList(a.routes), IsList(a.proxies),
           Distinct(a.domains), Distinct(a.proxies), RoutesValid(a.routes),
           \A i, j \in DOMAIN a.routes : a.routes[i].cluster = a.routes[j].cluster =>
               a.routes[i].metadata = a.routes[j].metadata
    PROVE  ItemsAgree(list)
<1> SUFFICES ASSUME NEW x \in DOMAIN list, NEW y \in DOMAIN list,
                    list[x].listed, list[y].listed, SameObject(list[x], list[y])
             PROVE  list[x].uses = list[y].uses /\ list[x].val = list[y].val
  BY DEF ItemsAgree
<1>1. CASE list[x].kind \notin {"shared_rules", "cluster"}
  <2>1. x = y
    BY <1>1, WorkedOnce
  <2> QED BY <2>1
<1>2. CASE list[x].kind \in {"shared_rules", "cluster"}
  <2>1. ASSUME NEW w \in DOMAIN list, list[w].kind \in {"shared_rules", "cluster"}, list[w].listed
        PROVE  \E i \in DOMAIN a.routes : list[w] = RulesItem(a.routes[i])
    <3>1. PlaceOf(list, zone, a, off, nf, w)
      BY ItemCase
    <3>2. /\ \A r : list[w] # DomainItem(r)
          /\ \A r : list[w] # ZoneItem(r)
          /\ \A r : list[w] # ImpliedItem(r)
          /\ \A r : list[w] # ClusterItem(r)
          /\ \A r : list[w] # RouteItem(r)
          /\ \A p, known : list[w] # ProxyItem(p, known)
      BY <2>1 DEF DomainItem, ZoneItem, ImpliedItem, ClusterItem, RouteItem, ProxyItem, Item
    <3> QED BY <3>1, <3>2, Zenon DEF PlaceOf
  <2>2. PICK i \in DOMAIN a.routes : list[x] = RulesItem(a.routes[i])
    BY <1>2, <2>1
  <2>3. PICK j \in DOMAIN a.routes : list[y] = RulesItem(a.routes[j])
    BY <1>2, <2>1 DEF SameObject
  <2> DEFINE r == a.routes[i]
             s == a.routes[j]
  <2>4. /\ list[x].name = r.cluster /\ list[x].val = r.metadata
        /\ list[x].uses = {<<"cluster", r.cluster>>}
    BY <2>2, RulesParts
  <2>5. /\ list[y].name = s.cluster /\ list[y].val = s.metadata
        /\ list[y].uses = {<<"cluster", s.cluster>>}
    BY <2>3, RulesParts
  <2> HIDE DEF r, s
  <2>6. r.cluster = s.cluster
    BY <2>4, <2>5 DEF SameObject
  <2>7. r.metadata = s.metadata
    BY <2>6 DEF r, s
  <2> QED BY <2>4, <2>5, <2>6, <2>7
<1> QED BY <1>1, <1>2

\* A proxy serves every domain its arguments name.
LEMMA WorkServes ==
    ASSUME NEW list, NEW zone, NEW a, NEW off, NEW nf, LaidOut(list, zone, a, off, nf),
           IsList(a.domains), IsList(a.routes), IsList(a.proxies),
           ProxiesValid(a.proxies, a.routes),
           NEW i \in DOMAIN a.proxies, NEW d \in ToSet(a.proxies[i].domains)
    PROVE  \E j \in DOMAIN list : /\ list[j].kind = "proxy" /\ list[j].name = a.proxies[i].name
                                  /\ <<"domain", d>> \in list[j].uses
<1> DEFINE nd == Len(a.domains)
           nr == Len(a.routes)
           np == Len(a.proxies)
           j == 1 + nd + nf + nr + i
<1>1. /\ nd \in Nat /\ nr \in Nat /\ np \in Nat /\ nf \in Nat /\ i \in 1..np
      /\ DOMAIN list = 1..(1 + nd + nf + nr + np)
      /\ list[j] = ProxyItem(a.proxies[i], Known(a))
  BY DEF IsList, LaidOut
<1>2. d \in Known(a)
  BY DEF ProxiesValid, Known
<1> HIDE DEF nd, nr, np
<1>3. j \in DOMAIN list
  BY <1>1
<1> HIDE DEF j
<1>4. /\ list[j].kind = "proxy" /\ list[j].name = a.proxies[i].name
      /\ <<"domain", d>> \in list[j].uses
  BY <1>1, <1>2 DEF ProxyItem, Item
<1> QED BY <1>3, <1>4

\* The work list of an accepted command, for command lines of any length: each
\* object after what it refers to and, clusters and shared rules apart, once;
\* every proxy of every domain; and nothing said of an object two ways.
THEOREM WorkListIsOrdered == CommandLine => []WorkIsOrdered
<1>1. DomainsRead /\ RoutesRead /\ ProxiesRead => WorkIsOrdered
  <2> SUFFICES ASSUME DomainsRead, RoutesRead, ProxiesRead, args.ok PROVE WorkIsOrdered
    BY DEF WorkIsOrdered
  <2>1. /\ ParseDomains(domainStrs).ok /\ ParseRoutes(routesStrs).ok /\ ParseProxies(proxyStrs).ok
        /\ RoutesValid(args.routes) /\ ProxiesValid(args.proxies, args.routes)
        /\ args.domains = ParseDomains(domainStrs).list
        /\ args.routes = ParseRoutes(routesStrs).list
        /\ args.proxies = ParseProxies(proxyStrs).list
    BY DEF args, Parse
  <2>2. /\ args.domains \in Seq(DomainEntry) /\ Distinct(args.domains)
    BY <2>1 DEF DomainsRead
  <2>3. /\ routesStrs \in Seq(RouteArgs)
        /\ args.routes = [i \in DOMAIN routesStrs |-> Normal(routesStrs[i])]
    BY <2>1 DEF RoutesRead
  <2>4. /\ args.proxies \in Seq(ProxyEntry) /\ Distinct(args.proxies)
        /\ proxyStrs \in Seq(ProxyArgs)
        /\ \A j \in DOMAIN proxyStrs :
              \E i \in DOMAIN args.proxies : Serves(args.proxies[i], proxyStrs[j])
    BY <2>1 DEF ProxiesRead
  <2> HIDE DEF args
  <2>5. IsList(args.domains) /\ IsList(args.routes) /\ IsList(args.proxies)
    <3>1. DOMAIN args.routes = 1..Len(routesStrs) /\ Len(args.routes) = Len(routesStrs)
      BY <2>3
    <3> QED BY <2>2, <2>3, <2>4, <3>1 DEF IsList
  <2>6. PICK off, nf : LaidOut(work, "zone", args, off, nf)
    BY <2>5, WorkLaidOut DEF work
  <2> HIDE DEF work
  <2>7. IsWorkList(work)
    BY <2>1, <2>5, <2>6, WorkInOrder
  <2>8. \A i \in DOMAIN proxyStrs : \E j \in DOMAIN work :
              /\ work[j].kind = "proxy" /\ work[j].name = proxyStrs[i].name
              /\ <<"domain", proxyStrs[i].domain>> \in work[j].uses
    <3> TAKE i \in DOMAIN proxyStrs
    <3>1. PICK k \in DOMAIN args.proxies : Serves(args.proxies[k], proxyStrs[i])
      BY <2>4
    <3>2. /\ args.proxies[k].name = proxyStrs[i].name
          /\ proxyStrs[i].domain \in ToSet(args.proxies[k].domains)
      BY <3>1 DEF Serves
    <3> QED BY <2>1, <2>5, <2>6, <3>2, WorkServes
  <2>9. \A i, j \in {w \in DOMAIN work : work[w].kind \notin {"shared_rules", "cluster"}} :
            SameObject(work[i], work[j]) => i = j
    BY <2>1, <2>2, <2>4, <2>5, <2>6, WorkedOnce
  <2>10. OneMetadata => ItemsAgree(work)
    <3> SUFFICES ASSUME OneMetadata PROVE ItemsAgree(work)
      OBVIOUS
    <3>1. ASSUME NEW i \in DOMAIN args.routes, NEW j \in DOMAIN args.routes,
                 args.routes[i].cluster = args.routes[j].cluster
          PROVE  args.routes[i].metadata = args.routes[j].metadata
      <4>1. \A k \in DOMAIN args.routes :
               /\ k \in DOMAIN routesStrs
               /\ args.routes[k].cluster = routesStrs[k].cluster
               /\ args.routes[k].metadata = routesStrs[k].metadata
        BY <2>3, NormalRoute
      <4> QED BY <3>1, <4>1 DEF OneMetadata
    <3> QED BY <2>1, <2>2, <2>4, <2>5, <2>6, <3>1, WorkAgrees
  <2> QED BY <2>7, <2>8, <2>9, <2>10 DEF WorkIsOrdered
<1>2. CommandInit => DomainsRead /\ RoutesRead /\ ProxiesRead
  BY InitDomains, InitRoutes, InitProxies DEF CommandInit
<1>3. DomainsRead /\ RoutesRead /\ ProxiesRead /\ [CommandNext]_<<flags, listVars>>
         => (DomainsRead /\ RoutesRead /\ ProxiesRead)'
  BY NextDomains, NextRoutes, NextProxies DEF CommandNext
<1> QED BY <1>1, <1>2, <1>3, PTL DEF CommandLine
=============================================================================
