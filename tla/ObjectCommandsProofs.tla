------------------------ MODULE ObjectCommandsProofs ------------------------
(***************************************************************************)
(* Theorems about get, edit, create and formatted listings, for any number *)
(* of users, objects and texts and for listings of any length.             *)
(***************************************************************************)
EXTENDS ObjectCommands, SequenceTheorems, TLAPS

\* Appending to a function on 1..n, which is a sequence.
LEMMA AppendTyped ==
    ASSUME NEW S, NEW n \in Nat, NEW s \in [1..n -> S], NEW e \in S
    PROVE  /\ Append(s, e) \in [1..(n + 1) -> S]
           /\ Append(s, e)[n + 1] = e
           /\ \A i \in 1..n : Append(s, e)[i] = s[i]
<1>1. s \in Seq(S) /\ Len(s) = n
  OBVIOUS
<1>2. Append(s, e) \in Seq(S) /\ Len(Append(s, e)) = n + 1
  BY <1>1, AppendProperties
<1>3. Append(s, e) \in [1..(n + 1) -> S]
  BY <1>2, LenProperties
<1>4. Append(s, e)[n + 1] = e /\ \A i \in 1..n : Append(s, e)[i] = s[i]
  BY <1>1, AppendProperties
<1> QED BY <1>3, <1>4

\* The variables always have their types.
LEMMA InitType == Init => TypeOK
  BY CommandAssumption DEF Init, TypeOK, Texts, NoText, None, Text

LEMMA NextType == TypeOK /\ [Next]_vars => TypeOK'
<1> SUFFICES ASSUME TypeOK, [Next]_vars PROVE TypeOK'
  OBVIOUS
<1> USE CommandAssumption DEF TypeOK, Texts, Text
<1>a. ASSUME NEW u \in Users, Return(u)
      PROVE  /\ pc' \in [Users -> {"idle", "read", "create", "modify", "list"}]
             /\ named' \in [Users -> Key \union {NoKey}]
             /\ dest' \in [Users -> Texts]
             /\ cache' \in [Users -> [Key -> Nat]]
             /\ rows' \in [Users -> Seq(Nat)]
  BY <1>a DEF Return, NoText, None
<1>b. ASSUME NEW k \in Key \union {NoKey}, MayType(k)
      PROVE  /\ texts' \in 0..MaxTexts /\ texts' = texts + 1
             /\ basis' \in [1..texts' -> Bases]
  <2>1. texts \in Nat /\ texts' \in 0..MaxTexts /\ texts' = texts + 1
    BY <1>b DEF MayType
  <2>2. [key |-> k, val |-> IF k = NoKey THEN 0 ELSE val[k]] \in Bases
    BY DEF Bases
  <2> QED BY <1>b, <2>1, <2>2, AppendTyped DEF MayType
<1>c. ASSUME NEW k \in Key, texts < MaxTexts PROVE Typed(k) \in Texts
  BY <1>c DEF Typed
<1>d. ASSUME NEW u \in Users, Answered(u) PROVE Return(u) /\ lost' \in 0..MaxLost
  BY <1>d DEF Answered
<1>1. ASSUME NEW u \in Users, Read(u) PROVE TypeOK'
  <2>1. named[u] \in Key /\ texts < MaxTexts /\ MayType(named[u])
    BY <1>1 DEF Read, MayType
  <2> QED BY <1>1, <1>b, <1>c, <2>1 DEF Read, objects
<1>2. ASSUME NEW u \in Users, Modify(u) PROVE TypeOK'
  <2>1. dest[u] \in Texts
    OBVIOUS
  <2>2. dest[u].new \in 0..MaxTexts
    BY <2>1
  <2>3. sum' \in [Key -> Nat]
    <3>1. dest[u].key \in Key /\ sum' = [sum EXCEPT ![dest[u].key] = @ + 1]
      BY <1>2 DEF Modify, Accepted
    <3> QED BY <3>1
  <2>4. val' \in [Key -> 0..MaxTexts]
    BY <1>2, <2>2 DEF Modify
  <2>5. modified' \in [Text -> Nat]
    <3>1. modified' = [modified EXCEPT ![dest[u].new] = @ + 1]
      BY <1>2 DEF Modify
    <3>2. CASE dest[u].new \in Text
      BY <3>1, <3>2
    <3>3. CASE dest[u].new \notin Text
      BY <3>1, <3>3
    <3> QED BY <3>2, <3>3
  <2> QED BY <1>2, <1>a, <1>d, <2>3, <2>4, <2>5 DEF Modify
<1>3. ASSUME NEW u \in Users, Failed(u) PROVE TypeOK'
  BY <1>3, <1>a DEF Failed, objects, aux
<1>4. ASSUME NEW u \in Users, CreateStart(u) PROVE TypeOK'
  <2>1. CASE MayType(NoKey) /\ dest' = [dest EXCEPT ![u] = [NoText EXCEPT !.new = texts + 1]]
    <3>1. texts < MaxTexts
      BY <2>1 DEF MayType
    <3>2. [NoText EXCEPT !.new = texts + 1] \in Texts
      BY <3>1 DEF NoText
    <3> QED BY <1>4, <1>b, <2>1, <3>2 DEF CreateStart, Begin, objects
  <2>2. CASE UNCHANGED <<texts, basis>> /\ dest' = [dest EXCEPT ![u] = file[u]]
    BY <1>4, <2>2 DEF CreateStart, Begin, objects
  <2> QED BY <1>4, <2>1, <2>2 DEF CreateStart
<1>5. ASSUME NEW u \in Users, ListStart(u) PROVE TypeOK'
  BY <1>5 DEF ListStart, Begin, objects, aux, None
<1>6. ASSUME NEW u \in Users, Row(u) PROVE TypeOK'
  <2> DEFINE k == Rows[Len(rows[u]) + 1]
             o == IF cache[u][k] # 0 THEN cache[u][k] ELSE sum[k]
  <2>1. rows[u] \in Seq(Nat) /\ Len(rows[u]) + 1 \in 1..Len(Rows)
    BY <1>6, LenProperties DEF Row
  <2>2. k \in Key
    BY <2>1, ElementOfSeq
  <2>3. o \in Nat
    BY <2>2
  <2>4. /\ cache' = [cache EXCEPT ![u][k] = o]
        /\ rows' = [rows EXCEPT ![u] = Append(@, o)]
        /\ UNCHANGED <<objects, pc, named, dest, file, aux>>
    BY <1>6 DEF Row, Known
  <2> HIDE DEF k, o
  <2>5. cache' \in [Users -> [Key -> Nat]]
    BY <2>2, <2>3, <2>4
  <2>6. rows' \in [Users -> Seq(Nat)]
    BY <2>1, <2>3, <2>4, AppendProperties
  <2> QED BY <2>4, <2>5, <2>6 DEF objects, aux
<1>7. ASSUME NEW u \in Users, Listed(u) PROVE TypeOK'
  BY <1>7, <1>a DEF Listed, objects, aux
<1>8. ASSUME NEW u \in Users, NEW k \in Key, Get(u, k) PROVE TypeOK'
  BY <1>8, <1>b, <1>c DEF Get, MayType, objects, command
<1>9. ASSUME NEW u \in Users, NEW k \in Key, Create(u, k) PROVE TypeOK'
  <2>1. sum' \in [Key -> Nat] /\ val' \in [Key -> 0..MaxTexts]
    BY <1>9 DEF Create
  <2> QED BY <1>9, <1>a, <1>d, <2>1 DEF Create
<1>10. ASSUME NEW u \in Users, NEW k \in Key, EditStdin(u, k) PROVE TypeOK'
  BY <1>10 DEF EditStdin, Begin, objects, aux
<1>11. ASSUME NEW u \in Users, NEW k \in Key, EditInEditor(u, k) PROVE TypeOK'
  BY <1>11 DEF EditInEditor, Begin, objects, aux
<1>12. ASSUME NEW k \in Key, OtherDelete(k) PROVE TypeOK'
  BY <1>12 DEF OtherDelete, command, aux
<1>13. CASE UNCHANGED vars
  BY <1>13 DEF vars, objects, command, aux
<1> QED BY <1>1, <1>2, <1>3, <1>4, <1>5, <1>6, <1>7, <1>8, <1>9, <1>10, <1>11, <1>12,
           <1>13 DEF Next

-----------------------------------------------------------------------------
\* An object that exists has a version.
Versions == \A k \in live : sum[k] >= 1

LEMMA NextVersions == TypeOK /\ Versions /\ [Next]_vars => Versions'
<1> SUFFICES ASSUME TypeOK, Versions, [Next]_vars PROVE Versions'
  OBVIOUS
<1> USE DEF TypeOK, Versions
<1>1. ASSUME NEW u \in Users, Modify(u) PROVE Versions'
  BY <1>1 DEF Modify, Accepted
<1>2. ASSUME NEW u \in Users, NEW j \in Key, Create(u, j) PROVE Versions'
  BY <1>2 DEF Create
<1>3. CASE sum' = sum /\ live' \subseteq live
  BY <1>3
<1> QED
  <2>1. ASSUME NEW u \in Users, Read(u) \/ CreateStart(u) \/ Row(u) \/ Failed(u) \/ Listed(u)
                                  \/ ListStart(u)
        PROVE  sum' = sum /\ live' = live
    BY <2>1 DEF Read, CreateStart, Row, Failed, Listed, ListStart, objects
  <2>2. ASSUME NEW u \in Users, NEW k \in Key,
               Get(u, k) \/ EditStdin(u, k) \/ EditInEditor(u, k)
        PROVE  sum' = sum /\ live' = live
    BY <2>2 DEF Get, EditStdin, EditInEditor, objects
  <2>3. ASSUME NEW k \in Key, OtherDelete(k) PROVE sum' = sum /\ live' \subseteq live
    BY <2>3 DEF OtherDelete
  <2>4. CASE UNCHANGED vars
    BY <1>3, <2>4 DEF vars, objects
  <2> QED BY <1>1, <1>2, <1>3, <2>1, <2>2, <2>3, <2>4 DEF Next

-----------------------------------------------------------------------------
\* What a listing has written is what its cache holds.
Listing(u) ==
    /\ Len(rows[u]) <= Len(Rows)
    /\ pc[u] # "list" => rows[u] = <<>>
    /\ \A i \in 1..Len(rows[u]) : rows[u][i] # 0 /\ rows[u][i] = cache[u][Rows[i]]

Lists == \A u \in Users : Listing(u)

LEMMA NextLists == TypeOK /\ Versions /\ Lists /\ [Next]_vars => Lists'
<1> SUFFICES ASSUME TypeOK, Versions, Lists, [Next]_vars, NEW v \in Users
             PROVE  Listing(v)'
  BY DEF Lists
<1> USE CommandAssumption DEF TypeOK
<1>0. Listing(v) /\ Len(Rows) \in Nat
  BY LenProperties DEF Lists
<1>e. Len(<<>>) = 0
  BY EmptySeq
\* A listing that is not touched stays as it is.
<1>f. ASSUME cache'[v] = cache[v], rows'[v] = rows[v],
             pc'[v] = "list" \/ pc'[v] = pc[v] \/ rows[v] = <<>>
      PROVE  Listing(v)'
  BY <1>0, <1>f DEF Listing
\* One that has just begun, or ended, has nothing in it.
<1>g. ASSUME cache'[v] = None, rows'[v] = <<>> PROVE Listing(v)'
  BY <1>0, <1>e, <1>g DEF Listing, None
<1>a. ASSUME NEW u \in Users, Return(u) PROVE Listing(v)'
  BY <1>a, <1>f, <1>g DEF Return
<1>b. ASSUME NEW u \in Users, pc[u] = "idle", pc' = [pc EXCEPT ![u] = "read"]
                \/ pc' = [pc EXCEPT ![u] = "create"] \/ pc' = [pc EXCEPT ![u] = "modify"],
             UNCHANGED <<cache, rows>>
      PROVE  Listing(v)'
  BY <1>0, <1>b, <1>f DEF Listing
<1>1. ASSUME NEW u \in Users, Row(u) PROVE Listing(v)'
  <2> DEFINE n == Len(rows[u])
             k == Rows[n + 1]
             o == IF cache[u][k] # 0 THEN cache[u][k] ELSE sum[k]
  <2>1. /\ rows[u] \in Seq(Nat) /\ n \in Nat /\ n + 1 \in 1..Len(Rows)
        /\ k \in Key /\ o \in Nat /\ sum[k] \in Nat
    <3>1. rows[u] \in Seq(Nat) /\ n \in Nat /\ n + 1 \in 1..Len(Rows)
      BY <1>1, LenProperties DEF Row
    <3>2. k \in Key
      BY <3>1, ElementOfSeq
    <3> HIDE DEF k
    <3>3. cache[u][k] \in Nat /\ sum[k] \in Nat
      BY <3>2
    <3> QED BY <3>1, <3>2, <3>3
  <2>2. /\ cache[u][k] # 0 \/ k \in live
        /\ cache' = [cache EXCEPT ![u][k] = o]
        /\ rows' = [rows EXCEPT ![u] = Append(@, o)]
        /\ UNCHANGED pc /\ pc[u] = "list"
    BY <1>1 DEF Row, Known
  <2>3. o # 0 /\ (cache[u][k] # 0 => o = cache[u][k])
    <3> HIDE DEF k
    <3>1. CASE cache[u][k] # 0
      BY <2>1, <3>1 DEF Lists, Listing
    <3>2. CASE cache[u][k] = 0
      BY <2>1, <2>2, <3>2 DEF Versions
    <3> QED BY <3>1, <3>2
  <2> HIDE DEF n, k, o
  <2>4. CASE u # v
    BY <2>2, <2>4, <1>f
  <2>5. CASE u = v
    <3>1. /\ rows'[v] = Append(rows[v], o)
          /\ Len(rows'[v]) = n + 1
          /\ \A i \in 1..n : rows'[v][i] = rows[v][i]
          /\ rows'[v][n + 1] = o
      BY <2>1, <2>2, <2>5, AppendProperties DEF n
    <3>2. cache'[v][k] = o /\ \A j \in Key \ {k} : cache'[v][j] = cache[v][j]
      BY <2>1, <2>2, <2>5
    <3>4. ASSUME NEW i \in 1..Len(rows'[v])
          PROVE  rows'[v][i] # 0 /\ rows'[v][i] = cache'[v][Rows[i]]
      <4>1. CASE i = n + 1
        BY <2>3, <3>1, <3>2, <4>1 DEF k
      <4>2. CASE i \in 1..n
        <5>1. rows[v][i] # 0 /\ rows[v][i] = cache[v][Rows[i]]
          BY <1>0, <2>5, <4>2 DEF Listing, n
        <5>2. Rows[i] \in Key
          BY <2>1, <4>2, ElementOfSeq
        <5> QED BY <2>3, <2>5, <3>1, <3>2, <4>2, <5>1, <5>2
      <4>3. n \in Nat /\ i \in 1..(n + 1)
        BY <2>1, <3>1
      <4> QED BY <4>1, <4>2, <4>3
    <3>5. Len(rows'[v]) <= Len(Rows) /\ pc'[v] = "list"
      BY <2>1, <2>2, <2>5, <3>1
    <3> QED BY <3>4, <3>5 DEF Listing
  <2> QED BY <2>4, <2>5
<1>2. ASSUME NEW u \in Users, ListStart(u) PROVE Listing(v)'
  <2>1. rows[u] = <<>>
    BY <1>2 DEF ListStart, Begin, Lists, Listing
  <2> QED BY <1>2, <1>f, <1>g, <2>1 DEF ListStart, Begin
<1>3. ASSUME NEW u \in Users, Read(u) PROVE Listing(v)'
  <2>1. rows[u] = <<>>
    BY <1>3 DEF Read, Lists, Listing
  <2> QED BY <1>3, <1>f, <2>1 DEF Read
<1>4. ASSUME NEW u \in Users, NEW k \in Key, EditStdin(u, k) \/ EditInEditor(u, k)
      PROVE  Listing(v)'
  BY <1>4, <1>b DEF EditStdin, EditInEditor, Begin
<1>5. ASSUME NEW u \in Users, CreateStart(u) PROVE Listing(v)'
  BY <1>5, <1>b DEF CreateStart, Begin
<1>6. CASE UNCHANGED command
  BY <1>6, <1>f DEF command
<1> QED
  <2>1. ASSUME NEW u \in Users, Modify(u) \/ Failed(u) \/ Listed(u) PROVE Return(u)
    BY <2>1 DEF Modify, Answered, Failed, Listed
  <2>2. ASSUME NEW u \in Users, NEW k \in Key, Create(u, k) PROVE Return(u)
    BY <2>2 DEF Create, Answered
  <2>3. ASSUME NEW u \in Users, NEW k \in Key, Get(u, k) PROVE UNCHANGED command
    BY <2>3 DEF Get
  <2>4. ASSUME NEW k \in Key, OtherDelete(k) PROVE UNCHANGED command
    BY <2>4 DEF OtherDelete
  <2>5. CASE UNCHANGED vars
    BY <1>6, <2>5 DEF vars
  <2> QED BY <1>a, <1>1, <1>2, <1>3, <1>4, <1>5, <1>6, <2>1, <2>2, <2>3, <2>4, <2>5 DEF Next

-----------------------------------------------------------------------------
\* A text that names an object has the version its author saw; while that is
\* the current one, the contents are those seen, and the text is not applied.
Seen(x) ==
    /\ x.key = basis[x.new].key
    /\ 1 <= x.cs /\ x.cs <= sum[x.key]
    /\ x.cs = sum[x.key] => val[x.key] = basis[x.new].val /\ modified[x.new] = 0

TextOK(x) == x = NoText \/ (x.new \in 1..texts /\ (x.key # NoKey => Seen(x)))

Held == \A u \in Users : TextOK(dest[u]) /\ TextOK(file[u])

\* A create has something to send, and a text not yet written is not applied.
Counts ==
    /\ \A u \in Users : pc[u] = "create" => dest[u] # NoText
    /\ \A t \in Text : t > texts => modified[t] = 0

\* A text once written stays good in every step.
LEMMA TextKept ==
    ASSUME TypeOK, Versions, Held, [Next]_vars, NEW x \in Texts, TextOK(x)
    PROVE  x = NoText \/ (x.new \in 1..texts' /\ (x.key # NoKey =>
              /\ x.key = basis'[x.new].key
              /\ 1 <= x.cs /\ x.cs <= sum'[x.key]
              /\ x.cs = sum'[x.key] => val'[x.key] = basis'[x.new].val /\ modified'[x.new] = 0))
<1> DEFINE Good ==
        x = NoText \/ (x.new \in 1..texts' /\ (x.key # NoKey =>
              /\ x.key = basis'[x.new].key
              /\ 1 <= x.cs /\ x.cs <= sum'[x.key]
              /\ x.cs = sum'[x.key] => val'[x.key] = basis'[x.new].val /\ modified'[x.new] = 0))
<1> SUFFICES Good
  OBVIOUS
<1> USE CommandAssumption DEF TypeOK, Texts, Text
<1>1. ASSUME NEW k \in Key \union {NoKey}, MayType(k), UNCHANGED <<sum, val, modified>>
      PROVE  Good
  <2>1. texts \in Nat /\ texts' = texts + 1
    BY <1>1 DEF MayType
  <2>2. [key |-> k, val |-> IF k = NoKey THEN 0 ELSE val[k]] \in Bases
    BY DEF Bases
  <2>3. \A i \in 1..texts : basis'[i] = basis[i]
    BY <1>1, <2>1, <2>2, AppendTyped DEF MayType
  <2> QED BY <1>1, <2>1, <2>3 DEF TextOK, Seen
<1>2. ASSUME NEW u \in Users, Modify(u) PROVE Good
  <2> DEFINE t == dest[u]
  <2>1. /\ t.key \in live /\ t.key \in Key /\ sum[t.key] = t.cs
        /\ sum' = [sum EXCEPT ![t.key] = @ + 1]
        /\ val' = [val EXCEPT ![t.key] = t.new]
        /\ modified' = [modified EXCEPT ![t.new] = @ + 1]
        /\ UNCHANGED <<texts, basis>>
    BY <1>2 DEF Modify, Accepted
  <2>2. t \in Texts /\ t.key = basis[t.new].key
    <3>1. TextOK(t) /\ t \in Texts
      BY DEF Held
    <3>2. t.key # NoKey /\ t # NoText
      BY <2>1 DEF NoText
    <3> QED BY <3>1, <3>2 DEF TextOK, Seen
  <2> HIDE DEF t
  <2>3. CASE x = NoText \/ x.key = NoKey
    BY <2>1, <2>3 DEF TextOK
  <2>4. CASE x # NoText /\ x.key # NoKey
    <3>1. x.new \in 1..texts /\ Seen(x) /\ x.key \in Key /\ x.cs \in Nat
      BY <2>4 DEF TextOK
    <3>2. CASE x.key = t.key
      BY <2>1, <3>1, <3>2 DEF Seen
    <3>3. CASE x.key # t.key
      <4>1. x.new # t.new
        BY <2>2, <3>1, <3>3 DEF Seen
      <4>2. sum'[x.key] = sum[x.key] /\ val'[x.key] = val[x.key]
            /\ modified'[x.new] = modified[x.new]
        BY <2>1, <3>1, <3>3, <4>1
      <4> QED BY <2>1, <3>1, <4>2 DEF Seen
    <3> QED BY <3>2, <3>3
  <2> QED BY <2>3, <2>4
<1>3. ASSUME NEW u \in Users, NEW k \in Key, Create(u, k) PROVE Good
  <2>1. /\ sum[k] = 0
        /\ sum' = [sum EXCEPT ![k] = 1] /\ val' = [val EXCEPT ![k] = dest[u].new]
        /\ UNCHANGED <<texts, basis, modified>>
    BY <1>3 DEF Create
  <2>2. CASE x = NoText \/ x.key = NoKey
    BY <2>1, <2>2 DEF TextOK
  <2>3. CASE x # NoText /\ x.key # NoKey
    <3>1. x.new \in 1..texts /\ Seen(x) /\ x.key \in Key /\ x.cs \in Nat
      BY <2>3 DEF TextOK
    <3>2. x.key # k
      BY <2>1, <3>1 DEF Seen
    <3>3. sum'[x.key] = sum[x.key] /\ val'[x.key] = val[x.key]
      BY <2>1, <3>1, <3>2
    <3> QED BY <2>1, <3>1, <3>3 DEF Seen
  <2> QED BY <2>2, <2>3
<1>4. CASE UNCHANGED <<sum, val, texts, basis, modified>>
  BY <1>4 DEF TextOK, Seen
<1> QED
  <2>1. ASSUME NEW u \in Users, Read(u)
        PROVE  MayType(named[u]) /\ named[u] \in Key /\ UNCHANGED <<sum, val, modified>>
    BY <2>1 DEF Read, objects
  <2>2. ASSUME NEW u \in Users, CreateStart(u)
        PROVE  UNCHANGED <<sum, val, modified>> /\ (MayType(NoKey) \/ UNCHANGED <<texts, basis>>)
    BY <2>2 DEF CreateStart, objects
  <2>3. ASSUME NEW u \in Users, NEW k \in Key, Get(u, k)
        PROVE  MayType(k) /\ UNCHANGED <<sum, val, modified>>
    BY <2>3 DEF Get, objects
  <2>4. ASSUME NEW u \in Users, Failed(u) \/ ListStart(u) \/ Row(u) \/ Listed(u)
        PROVE  UNCHANGED <<sum, val, texts, basis, modified>>
    BY <2>4 DEF Failed, ListStart, Row, Listed, objects, aux
  <2>5. ASSUME NEW u \in Users, NEW k \in Key, EditStdin(u, k) \/ EditInEditor(u, k)
        PROVE  UNCHANGED <<sum, val, texts, basis, modified>>
    BY <2>5 DEF EditStdin, EditInEditor, objects, aux
  <2>6. ASSUME NEW k \in Key, OtherDelete(k)
        PROVE  UNCHANGED <<sum, val, texts, basis, modified>>
    BY <2>6 DEF OtherDelete, aux
  <2>7. CASE UNCHANGED vars
    BY <1>4, <2>7 DEF vars, objects, aux
  <2> QED BY <1>1, <1>2, <1>3, <1>4, <2>1, <2>2, <2>3, <2>4, <2>5, <2>6, <2>7 DEF Next

LEMMA NextHeld == TypeOK /\ Versions /\ Held /\ Counts /\ [Next]_vars => Held' /\ Counts'
<1> SUFFICES ASSUME TypeOK, Versions, Held, Counts, [Next]_vars PROVE Held' /\ Counts'
  OBVIOUS
<1> USE CommandAssumption DEF TypeOK, Text
<1> DEFINE Fine(x) == x = NoText \/ (x.new \in 1..texts' /\ (x.key # NoKey =>
              /\ x.key = basis'[x.new].key
              /\ 1 <= x.cs /\ x.cs <= sum'[x.key]
              /\ x.cs = sum'[x.key] => val'[x.key] = basis'[x.new].val /\ modified'[x.new] = 0))
<1>k. \A u \in Users : Fine(dest[u]) /\ Fine(file[u])
  BY TextKept DEF Held
<1>h. ASSUME \A u \in Users : Fine(dest'[u]) /\ Fine(file'[u]) PROVE Held'
  BY <1>h DEF Held, TextOK, Seen
<1>n. Fine(NoText)
  OBVIOUS
\* A text that has just been written.
<1>m. ASSUME NEW k \in Key \union {NoKey}, MayType(k), UNCHANGED <<sum, val, modified>>
      PROVE  /\ texts \in Nat /\ texts + 1 \in Text /\ texts' = texts + 1
             /\ basis'[texts'] = [key |-> k, val |-> IF k = NoKey THEN 0 ELSE val[k]]
             /\ \A t \in Text : t > texts' => modified'[t] = 0
             /\ modified'[texts'] = 0
  <2>1. texts \in Nat /\ texts + 1 \in Text /\ texts' = texts + 1
    BY <1>m DEF MayType
  <2>2. [key |-> k, val |-> IF k = NoKey THEN 0 ELSE val[k]] \in Bases
    BY DEF Bases
  <2>3. basis'[texts + 1] = [key |-> k, val |-> IF k = NoKey THEN 0 ELSE val[k]]
    BY <1>m, <2>1, <2>2, AppendTyped DEF MayType
  <2> QED BY <1>m, <2>1, <2>3 DEF Counts
<1>o. ASSUME NEW k \in live, MayType(k), UNCHANGED <<sum, val, modified>>
      PROVE  Fine(Typed(k))
  <2>1. k \in Key /\ k # NoKey /\ sum[k] >= 1 /\ sum[k] \in Nat
    BY DEF Versions
  <2>2. Typed(k).new = texts' /\ Typed(k).key = k /\ Typed(k).cs = sum[k]
    BY <1>o DEF MayType, Typed
  <2>3. /\ texts' \in Nat \ {0}
        /\ basis'[texts'].key = k /\ basis'[texts'].val = val[k] /\ modified'[texts'] = 0
    <3>1. /\ texts \in Nat /\ texts' = texts + 1 /\ modified'[texts'] = 0
          /\ basis'[texts'] = [key |-> k, val |-> IF k = NoKey THEN 0 ELSE val[k]]
      BY <1>m, <1>o, <2>1
    <3> QED BY <2>1, <3>1
  <2>4. UNCHANGED <<sum, val>>
    BY <1>o
  <2> QED BY <2>1, <2>2, <2>3, <2>4
<1> HIDE DEF Fine
<1>a. ASSUME NEW u \in Users, Return(u) PROVE
        /\ \A v \in Users : dest'[v] = dest[v] \/ dest'[v] = NoText
        /\ \A v \in Users : pc'[v] = "create" => v # u /\ pc[v] = "create" /\ dest'[v] = dest[v]
  BY <1>a DEF Return
<1>1. ASSUME NEW u \in Users, Read(u) PROVE Held' /\ Counts'
  <2>1. /\ named[u] \in live /\ MayType(named[u]) /\ UNCHANGED <<sum, val, modified>>
        /\ file' = file /\ dest' = [dest EXCEPT ![u] = Typed(named[u])]
        /\ pc' = [pc EXCEPT ![u] = "modify"]
    BY <1>1 DEF Read, objects
  <2>2. Held'
    BY <1>h, <1>k, <1>o, <2>1
  <2>3. \A t \in Text : t > texts' => modified'[t] = 0
    BY <1>m, <2>1
  <2>4. \A v \in Users : pc'[v] = "create" => dest'[v] # NoText
    BY <2>1 DEF Counts
  <2> QED BY <2>2, <2>3, <2>4 DEF Counts
<1>2. ASSUME NEW u \in Users, Modify(u) PROVE Held' /\ Counts'
  <2>1. Return(u) /\ UNCHANGED <<file, texts>> /\ modified' = [modified EXCEPT ![dest[u].new] = @ + 1]
        /\ dest[u].key \in live
    BY <1>2 DEF Modify, Answered, Accepted
  <2>2. dest[u].new <= texts /\ dest[u].new \in Nat
    <3>1. dest[u] # NoText /\ TextOK(dest[u])
      BY <2>1 DEF NoText, Held
    <3> QED BY <3>1 DEF TextOK
  <2>3. Held'
    BY <1>a, <1>h, <1>k, <1>n, <2>1
  <2>4. \A t \in Text : t > texts' => modified'[t] = 0
    BY <2>1, <2>2 DEF Counts
  <2> QED BY <1>a, <2>1, <2>3, <2>4 DEF Counts
<1>3. ASSUME NEW u \in Users, Return(u), UNCHANGED <<file, texts, modified>>
      PROVE  Held' /\ Counts'
  <2>1. Held'
    BY <1>a, <1>h, <1>k, <1>n, <1>3
  <2> QED BY <1>a, <1>3, <2>1 DEF Counts
<1>4. ASSUME NEW u \in Users, CreateStart(u) PROVE Held' /\ Counts'
  <2>0. UNCHANGED <<sum, val, modified, file>> /\ pc' = [pc EXCEPT ![u] = "create"]
    BY <1>4 DEF CreateStart, Begin, objects
  <2>1. CASE MayType(NoKey) /\ dest' = [dest EXCEPT ![u] = [NoText EXCEPT !.new = texts + 1]]
    <3> DEFINE x == [NoText EXCEPT !.new = texts + 1]
    <3>1. x.new = texts' /\ x.key = NoKey /\ texts' \in Nat \ {0} /\ x # NoText
      <4>1. texts \in Nat /\ texts' = texts + 1
        BY <1>m, <2>0, <2>1
      <4>2. NoText.new = 0 /\ x.new = texts + 1 /\ x.key = NoKey
        BY DEF NoText
      <4> HIDE DEF x
      <4>3. x # NoText
        BY <4>1, <4>2
      <4> QED BY <4>1, <4>2, <4>3
    <3>2. Fine(x)
      BY <3>1 DEF Fine
    <3>3. dest' = [dest EXCEPT ![u] = x]
      BY <2>1
    <3> HIDE DEF x
    <3>4. Held'
      BY <1>h, <1>k, <2>0, <3>2, <3>3
    <3>5. \A t \in Text : t > texts' => modified'[t] = 0
      BY <1>m, <2>0, <2>1
    <3>6. \A v \in Users : pc'[v] = "create" => dest'[v] # NoText
      BY <2>0, <3>1, <3>3 DEF Counts
    <3> QED BY <3>4, <3>5, <3>6 DEF Counts
  <2>2. CASE file[u] # NoText /\ UNCHANGED <<texts, basis>> /\ dest' = [dest EXCEPT ![u] = file[u]]
    <3>1. Held'
      BY <1>h, <1>k, <2>0, <2>2
    <3> QED BY <2>0, <2>2, <3>1 DEF Counts
  <2> QED BY <1>4, <2>1, <2>2 DEF CreateStart
<1>5. ASSUME NEW u \in Users, NEW k \in Key, Get(u, k) PROVE Held' /\ Counts'
  <2>1. /\ k \in live /\ MayType(k) /\ UNCHANGED <<sum, val, modified>>
        /\ UNCHANGED <<dest, pc>> /\ file' = [file EXCEPT ![u] = Typed(k)]
    BY <1>5 DEF Get, objects, command
  <2>2. Held'
    BY <1>h, <1>k, <1>o, <2>1
  <2>3. \A t \in Text : t > texts' => modified'[t] = 0
    BY <1>m, <2>1
  <2> QED BY <2>1, <2>2, <2>3 DEF Counts
<1>6. ASSUME NEW u \in Users, NEW k \in Key, EditStdin(u, k) PROVE Held' /\ Counts'
  <2>1. /\ UNCHANGED <<texts, modified, file>> /\ dest' = [dest EXCEPT ![u] = file[u]]
        /\ pc' = [pc EXCEPT ![u] = "modify"]
    BY <1>6 DEF EditStdin, Begin, aux
  <2>2. Held'
    BY <1>h, <1>k, <2>1
  <2> QED BY <2>1, <2>2 DEF Counts
<1>7. ASSUME UNCHANGED <<texts, modified, file, dest>>,
             \A v \in Users : pc'[v] = "create" => pc[v] = "create"
      PROVE  Held' /\ Counts'
  <2>1. Held'
    BY <1>h, <1>k, <1>7
  <2> QED BY <1>7, <2>1 DEF Counts
<1> QED
  <2>1. ASSUME NEW u \in Users, Failed(u) \/ Listed(u)
        PROVE  Return(u) /\ UNCHANGED <<file, texts, modified>>
    BY <2>1 DEF Failed, Listed, aux
  <2>2. ASSUME NEW u \in Users, NEW k \in Key, Create(u, k)
        PROVE  Return(u) /\ UNCHANGED <<file, texts, modified>>
    BY <2>2 DEF Create, Answered
  <2>3. ASSUME NEW u \in Users, ListStart(u) \/ Row(u) PROVE Held' /\ Counts'
    BY <1>7, <2>3 DEF ListStart, Row, Begin, aux
  <2>4. ASSUME NEW u \in Users, NEW k \in Key, EditInEditor(u, k) PROVE Held' /\ Counts'
    BY <1>7, <2>4 DEF EditInEditor, Begin, aux
  <2>5. ASSUME NEW k \in Key, OtherDelete(k) PROVE Held' /\ Counts'
    BY <1>7, <2>5 DEF OtherDelete, command, aux
  <2>6. CASE UNCHANGED vars
    BY <1>7, <2>6 DEF vars, command, aux
  <2> QED BY <1>1, <1>2, <1>3, <1>4, <1>5, <1>6, <2>1, <2>2, <2>3, <2>4, <2>5, <2>6 DEF Next

-----------------------------------------------------------------------------
IInv == TypeOK /\ Versions /\ Lists /\ Held /\ Counts /\ AppliedOnce

\* What an edit that is accepted has to offer: the object as its author saw it.
LEMMA EditIsGood ==
    ASSUME TypeOK, Held, NEW u \in Users, Modify(u)
    PROVE  LET t == dest[u] IN
           /\ t.new \in 1..texts /\ t.key \in live /\ t.key = basis[t.new].key
           /\ val[t.key] = basis[t.new].val /\ modified[t.new] = 0
<1> DEFINE t == dest[u]
<1>1. t.key \in live /\ t.key \in Key /\ sum[t.key] = t.cs
  BY DEF Modify, Accepted, TypeOK
<1>2. t # NoText /\ t.key # NoKey /\ TextOK(t)
  BY <1>1, CommandAssumption DEF Held, NoText
<1> QED BY <1>1, <1>2 DEF TextOK, Seen

LEMMA NextOnce == IInv /\ [Next]_vars => AppliedOnce'
<1> SUFFICES ASSUME IInv, [Next]_vars PROVE AppliedOnce'
  OBVIOUS
<1> USE DEF IInv, TypeOK, Text
<1>1. ASSUME NEW u \in Users, Modify(u) PROVE AppliedOnce'
  <2>1. modified[dest[u].new] = 0 /\ dest[u].new \in 1..texts
    BY <1>1, EditIsGood
  <2>2. modified' = [modified EXCEPT ![dest[u].new] = @ + 1]
    BY <1>1 DEF Modify
  <2> QED BY <2>1, <2>2 DEF AppliedOnce
<1>2. CASE UNCHANGED modified
  BY <1>2 DEF AppliedOnce
<1> QED
  <2>1. ASSUME NEW u \in Users, Read(u) \/ Failed(u) \/ CreateStart(u) \/ ListStart(u)
                                  \/ Row(u) \/ Listed(u)
        PROVE  UNCHANGED modified
    BY <2>1 DEF Read, Failed, CreateStart, ListStart, Row, Listed, aux
  <2>2. ASSUME NEW u \in Users, NEW k \in Key,
               Get(u, k) \/ Create(u, k) \/ EditStdin(u, k) \/ EditInEditor(u, k)
        PROVE  UNCHANGED modified
    BY <2>2 DEF Get, Create, EditStdin, EditInEditor, aux
  <2>3. ASSUME NEW k \in Key, OtherDelete(k) PROVE UNCHANGED modified
    BY <2>3 DEF OtherDelete, aux
  <2>4. CASE UNCHANGED vars
    BY <1>2, <2>4 DEF vars, aux
  <2> QED BY <1>1, <1>2, <2>1, <2>2, <2>3, <2>4 DEF Next

LEMMA InitInv == Init => IInv
<1> SUFFICES ASSUME Init PROVE IInv
  OBVIOUS
<1>1. TypeOK
  BY InitType
<1>2. Versions
  <2>1. \A k \in live : sum[k] = 1
    BY CommandAssumption DEF Init
  <2> QED BY <2>1 DEF Versions
<1>3. Lists
  BY CommandAssumption, EmptySeq, LenProperties DEF Init, Lists, Listing, None
<1>4. Held /\ Counts /\ AppliedOnce
  BY DEF Init, Held, TextOK, Counts, AppliedOnce
<1> QED BY <1>1, <1>2, <1>3, <1>4 DEF IInv

LEMMA InvariantHolds == Spec => []IInv
<1>1. IInv /\ [Next]_vars => IInv'
  BY NextType, NextVersions, NextLists, NextHeld, NextOnce DEF IInv
<1> QED BY InitInv, <1>1, PTL DEF Spec

-----------------------------------------------------------------------------
\* The variables of the commands have their types.
THEOREM TypeCorrect == Spec => []TypeOK
  BY InvariantHolds, PTL DEF IInv

\* A text sent again, from a file or because its answer was lost, is not
\* applied a second time.
THEOREM NeverTwice == Spec => []AppliedOnce
  BY InvariantHolds, PTL DEF IInv

\* Rows of one listing that refer to the same object agree.
THEOREM ListingsAgree == Spec => []OneVersionPerListing
<1>1. IInv => OneVersionPerListing
  <2> SUFFICES ASSUME IInv, NEW u \in Users, NEW i \in DOMAIN rows[u], NEW j \in DOMAIN rows[u],
                      Rows[i] = Rows[j]
               PROVE  rows[u][i] = rows[u][j]
    BY DEF OneVersionPerListing
  <2>1. Listing(u) /\ i \in 1..Len(rows[u]) /\ j \in 1..Len(rows[u])
    BY LenProperties DEF IInv, TypeOK, Lists
  <2> QED BY <2>1 DEF Listing
<1> QED BY InvariantHolds, <1>1, PTL

\* An edit replaces what its author saw, and nothing else.
THEOREM NeverLost == Spec => NoLostEdit
<1>1. IInv /\ [Next]_vars =>
        [\A u \in Users : Modify(u) =>
            LET b == basis[dest[u].new] IN dest[u].key = b.key /\ val[b.key] = b.val]_vars
  BY EditIsGood DEF IInv
<1> QED BY InvariantHolds, <1>1, PTL DEF Spec, NoLostEdit

-----------------------------------------------------------------------------
LEMMA InitEdits == Init => Edits!Init
<1> SUFFICES ASSUME Init PROVE Edits!Init
  OBVIOUS
<1>1. DOMAIN basis = {}
  BY EmptySeq, LenProperties DEF Init
<1>2. {k \in Key \ live : sum[k] # 0} = {} /\ {t \in Text : modified[t] > 0} = {}
  <2>1. (\A k \in Key \ live : sum[k] = 0) /\ (\A t \in Text : modified[t] = 0)
    BY DEF Init
  <2> QED BY <2>1
<1> QED BY <1>1, <1>2, CommandAssumption DEF Init, Edits!Init

\* Every step is an edit that happens at an instant, or none.
LEMMA NextEdits == IInv /\ [Next]_vars => [Edits!Next]_(Edits!vars)
<1> SUFFICES ASSUME IInv, [Next]_vars PROVE Edits!Next \/ UNCHANGED Edits!vars
  OBVIOUS
<1> USE CommandAssumption DEF IInv, TypeOK
<1> DEFINE dead == {k \in Key \ live : sum[k] # 0}
           applied == {t \in Text : modified[t] > 0}
<1>0. DOMAIN basis = 1..texts /\ texts \in Nat
  OBVIOUS
<1>w. ASSUME NEW k \in Key \union {NoKey}, MayType(k), UNCHANGED <<objects, modified>>
      PROVE  Edits!Next
  <2>1. texts + 1 \in Text /\ texts' = texts + 1
    BY <1>w DEF MayType, Text
  <2>2. [key |-> k, val |-> IF k = NoKey THEN 0 ELSE val[k]] \in Bases
    BY DEF Bases
  <2>3. /\ basis' \in [1..(texts + 1) -> Bases]
        /\ basis'[texts + 1] = [key |-> k, val |-> IF k = NoKey THEN 0 ELSE val[k]]
        /\ \A i \in 1..texts : basis'[i] = basis[i]
    <3> DEFINE e == [key |-> k, val |-> IF k = NoKey THEN 0 ELSE val[k]]
    <3>1. basis' = Append(basis, e) /\ e \in Bases
      BY <1>w, <2>2 DEF MayType
    <3> HIDE DEF e
    <3>2. basis \in [1..texts -> Bases] /\ texts \in Nat
      BY <1>0
    <3> HIDE DEF IInv, TypeOK
    <3>3. Append(basis, e) \in [1..(texts + 1) -> Bases]
      BY <3>1, <3>2, AppendTyped
    <3>4. Append(basis, e)[texts + 1] = e
      BY <3>1, <3>2, AppendTyped
    <3>5. \A i \in 1..texts : Append(basis, e)[i] = basis[i]
      BY <3>1, <3>2, AppendTyped
    <3> QED BY <3>1, <3>3, <3>4, <3>5 DEF e
  <2>4. texts + 1 \notin DOMAIN basis /\ DOMAIN basis' = DOMAIN basis \union {texts + 1}
    BY <1>0, <2>3
  <2>5. basis'[texts + 1].key \in live => basis'[texts + 1].val = val[basis'[texts + 1].key]
    BY <2>3
  <2>6. UNCHANGED <<live, dead, val, applied>>
    BY <1>w DEF objects
  <2>7. Edits!Write(texts + 1)
    BY <1>0, <2>3, <2>4, <2>5, <2>6 DEF Edits!Write
  <2> QED BY <2>1, <2>7 DEF Edits!Next
<1>1. ASSUME NEW u \in Users, Modify(u) PROVE Edits!Next
  <2> DEFINE x == dest[u]
             n == x.new
  <2>1. /\ n \in 1..texts /\ x.key \in live /\ x.key = basis[n].key
        /\ val[x.key] = basis[n].val /\ modified[n] = 0
    BY <1>1, EditIsGood
  <2>2. /\ val' = [val EXCEPT ![x.key] = n]
        /\ sum' = [sum EXCEPT ![x.key] = @ + 1]
        /\ modified' = [modified EXCEPT ![n] = @ + 1]
        /\ UNCHANGED <<live, basis>>
    BY <1>1 DEF Modify
  <2> HIDE DEF x, n
  <2>3. n \in Text /\ n \notin applied
    BY <2>1 DEF Text
  <2>4. applied' = applied \union {n}
    BY <2>1, <2>2, <2>3
  <2>5. dead' = dead
    BY <2>1, <2>2
  <2>6. Edits!Edit(n)
    BY <1>0, <2>1, <2>2, <2>3, <2>4, <2>5 DEF Edits!Edit
  <2>7. n \in Text
    BY <2>3
  <2> QED BY <2>6, <2>7 DEF Edits!Next, Edits!Edit
<1>2. ASSUME NEW u \in Users, NEW k \in Key, Create(u, k) PROVE Edits!Next
  <2> DEFINE n == dest[u].new
  <2>1. /\ sum[k] = 0 /\ live' = live \union {k} /\ sum' = [sum EXCEPT ![k] = 1]
        /\ val' = [val EXCEPT ![k] = n] /\ UNCHANGED <<basis, modified>>
        /\ pc[u] = "create"
    BY <1>2 DEF Create
  <2>2. n \in 1..texts /\ n \in Text
    <3>1. TextOK(dest[u]) /\ dest[u] # NoText
      BY <2>1 DEF Held, Counts
    <3> QED BY <3>1 DEF TextOK, Text
  <2>3. k \notin live \union dead
    BY <2>1 DEF Versions
  <2> HIDE DEF n
  <2>4. UNCHANGED <<dead, applied>>
    BY <2>1, <2>3
  <2>5. Edits!New(n, k)
    BY <1>0, <2>1, <2>2, <2>3, <2>4 DEF Edits!New
  <2> QED BY <2>2, <2>5 DEF Edits!Next
<1>3. ASSUME NEW k \in Key, OtherDelete(k) PROVE Edits!Next
  <2>1. k \in live /\ live' = live \ {k} /\ UNCHANGED <<sum, val, basis, modified>>
    BY <1>3 DEF OtherDelete, aux
  <2>2. dead' = dead \union {k} /\ applied' = applied
    BY <2>1 DEF Versions
  <2>3. Edits!Remove(k)
    BY <2>1, <2>2 DEF Edits!Remove
  <2> QED BY <2>3 DEF Edits!Next
<1>4. CASE UNCHANGED <<objects, basis, modified>>
  BY <1>4 DEF objects, Edits!vars
<1> QED
  <2>1. ASSUME NEW u \in Users, Read(u) PROVE Edits!Next
    <3>1. named[u] \in Key /\ MayType(named[u]) /\ UNCHANGED <<objects, modified>>
      BY <2>1 DEF Read
    <3> QED BY <1>w, <3>1
  <2>2. ASSUME NEW u \in Users, CreateStart(u) PROVE Edits!Next \/ UNCHANGED <<objects, basis, modified>>
    BY <1>w, <2>2 DEF CreateStart
  <2>3. ASSUME NEW u \in Users, NEW k \in Key, Get(u, k) PROVE Edits!Next
    BY <1>w, <2>3 DEF Get
  <2>4. ASSUME NEW u \in Users, Failed(u) \/ ListStart(u) \/ Row(u) \/ Listed(u)
        PROVE  UNCHANGED <<objects, basis, modified>>
    BY <2>4 DEF Failed, ListStart, Row, Listed, aux
  <2>5. ASSUME NEW u \in Users, NEW k \in Key, EditStdin(u, k) \/ EditInEditor(u, k)
        PROVE  UNCHANGED <<objects, basis, modified>>
    BY <2>5 DEF EditStdin, EditInEditor, aux
  <2>6. CASE UNCHANGED vars
    BY <1>4, <2>6 DEF vars, aux
  <2> QED BY <1>1, <1>2, <1>3, <1>4, <2>1, <2>2, <2>3, <2>4, <2>5, <2>6 DEF Next

\* Editors, files, old checksums and lost answers amount to edits that happen
\* at an instant, each at most once and on what its author saw.
THEOREM Implements == Spec => ImplementsAtomicEdits
<1> QED BY InvariantHolds, InitEdits, NextEdits, PTL
           DEF Spec, ImplementsAtomicEdits, Edits!Spec

=============================================================================
