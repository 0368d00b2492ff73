------------------------------ MODULE LoopLaws ------------------------------
(***************************************************************************)
(* Laws of FoldLeft, the loop over a list that builds up a result, and of  *)
(* FlattenSeq, for lists of any length.  The provers take no theorem that  *)
(* has an operator for a parameter, so the loop's body is a constant here: *)
(* a proof about a loop instantiates this module with that loop's body.    *)
(***************************************************************************)
EXTENDS Integers, Sequences, SequencesExt, WellFoundedInduction, TLAPS

CONSTANTS
    Body(_, _), \* the result so far and an element to the next result
    Start       \* the result before the first element

After(list) == FoldLeft(Body, Start, list)

-----------------------------------------------------------------------------
\* Induction over numbers: a set of numbers has a least one, so a claim that
\* fails for some number has a first number it fails for.
Less == {ss \in Nat \X Nat : ss[1] < ss[2]}

LEMMA LessWellFounded == IsWellFoundedOn(Less, Nat)
  BY NatLessThanWellFounded DEF OpToRel, Less

LEMMA LeastNumber ==
    ASSUME NEW T, T \subseteq Nat, T # {}
    PROVE  \E x \in T : \A y \in T : x <= y
<1>1. PICK x \in T : \A y \in T : ~(<<y, x>> \in Less)
  BY LessWellFounded, WFMin
<1>2. \A y \in T : ~(y < x)
  BY <1>1 DEF Less
<1> QED BY <1>2

LEMMA MaxIsIn ==
    ASSUME NEW n \in Nat, NEW S, S \subseteq 1..n, S # {}
    PROVE  Max(S) \in S /\ \A y \in S : y <= Max(S)
<1> DEFINE T == {k \in Nat : \A y \in S : y <= k}
<1>1. n \in T
  OBVIOUS
<1>2. PICK k \in T : \A l \in T : k <= l
  BY <1>1, LeastNumber
<1>3. k \in S
  <2> SUFFICES ASSUME k \notin S PROVE FALSE
    OBVIOUS
  <2>1. PICK y \in S : TRUE
    OBVIOUS
  <2>2. k # 0
    BY <2>1
  <2>3. k - 1 \in T
    BY <2>2
  <2> QED BY <1>2, <2>3
<1>4. \E x \in S : \A y \in S : x >= y
  BY <1>2, <1>3
<1> QED BY <1>4 DEF Max

-----------------------------------------------------------------------------
\* The recursion in FoldLeft, over the sets of the first n positions.
Iterates(f, list, n) ==
    f = [S \in SUBSET (1..n) |->
            IF S = {} THEN Start ELSE Body(f[S \ {Max(S)}], list[Max(S)])]

LEMMA IterationExists ==
    ASSUME NEW list
    PROVE  \A n \in Nat : \E f : Iterates(f, list, n)
<1> DEFINE T == {n \in Nat : ~\E f : Iterates(f, list, n)}
<1> SUFFICES ASSUME T # {} PROVE FALSE
  OBVIOUS
<1>1. PICK n \in T : \A m \in T : n <= m
  BY LeastNumber
<1>2. CASE n = 0
  <2> DEFINE g == [S \in SUBSET (1..n) |-> Start]
  <2>1. \A S \in SUBSET (1..n) : S = {}
    BY <1>2
  <2>2. Iterates(g, list, n)
    BY <2>1 DEF Iterates
  <2> QED BY <2>2
<1>3. CASE n # 0
  <2>1. n - 1 \in Nat /\ n - 1 \notin T
    BY <1>1, <1>3
  <2>2. PICK f : Iterates(f, list, n - 1)
    BY <2>1
  <2> DEFINE g == [S \in SUBSET (1..n) |->
                     IF n \in S THEN Body(f[S \ {n}], list[n]) ELSE f[S]]
  <2>3. ASSUME NEW S \in SUBSET (1..n)
        PROVE  g[S] = IF S = {} THEN Start ELSE Body(g[S \ {Max(S)}], list[Max(S)])
    <3>1. CASE n \in S
      <4>1. Max(S) = n
        <5>1. S \subseteq 1..n /\ S # {} /\ n \in Nat
          BY <3>1
        <5>2. Max(S) \in S /\ n <= Max(S)
          BY <3>1, <5>1, MaxIsIn
        <5>3. Max(S) \in 1..n
          BY <5>1, <5>2
        <5> QED BY <5>1, <5>2, <5>3
      <4>2. S \ {n} \in SUBSET (1..n) /\ g[S \ {n}] = f[S \ {n}] /\ S # {}
        BY <3>1
      <4> HIDE DEF g
      <4>3. g[S] = Body(f[S \ {n}], list[n])
        BY <3>1 DEF g
      <4> QED BY <4>1, <4>2, <4>3
    <3>2. CASE n \notin S
      <4>1. S \in SUBSET (1..(n - 1))
        BY <2>1, <3>2
      <4>2. f[S] = IF S = {} THEN Start ELSE Body(f[S \ {Max(S)}], list[Max(S)])
        BY <2>2, <4>1 DEF Iterates
      <4>3. S \ {Max(S)} \in SUBSET (1..n) /\ n \notin S \ {Max(S)}
        BY <3>2
      <4>4. g[S] = f[S] /\ g[S \ {Max(S)}] = f[S \ {Max(S)}]
        BY <3>2, <4>3
      <4> HIDE DEF g
      <4> QED BY <4>2, <4>4
    <3> QED BY <3>1, <3>2
  <2>4. Iterates(g, list, n)
    BY <2>3 DEF Iterates
  <2> QED BY <2>4
<1> QED BY <1>2, <1>3

\* The result after k elements depends on these k elements only.
LEMMA IterationsAgree ==
    ASSUME NEW list1, NEW list2, NEW n1 \in Nat, NEW n2 \in Nat, n1 <= n2,
           \A i \in 1..n1 : list1[i] = list2[i],
           NEW f1, Iterates(f1, list1, n1), NEW f2, Iterates(f2, list2, n2)
    PROVE  f1[1..n1] = f2[1..n1]
<1> DEFINE T == {k \in 0..n1 : f1[1..k] # f2[1..k]}
<1> SUFFICES ASSUME T # {} PROVE FALSE
  BY n1 \in 0..n1
<1>0. T \subseteq Nat
  OBVIOUS
<1>1. PICK k \in T : \A l \in T : k <= l
  <2> HIDE DEF T
  <2> QED BY <1>0, LeastNumber
<1>2. /\ 1..k \in SUBSET (1..n1) /\ 1..k \in SUBSET (1..n2)
      /\ k \in 0..n1
  BY <1>1
<1>3. /\ f1[1..k] = IF 1..k = {} THEN Start ELSE Body(f1[(1..k) \ {Max(1..k)}], list1[Max(1..k)])
      /\ f2[1..k] = IF 1..k = {} THEN Start ELSE Body(f2[(1..k) \ {Max(1..k)}], list2[Max(1..k)])
  BY <1>2 DEF Iterates
<1>4. 1..k # {}
  BY <1>1, <1>3
<1>5. k # 0 /\ k - 1 \in 0..n1
  BY <1>2, <1>4
<1>6. Max(1..k) = k
  <2>1. k \in Nat /\ 1..k \subseteq 1..k /\ k \in 1..k
    BY <1>2, <1>5
  <2>2. Max(1..k) \in 1..k /\ k <= Max(1..k)
    BY <1>4, <2>1, MaxIsIn
  <2> QED BY <2>1, <2>2
<1>7. (1..k) \ {k} = 1..(k - 1)
  BY <1>2
<1>8. f1[1..(k - 1)] = f2[1..(k - 1)]
  BY <1>1, <1>5
<1> QED BY <1>1, <1>2, <1>3, <1>4, <1>5, <1>6, <1>7, <1>8

\* FoldLeft is such an iteration.
LEMMA FoldIterates ==
    ASSUME NEW list, NEW n \in Nat, DOMAIN list = 1..n
    PROVE  \E f : Iterates(f, list, n) /\ After(list) = f[1..n]
<1> DEFINE I(f) == Iterates(f, list, n)
           f == CHOOSE g : I(g)
<1>1. I(f)
  <2>1. \E g : I(g)
    BY IterationExists
  <2> HIDE DEF I
  <2> QED BY <2>1
<1>2. After(list) = f[1..n]
  BY DEF After, FoldLeft, MapThenFoldSet, Iterates
<1> QED BY <1>1, <1>2

\* A loop over nothing does nothing.
LEMMA AfterNone == After(<<>>) = Start
<1>1. PICK f : Iterates(f, <<>>, 0) /\ After(<<>>) = f[1..0]
  BY FoldIterates
<1>2. 1..0 = {} /\ 1..0 \in SUBSET (1..0)
  OBVIOUS
<1> QED BY <1>1, <1>2 DEF Iterates

\* One element more is one step more.
LEMMA AfterAppend ==
    ASSUME NEW T, NEW list \in Seq(T), NEW x \in T
    PROVE  After(Append(list, x)) = Body(After(list), x)
<1> DEFINE n == Len(list)
           more == Append(list, x)
<1>1. /\ n \in Nat /\ DOMAIN list = 1..n /\ DOMAIN more = 1..(n + 1)
      /\ more[n + 1] = x /\ \A i \in 1..n : list[i] = more[i]
  OBVIOUS
<1> HIDE DEF n, more
<1>2. PICK f : Iterates(f, list, n) /\ After(list) = f[1..n]
  BY <1>1, FoldIterates
<1>3. PICK g : Iterates(g, more, n + 1) /\ After(more) = g[1..(n + 1)]
  BY <1>1, FoldIterates
<1>4. f[1..n] = g[1..n]
  BY <1>1, <1>2, <1>3, IterationsAgree
<1>5. 1..(n + 1) # {} /\ Max(1..(n + 1)) = n + 1 /\ (1..(n + 1)) \ {n + 1} = 1..n
  <2>1. n + 1 \in 1..(n + 1)
    BY <1>1
  <2> QED BY <1>1, <2>1, MaxIsIn
<1>6. g[1..(n + 1)] = Body(g[1..n], more[n + 1])
  BY <1>1, <1>3, <1>5 DEF Iterates
<1> QED BY <1>1, <1>2, <1>3, <1>4, <1>6 DEF more

-----------------------------------------------------------------------------
\* The recursion in FlattenSeq.
Joins(f, list, n) ==
    f = [i \in 1..n |-> IF i = 1 THEN list[i] ELSE f[i - 1] \o list[i]]

LEMMA JoinExists ==
    ASSUME NEW list
    PROVE  \A n \in Nat : \E f : Joins(f, list, n)
<1> DEFINE T == {n \in Nat : ~\E f : Joins(f, list, n)}
<1> SUFFICES ASSUME T # {} PROVE FALSE
  OBVIOUS
<1>1. PICK n \in T : \A m \in T : n <= m
  BY LeastNumber
<1>2. CASE n = 0
  <2> DEFINE g == [i \in 1..n |-> list[i]]
  <2>1. Joins(g, list, n)
    BY <1>2 DEF Joins
  <2> QED BY <2>1
<1>3. CASE n # 0
  <2>1. n - 1 \in Nat /\ n - 1 \notin T
    BY <1>1, <1>3
  <2>2. PICK f : Joins(f, list, n - 1)
    BY <2>1
  <2> DEFINE g == [i \in 1..n |-> IF i # n THEN f[i]
                                  ELSE IF n = 1 THEN list[n] ELSE f[n - 1] \o list[n]]
  <2>3. ASSUME NEW i \in 1..n
        PROVE  g[i] = IF i = 1 THEN list[i] ELSE g[i - 1] \o list[i]
    <3>1. i # n => f[i] = IF i = 1 THEN list[i] ELSE f[i - 1] \o list[i]
      <4>1. i # n => i \in 1..(n - 1)
        BY <2>1
      <4> QED BY <2>2, <4>1 DEF Joins
    <3>2. i # 1 => g[i - 1] = f[i - 1]
      OBVIOUS
    <3>3. g[i] = IF i # n THEN f[i] ELSE IF n = 1 THEN list[n] ELSE f[n - 1] \o list[n]
      OBVIOUS
    <3> HIDE DEF g
    <3> QED BY <3>1, <3>2, <3>3
  <2>4. Joins(g, list, n)
    BY <2>3 DEF Joins
  <2> QED BY <2>4
<1> QED BY <1>2, <1>3

LEMMA JoinsAgree ==
    ASSUME NEW list1, NEW list2, NEW n1 \in Nat, NEW n2 \in Nat, n1 <= n2,
           \A i \in 1..n1 : list1[i] = list2[i],
           NEW f1, Joins(f1, list1, n1), NEW f2, Joins(f2, list2, n2),
           NEW k \in 1..n1
    PROVE  f1[k] = f2[k]
<1> DEFINE T == {l \in 1..n1 : f1[l] # f2[l]}
<1> SUFFICES ASSUME T # {} PROVE FALSE
  BY n1 \in 1..n1
<1>0. T \subseteq Nat
  OBVIOUS
<1>1. PICK m \in T : \A l \in T : m <= l
  <2> HIDE DEF T
  <2> QED BY <1>0, LeastNumber
<1>2. m \in 1..n1 /\ m \in 1..n2
  BY <1>1
<1>3. /\ f1[m] = IF m = 1 THEN list1[m] ELSE f1[m - 1] \o list1[m]
      /\ f2[m] = IF m = 1 THEN list2[m] ELSE f2[m - 1] \o list2[m]
  BY <1>2 DEF Joins
<1>4. m # 1 => f1[m - 1] = f2[m - 1]
  BY <1>1, <1>2
<1> QED BY <1>1, <1>2, <1>3, <1>4

LEMMA FlattenJoins ==
    ASSUME NEW T, NEW list \in Seq(Seq(T)), Len(list) # 0
    PROVE  \E f : Joins(f, list, Len(list)) /\ FlattenSeq(list) = f[Len(list)]
<1> DEFINE J(f) == Joins(f, list, Len(list))
           f == CHOOSE g : J(g)
<1>1. J(f)
  <2>1. \E g : J(g)
    <3>1. Len(list) \in Nat
      OBVIOUS
    <3> QED BY <3>1, JoinExists
  <2> HIDE DEF J
  <2> QED BY <2>1
<1>2. FlattenSeq(list) = f[Len(list)]
  BY DEF FlattenSeq, Joins
<1> QED BY <1>1, <1>2

\* One sequence more is put at the end.
LEMMA FlattenAppend ==
    ASSUME NEW T, NEW list \in Seq(Seq(T)), NEW s \in Seq(T),
           FlattenSeq(list) \in Seq(T)
    PROVE  FlattenSeq(Append(list, s)) = FlattenSeq(list) \o s
<1> DEFINE n == Len(list)
           more == Append(list, s)
<1>1. /\ n \in Nat /\ Len(more) = n + 1 /\ more \in Seq(Seq(T))
      /\ more[n + 1] = s /\ \A i \in 1..n : list[i] = more[i]
  OBVIOUS
<1> HIDE DEF n, more
<1>2. PICK g : Joins(g, more, n + 1) /\ FlattenSeq(more) = g[n + 1]
  <2>1. Len(more) # 0
    BY <1>1
  <2>2. \E f : Joins(f, more, Len(more)) /\ FlattenSeq(more) = f[Len(more)]
    BY <1>1, <2>1, FlattenJoins
  <2> QED BY <1>1, <2>2
<1>3. g[n + 1] = IF n = 0 THEN s ELSE g[n] \o s
  <2>1. n + 1 \in 1..(n + 1) /\ (n + 1) - 1 = n /\ (n + 1 = 1 <=> n = 0)
    BY <1>1
  <2>2. g[n + 1] = IF n + 1 = 1 THEN more[n + 1] ELSE g[(n + 1) - 1] \o more[n + 1]
    BY <1>2, <2>1 DEF Joins
  <2> QED BY <1>1, <2>1, <2>2
<1>4. CASE n = 0
  <2>1. FlattenSeq(list) = <<>>
    BY <1>4 DEF FlattenSeq, n
  <2> QED BY <1>2, <1>3, <1>4, <2>1 DEF more
<1>5. CASE n # 0
  <2>1. PICK f : Joins(f, list, n) /\ FlattenSeq(list) = f[n]
    BY <1>5, FlattenJoins DEF n
  <2>2. f[n] = g[n]
    <3>1. n \in 1..n /\ n + 1 \in Nat /\ n <= n + 1
      BY <1>1, <1>5
    <3>2. \A i \in 1..n : list[i] = more[i]
      BY <1>1
    <3>3. Joins(f, list, n) /\ Joins(g, more, n + 1) /\ n \in Nat /\ n + 1 \in Nat /\ n <= n + 1
      BY <1>1, <1>2, <2>1, <3>1
    <3>4. n \in 1..n
      BY <3>1
    <3> QED BY <3>2, <3>3, <3>4, JoinsAgree
  <2> QED BY <1>2, <1>3, <1>5, <2>1, <2>2 DEF more
<1> QED BY <1>4, <1>5

LEMMA FlattenNone == FlattenSeq(<<>>) = <<>>
  BY DEF FlattenSeq

\* Every element of the whole is one of a part, in its place: part i follows
\* the first off[i] elements.
Placed(whole, list, off) ==
    /\ off \in [DOMAIN list -> Nat]
    /\ \A i \in DOMAIN list : \A m \in DOMAIN list[i] :
          off[i] + m \in DOMAIN whole /\ whole[off[i] + m] = list[i][m]
    /\ \A w \in DOMAIN whole :
          \E i \in DOMAIN list : \E m \in DOMAIN list[i] : w = off[i] + m

LEMMA FlattenPlaces ==
    ASSUME NEW T
    PROVE  \A list \in Seq(Seq(T)) : /\ FlattenSeq(list) \in Seq(T)
                                     /\ \E off : Placed(FlattenSeq(list), list, off)
<1> DEFINE Holds(list) == /\ FlattenSeq(list) \in Seq(T)
                          /\ \E off : Placed(FlattenSeq(list), list, off)
           Fails == {n \in Nat : \E list \in Seq(Seq(T)) : Len(list) = n /\ ~Holds(list)}
<1> SUFFICES ASSUME Fails # {} PROVE FALSE
  <2>1. \A list \in Seq(Seq(T)) : Len(list) \in Nat
    OBVIOUS
  <2> HIDE DEF Holds
  <2>2. Fails = {} => \A list \in Seq(Seq(T)) : Holds(list)
    BY <2>1
  <2> QED BY <2>2 DEF Holds
<1>1. PICK n \in Fails : \A m \in Fails : n <= m
  <2>1. Fails \subseteq Nat
    OBVIOUS
  <2> HIDE DEF Fails
  <2> QED BY <2>1, LeastNumber
<1>2. PICK list \in Seq(Seq(T)) : Len(list) = n /\ ~Holds(list)
  BY <1>1
<1>3. CASE n = 0
  <2>1. list = <<>>
    BY <1>2, <1>3
  <2>2. FlattenSeq(list) = <<>>
    BY <2>1, FlattenNone
  <2>3. Placed(<<>>, <<>>, <<>>)
    BY DEF Placed
  <2> QED BY <1>2, <2>1, <2>2, <2>3
<1>4. CASE n # 0
  <2> DEFINE front == SubSeq(list, 1, n - 1)
             s == list[n]
  <2>1. /\ front \in Seq(Seq(T)) /\ s \in Seq(T) /\ list = Append(front, s)
        /\ Len(front) = n - 1 /\ n \in Nat /\ DOMAIN list = 1..n /\ DOMAIN front = 1..(n - 1)
        /\ \A i \in 1..(n - 1) : list[i] = front[i]
    BY <1>2, <1>4
  <2> HIDE DEF front
  <2>2. Holds(front)
    <3>1. n - 1 \in Nat /\ n - 1 \notin Fails
      BY <1>1, <1>4, <2>1
    <3> HIDE DEF Holds
    <3> QED BY <2>1, <3>1
  <2>3. PICK off : Placed(FlattenSeq(front), front, off)
    BY <2>2
  <2> DEFINE head == FlattenSeq(front)
             whole == FlattenSeq(list)
             ends == [i \in 1..n |-> IF i = n THEN Len(head) ELSE off[i]]
  <2>4. whole = head \o s /\ head \in Seq(T)
    BY <2>1, <2>2, FlattenAppend
  <2> HIDE DEF head, whole
  <2>5. /\ whole \in Seq(T) /\ Len(head) \in Nat /\ Len(s) \in Nat
        /\ DOMAIN head = 1..Len(head) /\ DOMAIN s = 1..Len(s)
        /\ DOMAIN whole = 1..(Len(head) + Len(s))
        /\ \A w \in DOMAIN head : whole[w] = head[w]
        /\ \A m \in DOMAIN s : whole[Len(head) + m] = s[m]
    <3> HIDE DEF s
    <3>1. whole \in Seq(T) /\ Len(whole) = Len(head) + Len(s)
      BY <2>1, <2>4
    <3>2. Len(head) \in Nat /\ Len(s) \in Nat /\ DOMAIN head = 1..Len(head) /\ DOMAIN s = 1..Len(s)
      BY <2>1, <2>4
    <3>3. DOMAIN whole = 1..(Len(head) + Len(s))
      BY <3>1
    <3>4. \A w \in DOMAIN head : whole[w] = head[w]
      BY <2>1, <2>4, <3>2
    <3>5. \A m \in DOMAIN s : whole[Len(head) + m] = s[m]
      BY <2>1, <2>4, <3>2
    <3> QED BY <3>1, <3>2, <3>3, <3>4, <3>5
  <2>6. /\ off \in [1..(n - 1) -> Nat]
        /\ \A i \in 1..(n - 1) : \A m \in DOMAIN list[i] :
              off[i] + m \in DOMAIN head /\ head[off[i] + m] = list[i][m]
        /\ \A w \in DOMAIN head :
              \E i \in 1..(n - 1) : \E m \in DOMAIN list[i] : w = off[i] + m
    <3>1. Placed(head, front, off)
      BY <2>3 DEF head
    <3>2. off \in [1..(n - 1) -> Nat]
      BY <2>1, <3>1 DEF Placed
    <3>3. \A i \in 1..(n - 1) : \A m \in DOMAIN front[i] :
              off[i] + m \in DOMAIN head /\ head[off[i] + m] = front[i][m]
      BY <2>1, <3>1 DEF Placed
    <3>4. \A w \in DOMAIN head :
              \E i \in 1..(n - 1) : \E m \in DOMAIN front[i] : w = off[i] + m
      BY <2>1, <3>1 DEF Placed
    <3>5. \A i \in 1..(n - 1) : front[i] = list[i]
      BY <2>1
    <3>6. \A i \in 1..(n - 1) : \A m \in DOMAIN list[i] :
              off[i] + m \in DOMAIN head /\ head[off[i] + m] = list[i][m]
      BY <3>3, <3>5
    <3>7. \A w \in DOMAIN head :
              \E i \in 1..(n - 1) : \E m \in DOMAIN list[i] : w = off[i] + m
      BY <3>4, <3>5
    <3> QED BY <3>2, <3>6, <3>7
  <2>7. ends \in [DOMAIN list -> Nat]
    BY <2>1, <2>5, <2>6
  <2>8. ends[n] = Len(head) /\ \A i \in 1..(n - 1) : ends[i] = off[i]
    BY <2>1
  <2> HIDE DEF ends
  <2>9. ASSUME NEW i \in DOMAIN list, NEW m \in DOMAIN list[i]
        PROVE  ends[i] + m \in DOMAIN whole /\ whole[ends[i] + m] = list[i][m]
    <3>1. CASE i = n
      BY <2>5, <2>8, <2>9, <3>1
    <3>2. CASE i # n
      <4>1. i \in 1..(n - 1)
        BY <2>1, <3>2
      <4>2. ends[i] = off[i] /\ off[i] + m \in DOMAIN head /\ head[off[i] + m] = list[i][m]
        BY <2>6, <2>8, <2>9, <4>1
      <4> QED BY <2>5, <4>2
    <3> QED BY <3>1, <3>2
  <2>10. ASSUME NEW w \in DOMAIN whole
         PROVE  \E i \in DOMAIN list : \E m \in DOMAIN list[i] : w = ends[i] + m
    <3>1. CASE w \in DOMAIN head
      <4>1. PICK i \in 1..(n - 1) : \E m \in DOMAIN list[i] : w = off[i] + m
        BY <2>6, <3>1
      <4>2. i \in DOMAIN list /\ ends[i] = off[i]
        BY <2>1, <2>8
      <4> QED BY <4>1, <4>2
    <3>2. CASE w \notin DOMAIN head
      <4>1. w - Len(head) \in DOMAIN s /\ w = Len(head) + (w - Len(head)) /\ n \in DOMAIN list
        BY <2>1, <2>5, <3>2
      <4> QED BY <2>8, <4>1
    <3> QED BY <3>1, <3>2
  <2>11. Placed(whole, list, ends)
    BY <2>7, <2>9, <2>10 DEF Placed
  <2> QED BY <1>2, <2>5, <2>11 DEF whole
<1> QED BY <1>3, <1>4
=============================================================================
