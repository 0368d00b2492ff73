--------------------------- MODULE AuthCacheProofs ---------------------------
(***************************************************************************)
(* Theorems about login and logout, for any number of users, terminals and *)
(* tokens.  What the file may hold follows from what each command's copy   *)
(* may hold at each of its steps.                                          *)
(***************************************************************************)
EXTENDS AuthCache, TLAPS

Holders == {t \in Token : granted[t] # NoUser}

\* What was ever in the file was granted to somebody.
Granted ==
    /\ ended \subseteq Holders
    /\ file.token # NoToken => file.token \in Holders

\* A login about to save has a token that is complete, its user's, not yet in
\* the file, and nobody else's.
Saving ==
    \A p \in Terminals : pc[p] = "save" =>
        /\ cache[p].token \in Token /\ cache[p].user \in User
        /\ granted[cache[p].token] = cache[p].user /\ cache[p].client
        /\ cache[p].token \notin ended \union {file.token}
        /\ \A q \in Terminals \ {p} : pc[q] = "save" => cache[q].token # cache[p].token

\* A login past its name has one, and past its password has the defaults.
Asking ==
    \A p \in Terminals :
        /\ pc[p] \in {"password", "request"} => cache[p].user \in User
        /\ pc[p] = "request" => cache[p].client

\* A logout's copy holds a token that is or was in the file, and a name that
\* was logged in.
Leaving ==
    \A p \in Terminals : pc[p] = "logout" =>
        /\ cache[p].token \in ended \union {file.token, NoToken}
        /\ cache[p].user # NoUser => \E t \in Token : granted[t] = cache[p].user

IInv == /\ TypeOK /\ Granted /\ Saving /\ Asking /\ Leaving
        /\ TokenIsTheUsers /\ OffersAName /\ EndedStaysEnded

-----------------------------------------------------------------------------
\* The file, the commands' copies and the bookkeeping always have their types.
LEMMA NextType == TypeOK /\ [Next]_vars => TypeOK'
<1> SUFFICES ASSUME TypeOK, [Next]_vars PROVE TypeOK'
  OBVIOUS
<1> USE DEF TypeOK, Caches
<1>e. ASSUME NEW p \in Terminals, End(p)
      PROVE  /\ pc' \in [Terminals -> {"idle", "name", "password", "request", "save", "logout"}]
             /\ cache' \in [Terminals -> Caches]
  BY <1>e DEF End, Go, Blank, NoToken
<1>1. ASSUME NEW p \in Terminals, Save(p) PROVE TypeOK'
  BY <1>1, <1>e DEF Save, Kept, Real
<1>2. ASSUME NEW p \in Terminals, Logout(p) PROVE TypeOK'
  BY <1>2 DEF Logout, Go
<1>3. ASSUME NEW p \in Terminals, SaveLogout(p) PROVE TypeOK'
  <2>1. Cleared(cache[p]) \in Caches
    BY DEF Cleared
  <2> QED BY <1>3, <1>e, <2>1 DEF SaveLogout, Real
<1>4. ASSUME NEW p \in Terminals, Fail(p) PROVE TypeOK'
  BY <1>4, <1>e DEF Fail
<1>5. ASSUME NEW p \in Terminals, SaveFails(p) PROVE TypeOK'
  BY <1>5, <1>e DEF SaveFails, Blank, Real, NoToken
<1>6. ASSUME NEW p \in Terminals, NEW name \in User \union {NoUser}, Login(p, name)
      PROVE  TypeOK'
  BY <1>6 DEF Login, Go
<1>7. ASSUME NEW p \in Terminals, NEW name \in User \union {NoUser}, TypeName(p, name)
      PROVE  TypeOK'
  BY <1>7, <1>e DEF TypeName, Go
<1>8. ASSUME NEW p \in Terminals, NEW empty \in BOOLEAN, Password(p, empty)
      PROVE  TypeOK'
  <2>1. populateDefaults(cache[p]) \in Caches
    BY DEF populateDefaults
  <2> QED BY <1>8, <1>e, <2>1 DEF Password, Go
<1>9. ASSUME NEW p \in Terminals, NEW t \in Token, Grant(p, t) PROVE TypeOK'
  BY <1>9 DEF Grant, Go
<1>10. ASSUME Remove PROVE TypeOK'
  BY <1>10 DEF Remove
<1>11. CASE UNCHANGED vars
  BY <1>11 DEF vars
<1> QED BY <1>1, <1>2, <1>3, <1>4, <1>5, <1>6, <1>7, <1>8, <1>9, <1>10, <1>11 DEF Next

LEMMA InitInv == Init => IInv
  BY LoginAssumption DEF Init, IInv, TypeOK, Caches, Blank, NoToken, Granted, Holders, Saving,
     Asking, Leaving, TokenIsTheUsers, OffersAName, EndedStaysEnded, Token

-----------------------------------------------------------------------------
\* What each action leaves of the invariant.
LEMMA NextGranted == IInv /\ [Next]_vars => Granted' /\ EndedStaysEnded' /\ TokenIsTheUsers'
<1> SUFFICES ASSUME IInv, [Next]_vars
             PROVE  Granted' /\ EndedStaysEnded' /\ TokenIsTheUsers'
  OBVIOUS
<1> USE DEF IInv, TypeOK, Caches, Granted, Holders, EndedStaysEnded, TokenIsTheUsers
<1>0. NoToken \notin Token /\ NoUser \notin User
  BY LoginAssumption DEF NoToken, Token
<1>1. ASSUME NEW p \in Terminals, Save(p)
      PROVE  Granted' /\ EndedStaysEnded' /\ TokenIsTheUsers'
  BY <1>0, <1>1 DEF Save, Kept, Real, Saving
<1>3. ASSUME NEW p \in Terminals, SaveLogout(p)
      PROVE  Granted' /\ EndedStaysEnded' /\ TokenIsTheUsers'
  <2>1. Cleared(cache[p]).token = NoToken
    BY DEF Cleared
  <2> QED BY <1>0, <1>3, <2>1 DEF SaveLogout, Real, Leaving
<1>5. ASSUME NEW p \in Terminals, SaveFails(p)
      PROVE  Granted' /\ EndedStaysEnded' /\ TokenIsTheUsers'
  BY <1>0, <1>5 DEF SaveFails, Blank, Real
<1>9. ASSUME NEW p \in Terminals, NEW t \in Token, Grant(p, t)
      PROVE  Granted' /\ EndedStaysEnded' /\ TokenIsTheUsers'
  BY <1>0, <1>9 DEF Grant, Asking
<1>10. CASE UNCHANGED <<file, granted, ended>>
  BY <1>10
<1> QED BY <1>1, <1>3, <1>5, <1>9, <1>10
        DEF Next, vars, Logout, Fail, Login, TypeName, Password, Remove

LEMMA NextOffers == IInv /\ [Next]_vars => OffersAName'
<1> SUFFICES ASSUME IInv, [Next]_vars PROVE OffersAName'
  OBVIOUS
<1> USE DEF IInv, TypeOK, Caches, OffersAName
<1>0. NoUser \notin User
  BY LoginAssumption
<1>1. ASSUME NEW p \in Terminals, Save(p) PROVE OffersAName'
  BY <1>1 DEF Save, Kept, Saving
<1>3. ASSUME NEW p \in Terminals, SaveLogout(p) PROVE OffersAName'
  <2>1. Cleared(cache[p]).user = cache[p].user
    BY DEF Cleared
  <2> QED BY <1>3, <2>1 DEF SaveLogout, Leaving
<1>5. ASSUME NEW p \in Terminals, SaveFails(p) PROVE OffersAName'
  BY <1>5 DEF SaveFails, Blank
<1>9. ASSUME NEW p \in Terminals, NEW t \in Token, Grant(p, t) PROVE OffersAName'
  BY <1>0, <1>9 DEF Grant
<1>10. CASE UNCHANGED <<file, granted>>
  BY <1>10
<1> QED BY <1>1, <1>3, <1>5, <1>9, <1>10
        DEF Next, vars, Logout, Fail, Login, TypeName, Password, Remove

LEMMA NextAsking == IInv /\ [Next]_vars => Asking'
<1> SUFFICES ASSUME IInv, [Next]_vars PROVE Asking'
  OBVIOUS
<1> USE DEF IInv, TypeOK, Caches, Asking, Go
<1>1. ASSUME NEW p \in Terminals, End(p) PROVE Asking'
  BY <1>1 DEF End
<1>2. ASSUME NEW p \in Terminals, NEW where \in {"logout", "name", "save"}, NEW c,
             Go(p, where), cache' = [cache EXCEPT ![p] = c]
      PROVE  Asking'
  BY <1>2
<1>3. ASSUME NEW p \in Terminals, NEW c \in Caches, c.user \in User,
             Go(p, "password"), cache' = [cache EXCEPT ![p] = c]
      PROVE  Asking'
  BY <1>3
<1>4. ASSUME NEW p \in Terminals, Logout(p) PROVE Asking'
  BY <1>4, <1>2 DEF Logout
<1>6. ASSUME NEW p \in Terminals, NEW name \in User \union {NoUser}, Login(p, name)
      PROVE  Asking'
  BY <1>6, <1>2, <1>3 DEF Login
<1>7. ASSUME NEW p \in Terminals, NEW name \in User \union {NoUser}, TypeName(p, name)
      PROVE  Asking'
  <2> DEFINE c == IF name = NoUser THEN cache[p] ELSE [cache[p] EXCEPT !.user = name]
  <2>1. c \in Caches
    OBVIOUS
  <2>2. c.user = NoUser \/ c.user \in User
    BY <2>1
  <2>3. \/ End(p)
        \/ c.user # NoUser /\ Go(p, "password") /\ cache' = [cache EXCEPT ![p] = c]
    BY <1>7 DEF TypeName
  <2> HIDE DEF c
  <2> QED BY <2>1, <2>2, <2>3, <1>1, <1>3
<1>8. ASSUME NEW p \in Terminals, NEW empty \in BOOLEAN, Password(p, empty)
      PROVE  Asking'
  <2>1. /\ populateDefaults(cache[p]).user = cache[p].user
        /\ populateDefaults(cache[p]).client
    BY DEF populateDefaults
  <2>2. \/ End(p)
        \/ Go(p, "request") /\ cache' = [cache EXCEPT ![p] = populateDefaults(cache[p])]
    BY <1>8 DEF Password
  <2>3. pc[p] = "password"
    BY <1>8 DEF Password
  <2>4. CASE Go(p, "request") /\ cache' = [cache EXCEPT ![p] = populateDefaults(cache[p])]
    BY <2>1, <2>3, <2>4
  <2> QED BY <2>2, <2>4, <1>1
<1>9. ASSUME NEW p \in Terminals, NEW t \in Token, Grant(p, t) PROVE Asking'
  BY <1>9 DEF Grant
<1>10. CASE UNCHANGED <<pc, cache>>
  BY <1>10
<1>11. ASSUME NEW p \in Terminals, Save(p) \/ SaveLogout(p) \/ Fail(p) \/ SaveFails(p)
       PROVE  Asking'
  BY <1>11, <1>1 DEF Save, SaveLogout, Fail, SaveFails
<1>12. UNCHANGED vars \/ Remove => UNCHANGED <<pc, cache>>
  BY DEF vars, Remove
<1> HIDE DEF Asking, IInv, Go
<1> QED BY <1>4, <1>6, <1>7, <1>8, <1>9, <1>10, <1>11, <1>12 DEF Next

\* A token in hand stays out of `ended` and out of the file: what enters them
\* is the token of some file there was, or of another login.
LEMMA NextSaving == IInv /\ [Next]_vars => Saving'
<1> SUFFICES ASSUME IInv, [Next]_vars PROVE Saving'
  OBVIOUS
<1> USE DEF IInv, TypeOK, Caches, Saving, Go
<1>0. NoToken \notin Token /\ NoUser \notin User
  BY LoginAssumption DEF NoToken, Token
<1>1. ASSUME NEW p \in Terminals, End(p),
             UNCHANGED granted,
             \A q \in Terminals \ {p} : pc[q] = "save" =>
                cache[q].token \notin ended' \union {file'.token}
      PROVE  Saving'
  BY <1>1 DEF End
<1>2. ASSUME NEW p \in Terminals, pc[p] # "save", pc'[p] # "save",
             \A q \in Terminals \ {p} : pc'[q] = pc[q] /\ cache'[q] = cache[q],
             UNCHANGED <<granted, ended, file>>
      PROVE  Saving'
  BY <1>2
<1>3. ASSUME NEW p \in Terminals, Save(p) PROVE Saving'
  BY <1>0, <1>3, <1>1 DEF Save, Kept, Real
<1>4. ASSUME NEW p \in Terminals, SaveLogout(p) PROVE Saving'
  <2>1. Cleared(cache[p]).token = NoToken
    BY DEF Cleared
  <2> QED BY <1>0, <1>4, <1>1, <2>1 DEF SaveLogout, Real, Leaving
<1>5. ASSUME NEW p \in Terminals, SaveFails(p) PROVE Saving'
  BY <1>0, <1>5, <1>1 DEF SaveFails, Blank, Real
<1>6. ASSUME NEW p \in Terminals, Fail(p) PROVE Saving'
  BY <1>6, <1>1 DEF Fail
<1>7. ASSUME NEW p \in Terminals,
             \/ Logout(p)
             \/ \E name \in User \union {NoUser} : Login(p, name) \/ TypeName(p, name)
             \/ \E empty \in BOOLEAN : Password(p, empty)
      PROVE  Saving'
  BY <1>7, <1>2 DEF Logout, Login, TypeName, Password, End
<1>9. ASSUME NEW p \in Terminals, NEW t \in Token, Grant(p, t) PROVE Saving'
  <2>1. /\ granted[t] = NoUser /\ granted' = [granted EXCEPT ![t] = cache[p].user]
        /\ pc[p] = "request" /\ pc' = [pc EXCEPT ![p] = "save"]
        /\ UNCHANGED <<file, ended>>
    BY <1>9 DEF Grant
  <2>2. /\ cache'[p].token = t /\ cache'[p].user = cache[p].user
        /\ cache'[p].client = cache[p].client
        /\ \A q \in Terminals \ {p} : cache'[q] = cache[q]
    BY <1>9 DEF Grant
  <2>3. t \notin ended \union {file.token}
    BY <1>0, <2>1 DEF Granted, Holders
  <2>4. \A q \in Terminals : pc[q] = "save" => cache[q].token # t
    BY <1>0, <2>1
  <2> QED BY <1>0, <2>1, <2>2, <2>3, <2>4 DEF Asking
<1>10. CASE UNCHANGED <<pc, cache, granted, ended, file>>
  BY <1>10
<1>12. UNCHANGED vars \/ Remove => UNCHANGED <<pc, cache, granted, ended, file>>
  BY DEF vars, Remove
<1> HIDE DEF Saving, IInv, Go
<1> QED BY <1>3, <1>4, <1>5, <1>6, <1>7, <1>9, <1>10, <1>12 DEF Next

LEMMA NextLeaving == IInv /\ [Next]_vars => Leaving'
<1> SUFFICES ASSUME IInv, [Next]_vars PROVE Leaving'
  OBVIOUS
<1> USE DEF IInv, TypeOK, Caches, Leaving, Go
<1>0. NoUser \notin User
  BY LoginAssumption
<1>1. ASSUME NEW p \in Terminals, pc'[p] # "logout",
             \A q \in Terminals \ {p} : pc'[q] = pc[q] /\ cache'[q] = cache[q],
             ended \union {file.token} \subseteq ended' \union {file'.token, NoToken},
             UNCHANGED granted
      PROVE  Leaving'
  BY <1>1
<1>2. ASSUME NEW p \in Terminals, Save(p) \/ SaveLogout(p) \/ SaveFails(p) \/ Fail(p)
      PROVE  Leaving'
  BY <1>2, <1>1 DEF Save, SaveLogout, SaveFails, Fail, End, Real
<1>3. ASSUME NEW p \in Terminals,
             \/ \E name \in User \union {NoUser} : Login(p, name) \/ TypeName(p, name)
             \/ \E empty \in BOOLEAN : Password(p, empty)
      PROVE  Leaving'
  BY <1>3, <1>1 DEF Login, TypeName, Password, End
<1>4. ASSUME NEW p \in Terminals, Logout(p) PROVE Leaving'
  BY <1>4 DEF Logout, OffersAName
<1>9. ASSUME NEW p \in Terminals, NEW t \in Token, Grant(p, t) PROVE Leaving'
  <2>1. \A s \in Token : granted[s] # NoUser => granted'[s] = granted[s]
    BY <1>9 DEF Grant
  <2>2. \A q \in Terminals : pc'[q] = "logout" => pc[q] = "logout" /\ cache'[q] = cache[q]
    BY <1>9 DEF Grant
  <2> QED BY <1>9, <2>1, <2>2 DEF Grant
<1>10. CASE UNCHANGED <<pc, cache, granted, ended, file>>
  BY <1>10
<1>12. UNCHANGED vars \/ Remove => UNCHANGED <<pc, cache, granted, ended, file>>
  BY DEF vars, Remove
<1> HIDE DEF Leaving, IInv, Go
<1> QED BY <1>2, <1>3, <1>4, <1>9, <1>10, <1>12 DEF Next

LEMMA Inv == Spec => []IInv
<1>1. IInv /\ [Next]_vars => IInv'
  BY NextType, NextGranted, NextOffers, NextAsking, NextSaving, NextLeaving DEF IInv
<1> QED BY InitInv, <1>1, PTL DEF Spec

-----------------------------------------------------------------------------
\* The types.
THEOREM TypeCorrect == Spec => []TypeOK
<1>1. IInv => TypeOK
  BY DEF IInv
<1> QED BY Inv, <1>1, PTL

\* Two logins never mix: the file's token is that of the file's user, whatever
\* else was run meanwhile, and can be used.
THEOREM NeverMixed == Spec => []TokenIsTheUsers
<1>1. IInv => TokenIsTheUsers
  BY DEF IInv
<1> QED BY Inv, <1>1, PTL

\* No name is offered that nobody was logged in by.
THEOREM OffersOnlyNames == Spec => []OffersAName
<1>1. IInv => OffersAName
  BY DEF IInv
<1> QED BY Inv, <1>1, PTL

\* No copy, however old, brings back a token that was logged out of.
THEOREM NeverBack == Spec => []EndedStaysEnded
<1>1. IInv => EndedStaysEnded
  BY DEF IInv
<1> QED BY Inv, <1>1, PTL

=============================================================================
