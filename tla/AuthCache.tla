------------------------------ MODULE AuthCache ------------------------------
(***************************************************************************)
(* `tbnctl login` and `logout` (login.go, logout.go): one file in the      *)
(* user's home, from which every other command takes its token.            *)
(*                                                                         *)
(* Either command reads the file, changes its copy and writes the copy     *)
(* back; a login waits in between for a name and a password to be typed    *)
(* and for the login service.  Nothing locks the file, so commands run in  *)
(* several terminals work on copies that may be old; each may fail or be   *)
(* killed on the way, and a failed write may leave a file nobody can read. *)
(***************************************************************************)
EXTENDS Naturals

CONSTANTS
    User,       \* the names users log in as
    NoUser,     \* no name
    Terminals,  \* the commands that may run at the same time
    MaxTokens   \* bound: how many tokens the login service grants

ASSUME LoginAssumption == NoUser \notin User /\ MaxTokens \in Nat

Token   == 1..MaxTokens
NoToken == 0

\* A TokenCache: `client` is set once it names the client and the provider.
Caches == [user : User \union {NoUser}, token : {NoToken} \union Token, client : BOOLEAN]
Blank  == [user |-> NoUser, token |-> NoToken, client |-> FALSE]

VARIABLES
    file,       \* the file's contents; a file not there reads as Blank
    readable,   \* the file can be read, if it is there
    pc,         \* "idle", "name", "password", "request", "save", "logout"
    cache       \* each command's copy

\* Auxiliary variables.
VARIABLES
    granted,    \* who each token was granted to
    ended       \* the tokens that were replaced, or logged out of

vars == <<file, readable, pc, cache, granted, ended>>

TypeOK ==
    /\ file \in Caches /\ readable \in BOOLEAN
    /\ pc \in [Terminals -> {"idle", "name", "password", "request", "save", "logout"}]
    /\ cache \in [Terminals -> Caches]
    /\ granted \in [Token -> User \union {NoUser}]
    /\ ended \in SUBSET Token

Init ==
    /\ file = Blank /\ readable = TRUE
    /\ pc = [p \in Terminals |-> "idle"]
    /\ cache = [p \in Terminals |-> Blank]
    /\ granted = [t \in Token |-> NoUser]
    /\ ended = {}

-----------------------------------------------------------------------------
\* populateDefaults.
populateDefaults(c) == [c EXCEPT !.client = TRUE]

\* (The defaults set on a copy of the copy, which is then forgotten.)
populateDefaults_ByValue(c) == c

Go(p, where) == pc' = [pc EXCEPT ![p] = where]

\* A command ends; what it had in memory is gone.
End(p) == Go(p, "idle") /\ cache' = [cache EXCEPT ![p] = Blank]

\* login: NewFromFile, which ends the command if the file cannot be read, and
\* the name, if it is on the command line.
Login(p, name) ==
    /\ pc[p] = "idle" /\ readable
    /\ IF name = NoUser
       THEN Go(p, "name") /\ cache' = [cache EXCEPT ![p] = file]
       ELSE Go(p, "password") /\ cache' = [cache EXCEPT ![p] = [file EXCEPT !.user = name]]
    /\ UNCHANGED <<file, readable, granted, ended>>

\* The name is typed; return alone keeps the one in the file.
TypeName(p, name) ==
    /\ pc[p] = "name"
    /\ LET c == IF name = NoUser THEN cache[p] ELSE [cache[p] EXCEPT !.user = name] IN
       IF c.user = NoUser
       THEN End(p)
       ELSE Go(p, "password") /\ cache' = [cache EXCEPT ![p] = c]
    /\ UNCHANGED <<file, readable, granted, ended>>

\* The password, from the command line or typed; an empty one ends the login.
Password(p, empty) ==
    /\ pc[p] = "password"
    /\ IF empty
       THEN End(p)
       ELSE /\ Go(p, "request")
            /\ cache' = [cache EXCEPT ![p] = populateDefaults(@)]
    /\ UNCHANGED <<file, readable, granted, ended>>

\* PasswordCredentialsToken and SetToken; tokens are numbered as granted.
Grant(p, t) ==
    /\ pc[p] = "request"
    /\ granted[t] = NoUser /\ \A s \in Token : s < t => granted[s] # NoUser
    /\ granted' = [granted EXCEPT ![t] = cache[p].user]
    /\ cache' = [cache EXCEPT ![p].token = t]
    /\ Go(p, "save")
    /\ UNCHANGED <<file, readable, ended>>

Real(S) == S \ {NoToken}

\* (Into the file as it now is, so as not to undo what others did.)
Kept_TokenOnly(p) == [file EXCEPT !.token = cache[p].token, !.client = TRUE]

\* What a login writes.
Kept(p) == cache[p]

Save(p) ==
    /\ pc[p] = "save"
    /\ file' = Kept(p) /\ readable' = TRUE
    /\ ended' = ended \union Real({file.token})
    /\ End(p)
    /\ UNCHANGED granted

Logout(p) ==
    /\ pc[p] = "idle" /\ readable
    /\ cache' = [cache EXCEPT ![p] = file]
    /\ Go(p, "logout")
    /\ UNCHANGED <<file, readable, granted, ended>>

\* (The token left where it is; or all left out but the name.)
Cleared_Kept(c)     == c
Cleared_NameOnly(c) == [user |-> c.user]

\* SetToken(nil).
Cleared(c) == [c EXCEPT !.token = NoToken]

SaveLogout(p) ==
    /\ pc[p] = "logout"
    /\ file' = Cleared(cache[p]) /\ readable' = TRUE
    /\ ended' = ended \union Real({file.token, cache[p].token})
    /\ End(p)
    /\ UNCHANGED granted

\* (A login that fails writes down the name, for the next time.)
Fail_KeepsName(p) ==
    /\ pc[p] # "idle"
    /\ End(p)
    /\ file' = [cache[p] EXCEPT !.token = file.token]
    /\ UNCHANGED <<readable, granted, ended>>

\* The name is all blanks, the request is refused, a call fails, or the
\* command is killed.
Fail(p) ==
    /\ pc[p] # "idle"
    /\ End(p)
    /\ UNCHANGED <<file, readable, granted, ended>>

\* The write fails half way.
SaveFails(p) ==
    /\ pc[p] \in {"save", "logout"}
    /\ file' = Blank /\ readable' = FALSE
    /\ ended' = ended \union Real({file.token})
    /\ End(p)
    /\ UNCHANGED granted

\* The user removes a file the commands refuse.
Remove ==
    /\ ~readable
    /\ readable' = TRUE
    /\ UNCHANGED <<file, pc, cache, granted, ended>>

Next ==
    \/ \E p \in Terminals :
          \/ Save(p) \/ Logout(p) \/ SaveLogout(p) \/ Fail(p) \/ SaveFails(p)
          \/ \E name \in User \union {NoUser} : Login(p, name) \/ TypeName(p, name)
          \/ \E empty \in BOOLEAN : Password(p, empty)
          \/ \E t \in Token : Grant(p, t)
    \/ Remove

Spec == Init /\ [][Next]_vars

-----------------------------------------------------------------------------
\* A token in the file is that of the user the file names, and complete: with
\* the client and the provider that other commands need to use it.
TokenIsTheUsers ==
    file.token # NoToken => granted[file.token] = file.user /\ file.client

\* The name a login offers is that of somebody who has been granted a token,
\* never one merely typed.
OffersAName == file.user # NoUser => \E t \in Token : granted[t] = file.user

\* A token that was logged out of, or replaced by another login, is never in
\* the file again, whatever old copy some command still writes.
EndedStaysEnded == file.token \notin ended

=============================================================================
