---------------------------- MODULE AccessTokens ----------------------------
(***************************************************************************)
(* `tbnctl access-tokens` (api_keys.go).  To remove a token is to look it  *)
(* up, for its checksum, and to delete it, in two calls of the API.        *)
(***************************************************************************)
EXTENDS Naturals

CONSTANTS
    Token,      \* every token key that is or may come into use
    Initial,    \* the account's tokens at the start
    Users,      \* the people or scripts that manage them at the same time
    MaxWrites   \* bound: how many tokens are added or changed


VARIABLES
    live,       \* the tokens of the account
    sum,        \* their checksums; 0 for a key that was never used
    pc,         \* of each user: "idle", "index", "delete"
    key,        \* the token named on the command line
    cur,        \* the checksum the look-up found
    outcome,    \* what the last command reported: "ok" or "error"
    writes      \* how many tokens were added or changed

vars == <<live, sum, pc, key, cur, outcome, writes>>

Init ==
    /\ live = Initial
    /\ sum = [t \in Token |-> IF t \in Initial THEN 1 ELSE 0]
    /\ pc = [u \in Users |-> "idle"]
    /\ key \in [Users -> Token]
    /\ cur = [u \in Users |-> 0]
    /\ outcome = [u \in Users |-> "error"]
    /\ writes = 0

Return(u, result) ==
    /\ pc' = [pc EXCEPT ![u] = "idle"]
    /\ outcome' = [outcome EXCEPT ![u] = result]
    /\ UNCHANGED <<key, cur>>

Add(u, t) ==
    /\ pc[u] = "idle" /\ sum[t] = 0
    /\ writes < MaxWrites /\ writes' = writes + 1
    /\ live' = live \union {t}
    /\ sum' = [sum EXCEPT ![t] = 1]
    /\ UNCHANGED <<pc, key, cur, outcome>>

Remove(u, t) ==
    /\ pc[u] = "idle"
    /\ pc' = [pc EXCEPT ![u] = "index"]
    /\ key' = [key EXCEPT ![u] = t]
    /\ outcome' = [outcome EXCEPT ![u] = "error"]
    /\ UNCHANGED <<live, sum, cur, writes>>

Found(u) ==
    /\ pc[u] = "index" /\ key[u] \in live
    /\ cur' = [cur EXCEPT ![u] = sum[key[u]]]
    /\ pc' = [pc EXCEPT ![u] = "delete"]
    /\ UNCHANGED <<live, sum, key, outcome, writes>>

\* An error of the Index call, or no token of that key.
NotFound(u) ==
    /\ pc[u] = "index"
    /\ Return(u, "error")
    /\ UNCHANGED <<live, sum, writes>>

Deleted(u) ==
    /\ pc[u] = "delete"
    /\ key[u] \in live /\ sum[key[u]] = cur[u]
    /\ live' = live \ {key[u]}
    /\ Return(u, "ok")
    /\ UNCHANGED <<sum, writes>>

\* The Delete fails or is refused.  Its error goes into the err of the case,
\* declared anew by `curs, err :=`; the err tested after the switch is nil.
DeleteFailed(u) ==
    /\ pc[u] = "delete"
    /\ Return(u, "ok")
    /\ UNCHANGED <<live, sum, writes>>

\* The API, or another client, changes a token.
Change(t) ==
    /\ t \in live
    /\ writes < MaxWrites /\ writes' = writes + 1
    /\ sum' = [sum EXCEPT ![t] = @ + 1]
    /\ UNCHANGED <<live, pc, key, cur, outcome>>

Next ==
    \/ \E u \in Users :
          \/ \E t \in Token : Add(u, t) \/ Remove(u, t)
          \/ Found(u) \/ NotFound(u) \/ Deleted(u) \/ DeleteFailed(u)
    \/ \E t \in Token : Change(t)

Spec == Init /\ [][Next]_vars

\* "removes the specified key from this account" (api_keys.go:108): when the
\* command reports success the token is gone.
RemovedIsGone ==
    \A u \in Users : outcome[u] = "ok" => key[u] \notin live
=============================================================================
