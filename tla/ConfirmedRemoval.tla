--------------------------- MODULE ConfirmedRemoval ---------------------------
(***************************************************************************)
(* What a deep delete promises, with none of its calls: objects that refer *)
(* to each other, and a user who agrees to a set of them, each as it was   *)
(* shown, being removed or let go of.  While the agreement stands, objects *)
(* are removed one at a time, each only when it is still as shown and      *)
(* nothing that is left needs it.  It may be dropped at any point, and a   *)
(* new one made; nothing has to be undone for what remains to be sound.    *)
(*                                                                         *)
(* Others write what they like at any time; what they wrote is excused.    *)
(***************************************************************************)
CONSTANTS Key, ZoneOf

VARIABLES
    live, refs,     \* the objects that exist, and what they refer to
    agreed,         \* the agreement: records [key, refs, how]
    removed,        \* the objects removed under some agreement
    excused         \* the objects others have written

vars == <<live, refs, agreed, removed, excused>>

Init == agreed = {} /\ removed = {} /\ excused = {}

Needs(o) == refs[o] \union ({ZoneOf[o]} \ {o})

Agree  == agreed = {} /\ UNCHANGED <<live, refs, removed, excused>>
Forget == agreed' = {} /\ UNCHANGED <<live, refs, removed, excused>>

Stands == agreed' \in {agreed, {}} /\ UNCHANGED excused

AsShown(k, how) == [key |-> k, refs |-> refs[k], how |-> how] \in agreed

Remove(k) ==
    /\ k \in live /\ AsShown(k, "remove")
    /\ \A o \in live \ (excused \union {k}) : k \notin Needs(o)
    /\ live' = live \ {k} /\ removed' = removed \union {k}
    /\ Stands /\ UNCHANGED refs

\* An object lets go of one that is to be removed.
Loosen(k) ==
    /\ k \in live /\ AsShown(k, "loosen")
    /\ \E r \in refs[k] :
          /\ \E a \in agreed : a.key = r /\ a.how = "remove"
          /\ refs' = [refs EXCEPT ![k] = @ \ {r}]
    /\ Stands /\ UNCHANGED <<live, removed>>

\* A single object deleted by itself, whatever needs it.
Single(k) ==
    /\ agreed = {} /\ k \in live
    /\ live' = live \ {k}
    /\ UNCHANGED <<refs, agreed, removed, excused>>

Others(k) ==
    /\ excused' = excused \union {k}
    /\ \A j \in Key \ {k} : refs'[j] = refs[j] /\ (j \in live' <=> j \in live)
    /\ UNCHANGED <<agreed, removed>>

Next == \/ Agree \/ Forget
        \/ \E k \in Key : Remove(k) \/ Loosen(k) \/ Single(k) \/ Others(k)

Spec == Init /\ [][Next]_vars

=============================================================================
