----------------------------- MODULE AtomicEdits -----------------------------
(***************************************************************************)
(* What get, edit and create promise: objects whose contents are texts,    *)
(* and edits that happen at an instant.  A text is written on seeing some  *)
(* object; it takes effect at most once, on that object, and only if the   *)
(* object still has the contents its author saw.                           *)
(***************************************************************************)
CONSTANTS
    Key,
    Text,       \* the texts that may be written
    Other       \* contents written by somebody else

VARIABLES
    live,       \* the objects that exist
    dead,       \* the keys no longer in use
    val,        \* the contents of each
    basis,      \* of each text, the object its author saw: [key, val]
    applied     \* the texts that have taken effect

vars == <<live, dead, val, basis, applied>>

Init ==
    /\ live \subseteq Key /\ dead = {}
    /\ val = [k \in Key |-> Other]
    /\ DOMAIN basis = {}
    /\ applied = {}

\* Text t is written, on seeing object k or from nothing.
Write(t) ==
    /\ t \notin DOMAIN basis
    /\ DOMAIN basis' = DOMAIN basis \union {t}
    /\ \A s \in DOMAIN basis : basis'[s] = basis[s]
    /\ basis'[t].key \in live => basis'[t].val = val[basis'[t].key]
    /\ UNCHANGED <<live, dead, val, applied>>

Edit(t) ==
    LET b == basis[t] IN
    /\ t \in DOMAIN basis \ applied
    /\ b.key \in live /\ val[b.key] = b.val
    /\ val' = [val EXCEPT ![b.key] = t]
    /\ applied' = applied \union {t}
    /\ UNCHANGED <<live, dead, basis>>

New(t, k) ==
    /\ t \in DOMAIN basis /\ k \notin live \union dead
    /\ live' = live \union {k}
    /\ val' = [val EXCEPT ![k] = t]
    /\ UNCHANGED <<dead, basis, applied>>

Remove(k) ==
    /\ k \in live
    /\ live' = live \ {k} /\ dead' = dead \union {k}
    /\ UNCHANGED <<val, basis, applied>>

Next ==
    \/ \E t \in Text : Write(t) \/ Edit(t) \/ \E k \in Key : New(t, k)
    \/ \E k \in Key : Remove(k)

Spec == Init /\ [][Next]_vars

=============================================================================
