------------------------------ MODULE WorkLists ------------------------------
(***************************************************************************)
(* The list of objects an init-zone command works through: what is said of *)
(* every list that InitZoneArgs makes, and what InitZone needs of one.     *)
(*                                                                         *)
(* An item is an object to make sure of, by its type and name, with what   *)
(* it refers to, itself by type and name, and its contents.                *)
(***************************************************************************)
EXTENDS Naturals, Sequences, ObjectKinds

IsSingleton(S) == S # {} /\ \A x, y \in S : x = y

\* The zone comes first, and an object after all it refers to; a route is of
\* one domain.
IsWorkList(list) ==
    /\ Len(list) \in Nat \ {0} /\ DOMAIN list = 1..Len(list)
    /\ \A i \in DOMAIN list : list[i].uses \subseteq
          {<<list[j].kind, list[j].name>> : j \in 1..(i - 1)}
    /\ \A i \in DOMAIN list : list[i].kind = "zone" <=> i = 1
    /\ \A i \in DOMAIN list :
          /\ list[i].kind \in Kinds /\ list[i].listed \in BOOLEAN
          /\ \A u \in list[i].uses : u[1] \in RefKinds[list[i].kind]
          /\ list[i].kind = "route" => IsSingleton({u \in list[i].uses : u[1] = "domain"})

\* Two items are about one object, a route being of its domain.
SameObject(a, b) == /\ a.kind = b.kind /\ a.name = b.name
                    /\ a.kind = "route" =>
                          \A u \in a.uses : u[1] = "domain" => u \in b.uses

\* Items that --replace applies to say the same of one object.
ItemsAgree(list) == \A i, j \in DOMAIN list :
    list[i].listed /\ list[j].listed /\ SameObject(list[i], list[j]) =>
        list[i].uses = list[j].uses /\ list[i].val = list[j].val

=============================================================================
