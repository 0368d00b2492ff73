----------------------------- MODULE ObjectKinds -----------------------------
(***************************************************************************)
(* The types of object tbnctl reads and writes, and what an object of each *)
(* refers to.                                                              *)
(***************************************************************************)

Kinds == {"zone", "cluster", "domain", "route", "shared_rules", "proxy"}

\* The types of object an object's key fields may name, its zone apart.
RefKinds == [ zone         |-> {},
              cluster      |-> {},
              domain       |-> {},
              route        |-> {"domain", "shared_rules", "cluster"},
              shared_rules |-> {"cluster"},
              proxy        |-> {"domain"} ]

=============================================================================
