--------------------------- MODULE MCObjectCommands ---------------------------
(* A short listing for ObjectCommands: three rows, two to one object.       *)
EXTENDS ObjectCommands

MCRows == <<"k1", "k2", "k1">>
=============================================================================
