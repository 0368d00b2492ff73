---------------------------- MODULE CommandLines ----------------------------
(***************************************************************************)
(* The two commands that make much of their arguments, init-zone and list: *)
(* a user types one or the other.                                          *)
(***************************************************************************)
EXTENDS InitZoneFlags, ListArgs

CommandInit == Init /\ ListInit

NoList     == typed = <<>> /\ phase = "typing"
NoInitZone == domainStrs = <<>> /\ routesStrs = <<>> /\ proxyStrs = <<>>

CommandNext ==
    \/ NoList /\ Next /\ UNCHANGED listVars
    \/ NoInitZone /\ ListNext /\ UNCHANGED flags

CommandLine == CommandInit /\ [][CommandNext]_<<flags, listVars>>

=============================================================================
