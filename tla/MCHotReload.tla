---------------------------- MODULE MCHotReload ----------------------------
(***************************************************************************)
(* HotReload with files that say what the defaults say, or listen on other *)
(* addresses, or differ in their records only.                             *)
(***************************************************************************)
EXTENDS HotReload

CONSTANTS usual, other

NoFile == [records |-> 0, listen |-> usual]
FileConfigs == {NoFile, [records |-> 1, listen |-> usual], [records |-> 2, listen |-> other]}
=============================================================================
