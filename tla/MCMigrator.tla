----------------------------- MODULE MCMigrator -----------------------------
(* A TLC instance of Migrator: two processes of the current release and one  *)
(* of the release before it.                                                 *)
EXTENDS Migrator

CONSTANTS p1, p2, old

Processes == {p1, p2, old}
Releases == [p \in Processes |-> IF p = old THEN {2, 5} ELSE {2, 5, 6}]
=============================================================================
