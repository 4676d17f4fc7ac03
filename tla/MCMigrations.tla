----------------------------- MODULE MCMigrations -----------------------------
(* Two processes that open stores of different target versions and bridge  *)
(* their database, with the registry of MCStores.                          *)
EXTENDS Migrations

SmallDependsOn == [v \in 1 .. LastVersion |-> IF v = 3 THEN {1} ELSE {}]

Spec == MigrationInit /\ [][MigrationNext]_migrationVars
=============================================================================
