---------------------------- MODULE MCMigrations ----------------------------
(* Instances of Migrations for TLC. *)
EXTENDS Migrations

CONSTANTS r1, r2

TwoRunners == {r1, r2}

\* The schemas, tables and history of the four files, indexes left out.
FourFiles == <<
  <<"warehouse", "bronze", "bronze.events", "migration_history">>,
  <<"silver", "silver.events">>,
  <<"quarantine", "quarantine.events">>,
  <<"gold", "gold.market_windows">> >>

InitScript == {"warehouse", "bronze", "silver", "quarantine", "gold"}

\* Only 001 inserts itself into the history.
FirstFile == {1}
=============================================================================
