----------------------------- MODULE MCMigrate -----------------------------
(* Migrate with three runs, which may overlap or follow each other.        *)
EXTENDS Migrate

ThreeRuns == {"first", "second", "third"}
=============================================================================
