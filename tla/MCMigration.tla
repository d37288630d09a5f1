----------------------------- MODULE MCMigration -----------------------------
(* Instances of Migration for TLC. *)
EXTENDS Migration

\* Nothing is promised after an anomaly.
Promising == anomalies = {}
=============================================================================
