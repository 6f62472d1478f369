--------------------------- MODULE MCMigrationStore ---------------------------
(* Small instances of MigrationStore for TLC.                              *)
EXTENDS MigrationStore, TLC

CONSTANTS d1, d2, i1, i2

(* The configuration lists the tables in this order.                       *)
TableRank == [t \in Tables |-> IF t = "notes" THEN 0 ELSE 1]

(* A database on which setup has already run.                              *)
InstalledInit ==
  /\ created = InfraEntries \cup {"migrations"}
  /\ rows = {[mig |-> infraEntry(e), batch |-> 1] : e \in InfraEntries}
  /\ batches = 1
  /\ settings = NoSettings /\ version = -1 /\ archive = {}
  /\ schema = EmptyConfig /\ clock = 0 /\ requests = {}
  /\ DeployersInit /\ InstallersInit

InstalledSpec == InstalledInit /\ [][Next]_vars
=============================================================================
