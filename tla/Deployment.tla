----------------------------- MODULE Deployment -----------------------------
(***************************************************************************)
(* The processes of a rollout: migrators bring the schema up to date while *)
(* API processes start, keep the user snapshots in sync, and stop.         *)
(* Nothing in the code makes --mode=serve wait for --mode=migrate; what    *)
(* connects them is the table that the snapshots are stored in.            *)
(***************************************************************************)
EXTENDS Migrate, UserSnapshots

CONSTANT SnapshotFile  \* the file that creates user_snapshots (003)

ASSUME SnapshotFileAssumption == SnapshotFile \in Files

vars == <<migrateVars, snapshotVars>>

TypeOK == MigrateTypeOK /\ SnapshotsTypeOK

Init == MigrateInit /\ SnapshotsInit

Next ==
  \/ MigrateNext /\ UNCHANGED snapshotVars
  \/ SnapshotsNext(SnapshotFile \in ledger) /\ UNCHANGED migrateVars

\* The subscriber's goroutine runs as long as its process does.
Fairness == \A p \in Processes : WF_vars(Handle(p, SnapshotFile \in ledger) /\ UNCHANGED migrateVars)

Spec == Init /\ [][Next]_vars /\ Fairness
=============================================================================
