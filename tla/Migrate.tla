------------------------------- MODULE Migrate -------------------------------
(***************************************************************************)
(* db.Migrate: each SQL file, in order, is executed and recorded in        *)
(* schema_migrations in one transaction, by any number of processes at     *)
(* once and as often as somebody starts one.                               *)
(*                                                                         *)
(* PostgreSQL's DDL is transactional.  Executing a file that another       *)
(* transaction is executing waits for its locks; after a commit, a file    *)
(* whose statements are all IF NOT EXISTS may run again, any other fails.  *)
(***************************************************************************)
EXTENDS Naturals

CONSTANTS Migrators,
          FileCount,   \* the *.sql files, in lexical order
          Rerunnable,  \* those whose effects may be there already
          MaxMigrateFaults  \* bound: process deaths and failed statements

Files == 1 .. FileCount
ASSUME FilesAssumption == FileCount \in Nat /\ Rerunnable \subseteq Files

VARIABLES ledger,   \* schema_migrations: the files recorded
          applied,  \* how often the effects of a file were committed
          run,      \* [Migrators -> what it does, and to which file]
          migrateFaults

migrateVars == <<ledger, applied, run, migrateFaults>>

---------------------------------------------------------------------------
\* failed: the process exited with an error; done: with "migrations applied".
Points == {"off", "check", "execute", "record", "commit", "failed", "done"}

MigrateTypeOK ==
  /\ ledger \subseteq Files
  /\ applied \in [Files -> Nat]
  /\ run \in [Migrators -> [at : Points, file : 1 .. FileCount + 1]]
  /\ migrateFaults \in Nat

\* The database may come from an earlier deployment with fewer files.
MigrateInit ==
  /\ \E n \in 0 .. FileCount :
       /\ ledger = 1 .. n
       /\ applied = [f \in Files |-> IF f <= n THEN 1 ELSE 0]
  /\ run = [m \in Migrators |-> [at |-> "off", file |-> 1]]
  /\ migrateFaults = 0

MigrateFault == migrateFaults < MaxMigrateFaults /\ migrateFaults' = migrateFaults + 1
File(m) == run[m].file
Goes(m, point) == run' = [run EXCEPT ![m].at = point]

\* An open transaction that holds the locks of file f.
Holds(m, f) == run[m].at \in {"record", "commit"} /\ run[m].file = f

---------------------------------------------------------------------------
\* --mode=migrate, by hand or by a deployment, also after an exit.  CREATE TABLE
\* IF NOT EXISTS schema_migrations comes first; it may fail when another process
\* creates the table at the same time, which is before any file is recorded.
StartMigrate(m) ==
  /\ run[m].at \in {"off", "failed", "done"}
  /\ \/ run' = [run EXCEPT ![m] = [at |-> "check", file |-> 1]]
     \/ /\ ledger = {} /\ \E other \in Migrators \ {m} : run[other].at # "off"
        /\ run' = [run EXCEPT ![m] = [at |-> "failed", file |-> 1]]
  /\ UNCHANGED <<ledger, applied, migrateFaults>>

\* SELECT EXISTS: a recorded file is skipped.
MutOneMore(m) ==
  /\ run[m].at = "check"
  /\ \/ File(m) > FileCount + 1 /\ Goes(m, "done")
     \/ File(m) \in ledger /\ run' = [run EXCEPT ![m].file = @ + 1]
     \/ File(m) \notin ledger /\ Goes(m, "execute")
  /\ UNCHANGED <<ledger, applied, migrateFaults>>
Check(m) ==
  /\ run[m].at = "check"
  /\ \/ File(m) > FileCount /\ Goes(m, "done")
     \/ File(m) \in ledger /\ run' = [run EXCEPT ![m].file = @ + 1]
     \/ File(m) \in Files \ ledger /\ Goes(m, "execute")
  /\ UNCHANGED <<ledger, applied, migrateFaults>>

\* BEGIN and the file's statements.
Execute(m) ==
  /\ run[m].at = "execute"
  /\ \/ /\ File(m) \notin ledger
        /\ \A other \in Migrators : ~ Holds(other, File(m))
        /\ Goes(m, "record")
     \/ File(m) \in ledger /\ File(m) \in Rerunnable /\ Goes(m, "record")
     \/ File(m) \in ledger /\ Goes(m, "failed")
  /\ UNCHANGED <<ledger, applied, migrateFaults>>

\* INSERT INTO schema_migrations: the primary key refuses a second row.
MutRecordTwice(m) ==
  /\ run[m].at = "record"
  /\ Goes(m, "commit")
  /\ UNCHANGED <<ledger, applied, migrateFaults>>
Record(m) ==
  /\ run[m].at = "record"
  /\ IF File(m) \in ledger THEN Goes(m, "failed") ELSE Goes(m, "commit")
  /\ UNCHANGED <<ledger, applied, migrateFaults>>

Committed(m) ==
  /\ ledger' = ledger \cup {File(m)}
  /\ applied' = [applied EXCEPT ![File(m)] = @ + 1]

\* The transaction ends; the reply to COMMIT may be lost after it took effect.
Commit(m) ==
  /\ run[m].at = "commit"
  /\ \/ /\ Committed(m)
        /\ run' = [run EXCEPT ![m] = [at |-> "check", file |-> @.file + 1]]
        /\ UNCHANGED migrateFaults
     \/ Committed(m) /\ Goes(m, "failed") /\ MigrateFault

\* A statement fails or the process dies; an open transaction is rolled back.
StopMigrate(m) ==
  /\ run[m].at \in {"check", "execute", "record", "commit"}
  /\ Goes(m, "failed")
  /\ MigrateFault
  /\ UNCHANGED <<ledger, applied>>

MigrateNext ==
  \E m \in Migrators :
    StartMigrate(m) \/ Check(m) \/ Execute(m) \/ Record(m) \/ Commit(m) \/ StopMigrate(m)

MigrateSpec == MigrateInit /\ [][MigrateNext]_migrateVars

---------------------------------------------------------------------------
\* Every file is applied exactly as often as the ledger says: once if it is
\* recorded and not at all otherwise; files are applied in order; and a
\* migrator that reports success leaves all of them applied.  "each runs at
\* most once" (migrate.go:12-13), with concurrent migrators and crashes.
MigrationsOnce ==
  /\ \A f \in Files : applied[f] = IF f \in ledger THEN 1 ELSE 0
  /\ \A f \in ledger : \A g \in Files : g < f => g \in ledger
  /\ \A m \in Migrators : run[m].at = "done" => ledger = Files
=============================================================================
