---------------------------- MODULE MigrateProofs ----------------------------
(***************************************************************************)
(* Migrate for any number of files and of migrators: every file is applied *)
(* once, in order, and success means that all of them are.                 *)
(***************************************************************************)
EXTENDS Migrate, TLAPS

InLoop == {"check", "execute", "record", "commit"}

\* A migrator works on a file that exists, after all those before it.
InOrder ==
  \A m \in Migrators :
    /\ run[m].at \in InLoop \cup {"done"} => \A g \in Files : g < File(m) => g \in ledger
    /\ run[m].at \in InLoop \ {"check"} => File(m) \in Files
    /\ run[m].at = "done" => File(m) > FileCount

\* A file that is not recorded is being applied by one migrator at most, which
\* only reaches its commit while the file still is not recorded.
OneWriter ==
  /\ \A m, n \in Migrators : Holds(m, File(m)) /\ Holds(n, File(m)) /\ File(m) \notin ledger => m = n
  /\ \A m \in Migrators : run[m].at = "commit" => File(m) \notin ledger

MigrateInv == MigrateTypeOK /\ InOrder /\ OneWriter /\ MigrationsOnce

---------------------------------------------------------------------------
LEMMA MigrateInvInit == MigrateInit => MigrateInv
<1> SUFFICES ASSUME MigrateInit PROVE MigrateInv
  OBVIOUS
<1>1. MigrateTypeOK
  BY FilesAssumption DEF MigrateInit, MigrateTypeOK, Points, Files
<1>2. InOrder /\ OneWriter
  BY DEF MigrateInit, InOrder, OneWriter, InLoop, Holds, File
<1>3. MigrationsOnce
  BY FilesAssumption DEF MigrateInit, MigrationsOnce, Files
<1> QED
  BY <1>1, <1>2, <1>3 DEF MigrateInv

LEMMA AtMoved ==
  ASSUME NEW r \in [at : Points, file : 1 .. FileCount + 1], NEW p \in Points
  PROVE  [r EXCEPT !.at = p] = [at |-> p, file |-> r.file]
  OBVIOUS

LEMMA FileMoved ==
  ASSUME NEW r \in [at : Points, file : 1 .. FileCount + 1]
  PROVE  [r EXCEPT !.file = @ + 1] = [at |-> r.at, file |-> r.file + 1]
  OBVIOUS

\* Steps of one migrator that leave the database alone.
LEMMA QuietStep ==
  ASSUME MigrateInv, NEW m \in Migrators, UNCHANGED <<ledger, applied>>,
         NEW p \in Points, NEW f \in 1 .. FileCount + 1,
         run' = [run EXCEPT ![m] = [at |-> p, file |-> f]], migrateFaults' \in Nat,
         p \in InLoop \cup {"done"} => \A g \in Files : g < f => g \in ledger,
         p \in InLoop \ {"check"} => f \in Files,
         p = "done" => f > FileCount,
         p = "commit" => f \notin ledger,
         p \in {"record", "commit"} /\ f \notin ledger =>
           \A n \in Migrators \ {m} : ~ Holds(n, f)
  PROVE  MigrateInv'
<1>1. /\ run \in [Migrators -> [at : Points, file : 1 .. FileCount + 1]]
      /\ run'[m] = [at |-> p, file |-> f] /\ \A n \in Migrators \ {m} : run'[n] = run[n]
  BY DEF MigrateInv, MigrateTypeOK
<1>2. MigrateTypeOK'
  BY DEF MigrateInv, MigrateTypeOK
<1>3. InOrder'
  BY <1>1 DEF MigrateInv, InOrder, File
<1>4. OneWriter'
  BY <1>1 DEF MigrateInv, OneWriter, File, Holds
<1>5. MigrationsOnce'
  <2>1. p = "done" => ledger = Files
    <3>1. p = "done" => \A g \in Files : g < f
      BY FilesAssumption DEF Files
    <3> QED
      BY <3>1 DEF MigrateInv, MigrateTypeOK
  <2> QED
    BY <1>1, <2>1 DEF MigrateInv, MigrationsOnce
<1> QED
  BY <1>2, <1>3, <1>4, <1>5 DEF MigrateInv

LEMMA CommitStep ==
  ASSUME MigrateInv, NEW m \in Migrators, Commit(m)
  PROVE  MigrateInv'
<1> DEFINE f == File(m)
<1>1. /\ f \in Files /\ f \notin ledger /\ \A g \in Files : g < f => g \in ledger
      /\ run \in [Migrators -> [at : Points, file : 1 .. FileCount + 1]]
  BY DEF Commit, MigrateInv, MigrateTypeOK, InOrder, OneWriter, InLoop
<1>2. ledger' = ledger \cup {f} /\ applied' = [applied EXCEPT ![f] = @ + 1]
  BY DEF Commit, Committed
<1>3. /\ \A n \in Migrators \ {m} : run'[n] = run[n]
      /\ \/ run'[m] = [at |-> "check", file |-> f + 1] /\ UNCHANGED migrateFaults
         \/ run'[m] = [at |-> "failed", file |-> f] /\ migrateFaults' = migrateFaults + 1
      /\ run' \in [Migrators -> [at : Points, file : 1 .. FileCount + 1]]
  <2>1. f \in Nat /\ f + 1 \in 1 .. FileCount + 1
    BY <1>1, FilesAssumption DEF Files
  <2>2. CASE /\ run' = [run EXCEPT ![m] = [at |-> "check", file |-> @.file + 1]]
             /\ UNCHANGED migrateFaults
    BY <1>1, <2>1, <2>2 DEF File, Points
  <2>3. CASE Goes(m, "failed") /\ MigrateFault
    BY <1>1, <2>3 DEF File, Points, Goes, MigrateFault
  <2> QED
    BY <2>2, <2>3 DEF Commit
<1>4. MigrateTypeOK'
  BY <1>1, <1>2, <1>3 DEF MigrateInv, MigrateTypeOK
<1>5. InOrder'
  <2> SUFFICES ASSUME NEW n \in Migrators
               PROVE  /\ run'[n].at \in InLoop \cup {"done"} =>
                           \A g \in Files : g < run'[n].file => g \in ledger'
                      /\ run'[n].at \in InLoop \ {"check"} => run'[n].file \in Files
                      /\ run'[n].at = "done" => run'[n].file > FileCount
    BY DEF InOrder, File
  <2>1. CASE n = m
    BY <2>1, <1>1, <1>2, <1>3, FilesAssumption DEF InLoop, Files
  <2>2. CASE n # m
    BY <2>2, <1>2, <1>3 DEF MigrateInv, InOrder, File
  <2> QED
    BY <2>1, <2>2
<1>6. OneWriter'
  \* Whoever else is at its commit works on another file.
  <2>1. \A n \in Migrators : run'[n].at = "commit" => run'[n].file \notin ledger'
    BY <1>1, <1>2, <1>3 DEF Commit, MigrateInv, OneWriter, Holds, File
  <2>2. \A n, k \in Migrators :
          /\ run'[n].at \in {"record", "commit"} /\ run'[k].at \in {"record", "commit"}
          /\ run'[k].file = run'[n].file /\ run'[n].file \notin ledger'
          => n = k
    BY <1>2, <1>3 DEF MigrateInv, OneWriter, Holds, File
  <2> QED
    BY <2>1, <2>2 DEF OneWriter, Holds, File
<1>7. MigrationsOnce'
  <2>1. \A g \in Files : applied'[g] = IF g \in ledger' THEN 1 ELSE 0
    BY <1>1, <1>2 DEF MigrateInv, MigrateTypeOK, MigrationsOnce
  <2>2. \A g \in ledger' : \A h \in Files : h < g => h \in ledger'
    BY <1>1, <1>2 DEF MigrateInv, MigrationsOnce
  <2>3. \A n \in Migrators : run'[n].at # "done"
    BY <1>1, <1>3 DEF MigrateInv, MigrationsOnce
  <2> QED
    BY <2>1, <2>2, <2>3 DEF MigrationsOnce
<1> QED
  BY <1>4, <1>5, <1>6, <1>7 DEF MigrateInv

LEMMA MigrateInvNext == MigrateInv /\ [MigrateNext]_migrateVars => MigrateInv'
<1> SUFFICES ASSUME MigrateInv, [MigrateNext]_migrateVars
             PROVE  MigrateInv'
  OBVIOUS
<1>0. /\ run \in [Migrators -> [at : Points, file : 1 .. FileCount + 1]]
      /\ migrateFaults \in Nat /\ ledger \subseteq Files
  BY DEF MigrateInv, MigrateTypeOK
<1>a. ASSUME NEW m \in Migrators, NEW p \in Points, Goes(m, p)
      PROVE  run' = [run EXCEPT ![m] = [at |-> p, file |-> File(m)]]
  <2>1. [run[m] EXCEPT !.at = p] = [at |-> p, file |-> run[m].file]
    <3>1. run[m] \in [at : Points, file : 1 .. FileCount + 1]
      BY <1>0
    <3> QED
      BY <3>1, AtMoved, Zenon
  <2> QED
    BY <1>a, <2>1, Zenon DEF Goes, File
<1>b. \A m \in Migrators : File(m) \in 1 .. FileCount + 1
  BY <1>0 DEF File
<1>1. ASSUME NEW m \in Migrators, StartMigrate(m) PROVE MigrateInv'
  <2>1. /\ {"check", "failed"} \subseteq Points
        /\ 1 \in 1 .. FileCount + 1 /\ \A g \in Files : ~ (g < 1)
    BY FilesAssumption DEF Points, Files
  <2>2. CASE run' = [run EXCEPT ![m] = [at |-> "check", file |-> 1]]
    BY <1>1, <2>1, <2>2, <1>0, QuietStep DEF StartMigrate, InLoop
  <2>3. CASE run' = [run EXCEPT ![m] = [at |-> "failed", file |-> 1]]
    BY <1>1, <2>1, <2>3, <1>0, QuietStep DEF StartMigrate, InLoop
  <2> QED
    BY <1>1, <2>2, <2>3 DEF StartMigrate
<1>2. ASSUME NEW m \in Migrators, Check(m) PROVE MigrateInv'
  <2>1. \A g \in Files : g < File(m) => g \in ledger
    BY <1>2 DEF Check, MigrateInv, InOrder, InLoop
  <2>2. CASE File(m) > FileCount /\ Goes(m, "done")
    BY <1>2, <2>1, <2>2, <1>0, <1>a, <1>b, QuietStep DEF Check, Points, InLoop
  <2>3. CASE File(m) \in ledger /\ run' = [run EXCEPT ![m].file = @ + 1]
    <3>1. run' = [run EXCEPT ![m] = [at |-> "check", file |-> File(m) + 1]]
      <4>1. run[m] \in [at : Points, file : 1 .. FileCount + 1] /\ run[m].at = "check"
        BY <1>0, <1>2 DEF Check
      <4>2. [run[m] EXCEPT !.file = @ + 1] = [at |-> "check", file |-> run[m].file + 1]
        BY <4>1, FileMoved, Zenon
      <4> QED
        BY <2>3, <4>2, Zenon DEF File
    <3>2. File(m) + 1 \in 1 .. FileCount + 1 /\ \A g \in Files : g < File(m) + 1 => g \in ledger
      BY <1>0, <2>1, <2>3, FilesAssumption DEF Files
    <3> QED
      BY <1>2, <3>1, <3>2, <1>0, QuietStep DEF Check, Points, InLoop
  <2>4. CASE File(m) \in Files \ ledger /\ Goes(m, "execute")
    BY <1>2, <2>1, <2>4, <1>0, <1>a, <1>b, QuietStep DEF Check, Points, InLoop
  <2> QED
    BY <1>2, <2>2, <2>3, <2>4 DEF Check
<1>3. ASSUME NEW m \in Migrators, Execute(m) PROVE MigrateInv'
  <2>1. File(m) \in Files /\ \A g \in Files : g < File(m) => g \in ledger
    BY <1>3 DEF Execute, MigrateInv, InOrder, InLoop
  <2>2. CASE Goes(m, "record")
    BY <1>3, <2>1, <2>2, <1>0, <1>a, <1>b, QuietStep DEF Execute, Points, InLoop, Goes
  <2>3. CASE Goes(m, "failed")
    BY <1>3, <2>1, <2>3, <1>0, <1>a, <1>b, QuietStep DEF Execute, Points, InLoop
  <2> QED
    BY <1>3, <2>2, <2>3 DEF Execute
<1>4. ASSUME NEW m \in Migrators, Record(m) PROVE MigrateInv'
  <2>1. /\ File(m) \in Files /\ \A g \in Files : g < File(m) => g \in ledger
        /\ File(m) \notin ledger => \A n \in Migrators \ {m} : ~ Holds(n, File(m))
    BY <1>4 DEF Record, MigrateInv, InOrder, OneWriter, InLoop, Holds, File
  <2>2. CASE File(m) \in ledger /\ Goes(m, "failed")
    BY <1>4, <2>1, <2>2, <1>0, <1>a, <1>b, QuietStep DEF Record, Points, InLoop
  <2>3. CASE File(m) \notin ledger /\ Goes(m, "commit")
    BY <1>4, <2>1, <2>3, <1>0, <1>a, <1>b, QuietStep DEF Record, Points, InLoop
  <2> QED
    BY <1>4, <2>2, <2>3 DEF Record
<1>5. ASSUME NEW m \in Migrators, Commit(m) PROVE MigrateInv'
  BY <1>5, CommitStep
<1>6. ASSUME NEW m \in Migrators, StopMigrate(m) PROVE MigrateInv'
  BY <1>6, <1>0, <1>a, <1>b, QuietStep DEF StopMigrate, MigrateFault, Points, InLoop
<1>7. CASE UNCHANGED migrateVars
  BY <1>7 DEF migrateVars, MigrateInv, MigrateTypeOK, InOrder, OneWriter, MigrationsOnce, Holds, File
<1> QED
  BY <1>1, <1>2, <1>3, <1>4, <1>5, <1>6, <1>7 DEF MigrateNext

---------------------------------------------------------------------------
LEMMA MigrateInvCorrect == MigrateSpec => []MigrateInv
  BY MigrateInvInit, MigrateInvNext, PTL DEF MigrateSpec

\* Types of the ledger and of every migrator's run.
THEOREM TypeCorrect == MigrateSpec => []MigrateTypeOK
<1>1. MigrateInv => MigrateTypeOK
  BY DEF MigrateInv
<1> QED
  BY <1>1, MigrateInvCorrect, PTL

\* For any number of files and of concurrent migrators, and however many of
\* them die or are started again: each file runs at most once, in order, and
\* "migrations applied" is only said when all have (migrate.go:12-67).
THEOREM MigrationsOnceCorrect == MigrateSpec => []MigrationsOnce
<1>1. MigrateInv => MigrationsOnce
  BY DEF MigrateInv
<1> QED
  BY <1>1, MigrateInvCorrect, PTL
=============================================================================
