\* Two migrators over three files, two API processes, two profile changes.
SPECIFICATION Spec
CONSTANTS
  Migrators = {m1, m2}
  FileCount = 3
  Rerunnable = {1, 3}
  MaxMigrateFaults = 1
  SnapshotFile = 3
  Processes = {p1, p2}
  MaxVersion = 2
  MaxHeard = 2
INVARIANTS TypeOK MigrationsOnce
PROPERTIES BackwardsOnlyAcrossProcesses SnapshotCatchesUp
CHECK_DEADLOCK FALSE
