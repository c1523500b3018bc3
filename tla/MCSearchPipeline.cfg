\* Two workers, one client: retry, crashes, deadlines, lost writes, and a client that
\* asks again.
SPECIFICATION FairSpec
CONSTANTS
  Jobs = {j1}
  Workers = {w1, w2}
  Streams = {s1}
  NoJob = NoJob
  MaxRetry = 1
  MaxFaults = 2
  MaxHandovers = 0
INVARIANTS TypeOK RowBacksStatus AnnouncedIsStored StreamWellFormed NoHangingProgress QueueAndRowAgree AttemptBound
PROPERTIES ResultKept KeepsPromise TasksSettle FollowersAreTold AnsweredWithoutFaults
CHECK_DEADLOCK FALSE
