\* Two workers that may both run the job after a shutdown handover, in front of
\* one client; a crash, a lost lease or a lost write.
SPECIFICATION Spec
CONSTANTS
  Jobs = {j1}
  Workers = {w1, w2}
  Streams = {s1}
  NoJob = NoJob
  MaxRetry = 0
  MaxFaults = 1
  MaxHandovers = 1
SYMMETRY Symmetry
INVARIANTS AnnouncedIsStored StreamWellFormed
CHECK_DEADLOCK FALSE
