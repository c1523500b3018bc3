\* One CV, a retry and a fault; a request that may hang beside the worker and a
\* goroutine that a handover left behind.
SPECIFICATION FairSpec
CONSTANTS
  CVs = {c1}
  Procs = {p1, p2, p3}
  NoCV = NoCV
  MaxUploads = 1
  MaxRetry = 1
  MaxRequests = 1
  MaxFaults = 1
PROPERTIES UploadsAreAnalysed
CHECK_DEADLOCK FALSE
