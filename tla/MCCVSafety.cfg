\* Three uploads against a quota of one, two goroutines, a retry, one fault.
SPECIFICATION Spec
CONSTANTS
  CVs = {c1, c2, c3}
  Procs = {p1, p2}
  NoCV = NoCV
  MaxUploads = 1
  MaxRetry = 1
  MaxRequests = 2
  MaxFaults = 1
SYMMETRY Symmetry
INVARIANTS TypeOK QuotaOvershoot StoresAgree ParsingIsRunning ServedIsParsed AcknowledgedIsParsed
PROPERTIES ParseKept
CHECK_DEADLOCK FALSE
