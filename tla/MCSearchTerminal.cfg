\* Are "completed" and "failed" final, as the SSE handler's comment says?
SPECIFICATION Spec
CONSTANTS
  Jobs = {j1}
  Workers = {w1}
  Streams = {}
  NoJob = NoJob
  MaxRetry = 2
  MaxFaults = 0
  MaxHandovers = 0
PROPERTIES TerminalIsFinal
CHECK_DEADLOCK FALSE
