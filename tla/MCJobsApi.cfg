\* One request at a time, of three callers, against limits of one or two; one
\* job with three status changes.
SPECIFICATION Spec
CONSTANTS
  NoId = NoId
  Keys <- ThreeKeys
  Limit <- SmallLimits
  Window = 2
  Users = {"u1", "u2"}
  JobIds = {j1}
  MaxUpdates = 3
  Words = {"applied", "saved"}
  MaxRedirects = 2
  Requests = {r1}
  Calls <- ThreeCalls
INVARIANTS TypeOK StampIsFirst WindowBound
PROPERTIES ThrottleEnds
CHECK_DEADLOCK FALSE
