\* Is the handler's error frame the first of its turn, as its comment says?
SPECIFICATION Spec
CONSTANTS
  Turns = {t1}
  MaxIterations = 2
  MaxCalls = 1
  Intents <- NamedSorts
  MaxFaults = 0
INVARIANTS HandlerErrorIsFirst
CHECK_DEADLOCK FALSE
