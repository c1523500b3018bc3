\* One turn: two iterations, up to two tools an answer, two faults.
SPECIFICATION Spec
CONSTANTS
  Turns = {t1}
  MaxIterations = 2
  MaxCalls = 2
  Intents <- OneOfEachSort
  MaxFaults = 2
INVARIANTS TurnTypeOK FramesInOrder CallsAsMeant ContextWellFormed
PROPERTIES TurnsEnd
CHECK_DEADLOCK FALSE
