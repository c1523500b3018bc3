\* Two turns of one conversation at the same time, and its deletion.
SPECIFICATION Spec
CONSTANTS
  Turns = {t1, t2}
  MaxIterations = 2
  MaxCalls = 1
  Intents <- NamedSorts
  MaxFaults = 0
SYMMETRY Symmetry
INVARIANTS QuestionAsked ReloadShowsStream
CHECK_DEADLOCK FALSE
