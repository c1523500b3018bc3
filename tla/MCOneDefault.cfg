\* Is there ever more than one default?
SPECIFICATION Spec
CONSTANTS
  CVs = {c1, c2, c3}
  Txns = {t1, t2}
  NoTxn = NoTxn
INVARIANTS OneDefault
CHECK_DEADLOCK FALSE
