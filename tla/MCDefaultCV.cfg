\* Four calls on two CVs, with deletions and errors: two calls that overlap
\* leave two defaults, over which two more can deadlock.
SPECIFICATION Spec
CONSTANTS
  CVs = {c1, c2}
  Txns = {t1, t2, t3, t4}
  NoTxn = NoTxn
INVARIANTS DefaultTypeOK OnlyOverlapSplits
PROPERTIES CallsEnd
CHECK_DEADLOCK FALSE
