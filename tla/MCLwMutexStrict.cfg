\* Strict call sites and a condition wait.
SPECIFICATION MCSpec
INVARIANTS
  StrictNeverUnserialized
CONSTANTS
  t1 = t1
  t2 = t2
  t3 = t3
  None = None
  Threads = {t1, t2, t3}
  MaxNest = 2
  LwmAll = FALSE
  LwSetups <- StrictCase
  Waiters = {t1, t2}
  MaxSignals = 2
  RecurWidth = 3
CHECK_DEADLOCK FALSE
