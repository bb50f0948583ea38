\* The cases together; see MCLwMutex.  Stops where all threads sleep.
SPECIFICATION MCSpec
CONSTANTS
  t1 = t1
  t2 = t2
  t3 = t3
  None = None
  Threads = {t1, t2, t3}
  MaxNest = 2
  LwmAll = FALSE
  LwSetups <- AllCases
  Waiters = {t1, t2}
  MaxSignals = 2
  RecurWidth = 3
INVARIANTS
  LwMutexExcludes
  TimeoutMeansNoSignal
PROPERTIES
  BroadcastWakesHere
CHECK_DEADLOCK FALSE
