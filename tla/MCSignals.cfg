\* Two waiters of every kind and a setter on an event flag; three callers of
\* a semaphore of two tokens; three users of a reader-writer lock.
SPECIFICATION MCSpec
INVARIANTS
  SleepersUnsatisfied
  RaiseTakenOnce
PROPERTIES
  SemImplementsCounter
  NoTokenStranded
  ImplementsSharedLock
CONSTANTS
  w1 = w1
  w2 = w2
  s1 = s1
  Cases = {"flag", "sema", "rw"}
  Flags = {1}
  Bits = {1, 2}
  Waiters = {w1, w2}
  Setters = {s1}
  Wants <- SomeWants
  MaxRaises = 2
  MaxCreates = 2
  Quiet = FALSE
  Callers = {w1, w2, s1}
  Setups <- AllSetups
  MaxValue = 2
  Starts = {0, 1}
  Counts = {1, 2}
  MaxPosted = 3
  Users = {w1, w2, s1}
  Builds = {TRUE, FALSE}
  MaxReads = 2
  Nobody = Nobody
CHECK_DEADLOCK FALSE
