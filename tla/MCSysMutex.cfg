\* The draw queue, three threads that do what they like on Windows and POSIX,
\* and three that share an object of the cellSync library.
SPECIFICATION MCSpec
INVARIANTS
  ReadsAreWhole
  RoundsAreFull
PROPERTIES
  MutexImplementsLock
  SubmissionGoesOn
  SyncQueueIsFifo
  WritersGetIn
CONSTANTS
  main = main
  w1 = w1
  w2 = w2
  c1 = c1
  c5 = c5
  None = None
  Cases = {"draw", "critical", "plain", "nesting", "sync"}
  Main = main
  Workers = {w1, w2}
  Threads = {main, w1, w2}
  Conds = {c5}
  Gates = {c5}
  Gate = c5
  Windows = TRUE
  Recursive = FALSE
  TryAgain = FALSE
  MayDestroy = FALSE
  MaxNest = 2
  MaxRequests = 3
  Users = {main, w1, w2}
  Objects <- SyncObjects
  Items = {1, 2}
  Depth = 2
  MaxCopies = 2
  MaxRounds = 2
CHECK_DEADLOCK FALSE
