\* A wait on a cond by a thread that locked the mutex twice.
SPECIFICATION MCSpec
INVARIANT
  WaiterReleases
CONSTANTS
  main = main
  w1 = w1
  w2 = w2
  c1 = c1
  c5 = c5
  None = None
  Cases = {"nesting"}
  Main = main
  Workers = {w1, w2}
  Threads = {main, w1, w2}
  Conds = {c5}
  Gates = {c5}
  Gate = c5
  Windows = TRUE
  Recursive = FALSE
  TryAgain = FALSE
  MayDestroy = FALSE
  MaxNest = 2
  MaxRequests = 3
CHECK_DEADLOCK FALSE
