\* Three threads that nest two deep; the host schedules fairly.  No symmetry:
\* it is unsound for liveness.
SPECIFICATION FairSpec
CONSTANTS
  Threads = {t1, t2, t3}
  None = None
  MaxNest = 2
PROPERTIES
  NoBarging
  ImplementsLock
  NoStarvation
