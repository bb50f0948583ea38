\* A thread that calls the exit syscall is joined.
SPECIFICATION MCSpec
INVARIANT
  JoinStoresExitCode
CONSTANTS
  r1 = r1
  r2 = r2
  Slots = {1, 2}
  Hosts = {1, 2, 3}
  Values = {0, 1}
  Contexts = {r1, r2}
  Words = {16, 20, 32}
  Contents = {0, 1}
  ResvMax = 3
  NoContext = NoContext
  ThreadCases = {"thread"}
  ResvSetups <- RuntimeForm
CHECK_DEADLOCK FALSE
