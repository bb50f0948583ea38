\* Both cases of MCEventQueue; stops where the bounds are used up.
SPECIFICATION MCSpec
INVARIANTS
  TidyQueuesAreRight
PROPERTIES
  ImplementsFifo
  NoEventStranded
CONSTANTS
  r1 = r1
  r2 = r2
  s1 = s1
  Queues = {1, 2}
  Ports = {1}
  Receivers = {r1, r2}
  Senders = {s1}
  Sizes = {0, 1}
  BufMax = 2
  MaxEvents = 4
  MaxCreates = 2
  None = None
  Guests = {TRUE, FALSE}
  FewEvents = 1
  OneQueue = 1
CHECK_DEADLOCK FALSE
