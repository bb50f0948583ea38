\* A queue is destroyed while a receive sleeps on it.
SPECIFICATION MCSpec
PROPERTIES
  DestroyWakesReceivers
CONSTANTS
  r1 = r1
  r2 = r2
  s1 = s1
  Queues = {1, 2}
  Ports = {1}
  Receivers = {r1, r2}
  Senders = {s1}
  Sizes = {0, 1}
  BufMax = 2
  MaxEvents = 1
  MaxCreates = 2
  None = None
  Guests = {FALSE}
  FewEvents = 1
  OneQueue = 1
CHECK_DEADLOCK FALSE
