\* One port and two notification slots; one output that is opened once; two timers.
SPECIFICATION MCSpec
INVARIANTS
  PendingAreLast
  ClosedIsQuiet
  StoppedIsQuiet
PROPERTIES
  HeardInOrder
  HostThreadsGoOn
CONSTANTS
  AudioPorts = {0}
  NotifySlots = {1, 2}
  QueueKeys = {k1}
  NoKey = NoKey
  AudioReaders = {g1}
  AudioSetups <- PunctualAndWild
  Prebuffer = 3
  GuestCaller = GuestCaller
  HostCaller = HostCaller
  MaxInits = 1
  Timers = {1, 2}
  TimerQueues = {1}
  TimerRoom = 1
  TimerCallers = {c1}
  AudioCases = {"ring", "output", "timer"}
CHECK_DEADLOCK FALSE
