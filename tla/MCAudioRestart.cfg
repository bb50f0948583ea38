\* A guest that stops a port with a notification on its way, and starts it again.
SPECIFICATION MCSpec
PROPERTIES
  OwnBlock
CONSTANTS
  AudioPorts = {0}
  NotifySlots = {1, 2}
  QueueKeys = {k1}
  NoKey = NoKey
  AudioReaders = {g1}
  AudioSetups <- Restarts
  Prebuffer = 3
  GuestCaller = GuestCaller
  HostCaller = HostCaller
  MaxInits = 1
  Timers = {1, 2}
  TimerQueues = {1}
  TimerRoom = 1
  TimerCallers = {c1}
  AudioCases = {"ring"}
CHECK_DEADLOCK FALSE
