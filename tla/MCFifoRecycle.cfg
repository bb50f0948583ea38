\* A guest that fills its ring again before the driver has looked at it.
SPECIFICATION MCSpec
PROPERTY
  NoCommandsLost
CONSTANTS
  RingEnd = 4
  Numbers = 3
  QueueDepth = 1
  GatedFlips = 2
  FrameSetups <- HastyGuests
  KmsSetups <- Displays
  KmsBuffers = 3
  PumpThreads = {t1, t2}
  FrameDriver = FrameDriver
  Coalesce = FALSE
  FlipWords = TRUE
  MaxTicks = 2
  GraphicsCases = {"frames"}
CHECK_DEADLOCK FALSE
