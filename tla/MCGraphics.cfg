\* A ring of four words, a queue of one batch; every pipeline; two guest threads.
SPECIFICATION MCSpec
INVARIANTS
  NoTearing
PROPERTIES
  NothingIsLost
  FramesAreWhole
  GraphicsGoOn
  TicksAreDelivered
CONSTANTS
  RingEnd = 4
  Numbers = 3
  QueueDepth = 1
  GatedFlips = 1
  FrameSetups <- PatientGuests
  KmsSetups <- Displays
  KmsBuffers = 3
  PumpThreads = {t1, t2}
  FrameDriver = FrameDriver
  Coalesce = FALSE
  FlipWords = TRUE
  MaxTicks = 3
  GraphicsCases = {"frames", "display", "callbacks"}
CHECK_DEADLOCK FALSE
