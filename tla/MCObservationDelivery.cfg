\* One scanner on a lossy line whose answers come in time or not at all.
SPECIFICATION Spec
CONSTANTS
  w1 = w1
  w2 = w2
  Worker <- TwoWorkers
  QueueSize = 2
  FrameCapacity = 2
  Fits <- SecondTooLarge
  StaleAcks = FALSE
  MaxAdmitted = 3
  MaxDropped = 1
  MaxReboots = 1
  MaxFrames = 1
INVARIANTS
  TypeOK
  CursorsOK
  OneBatchPerObservation
  StoredAtMostOnce
  RetainedUntilSettled
PROPERTIES
  DeliversInOrder
