\* The same system when an answer may outlive the request it belongs to.
SPECIFICATION Spec
CONSTANTS
  w1 = w1
  w2 = w2
  Worker <- TwoWorkers
  QueueSize = 2
  FrameCapacity = 2
  Fits <- AllFit
  StaleAcks = TRUE
  MaxAdmitted = 2
  MaxDropped = 1
  MaxReboots = 1
  MaxFrames = 2
INVARIANTS
  RetainedUntilSettled
