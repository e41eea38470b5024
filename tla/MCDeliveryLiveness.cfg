\* The same line with the fairness the two endless loops justify.
SPECIFICATION FairSpec
CONSTANTS
  w1 = w1
  w2 = w2
  Worker <- TwoWorkers
  QueueSize = 2
  FrameCapacity = 2
  Fits <- SecondTooLarge
  StaleAcks = FALSE
  MaxAdmitted = 3
  MaxDropped = 0
  MaxReboots = 0
  MaxFrames = 1
PROPERTIES
  EventuallySettled
