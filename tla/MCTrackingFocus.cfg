SPECIFICATION Spec
CONSTANTS
  old = old
  new = new
  TargetLists <- MCTargetLists
  BufferSize = 2
  FrameSamples = 2
  MaxSessions = 2
  MaxRefreshes = 1
  MaxCaptures = 3
  MaxBoots = 1
  MaxLingering = 1
INVARIANTS
  TypeOK
  RetriedUnchanged
  NoSampleTwice
  StoredAsCaptured
\* The firmware may wait for ever for a configuration or a sample.
CHECK_DEADLOCK FALSE
