SPECIFICATION Spec
CONSTANTS
  old = old
  new = new
  TargetLists <- MCTargetLists
  BufferSize = 2
  FrameSamples = 2
  MaxSessions = 2
  MaxRefreshes = 1
  MaxCaptures = 3
  MaxBoots = 2
  MaxLingering = 1
INVARIANTS
  SampleIdsNameSamples
\* The firmware may wait for ever for a configuration or a sample.
CHECK_DEADLOCK FALSE
