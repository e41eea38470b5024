SPECIFICATION FairSpec
CONSTANTS
  old = old
  new = new
  TargetLists <- MCTargetLists
  BufferSize = 1
  FrameSamples = 1
  MaxSessions = 2
  MaxRefreshes = 1
  MaxCaptures = 1
  MaxBoots = 2
  MaxLingering = 1
PROPERTIES
  SamplesLeave
  FocusFollows
\* The firmware may wait for ever for a configuration or a sample.
CHECK_DEADLOCK FALSE
