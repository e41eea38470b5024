SPECIFICATION FairSpec
CONSTANTS
  dashboard = dashboard
  finder = finder
  session = session
  other = other
  Live = Live
  Streams <- MCStreams
  Topics <- MCTopics
  TopicOf <- MCTopicOf
  LiveCapacity = 2
  TopicCapacity = 2
  MaxPublished = 3
INVARIANTS
  TypeOK
  OwnEventsInOrder
  LatestKept
  NoHole
  SentinelKept
PROPERTIES
  TopicStreamsEnd
\* The server stops when its connections have ended.
CHECK_DEADLOCK FALSE
