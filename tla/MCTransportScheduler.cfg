\* Requests of up to six ticks, hard deadlines of two (focus) and four.
SPECIFICATION Spec
CONSTANTS
  HeartbeatInterval = 15
  ConfigInterval = 2
  FocusConfigInterval = 1
  UploadIntervals <- Uploads
  FocusUploadIntervals <- FocusUploads
  LongestInterval = 2
  RetryBackoff = 1
  MaxRequest = 6
INVARIANTS
  TypeOK
  HeartbeatDeadline
  ConfigDeadline
  ObservationTurn
