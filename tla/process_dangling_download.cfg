SPECIFICATION Spec
CONSTANTS
  MaxAttempts = 2
  FaultSets <- MarkFails
CHECK_DEADLOCK FALSE
INVARIANT DownloadJoined
