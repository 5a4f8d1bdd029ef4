SPECIFICATION Spec
CONSTANTS
  MaxAttempts = 2
  FaultSets <- HandlerFails
CHECK_DEADLOCK FALSE
PROPERTY ReleasedToQueue
