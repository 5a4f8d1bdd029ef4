SPECIFICATION Spec
CONSTANTS
  MaxAttempts = 3
  FaultSets <- Everything
CHECK_DEADLOCK FALSE
INVARIANTS TypeOK DownloadOwned NoStaleResults GradedIsStored
PROPERTIES ImplementsAttempt UsesContract
