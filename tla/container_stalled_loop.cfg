SPECIFICATION Spec
CONSTANTS
  r1 = r1
  r2 = r2
  Runs <- Two
  Concurrency = 2
  Programs <- Both
  FaultSets <- Sound
CHECK_DEADLOCK FALSE
PROPERTIES TimeoutMeansNothingArrived
