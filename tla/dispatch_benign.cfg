SPECIFICATION Spec
CONSTANTS
  w1 = w1
  w2 = w2
  None = None
  Commit <- TwoCommits
  Worker <- TwoWorkers
  Task <- ThreeTasks
  Concurrency = 2
  Faults <- BenignFaults
  Mortal <- Nobody
CHECK_DEADLOCK FALSE
INVARIANTS InProgressIsHeld NoDuplicateCopies CleanShutdown
