SPECIFICATION FairSpec
CONSTANTS
  w1 = w1
  w2 = w2
  None = None
  Commit <- OneCommit
  Worker <- TwoWorkers
  Task <- TwoTasks
  Concurrency = 1
  Faults <- LiveFaults
  Mortal <- OneMortal
CHECK_DEADLOCK FALSE
INVARIANTS StrandedByLoss
PROPERTIES QueuedSettles HintedShutdownEnds
