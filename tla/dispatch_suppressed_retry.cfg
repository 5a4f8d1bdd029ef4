SPECIFICATION Spec
CONSTANTS
  w1 = w1
  w2 = w2
  None = None
  Commit <- TwoCommits
  Worker <- TwoWorkers
  Task <- TwoTasks
  Concurrency = 1
  Faults <- RetryOnly
  Mortal <- Nobody
CHECK_DEADLOCK FALSE
PROPERTY ReleasedIsReenqueued
