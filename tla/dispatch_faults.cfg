SPECIFICATION Spec
CONSTANTS
  w1 = w1
  w2 = w2
  None = None
  Commit <- OneCommit
  Worker <- TwoWorkers
  Task <- TwoTasks
  Concurrency = 1
  Faults <- AllFaults
  Mortal <- OneMortal
CHECK_DEADLOCK FALSE
INVARIANTS TypeOK AtMostOneHolder HeldNotQueued SlotAccounting
PROPERTIES FinalIsFinal ImplementsLedger FollowsAttempt
