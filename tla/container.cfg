SPECIFICATION Spec
CONSTANTS
  r1 = r1
  r2 = r2
  Runs <- Two
  Concurrency = 2
  Programs <- Both
  FaultSets <- Failing
CHECK_DEADLOCK FALSE
INVARIANTS TypeOK OutputSettled OnlyCutRunsLeak ReturnedRow
PROPERTIES KeepsContract RunsEnd ReadersEnd
