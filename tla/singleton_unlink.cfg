SPECIFICATION Spec
CONSTANTS
  e1 = e1
  e2 = e2
  Engines <- Two
  MaxFiles = 3
CHECK_DEADLOCK FALSE
INVARIANTS MutualExclusion
