SPECIFICATION Spec
CONSTANTS
  None = None
  Submissions <- All
CHECK_DEADLOCK FALSE
INVARIANTS TypeOK ScoreIsDeserved MalformedMeans StrictnessOrder VerdictSymmetric ProtocolFitsImage
PROPERTIES LanguageKept
