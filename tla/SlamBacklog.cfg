CONSTANTS
  s1 = s1
  s2 = s2
  Sid <- TwoSessions
  MaxImages <- TwoAndOne
SPECIFICATION Spec
INVARIANT EveryImageProcessed
CHECK_DEADLOCK FALSE
