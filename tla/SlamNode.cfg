CONSTANTS
  s1 = s1
  s2 = s2
  Sid <- TwoSessions
  MaxImages <- TwoAndOne
SPECIFICATION Spec
INVARIANTS
  TypeOK
  SavedMapWhole
  SubscriptionsMatch
CHECK_DEADLOCK FALSE
