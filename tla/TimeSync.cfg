CONSTANTS
  Rounds = 3
  Skew = 7
  None = None
  Delay <- ShortDelays
SPECIFICATION Spec
INVARIANTS
  TypeOK
  SyncAccurate
  OneTimeBase
CHECK_DEADLOCK FALSE
