CONSTANTS
  m1 = m1
  l1 = l1
  c1 = c1
  Sid <- OneMapping
  Mapping <- OneMapping
  Cleanup <- OneCleanup
  Timeout = 1
SPECIFICATION FairSpec
PROPERTY
  ZombieRecorderStopped
