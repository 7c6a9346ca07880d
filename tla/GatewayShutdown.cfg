CONSTANTS
  m1 = m1
  c1 = c1
  Main = Main
  Sid <- OneMapping
  Mapping <- OneMapping
  Cleanup <- OneCleanup
  Timeout = 1
SPECIFICATION FairShutdownSpec
PROPERTIES
  SessionsEnd
  NobodyStuck
  ImplementsLifecycle
  ShutdownIsClean
  ShutdownCompletes
CHECK_DEADLOCK FALSE
