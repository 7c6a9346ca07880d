CONSTANTS
  m1 = m1
  l1 = l1
  Sid <- OneOfEach
  Mapping <- OneMapping
  c1 = c1
  Cleanup <- OneCleanup
  Timeout = 0
SPECIFICATION Spec
INVARIANTS
  TypeOK
  ResourcesFollowRegistration
  EndedMeansReleased
  SlamToldInOrder
  SavedBeforeAnswer
PROPERTIES
  ImplementsLifecycleSafely
