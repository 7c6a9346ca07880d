CONSTANTS
  Kind = {"frame", "imu", "baro"}
  QueueCap = 2
  WireCap = 1
  MaxSession = 2
  MaxPush = 4
SPECIFICATION Spec
INVARIANTS
  TypeOK
  UploadInOrder
  LatestBaro
  CleanStopDrains
  OneSessionAtATime
  ProgressBounded
PROPERTY
  ImplementsEngineLifecycle
CHECK_DEADLOCK FALSE
