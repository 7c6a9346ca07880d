CONSTANTS
  Kind = {"frame", "imu"}
  QueueCap = 1
  WireCap = 1
  MaxSession = 1
  MaxPush = 3
  Window = 1
  AnswerCap = 1
SPECIFICATION FairPathSpec
INVARIANTS
  PathTypeOK
  PublishedWithoutHoles
  SomebodyWillStop
  PublishersMatch
  PublishedBeforeStop
  LateStopPublishesAll
PROPERTIES
  StopEnds
  StoppedSessionUploaded
  PublishersLiveOnce
CHECK_DEADLOCK FALSE
