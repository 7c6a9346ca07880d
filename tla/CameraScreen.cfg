CONSTANTS
  MaxVisit = 3
  MaxCalls = 2
  MaxOrphans = 2
SPECIFICATION FairSpec
INVARIANTS
  TypeOK
  SelfClosingOnTop
  ButtonTellsTruth
  UploadingIsQuiet
  ReleasedAtHome
PROPERTIES
  HomeAfterUpload
  UploadModalCloses
CHECK_DEADLOCK FALSE
