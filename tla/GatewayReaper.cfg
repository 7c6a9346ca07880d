CONSTANTS
  m1 = m1
  Sid <- OneMapping
  Mapping <- OneMapping
  Cleanup = {}
  Timeout = 1
SPECIFICATION ReaperSpec
PROPERTY
  ReapsOnlyInactive
