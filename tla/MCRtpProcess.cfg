SPECIFICATION Spec
CONSTANTS
  Handlers = {h1}
  h1 = h1
  Names = {n1, n2}
  n1 = n1
  n2 = n2
  OneThread = TRUE
  CacheLimit = 1
  TimeoutSec = 2
  Pauses <- MCPauses
  MaxFrames = 3
  MaxFiles = 2
  MaxAge = 5
INVARIANTS
  TypeOK
  FramesKept
  DetachedInTime
  RecordedOnce
PROPERTIES
  PublishedIsKept
CHECK_DEADLOCK FALSE
