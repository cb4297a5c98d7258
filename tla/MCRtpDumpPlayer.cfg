SPECIFICATION FairSpec
CONSTANTS
  Callers = {"c1"}
  Files <- AllFiles
  Transports <- BothTransports
  Speeds <- SlowAndDouble
  StartOffsets <- WithOffset
  SeekSteps <- Steps
  StampMod = 256
  MsMod = 65536
  TicksPerMs = 2
  PollMs = 2
  MaxCalls = 3
  MaxPause = 2
  MaxLag = 1
INVARIANTS TypeOK PlaysOnOneChain OnTime
PROPERTIES PlaybackEnds
CHECK_DEADLOCK FALSE
