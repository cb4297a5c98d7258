SPECIFICATION FairSpec
CONSTANTS
  n1 = n1
  h1 = h1
  h2 = h2
  None = None
  Opens = {h1, h2}
  Names = {n1}
  NameOf <- OneName
  Modes <- TcpModes
  Pausable = {h1}
INVARIANTS TypeOK StartedTimesOutOnce FailureFreesName
PROPERTY UnfedIsRemoved
CHECK_DEADLOCK FALSE
