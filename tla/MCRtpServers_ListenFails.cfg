SPECIFICATION Spec
CONSTANTS
  n1 = n1
  h1 = h1
  h2 = h2
  None = None
  Opens = {h1, h2}
  Names = {n1}
  NameOf <- OneName
  Modes <- Passive
  Pausable = {h1}
INVARIANT TimeoutReportedOnce
CHECK_DEADLOCK FALSE
