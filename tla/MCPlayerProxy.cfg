SPECIFICATION FairSpec
CONSTANTS
  Proxies = {p1, p2}
  p1 = p1
  p2 = p2
  Keys = {k1}
  k1 = k1
  Kinds <- AllKinds
  RetryCounts <- Some
  DelayMin = 2
  DelayMax = 60
  DelayStep = 3
  PlayTimeout = 10
  Cap = 4
INVARIANTS TypeOK Recovers RetriesAsPromised AnsweredOnce
PROPERTIES Settles
CHECK_DEADLOCK FALSE
