SPECIFICATION FairSpec
CONSTANTS
  k1 = k1
  s1 = s1
  s2 = s2
  n1 = n1
  n2 = n2
  r1 = r1
  r2 = r2
  None = None
  Keys = {k1}
  Sources = {s1, s2}
  SourceKey <- OneKey
  Sessions = {n1, n2}
  Requests = {r1, r2}
  SessionOf <- TwoSessions
  KeyOf <- SameKey
PROPERTY TimeoutMeansAbsent
CHECK_DEADLOCK FALSE
