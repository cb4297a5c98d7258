SPECIFICATION FairSpec
CONSTANTS
  Setups <- OnlyThree
  Streams = {"s1", "s2"}
  Players = {p1, p2, p3}
  p1 = p1
  p2 = p2
  p3 = p3
  Transports <- OnlyTcp
  Outcomes <- Playing
  Controls <- Jump
  None = None
PROPERTY RequestsAreAnswered
CHECK_DEADLOCK FALSE
