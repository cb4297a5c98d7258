SPECIFICATION FairSpec
CONSTANTS
  Setups <- BothSetups
  Streams = {"s"}
  Players = {p1, p2, p3}
  p1 = p1
  p2 = p2
  p3 = p3
  Transports <- Both
  Outcomes <- AllOutcomes
  Controls <- AllControls
  None = None
INVARIANTS TypeOK AnsweredOnce StoppedOnce PlayingIsListed ReportedOnce
 
CHECK_DEADLOCK FALSE
