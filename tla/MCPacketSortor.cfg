SPECIFICATION Spec
CONSTANTS
  SeqMax = 15
  MaxBufferSize = 3
  MaxDistance = 3
  Starts <- Beginnings
  Jumps <- Restarts
  Window = 3
  MaxPackets = 8
  MaxLost = 1
  MaxDisturbances = 2
INVARIANTS TypeOK Bounded KeepsFlowing InOrder NothingDropped
CHECK_DEADLOCK FALSE
