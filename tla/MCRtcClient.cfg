SPECIFICATION FairSpec
CONSTANTS
  Users <- BothUsers
  Modes <- AllModes
  Enabled <- SoundAndVision
  MaxClicks = 3
INVARIANTS TypeOK PageInControl CloseReleases
PROPERTIES Settles
CHECK_DEADLOCK FALSE
