\* Two channels, each calibrated twice.
SPECIFICATION FairSpec
CONSTANTS
  Channels = {c1, c2}
  MaxPerChannel = 2
  Second = 2
  MaxTime = 6
PROPERTY PendingWriteIsDone
\* The host asserts when the flash fails.
CHECK_DEADLOCK FALSE
