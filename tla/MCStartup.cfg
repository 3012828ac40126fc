\* Every board with at most one thing wrong, a memory of three bytes of three bits, a heap
\* and a stack space that fail at every allocation in turn; two channels, each calibrated
\* twice; samples enough for a channel to be locked while the other one counts; keys and
\* products of two revisions.
SPECIFICATION AllSpec
CONSTANTS
  Boards <- MCBoards
  HeapSizes = {0, 2, 4, 5}
  QueueSizes <- MCQueueSizes
  StackSpaces = {1, 3, 5, 6}
  TaskStacks <- MCTaskStacks
  RamSize = 3
  Width = 3
  BootPolls = 3
  Channels = {c1, c2}
  MaxPerChannel = 2
  Second = 2
  MaxTime = 6
  IF8I_NUM_CH = 2
  over_current_timer_expired = 1
  MaxRolling = 5
  Products <- MCProducts
  Keys <- MCKeys
INVARIANTS
  StartedSystemIsSound NothingIsServedUnprepared LockedChannelsAreOff UpgradeKeepsCompatibleKeys
PROPERTIES
  EveryCrashIsLogged SuccessIsShownForASecond
  OverCurrentIsLocked
\* A system that was stopped by an assertion stays so.
CHECK_DEADLOCK FALSE
