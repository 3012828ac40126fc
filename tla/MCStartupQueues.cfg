\* As MCStartup.cfg: one of the heaps has room for the second queue but not for the first.
SPECIFICATION AllSpec
CONSTANTS
  Boards <- MCBoards
  HeapSizes = {0, 2, 4, 5}
  QueueSizes <- MCQueueSizes
  StackSpaces = {1, 3, 5, 6}
  TaskStacks <- MCTaskStacks
  RamSize = 3
  Width = 3
  BootPolls = 3
  Channels = {c1, c2}
  MaxPerChannel = 2
  Second = 2
  MaxTime = 6
  IF8I_NUM_CH = 2
  over_current_timer_expired = 1
  MaxRolling = 5
  Products <- MCProducts
  Keys <- MCKeys
INVARIANT StartedSystemHasItsQueues
CHECK_DEADLOCK FALSE
