\* Two tasks and the null process share two queues, of two places and of one.
\* Tasks are created with every sort of id, more of them than the stack space
\* and the table of processes hold.
SPECIFICATION OsSpec
CONSTANTS
  input = input
  message = message
  null = null
  q1 = q1
  q2 = q2
  Processes <- ThreeProcesses
  ProcList <- ByPriority
  NullProcess = null
  Queues <- TwoQueues
  QueueSize <- Sizes
  Messages = {m1, m2}
  Ids <- AllIds
  Priorities = {1, 2, 3}
  StackSizes = {1, 2}
  StackSpace = 5
  MAX_PROCS = 4
INVARIANTS NoLostWakeup FirstReadyRuns ListIsInOrder StacksAreApart
PROPERTIES ImplementsQueues FirstProcessIsServed
\* A write past the end of a table stops the creation of tasks.
CHECK_DEADLOCK FALSE
