\* Test 1 configured to run twice per diagnostic cycle, with a cycle period that
\* leaves it time enough.
SPECIFICATION FairSpec
CONSTANTS
  NumberOfDiagTests = 2
  Period <- Period2
  PeriodInLoop <- Period2
  Iterations <- Iterations2
  TimesToRun <- Twice2
  SelfConfiguring = {1}
  MayFail = {}
  CyclePeriod = 22
  IterationPeriod = 1
  MonitorTotalTime = FALSE
  MonitorIterations = FALSE
  ClockWrap = 64
  CycleWrap = 2
  MaxGap = 1
  MaxRunTime = 1
PROPERTIES EveryTestRunsInEveryCycle
CHECK_DEADLOCK FALSE
