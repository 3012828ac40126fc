\* The tightest cycle period these tests fit, with the monitoring switched on,
\* called and run fairly.
SPECIFICATION FairSpec
CONSTANTS
  NumberOfDiagTests = 2
  Period <- Period2
  PeriodInLoop <- PeriodInLoop2
  Iterations <- Iterations2
  TimesToRun <- Once2
  SelfConfiguring = {1}
  MayFail = {}
  CyclePeriod = 13
  IterationPeriod = 4
  MonitorTotalTime = TRUE
  MonitorIterations = TRUE
  ClockWrap = 36
  CycleWrap = 2
  MaxGap = 1
  MaxRunTime = 1
INVARIANTS WatchdogKickedInTime EveryCycleMeetsItsDeadline CompletionsAreCloseEnough
PROPERTIES EveryTestRunsInEveryCycle
CHECK_DEADLOCK FALSE
