\* Calls may come so late that a cycle ends incomplete, and a test may fail.
SPECIFICATION Spec
CONSTANTS
  NumberOfDiagTests = 3
  Period <- Period3
  PeriodInLoop <- PeriodInLoop3
  Iterations <- Iterations3
  TimesToRun <- Once3
  SelfConfiguring = {1, 2}
  MayFail = {1}
  CyclePeriod = 10
  IterationPeriod = 1
  MonitorTotalTime = FALSE
  MonitorIterations = FALSE
  ClockWrap = 36
  CycleWrap = 2
  MaxGap = 3
  MaxRunTime = 1
INVARIANTS RememberedCompletionIsTrue
PROPERTIES NoLoopSpansCycles NoDueTestLeftBehind ImplementsDiagCycle
CHECK_DEADLOCK FALSE
