------------------------- MODULE DiagnosticScheduler -------------------------
(***************************************************************************)
(* The run-time diagnostic scheduler (DiagnosticScheduler.cpp), together   *)
(* with the part of the base class DiagnosticTest it drives                *)
(* (DiagnosticTesting.cpp).  RunScheduled is called again and again from   *)
(* the background; a call reads the time stamp once, decides what the call *)
(* is for, and possibly runs one iteration of every test that is due.      *)
(*                                                                         *)
(* The call is split where time passes inside it: RunScheduled is the part *)
(* up to the first RunTest, RunDueTest is one RunTest with the bookkeeping *)
(* that follows it.  A test is abstracted to the number of iterations one  *)
(* loop of it takes; the tests have modules of their own.                  *)
(***************************************************************************)
EXTENDS Integers, FiniteSets

CONSTANTS
  NumberOfDiagTests,      \* m_NumberOfDiagTests
  Period,                 \* [test -> iteration period before its first iteration of a loop]
  PeriodInLoop,           \* [test -> iteration period RunTest sets while its loop is open]
  Iterations,             \* [test -> iterations of one loop]
  TimesToRun,             \* [test -> m_NmbrTimesToRunPerDiagCycle]
  SelfConfiguring,        \* the tests whose RunTest calls ConfigForAnyNewDiagCycle
  MayFail,                \* the tests that find a fault
  CyclePeriod,            \* m_PeriodForAllDiagnosticsToCompleteInMS
  IterationPeriod,        \* m_PeriodForOneDiagnosticIteration
  MonitorTotalTime,       \* m_MonitorIndividualTotalTestingTime
  MonitorIterations,      \* m_MonitorIndividualTestIterationTimes
  ClockWrap,              \* elapsed times are computed modulo this (2^32 ms)
  CycleWrap,              \* m_NumberOfDiagCycles counts modulo this (2^32)
  MaxGap,                 \* bound: ticks between two calls of RunScheduled
  MaxRunTime              \* bound: ticks one RunTest takes

Tests == 1..NumberOfDiagTests

ASSUME SchedulerAssumption ==
  /\ NumberOfDiagTests \in Nat
  /\ Period \in [Tests -> Nat \ {0}]
  /\ PeriodInLoop \in [Tests -> Nat \ {0}]
  /\ Iterations \in [Tests -> Nat \ {0}]
  /\ TimesToRun \in [Tests -> Nat \ {0}]
  /\ SelfConfiguring \subseteq Tests
  /\ MayFail \subseteq Tests
  /\ CyclePeriod \in Nat
  /\ IterationPeriod \in Nat
  /\ MonitorTotalTime \in BOOLEAN
  /\ MonitorIterations \in BOOLEAN
  /\ ClockWrap \in Nat \ {0}
  /\ CycleWrap \in Nat \ {0}
  /\ MaxGap \in Nat /\ MaxGap < ClockWrap
  /\ MaxRunTime \in Nat

VARIABLES
  now,                            \* the cycle counter, in the unit of the periods
  wait,                           \* ticks since the program last took a step
  control,                        \* "background", "testing" or "halted"
  currentSchedulerState,          \* m_CurrentSchedulerState
  testEnumeration,                \* m_ppTestEnumeration
  timestampCurrent,               \* m_TimestampCurrent
  timeTestCycleStarted,           \* m_TimeTestCycleStarted
  timeLastIterationPeriodExpired, \* m_TimeLastIterationPeriodExpired
  numberOfDiagCycles,             \* m_NumberOfDiagCycles
  testData,                       \* m_TestExecutionData of every test
  lastKick,                       \* when the watchdog was last kicked
  crash                           \* the error code given to OS_Assert

clockVars     == <<now, wait>>
schedulerVars == <<testEnumeration, timestampCurrent, timeTestCycleStarted,
                   timeLastIterationPeriodExpired, numberOfDiagCycles>>
vars == <<now, wait, control, currentSchedulerState, testEnumeration,
          timestampCurrent, timeTestCycleStarted,
          timeLastIterationPeriodExpired, numberOfDiagCycles, testData,
          lastKick, crash>>

SchedulerStates ==
  {"MAX_PERIOD_EXPIRED_ALL_TESTS_COMPLETE", "MAX_PERIOD_EXPIRED_INCOMPLETE_TESTING",
   "TEST_ITERATIONS_SCHEDULED", "NO_TEST_ITERATIONS_SCHEDULED",
   "NO_TESTS_TO_RUN_ALL_COMPLETED", "NO_NEW_SCHEDULING_PERIOD"}

TestStates == {"TEST_IDLE", "TEST_IN_PROGRESS", "TEST_LOOP_COMPLETE", "TEST_FAILURE"}

NoCrash   == <<0, "none">>
SchedulerTestType == 0

\* ConfigureErrorCode: the error is labelled with the type of who found it.
ConfigureErrorCode(error, testType) == <<testType, error>>

Clock == 0..(ClockWrap - 1)

\* ComputeElapsedTimeMS: the difference is cut to 32 bits.
ComputeElapsedTimeMS(current, previous) == (current - previous) % ClockWrap

(***************************************************************************)
(* The predicates the scheduler decides by, for the time stamp ts.         *)
(***************************************************************************)
IsDiagnosticCyleTimePeriodExpired(ts) ==
  ComputeElapsedTimeMS(ts, timeTestCycleStarted) >= CyclePeriod

\* Mutant: expired one unit late.
IsIterationExpiredOneLate(ts) ==
  ComputeElapsedTimeMS(ts, timeLastIterationPeriodExpired) > IterationPeriod

IsIterationWithinDiagnosticCycleExpired(ts) ==
  ComputeElapsedTimeMS(ts, timeLastIterationPeriodExpired) >= IterationPeriod

IsTestingCompleteForDiagCycle(t) == testData[t].timesRan >= TimesToRun[t]

IsTestScheduledToRun(t, ts) ==
  ComputeElapsedTimeMS(ts, testData[t].iterationComplete) >= testData[t].period

\* Mutant: the loop stops at the first complete test.
IsSomeTestComplete == \E t \in Tests : IsTestingCompleteForDiagCycle(t)

AreAllTestsComplete == \A t \in Tests : IsTestingCompleteForDiagCycle(t)

ToBeRun(from, ts) ==
  {t \in Tests : /\ t >= from
                 /\ ~IsTestingCompleteForDiagCycle(t)
                 /\ IsTestScheduledToRun(t, ts)}

\* Mutant: the search for a due test does not stop at the first.
IsLastToRun(t, from, ts) ==
  t \in ToBeRun(from, ts) /\ \A u \in ToBeRun(from, ts) : u <= t

\* t is the test the walk from the given place in the list stops at.
IsNextToRun(t, from, ts) ==
  t \in ToBeRun(from, ts) /\ \A u \in ToBeRun(from, ts) : t <= u

(***************************************************************************)
(* Initially: the tests as BlackfinDiagRuntime configures them and the     *)
(* scheduler as its constructor leaves it, soon after the counter's reset.  *)
(***************************************************************************)
InitialTestData(t) ==
  [state |-> "TEST_IDLE", period |-> Period[t], timesRan |-> 0, iteration |-> 0,
   iterationComplete |-> 0, testStart |-> 0, testComplete |-> 0,
   maxBetweenCompletions |-> 0, iterationDuration |-> 0]

Init ==
  /\ now \in 0..MaxGap
  /\ wait = 0
  /\ control = "background"
  /\ currentSchedulerState = "MAX_PERIOD_EXPIRED_ALL_TESTS_COMPLETE"
  /\ testEnumeration = NumberOfDiagTests + 1
  /\ timestampCurrent = now
  /\ timeTestCycleStarted = now
  /\ timeLastIterationPeriodExpired = now
  /\ numberOfDiagCycles = 0
  /\ testData = [t \in Tests |-> InitialTestData(t)]
  /\ lastKick = now
  /\ crash = NoCrash

\* Time passes: other tasks run between two calls, and a test takes time.
Tick ==
  /\ \/ control = "background" /\ wait < MaxGap
     \/ control = "testing" /\ wait < MaxRunTime
  /\ now' = (now + 1) % ClockWrap
  /\ wait' = wait + 1
  /\ UNCHANGED <<control, currentSchedulerState, schedulerVars, testData, lastKick, crash>>

(***************************************************************************)
(* RunScheduled up to its first RunTest: DetermineCurrentSchedulerState    *)
(* and the switch on its answer, one action per way through.               *)
(***************************************************************************)
\* Mutant: the watchdog is not kicked.
ForgetWatchdog == lastKick' = lastKick

\* m_KickWatchdogTimer, called when one of the two periods has expired.
KickWatchdog == lastKick' = now

\* Mutant: the counts of the old cycle survive.
KeepCount(d) == d

\* SetNumberOfTimesRanThisDiagCycle(0).
ResetCount(d) == [d EXCEPT !.timesRan = 0]

\* Every call starts by reading the time stamp.
EnterRunScheduled ==
  /\ control = "background"
  /\ timestampCurrent' = now
  /\ now' = now
  /\ wait' = 0

\* The diagnostic cycle is over and every test has done its runs: start the next one.
StartNextCycle ==
  /\ EnterRunScheduled
  /\ IsDiagnosticCyleTimePeriodExpired(now)
  /\ AreAllTestsComplete
  /\ KickWatchdog
  /\ timeTestCycleStarted' = now
  /\ numberOfDiagCycles' = (numberOfDiagCycles + 1) % CycleWrap
  /\ currentSchedulerState' = "NO_NEW_SCHEDULING_PERIOD"
  /\ testData' = [t \in Tests |-> ResetCount(testData[t])]
  /\ UNCHANGED <<control, testEnumeration, timeLastIterationPeriodExpired, crash>>

\* The diagnostic cycle is over and a test is not done: OS_Assert.
CrashOnIncompleteCycle ==
  /\ EnterRunScheduled
  /\ IsDiagnosticCyleTimePeriodExpired(now)
  /\ ~AreAllTestsComplete
  /\ KickWatchdog
  /\ currentSchedulerState' = "MAX_PERIOD_EXPIRED_INCOMPLETE_TESTING"
  /\ crash' = ConfigureErrorCode("ALL_DIAG_DID_NOT_COMPLETE_ERR", SchedulerTestType)
  /\ control' = "halted"
  /\ UNCHANGED <<testEnumeration, timeTestCycleStarted, timeLastIterationPeriodExpired,
                 numberOfDiagCycles, testData>>

\* What the three ways of an expired iteration period have in common.
IterationPeriodExpires ==
  /\ EnterRunScheduled
  /\ ~IsDiagnosticCyleTimePeriodExpired(now)
  /\ IsIterationWithinDiagnosticCycleExpired(now)
  /\ KickWatchdog
  /\ timeLastIterationPeriodExpired' = now
  /\ UNCHANGED <<timeTestCycleStarted, numberOfDiagCycles, testData, crash>>

\* The previous call found everything complete, or this one does.
RestUntilNextCycle ==
  /\ IterationPeriodExpires
  /\ currentSchedulerState = "NO_TESTS_TO_RUN_ALL_COMPLETED" \/ AreAllTestsComplete
  /\ currentSchedulerState' = "NO_TESTS_TO_RUN_ALL_COMPLETED"
  /\ UNCHANGED <<control, testEnumeration>>

\* DetermineIfIterationsAreScheduled finds no test that is due ...
NothingDue ==
  /\ IterationPeriodExpires
  /\ currentSchedulerState # "NO_TESTS_TO_RUN_ALL_COMPLETED"
  /\ ~AreAllTestsComplete
  /\ ToBeRun(1, now) = {}
  /\ currentSchedulerState' = "NO_TEST_ITERATIONS_SCHEDULED"
  /\ UNCHANGED <<control, testEnumeration>>

\* ... or leaves the enumeration at the first one that is.
ScheduleIterations ==
  /\ IterationPeriodExpires
  /\ currentSchedulerState # "NO_TESTS_TO_RUN_ALL_COMPLETED"
  /\ \E t \in Tests : IsNextToRun(t, 1, now) /\ testEnumeration' = t
  /\ currentSchedulerState' = "TEST_ITERATIONS_SCHEDULED"
  /\ control' = "testing"

\* Neither period has expired.
NoNewPeriod ==
  /\ EnterRunScheduled
  /\ ~IsDiagnosticCyleTimePeriodExpired(now)
  /\ ~IsIterationWithinDiagnosticCycleExpired(now)
  /\ currentSchedulerState' = "NO_NEW_SCHEDULING_PERIOD"
  /\ UNCHANGED <<control, testEnumeration, timeTestCycleStarted,
                 timeLastIterationPeriodExpired, numberOfDiagCycles, testData,
                 lastKick, crash>>

RunScheduled ==
  \/ StartNextCycle
  \/ CrashOnIncompleteCycle
  \/ RestUntilNextCycle
  \/ NothingDue
  \/ ScheduleIterations
  \/ NoNewPeriod

(***************************************************************************)
(* DoMoreDiagnosticTesting: the enumeration walks to the end of the list   *)
(* and runs every test that is not complete and is due, all by the time    *)
(* stamp read when RunScheduled was entered.                               *)
(***************************************************************************)
\* ConfigForAnyNewDiagCycle: a loop that starts resets the count and the test.
ConfigForAnyNewDiagCycle(t, d) ==
  IF t \in SelfConfiguring /\ d.state \in {"TEST_LOOP_COMPLETE", "TEST_IDLE"}
  THEN [d EXCEPT !.timesRan = 0, !.iteration = 0]
  ELSE d

\* RunTest: one more iteration; the last one of a loop completes it.
RunTest(t, d) ==
  LET c == ConfigForAnyNewDiagCycle(t, d)
      completes == c.iteration + 1 >= Iterations[t]
  IN [c EXCEPT !.state     = IF completes THEN "TEST_LOOP_COMPLETE" ELSE "TEST_IN_PROGRESS",
               !.iteration = IF completes THEN Iterations[t] ELSE @ + 1,
               !.period    = IF completes THEN Period[t] ELSE PeriodInLoop[t]]

\* SetTestStartTime, when the previous loop of the test is complete.
WithStartTime(d) ==
  IF d.state = "TEST_LOOP_COMPLETE" THEN [d EXCEPT !.testStart = timestampCurrent] ELSE d

\* Mutant: the time of the completion is not kept.
KeepCompletionTime(d) == d.testComplete

\* SetTestCompletedTimestamp, when completions are monitored.
CompletionTime(d) == IF MonitorTotalTime THEN timestampCurrent ELSE d.testComplete

\* The switch on the result of RunTest.
Account(d) ==
  LET between == ComputeElapsedTimeMS(timestampCurrent, d.testComplete)
  IN IF d.state = "TEST_LOOP_COMPLETE"
     THEN [d EXCEPT !.timesRan = @ + 1,
                    !.testComplete = CompletionTime(d),
                    !.maxBetweenCompletions =
                       IF MonitorTotalTime /\ between > @ THEN between ELSE @]
     ELSE IF MonitorIterations
     THEN [d EXCEPT !.iterationDuration = ComputeElapsedTimeMS(timestampCurrent, d.testStart)]
     ELSE d

RunDueTest(t) ==
  /\ control = "testing"
  /\ IsNextToRun(t, testEnumeration, timestampCurrent)
  /\ testEnumeration' = t + 1
  /\ testData' = [testData EXCEPT ![t] =
       [Account(RunTest(t, WithStartTime(@))) EXCEPT !.iterationComplete = timestampCurrent]]
  /\ now' = now
  /\ wait' = 0
  /\ UNCHANGED <<control, currentSchedulerState, timestampCurrent, timeTestCycleStarted,
                 timeLastIterationPeriodExpired, numberOfDiagCycles, lastKick, crash>>

\* RunTest reports a failure, which the scheduler turns into OS_Assert; the
\* tests that call OS_Assert themselves stop the system in the same way.
RunFailingTest(t) ==
  /\ control = "testing"
  /\ t \in MayFail
  /\ IsNextToRun(t, testEnumeration, timestampCurrent)
  /\ testEnumeration' = t + 1
  /\ testData' = [testData EXCEPT ![t] =
       [ConfigForAnyNewDiagCycle(t, WithStartTime(@)) EXCEPT
          !.state = "TEST_FAILURE", !.iterationComplete = timestampCurrent]]
  /\ crash' = ConfigureErrorCode("TEST_FAILURE", t)
  /\ control' = "halted"
  /\ now' = now
  /\ wait' = 0
  /\ UNCHANGED <<currentSchedulerState, timestampCurrent, timeTestCycleStarted,
                 timeLastIterationPeriodExpired, numberOfDiagCycles, lastKick>>

\* The enumeration reaches the end of the list and RunScheduled returns.
EndOfTestList ==
  /\ control = "testing"
  /\ ToBeRun(testEnumeration, timestampCurrent) = {}
  /\ testEnumeration' = NumberOfDiagTests + 1
  /\ control' = "background"
  /\ now' = now
  /\ wait' = 0
  /\ UNCHANGED <<currentSchedulerState, timestampCurrent, timeTestCycleStarted,
                 timeLastIterationPeriodExpired, numberOfDiagCycles, testData,
                 lastKick, crash>>

DoMoreDiagnosticTesting ==
  \/ \E t \in Tests : RunDueTest(t) \/ RunFailingTest(t)
  \/ EndOfTestList

Next == Tick \/ RunScheduled \/ DoMoreDiagnosticTesting

Spec == Init /\ [][Next]_vars

\* The background loop keeps calling, a test returns, and time goes on.
Fairness ==
  /\ WF_vars(Tick)
  /\ WF_vars(RunScheduled)
  /\ WF_vars(DoMoreDiagnosticTesting)

FairSpec == Spec /\ Fairness

-----------------------------------------------------------------------------
(***************************************************************************)
(* Properties.                                                             *)
(***************************************************************************)

\* Every variable has its type; the enumeration is at a test only while a
\* pass over the list is under way (or was cut short by a failing test).
TypeOK ==
  /\ now \in Clock
  /\ wait \in Nat
  /\ control \in {"background", "testing", "halted"}
  /\ currentSchedulerState \in SchedulerStates
  /\ testEnumeration \in 1..(NumberOfDiagTests + 1)
  /\ timestampCurrent \in Clock
  /\ timeTestCycleStarted \in Clock
  /\ timeLastIterationPeriodExpired \in Clock
  /\ numberOfDiagCycles \in 0..(CycleWrap - 1)
  /\ testData \in [Tests -> [state : TestStates, period : Nat \ {0}, timesRan : Nat,
                             iteration : Nat, iterationComplete : Clock,
                             testStart : Clock, testComplete : Clock,
                             maxBetweenCompletions : Clock, iterationDuration : Clock]]
  /\ lastKick \in Clock
  /\ crash \in {NoCrash, <<SchedulerTestType, "ALL_DIAG_DID_NOT_COMPLETE_ERR">>}
              \cup (MayFail \X {"TEST_FAILURE"})

\* NO_TESTS_TO_RUN_ALL_COMPLETED is remembered from one call to the next and
\* believed without looking again (DetermineCurrentSchedulerState returns
\* early on it): whenever it is believed, every test really is complete.
RememberedCompletionIsTrue ==
  currentSchedulerState = "NO_TESTS_TO_RUN_ALL_COMPLETED" =>
    \A t \in Tests : IsTestingCompleteForDiagCycle(t)

\* No test is run more often in a diagnostic cycle than it is configured to,
\* whatever iterations, resets of the count and cycle ends come in between.
RunsWithinQuota == \A t \in Tests : testData[t].timesRan <= TimesToRun[t]

\* A diagnostic cycle never ends in the middle of a test's loop: the loops a
\* test runs belong to one cycle each.
NoLoopSpansCycles ==
  [][numberOfDiagCycles' # numberOfDiagCycles =>
       \A t \in Tests : testData[t].state # "TEST_IN_PROGRESS"]_vars

\* A pass over the tests leaves none behind: when it returns to the
\* background, no test is both incomplete and due by the pass's time stamp,
\* though the tests it ran changed their counts and periods underway.
NoDueTestLeftBehind ==
  [][control = "testing" /\ control' = "background" =>
       ToBeRun(1, timestampCurrent) = {}]_vars

\* The watchdog is never left alone for longer than the longer of a pass and
\* an iteration period, plus one gap between calls: only expired periods kick it.
LongestPass == (NumberOfDiagTests + 1) * MaxRunTime
WatchdogInterval ==
  MaxGap + IF LongestPass > IterationPeriod - 1 THEN LongestPass ELSE IterationPeriod - 1
WatchdogKickedInTime ==
  control # "halted" => ComputeElapsedTimeMS(now, lastKick) <= WatchdogInterval

\* No two time stamps that are compared are so far apart that the clock has wrapped.
ClockIsWide ==
  /\ WatchdogInterval + MaxGap < ClockWrap
  /\ 2 * (CyclePeriod + LongestPass + MaxGap) < ClockWrap

\* The monitored maximum between two completions of a test stays within two
\* cycle periods and the time by which the second may begin late: a test is done
\* early in one cycle and late in the next at worst, whatever the clock's wrap
\* does to the time stamps.
CompletionsAreCloseEnough ==
  \A t \in Tests : testData[t].maxBetweenCompletions <= 2 * CyclePeriod + LongestPass + MaxGap

\* How long after the start of a cycle the n-th iteration of a test comes at the
\* latest, and what the periods must be for all tests to do their one loop in time.
LatestIteration(t, n) ==
  Period[t] + WatchdogInterval - 1 + (n - 1) * (PeriodInLoop[t] + WatchdogInterval - 1)
TestsFitTheCycle ==
  \A t \in Tests : TimesToRun[t] = 1 /\ LatestIteration(t, Iterations[t]) < CyclePeriod

\* The tests are schedulable: no cycle period ends with a test incomplete.
EveryCycleMeetsItsDeadline ==
  currentSchedulerState # "MAX_PERIOD_EXPIRED_INCOMPLETE_TESTING"

\* Diagnostics never stop: every test completes its runs for a cycle, and is
\* due to run again in a later cycle, over and over.
EveryTestRunsInEveryCycle ==
  \A t \in Tests : /\ []<>IsTestingCompleteForDiagCycle(t)
                   /\ []<>~IsTestingCompleteForDiagCycle(t)

\* The refinement mapping to the abstract diagnostic cycle.
CompleteTests == {t \in Tests : IsTestingCompleteForDiagCycle(t)}
IsHalted      == control = "halted"
Cycle == INSTANCE DiagCycle WITH done <- CompleteTests, stopped <- IsHalted

\* The scheduler implements the diagnostic cycle: tests finish one at a time,
\* a new cycle starts only when all have, and a stop is final.
ImplementsDiagCycle == Cycle!Spec
=============================================================================
