---------------------- MODULE DiagnosticSchedulerProofs ----------------------
(***************************************************************************)
(* Proofs about the diagnostic scheduler, for any number of tests and any  *)
(* periods, iterations and quotas: first what holds whatever the timing,   *)
(* then the bounds on the times, which need calls and tests that take no   *)
(* longer than MaxGap and MaxRunTime and a clock that is wide enough.      *)
(***************************************************************************)
EXTENDS DiagnosticScheduler, TLAPS

\* The records in which the scheduler keeps a test's execution data.
TestDataRecord ==
  [state : TestStates, period : Nat \ {0}, timesRan : Nat, iteration : Nat,
   iterationComplete : Clock, testStart : Clock, testComplete : Clock,
   maxBetweenCompletions : Clock, iterationDuration : Clock]

\* An elapsed time is a reading of the clock too, and none has elapsed since now.
LEMMA ElapsedIsClock ==
  ASSUME NEW a \in Clock, NEW b \in Clock
  PROVE  /\ ComputeElapsedTimeMS(a, b) \in Clock
         /\ ComputeElapsedTimeMS(a, a) = 0
  BY SchedulerAssumption DEF Clock, ComputeElapsedTimeMS

\* The clock stays in its range.
LEMMA ClockWraps ==
  ASSUME NEW a \in Clock
  PROVE  (a + 1) % ClockWrap \in Clock
  BY SchedulerAssumption DEF Clock

\* SetTestStartTime keeps a test's data well formed and touches nothing else.
LEMMA StartTimeType ==
  ASSUME NEW d \in TestDataRecord, timestampCurrent \in Clock
  PROVE  /\ WithStartTime(d) \in TestDataRecord
         /\ WithStartTime(d).state = d.state
         /\ WithStartTime(d).timesRan = d.timesRan
  BY DEF WithStartTime, TestDataRecord

\* ConfigForAnyNewDiagCycle keeps the data well formed and never raises the count.
LEMMA ConfigType ==
  ASSUME NEW t \in Tests, NEW d \in TestDataRecord
  PROVE  /\ ConfigForAnyNewDiagCycle(t, d) \in TestDataRecord
         /\ ConfigForAnyNewDiagCycle(t, d).timesRan <= d.timesRan
  <1>1. d.timesRan \in Nat
    BY DEF TestDataRecord
  <1>2. CASE t \in SelfConfiguring /\ d.state \in {"TEST_LOOP_COMPLETE", "TEST_IDLE"}
    <2>1. ConfigForAnyNewDiagCycle(t, d) = [d EXCEPT !.timesRan = 0, !.iteration = 0]
      BY <1>2 DEF ConfigForAnyNewDiagCycle
    <2>2. [d EXCEPT !.timesRan = 0, !.iteration = 0] \in TestDataRecord
      BY DEF TestDataRecord
    <2>3. [d EXCEPT !.timesRan = 0, !.iteration = 0].timesRan = 0
      BY DEF TestDataRecord
    <2>4. QED
      BY <1>1, <2>1, <2>2, <2>3
  <1>3. CASE ~(t \in SelfConfiguring /\ d.state \in {"TEST_LOOP_COMPLETE", "TEST_IDLE"})
    <2>1. ConfigForAnyNewDiagCycle(t, d) = d
      BY <1>3 DEF ConfigForAnyNewDiagCycle
    <2>2. QED
      BY <1>1, <2>1
  <1>4. QED
    BY <1>2, <1>3

\* RunTest answers with an iteration in progress or a loop complete.
LEMMA RunTestType ==
  ASSUME NEW t \in Tests, NEW d \in TestDataRecord
  PROVE  /\ RunTest(t, d) \in TestDataRecord
         /\ RunTest(t, d).timesRan <= d.timesRan
         /\ RunTest(t, d).state \in {"TEST_LOOP_COMPLETE", "TEST_IN_PROGRESS"}
  <1> DEFINE c == ConfigForAnyNewDiagCycle(t, d)
  <1>1. c \in TestDataRecord /\ c.timesRan <= d.timesRan
    BY ConfigType
  <1> HIDE DEF c
  <1>2. Period[t] \in Nat \ {0} /\ PeriodInLoop[t] \in Nat \ {0} /\ Iterations[t] \in Nat
    BY SchedulerAssumption
  <1>3. CASE c.iteration + 1 >= Iterations[t]
    <2>1. RunTest(t, d) = [c EXCEPT !.state = "TEST_LOOP_COMPLETE",
                                    !.iteration = Iterations[t], !.period = Period[t]]
      BY <1>1, <1>3 DEF RunTest, c
    <2>2. RunTest(t, d).timesRan = c.timesRan /\ RunTest(t, d).state = "TEST_LOOP_COMPLETE"
      BY <1>1, <2>1 DEF TestDataRecord
    <2>3. RunTest(t, d) \in TestDataRecord
      <3>1. ASSUME NEW n \in Nat, NEW p \in Nat \ {0}, NEW q \in TestStates
            PROVE  [c EXCEPT !.state = q, !.iteration = n, !.period = p] \in TestDataRecord
        BY <1>1 DEF TestDataRecord
      <3>2. c.iteration + 1 \in Nat
        BY <1>1 DEF TestDataRecord
      <3>3. QED
        BY <1>2, <2>1, <3>1, <3>2 DEF TestStates
    <2>4. QED
      BY <1>1, <2>2, <2>3
  <1>4. CASE ~(c.iteration + 1 >= Iterations[t])
    <2>1. RunTest(t, d) = [c EXCEPT !.state = "TEST_IN_PROGRESS",
                                    !.iteration = c.iteration + 1, !.period = PeriodInLoop[t]]
      BY <1>1, <1>4 DEF RunTest, c
    <2>2. RunTest(t, d).timesRan = c.timesRan /\ RunTest(t, d).state = "TEST_IN_PROGRESS"
      BY <1>1, <2>1 DEF TestDataRecord
    <2>3. RunTest(t, d) \in TestDataRecord
      <3>1. ASSUME NEW n \in Nat, NEW p \in Nat \ {0}, NEW q \in TestStates
            PROVE  [c EXCEPT !.state = q, !.iteration = n, !.period = p] \in TestDataRecord
        BY <1>1 DEF TestDataRecord
      <3>2. c.iteration + 1 \in Nat
        BY <1>1 DEF TestDataRecord
      <3>3. QED
        BY <1>2, <2>1, <3>1, <3>2 DEF TestStates
    <2>4. QED
      BY <1>1, <2>2, <2>3
  <1>5. QED
    BY <1>3, <1>4

\* A completed loop is counted once, an iteration in progress not at all.
LEMMA AccountType ==
  ASSUME NEW d \in TestDataRecord, timestampCurrent \in Clock
  PROVE  /\ Account(d) \in TestDataRecord
         /\ Account(d).state = d.state
         /\ Account(d).timesRan = IF d.state = "TEST_LOOP_COMPLETE"
                                  THEN d.timesRan + 1 ELSE d.timesRan
  <1>1. /\ ComputeElapsedTimeMS(timestampCurrent, d.testComplete) \in Clock
        /\ ComputeElapsedTimeMS(timestampCurrent, d.testStart) \in Clock
    BY ElapsedIsClock DEF TestDataRecord
  <1>2. CASE d.state = "TEST_LOOP_COMPLETE"
    <2>1. PICK n \in Nat, c \in Clock, m \in Clock :
            /\ n = d.timesRan + 1
            /\ Account(d) = [d EXCEPT !.timesRan = n, !.testComplete = c,
                                      !.maxBetweenCompletions = m]
      <3>1. /\ d.testComplete \in Clock /\ d.maxBetweenCompletions \in Clock
            /\ d.timesRan + 1 \in Nat
        BY DEF TestDataRecord
      <3>2. Account(d) =
              [d EXCEPT !.timesRan = d.timesRan + 1,
                        !.testComplete = IF MonitorTotalTime THEN timestampCurrent ELSE d.testComplete,
                        !.maxBetweenCompletions =
                          IF /\ MonitorTotalTime
                             /\ ComputeElapsedTimeMS(timestampCurrent, d.testComplete)
                                  > d.maxBetweenCompletions
                          THEN ComputeElapsedTimeMS(timestampCurrent, d.testComplete)
                          ELSE d.maxBetweenCompletions]
        BY <1>2 DEF Account, CompletionTime, TestDataRecord
      <3>3. QED
        BY <1>1, <3>1, <3>2
    <2>2. /\ [d EXCEPT !.timesRan = n, !.testComplete = c,
                         !.maxBetweenCompletions = m] \in TestDataRecord
          /\ [d EXCEPT !.timesRan = n, !.testComplete = c,
                         !.maxBetweenCompletions = m].timesRan = n
          /\ [d EXCEPT !.timesRan = n, !.testComplete = c,
                         !.maxBetweenCompletions = m].state = d.state
      BY DEF TestDataRecord
    <2>3. QED
      BY <1>2, <2>1, <2>2
  <1>3. CASE d.state # "TEST_LOOP_COMPLETE" /\ MonitorIterations
    <2>1. Account(d) = [d EXCEPT !.iterationDuration =
                                   ComputeElapsedTimeMS(timestampCurrent, d.testStart)]
      BY <1>3 DEF Account
    <2>2. QED
      BY <1>1, <1>3, <2>1 DEF TestDataRecord
  <1>4. CASE d.state # "TEST_LOOP_COMPLETE" /\ ~MonitorIterations
    BY <1>4 DEF Account
  <1>5. QED
    BY <1>2, <1>3, <1>4

-----------------------------------------------------------------------------
(***************************************************************************)
(* The inductive invariant.  What a call of the scheduler believes about   *)
(* earlier calls is true only because tests run in one scheduler state,    *)
(* because a complete test is never inside a loop, and because the part of *)
(* the list a pass has walked over holds nothing that is still due.        *)
(***************************************************************************)
TestsRunOnlyWhenScheduled ==
  control = "testing" => currentSchedulerState = "TEST_ITERATIONS_SCHEDULED"

CompleteTestsAreBetweenLoops ==
  \A t \in Tests : IsTestingCompleteForDiagCycle(t) => testData[t].state # "TEST_IN_PROGRESS"

WalkedOverPartIsDone ==
  control = "testing" =>
    \A t \in ToBeRun(1, timestampCurrent) : t >= testEnumeration

IInv ==
  /\ TypeOK
  /\ TestsRunOnlyWhenScheduled
  /\ RememberedCompletionIsTrue
  /\ RunsWithinQuota
  /\ CompleteTestsAreBetweenLoops
  /\ WalkedOverPartIsDone

\* The constructor and the runtime configuration establish the invariant.
LEMMA InitInvariant == Init => IInv
  <1> SUFFICES ASSUME Init
               PROVE  IInv
    OBVIOUS
  <1> USE SchedulerAssumption
  <1>1. 0 \in Clock /\ now \in Clock
    BY DEF Init, Clock
  <1>2. \A t \in Tests : InitialTestData(t) \in TestDataRecord
    BY <1>1 DEF InitialTestData, TestDataRecord, TestStates
  <1>3. \A t \in Tests : testData[t].timesRan = 0 /\ testData[t].state = "TEST_IDLE"
    BY DEF Init, InitialTestData
  <1>4. TypeOK
    BY <1>1, <1>2 DEF Init, TypeOK, TestDataRecord, SchedulerStates, NoCrash
  <1>5. QED
    BY <1>3, <1>4 DEF Init, IInv, TestsRunOnlyWhenScheduled, RememberedCompletionIsTrue,
       RunsWithinQuota, CompleteTestsAreBetweenLoops, WalkedOverPartIsDone,
       IsTestingCompleteForDiagCycle

\* What one iteration leaves in the data of the test that ran it.
LEMMA RunDueTestEffect ==
  ASSUME IInv, NEW t \in Tests, RunDueTest(t)
  PROVE  /\ testData' \in [Tests -> TestDataRecord]
         /\ \A u \in Tests : u # t => testData'[u] = testData[u]
         /\ testData'[t].iterationComplete = timestampCurrent
         /\ testData'[t].timesRan <= TimesToRun[t]
         /\ testData'[t].timesRan >= TimesToRun[t] => testData'[t].state # "TEST_IN_PROGRESS"
         /\ testData[t].timesRan < TimesToRun[t]
  <1> DEFINE a == WithStartTime(testData[t])
             b == RunTest(t, a)
             c == Account(b)
             d == [c EXCEPT !.iterationComplete = timestampCurrent]
  <1>1. testData \in [Tests -> TestDataRecord] /\ timestampCurrent \in Clock
    BY DEF IInv, TypeOK, TestDataRecord
  <1>2. a \in TestDataRecord /\ a.timesRan = testData[t].timesRan
    BY <1>1, StartTimeType
  <1>3. /\ b \in TestDataRecord /\ b.timesRan <= testData[t].timesRan
        /\ b.state \in {"TEST_LOOP_COMPLETE", "TEST_IN_PROGRESS"}
    BY <1>2, RunTestType
  <1>4. /\ c \in TestDataRecord
        /\ c.state = b.state
        /\ c.timesRan = IF b.state = "TEST_LOOP_COMPLETE" THEN b.timesRan + 1 ELSE b.timesRan
    BY <1>1, <1>3, AccountType
  <1>5. testData' = [testData EXCEPT ![t] = d]
    BY DEF RunDueTest
  <1> HIDE DEF a, b, c
  <1>6. /\ d \in TestDataRecord
        /\ d.state = c.state /\ d.timesRan = c.timesRan
        /\ d.iterationComplete = timestampCurrent
    BY <1>1, <1>4 DEF TestDataRecord
  <1> HIDE DEF d
  <1>7. testData'[t] = d
    BY <1>1, <1>5
  <1>8. /\ testData[t].timesRan < TimesToRun[t]
        /\ testData[t].timesRan \in Nat /\ b.timesRan \in Nat /\ TimesToRun[t] \in Nat
    <2>1. ~IsTestingCompleteForDiagCycle(t)
      BY DEF RunDueTest, IsNextToRun, ToBeRun
    <2>2. testData[t].timesRan \in Nat /\ b.timesRan \in Nat /\ TimesToRun[t] \in Nat
      BY <1>1, <1>3, SchedulerAssumption DEF TestDataRecord
    <2>3. QED
      BY <2>1, <2>2 DEF IsTestingCompleteForDiagCycle
  <1>9. /\ d.timesRan <= TimesToRun[t]
        /\ d.timesRan >= TimesToRun[t] => d.state # "TEST_IN_PROGRESS"
    BY <1>3, <1>4, <1>6, <1>8
  <1>10. /\ testData' \in [Tests -> TestDataRecord]
         /\ \A u \in Tests : u # t => testData'[u] = testData[u]
    BY <1>1, <1>5, <1>6
  <1>11. QED
    BY <1>6, <1>7, <1>8, <1>9, <1>10

\* The steps that leave the tests' data and the walk alone preserve what is
\* said of them.
LEMMA QuietStep ==
  ASSUME IInv, TypeOK', UNCHANGED testData, control' # "testing",
         currentSchedulerState' = "NO_TESTS_TO_RUN_ALL_COMPLETED" => AreAllTestsComplete
  PROVE  IInv'
  <1>1. (\A t \in Tests : IsTestingCompleteForDiagCycle(t))' =
          (\A t \in Tests : IsTestingCompleteForDiagCycle(t))
    BY DEF AreAllTestsComplete, IsTestingCompleteForDiagCycle
  <1>2. RunsWithinQuota' /\ CompleteTestsAreBetweenLoops'
    BY DEF IInv, RunsWithinQuota, CompleteTestsAreBetweenLoops, IsTestingCompleteForDiagCycle
  <1>3. QED
    BY <1>1, <1>2 DEF IInv, TestsRunOnlyWhenScheduled, RememberedCompletionIsTrue,
       AreAllTestsComplete, WalkedOverPartIsDone

\* Every step of the scheduler preserves the invariant.
LEMMA NextInvariant == IInv /\ [Next]_vars => IInv'
  <1> SUFFICES ASSUME IInv, [Next]_vars
               PROVE  IInv'
    OBVIOUS
  <1> USE SchedulerAssumption DEF KickWatchdog
  <1>0. TypeOK /\ testData \in [Tests -> TestDataRecord] /\ now \in Clock
    BY DEF IInv, TypeOK, TestDataRecord
  <1>1. CASE Tick
    <2>1. now' \in Clock /\ wait' \in Nat
      BY <1>0, <1>1, ClockWraps DEF Tick, TypeOK
    <2>2. TypeOK'
      BY <1>0, <1>1, <2>1 DEF Tick, TypeOK, schedulerVars
    <2>3. QED
      BY <1>1, <2>2 DEF IInv, Tick, schedulerVars, TestsRunOnlyWhenScheduled,
         RememberedCompletionIsTrue, AreAllTestsComplete, IsTestingCompleteForDiagCycle,
         RunsWithinQuota, CompleteTestsAreBetweenLoops, WalkedOverPartIsDone, ToBeRun,
         IsTestScheduledToRun
  <1>2. CASE StartNextCycle
    <2>1. /\ testData' \in [Tests -> TestDataRecord]
          /\ \A t \in Tests : /\ testData'[t].timesRan = 0
                               /\ testData'[t].state = testData[t].state
      BY <1>0, <1>2 DEF StartNextCycle, ResetCount, TestDataRecord
    <2>2. (numberOfDiagCycles + 1) % CycleWrap \in 0..(CycleWrap - 1)
      BY <1>0 DEF TypeOK
    <2>3. TypeOK'
      BY <1>0, <1>2, <2>1, <2>2 DEF StartNextCycle, EnterRunScheduled, TypeOK,
         SchedulerStates, TestDataRecord
    <2>4. RunsWithinQuota' /\ CompleteTestsAreBetweenLoops'
      BY <1>0, <2>1 DEF RunsWithinQuota, CompleteTestsAreBetweenLoops,
         IsTestingCompleteForDiagCycle
    <2>5. QED
      BY <1>2, <2>3, <2>4 DEF IInv, StartNextCycle, EnterRunScheduled,
         TestsRunOnlyWhenScheduled, RememberedCompletionIsTrue, WalkedOverPartIsDone
  <1>3. CASE CrashOnIncompleteCycle
    <2>1. TypeOK'
      BY <1>0, <1>3 DEF CrashOnIncompleteCycle, EnterRunScheduled, TypeOK, SchedulerStates,
         ConfigureErrorCode, SchedulerTestType
    <2>2. QED
      BY <1>3, <2>1, QuietStep DEF CrashOnIncompleteCycle
  <1>4. CASE RestUntilNextCycle
    <2>1. TypeOK'
      BY <1>0, <1>4 DEF RestUntilNextCycle, IterationPeriodExpires, EnterRunScheduled,
         TypeOK, SchedulerStates
    <2>2. QED
      BY <1>4, <2>1, QuietStep DEF RestUntilNextCycle, IterationPeriodExpires,
         EnterRunScheduled, IInv, RememberedCompletionIsTrue, AreAllTestsComplete
  <1>5. CASE NothingDue
    <2>1. TypeOK'
      BY <1>0, <1>5 DEF NothingDue, IterationPeriodExpires, EnterRunScheduled,
         TypeOK, SchedulerStates
    <2>2. QED
      BY <1>5, <2>1, QuietStep DEF NothingDue, IterationPeriodExpires, EnterRunScheduled
  <1>6. CASE ScheduleIterations
    <2>1. PICK t \in Tests : IsNextToRun(t, 1, now) /\ testEnumeration' = t
      BY <1>6 DEF ScheduleIterations
    <2>2. TypeOK'
      <3>1. testEnumeration' \in 1..(NumberOfDiagTests + 1)
        BY <2>1 DEF Tests
      <3>2. /\ now' = now /\ wait' = 0 /\ timestampCurrent' = now
            /\ timeLastIterationPeriodExpired' = now /\ lastKick' = now
            /\ control' = "testing"
            /\ currentSchedulerState' = "TEST_ITERATIONS_SCHEDULED"
            /\ UNCHANGED <<timeTestCycleStarted, numberOfDiagCycles, testData, crash>>
        BY <1>6 DEF ScheduleIterations, IterationPeriodExpires, EnterRunScheduled, KickWatchdog
      <3>3. QED
        BY <1>0, <3>1, <3>2 DEF TypeOK, SchedulerStates
    <2>3. ToBeRun(1, timestampCurrent)' = ToBeRun(1, now)
      BY <1>6 DEF ScheduleIterations, IterationPeriodExpires, EnterRunScheduled, ToBeRun,
         IsTestingCompleteForDiagCycle, IsTestScheduledToRun
    <2>4. WalkedOverPartIsDone'
      BY <2>1, <2>3 DEF WalkedOverPartIsDone, IsNextToRun, ToBeRun, Tests
    <2>5. RunsWithinQuota' /\ CompleteTestsAreBetweenLoops'
      BY <1>6 DEF ScheduleIterations, IterationPeriodExpires, IInv, RunsWithinQuota,
         CompleteTestsAreBetweenLoops, IsTestingCompleteForDiagCycle
    <2>6. QED
      BY <1>6, <2>2, <2>4, <2>5 DEF IInv, ScheduleIterations, TestsRunOnlyWhenScheduled,
         RememberedCompletionIsTrue
  <1>7. CASE NoNewPeriod
    <2>1. TypeOK'
      BY <1>0, <1>7 DEF NoNewPeriod, EnterRunScheduled, TypeOK, SchedulerStates
    <2>2. QED
      BY <1>7, <2>1, QuietStep DEF NoNewPeriod, EnterRunScheduled
  <1>8. ASSUME NEW t \in Tests, RunDueTest(t)
        PROVE  IInv'
    <2>1. /\ testData' \in [Tests -> TestDataRecord]
          /\ \A u \in Tests : u # t => testData'[u] = testData[u]
          /\ testData'[t].iterationComplete = timestampCurrent
          /\ testData'[t].timesRan <= TimesToRun[t]
          /\ testData'[t].timesRan >= TimesToRun[t] => testData'[t].state # "TEST_IN_PROGRESS"
      BY <1>8, RunDueTestEffect
    <2>2. /\ control = "testing" /\ control' = control
          /\ currentSchedulerState' = currentSchedulerState
          /\ timestampCurrent' = timestampCurrent
          /\ testEnumeration' = t + 1
          /\ IsNextToRun(t, testEnumeration, timestampCurrent)
      BY <1>8 DEF RunDueTest
    <2>3. TypeOK'
      <3>1. t + 1 \in 1..(NumberOfDiagTests + 1)
        BY DEF Tests
      <3>2. QED
        BY <1>0, <1>8, <2>1, <2>2, <3>1 DEF RunDueTest, TypeOK, TestDataRecord
    <2>4. RunsWithinQuota' /\ CompleteTestsAreBetweenLoops'
      BY <2>1 DEF IInv, RunsWithinQuota, CompleteTestsAreBetweenLoops,
         IsTestingCompleteForDiagCycle
    <2>5. WalkedOverPartIsDone'
      <3> SUFFICES ASSUME NEW u \in ToBeRun(1, timestampCurrent)'
                   PROVE  u >= t + 1
        BY <2>2 DEF WalkedOverPartIsDone
      <3>1. u \in Tests /\ t \in Int /\ u \in Int /\ u >= 1
        BY DEF ToBeRun, Tests
      <3>2. u # t
        <4>1. ComputeElapsedTimeMS(timestampCurrent, timestampCurrent) = 0
          BY <1>0, ElapsedIsClock DEF TypeOK
        <4>2. testData'[t].period \in Nat \ {0}
          BY <2>1 DEF TestDataRecord
        <4>3. ~IsTestScheduledToRun(t, timestampCurrent)'
          BY <2>1, <2>2, <4>1, <4>2 DEF IsTestScheduledToRun, ComputeElapsedTimeMS
        <4>4. QED
          BY <4>3 DEF ToBeRun
      <3>3. u \in ToBeRun(1, timestampCurrent)
        BY <2>1, <2>2, <3>1, <3>2 DEF ToBeRun, IsTestingCompleteForDiagCycle, IsTestScheduledToRun
      <3>4. u >= testEnumeration
        BY <2>2, <3>3 DEF IInv, WalkedOverPartIsDone
      <3>5. t <= u
        BY <2>2, <3>3, <3>4 DEF IsNextToRun, ToBeRun
      <3>6. QED
        BY <3>1, <3>2, <3>5
    <2>6. QED
      BY <2>2, <2>3, <2>4, <2>5 DEF IInv, TestsRunOnlyWhenScheduled, RememberedCompletionIsTrue
  <1>9. ASSUME NEW t \in Tests, RunFailingTest(t)
        PROVE  IInv'
    <2> DEFINE a == WithStartTime(testData[t])
               c == ConfigForAnyNewDiagCycle(t, a)
               d == [c EXCEPT !.state = "TEST_FAILURE", !.iterationComplete = timestampCurrent]
    <2>1. a \in TestDataRecord /\ a.timesRan = testData[t].timesRan
      BY <1>0, StartTimeType DEF TypeOK
    <2>2. c \in TestDataRecord /\ c.timesRan <= testData[t].timesRan
      BY <2>1, ConfigType
    <2>3. testData' = [testData EXCEPT ![t] = d]
      BY <1>9 DEF RunFailingTest
    <2> HIDE DEF c
    <2>4. d \in TestDataRecord /\ d.timesRan = c.timesRan /\ d.state = "TEST_FAILURE"
      BY <1>0, <2>2 DEF TypeOK, TestDataRecord, TestStates
    <2> HIDE DEF d
    <2>5. /\ testData' \in [Tests -> TestDataRecord]
          /\ testData'[t] = d
          /\ \A u \in Tests : u # t => testData'[u] = testData[u]
      BY <1>0, <2>3, <2>4
    <2>6. TypeOK'
      <3>1. t + 1 \in 1..(NumberOfDiagTests + 1) /\ t \in 0..NumberOfDiagTests
        BY DEF Tests
      <3>2. crash' \in MayFail \X {"TEST_FAILURE"}
        BY <1>9 DEF RunFailingTest, ConfigureErrorCode
      <3>3. QED
        BY <1>0, <1>9, <2>5, <3>1, <3>2 DEF RunFailingTest, TypeOK, TestDataRecord
    <2>7. d.timesRan <= TimesToRun[t]
      <3>1. /\ testData[t].timesRan <= TimesToRun[t]
            /\ testData[t].timesRan \in Nat /\ TimesToRun[t] \in Nat /\ c.timesRan \in Nat
        BY <1>0, <2>2 DEF IInv, RunsWithinQuota, TestDataRecord
      <3>2. QED
        BY <2>2, <2>4, <3>1
    <2>8. RunsWithinQuota' /\ CompleteTestsAreBetweenLoops'
      BY <2>4, <2>5, <2>7 DEF IInv, RunsWithinQuota, CompleteTestsAreBetweenLoops,
         IsTestingCompleteForDiagCycle
    <2>9. control' = "halted" /\ currentSchedulerState' = "TEST_ITERATIONS_SCHEDULED"
      BY <1>9 DEF RunFailingTest, IInv, TestsRunOnlyWhenScheduled
    <2>10. QED
      BY <2>6, <2>8, <2>9 DEF IInv, TestsRunOnlyWhenScheduled, RememberedCompletionIsTrue,
         WalkedOverPartIsDone
  <1>10. CASE EndOfTestList
    <2>1. TypeOK'
      BY <1>0, <1>10 DEF EndOfTestList, TypeOK
    <2>2. QED
      BY <1>10, <2>1, QuietStep DEF EndOfTestList, IInv, TestsRunOnlyWhenScheduled
  <1>11. CASE UNCHANGED vars
    BY <1>11 DEF vars, IInv, TypeOK, TestsRunOnlyWhenScheduled,
       RememberedCompletionIsTrue, AreAllTestsComplete, IsTestingCompleteForDiagCycle,
       RunsWithinQuota, CompleteTestsAreBetweenLoops, WalkedOverPartIsDone, ToBeRun,
       IsTestScheduledToRun
  <1>12. QED
    BY <1>1, <1>2, <1>3, <1>4, <1>5, <1>6, <1>7, <1>8, <1>9, <1>10, <1>11
       DEF Next, RunScheduled, DoMoreDiagnosticTesting

-----------------------------------------------------------------------------
\* The invariant holds in every state of the scheduler.
THEOREM InvariantHolds == Spec => []IInv
  <1>1. QED
    BY InitInvariant, NextInvariant, PTL DEF Spec

\* Type correctness: in particular the enumeration never leaves the list of
\* tests and every time stamp is a reading of the clock.
THEOREM TypeCorrect == Spec => []TypeOK
  <1>1. IInv => TypeOK
    BY DEF IInv
  <1>2. QED
    BY <1>1, InvariantHolds, PTL

\* DetermineCurrentSchedulerState may return early on the remembered
\* NO_TESTS_TO_RUN_ALL_COMPLETED: it is never out of date.
THEOREM RememberedCompletion == Spec => []RememberedCompletionIsTrue
  <1>1. IInv => RememberedCompletionIsTrue
    BY DEF IInv
  <1>2. QED
    BY <1>1, InvariantHolds, PTL

\* No test exceeds m_NmbrTimesToRunPerDiagCycle in a cycle.
THEOREM QuotaKept == Spec => []RunsWithinQuota
  <1>1. IInv => RunsWithinQuota
    BY DEF IInv
  <1>2. QED
    BY <1>1, InvariantHolds, PTL

\* A cycle never ends while a test is in the middle of its loop.
THEOREM CyclesHoldWholeLoops == Spec => NoLoopSpansCycles
  <1>1. IInv /\ [Next]_vars =>
          [numberOfDiagCycles' # numberOfDiagCycles =>
             \A t \in Tests : testData[t].state # "TEST_IN_PROGRESS"]_vars
    <2> SUFFICES ASSUME IInv, [Next]_vars, numberOfDiagCycles' # numberOfDiagCycles
                 PROVE  \A t \in Tests : testData[t].state # "TEST_IN_PROGRESS"
      OBVIOUS
    <2>1. StartNextCycle
      BY DEF Next, vars, RunScheduled, DoMoreDiagnosticTesting, Tick, schedulerVars,
         CrashOnIncompleteCycle, RestUntilNextCycle, NothingDue, ScheduleIterations,
         IterationPeriodExpires, NoNewPeriod, RunDueTest, RunFailingTest, EndOfTestList
    <2>2. QED
      BY <2>1 DEF StartNextCycle, AreAllTestsComplete, IInv, CompleteTestsAreBetweenLoops
  <1>2. QED
    BY <1>1, InvariantHolds, PTL DEF Spec, NoLoopSpansCycles

\* A pass over the tests that returns to the background has run everything
\* that was due by its time stamp.
THEOREM PassesAreThorough == Spec => NoDueTestLeftBehind
  <1>1. IInv /\ [Next]_vars =>
          [control = "testing" /\ control' = "background" =>
             ToBeRun(1, timestampCurrent) = {}]_vars
    <2> SUFFICES ASSUME IInv, [Next]_vars, control = "testing", control' = "background"
                 PROVE  ToBeRun(1, timestampCurrent) = {}
      OBVIOUS
    <2>1. EndOfTestList
      BY DEF Next, vars, RunScheduled, DoMoreDiagnosticTesting, Tick, EnterRunScheduled,
         StartNextCycle, CrashOnIncompleteCycle, RestUntilNextCycle, NothingDue,
         ScheduleIterations, IterationPeriodExpires, NoNewPeriod, RunDueTest, RunFailingTest
    <2>2. \A t \in ToBeRun(1, timestampCurrent) : t >= testEnumeration
      BY DEF IInv, WalkedOverPartIsDone
    <2>3. QED
      BY <2>1, <2>2 DEF EndOfTestList, ToBeRun
  <1>2. QED
    BY <1>1, InvariantHolds, PTL DEF Spec, NoDueTestLeftBehind

-----------------------------------------------------------------------------
\* Steps that neither change a test's data nor stop the system are stutters
\* of the abstract cycle.
LEMMA QuietStutters ==
  ASSUME UNCHANGED testData, control # "halted", control' # "halted"
  PROVE  UNCHANGED <<CompleteTests, IsHalted>>
  BY DEF CompleteTests, IsHalted, IsTestingCompleteForDiagCycle

\* Every step of the scheduler is a step of the abstract cycle or a stutter.
LEMMA StepImplements ==
  ASSUME IInv, [Next]_vars
  PROVE  [Cycle!Next]_<<CompleteTests, IsHalted>>
  <1>1. CASE Tick
    BY <1>1, QuietStutters DEF Tick
  <1>2. CASE StartNextCycle
    <2>1. CompleteTests = Tests
      BY <1>2 DEF StartNextCycle, AreAllTestsComplete, CompleteTests
    <2>2. CompleteTests' = {}
      <3>1. \A t \in Tests : testData'[t].timesRan = 0
        BY <1>2 DEF StartNextCycle, ResetCount, IInv, TypeOK
      <3>2. \A t \in Tests : TimesToRun[t] \in Nat \ {0}
        BY SchedulerAssumption
      <3>3. \A t \in Tests : ~IsTestingCompleteForDiagCycle(t)'
        BY <3>1, <3>2 DEF IsTestingCompleteForDiagCycle
      <3>4. QED
        BY <3>3 DEF CompleteTests
    <2>3. ~IsHalted /\ IsHalted' = IsHalted
      BY <1>2 DEF StartNextCycle, EnterRunScheduled, IsHalted
    <2>4. QED
      BY <2>1, <2>2, <2>3 DEF Cycle!Next, Cycle!NextCycle
  <1>3. CASE CrashOnIncompleteCycle
    <2>1. ~IsHalted /\ IsHalted' = TRUE
      BY <1>3 DEF CrashOnIncompleteCycle, EnterRunScheduled, IsHalted
    <2>2. CompleteTests' = CompleteTests
      BY <1>3 DEF CrashOnIncompleteCycle, CompleteTests, IsTestingCompleteForDiagCycle
    <2>3. QED
      BY <2>1, <2>2 DEF Cycle!Next, Cycle!Stop
  <1>4. CASE RestUntilNextCycle \/ NothingDue \/ ScheduleIterations
    BY <1>4, QuietStutters DEF RestUntilNextCycle, NothingDue, ScheduleIterations,
       IterationPeriodExpires, EnterRunScheduled
  <1>5. CASE NoNewPeriod
    BY <1>5, QuietStutters DEF NoNewPeriod, EnterRunScheduled
  <1>6. ASSUME NEW t \in Tests, RunDueTest(t)
        PROVE  [Cycle!Next]_<<CompleteTests, IsHalted>>
    <2>1. /\ \A u \in Tests : u # t => testData'[u] = testData[u]
          /\ testData[t].timesRan < TimesToRun[t]
      BY <1>6, RunDueTestEffect
    <2>2. t \notin CompleteTests
      BY <1>6 DEF RunDueTest, IsNextToRun, ToBeRun, CompleteTests
    <2>3. \A u \in Tests : u # t => (u \in CompleteTests' <=> u \in CompleteTests)
      BY <2>1 DEF CompleteTests, IsTestingCompleteForDiagCycle
    <2>4. ~IsHalted /\ IsHalted' = IsHalted
      BY <1>6 DEF RunDueTest, IsHalted
    <2>5. CompleteTests' \subseteq Tests /\ CompleteTests \subseteq Tests
      BY DEF CompleteTests
    <2>6. CASE t \in CompleteTests'
      <3>1. CompleteTests' = CompleteTests \cup {t}
        BY <2>3, <2>5, <2>6
      <3>2. QED
        BY <2>2, <2>4, <3>1 DEF Cycle!Next, Cycle!Complete
    <2>7. CASE t \notin CompleteTests'
      <3>1. CompleteTests' = CompleteTests
        BY <2>2, <2>3, <2>5, <2>7
      <3>2. QED
        BY <2>4, <3>1
    <2>8. QED
      BY <2>6, <2>7
  <1>7. ASSUME NEW t \in Tests, RunFailingTest(t)
        PROVE  [Cycle!Next]_<<CompleteTests, IsHalted>>
    <2>1. ~IsHalted /\ IsHalted' = TRUE
      BY <1>7 DEF RunFailingTest, IsHalted
    <2>2. \A u \in Tests : u # t => testData'[u] = testData[u]
      BY <1>7 DEF RunFailingTest, IInv, TypeOK
    <2>3. t \notin CompleteTests
      BY <1>7 DEF RunFailingTest, IsNextToRun, ToBeRun, CompleteTests
    <2>4. t \notin CompleteTests'
      <3> DEFINE a == WithStartTime(testData[t])
                 c == ConfigForAnyNewDiagCycle(t, a)
      <3>1. testData \in [Tests -> TestDataRecord] /\ timestampCurrent \in Clock
        BY DEF IInv, TypeOK, TestDataRecord
      <3>2. a \in TestDataRecord /\ a.timesRan = testData[t].timesRan
        BY <3>1, StartTimeType
      <3>3. c \in TestDataRecord /\ c.timesRan <= testData[t].timesRan
        BY <3>2, ConfigType
      <3>4. testData' = [testData EXCEPT ![t] =
              [c EXCEPT !.state = "TEST_FAILURE", !.iterationComplete = timestampCurrent]]
        BY <1>7 DEF RunFailingTest
      <3> HIDE DEF c
      <3>5. testData'[t].timesRan = c.timesRan
        BY <3>1, <3>3, <3>4 DEF TestDataRecord
      <3>6. testData[t].timesRan < TimesToRun[t]
        <4>1. testData[t].timesRan \in Nat /\ TimesToRun[t] \in Nat
          BY <3>1, SchedulerAssumption DEF TestDataRecord
        <4>2. QED
          BY <2>3, <4>1 DEF CompleteTests, IsTestingCompleteForDiagCycle
      <3>7. testData[t].timesRan \in Nat /\ c.timesRan \in Nat /\ TimesToRun[t] \in Nat
        BY <3>1, <3>3, SchedulerAssumption DEF TestDataRecord
      <3>8. QED
        BY <3>3, <3>5, <3>6, <3>7 DEF CompleteTests, IsTestingCompleteForDiagCycle
    <2>5. CompleteTests' = CompleteTests
      BY <2>2, <2>3, <2>4 DEF CompleteTests, IsTestingCompleteForDiagCycle
    <2>6. QED
      BY <2>1, <2>5 DEF Cycle!Next, Cycle!Stop
  <1>8. CASE EndOfTestList
    BY <1>8, QuietStutters DEF EndOfTestList
  <1>9. CASE UNCHANGED vars
    BY <1>9 DEF vars, CompleteTests, IsHalted, IsTestingCompleteForDiagCycle
  <1>10. QED
    BY <1>1, <1>2, <1>3, <1>4, <1>5, <1>6, <1>7, <1>8, <1>9
       DEF Next, RunScheduled, DoMoreDiagnosticTesting

\* The scheduler implements the diagnostic cycle: every test completes once
\* per cycle, a cycle starts only when all have, and a stop is final.
THEOREM SchedulerImplementsCycle == Spec => ImplementsDiagCycle
  <1>1. Init => Cycle!Init
    <2> SUFFICES ASSUME Init
                 PROVE  Cycle!Init
      OBVIOUS
    <2>1. \A t \in Tests : testData[t].timesRan = 0 /\ TimesToRun[t] \in Nat \ {0}
      BY SchedulerAssumption DEF Init, InitialTestData
    <2>2. CompleteTests = {}
      BY <2>1 DEF CompleteTests, IsTestingCompleteForDiagCycle
    <2>3. IsHalted = FALSE
      BY DEF Init, IsHalted
    <2>4. QED
      BY <2>2, <2>3 DEF Cycle!Init
  <1>2. IInv /\ [Next]_vars => [Cycle!Next]_<<CompleteTests, IsHalted>>
    BY StepImplements
  <1>3. QED
    BY <1>1, <1>2, InvariantHolds, PTL DEF Spec, ImplementsDiagCycle, Cycle!Spec

-----------------------------------------------------------------------------
(***************************************************************************)
(* Time.  A time stamp is compared by the time since it was taken, which   *)
(* grows by one with every tick as long as the clock has not wrapped.      *)
(***************************************************************************)
\* The difference of two readings of a clock, cut to its width.
LEMMA DifferenceWraps ==
  ASSUME NEW W \in Nat \ {0}, NEW x \in 0..(W - 1), NEW y \in 0..(W - 1)
  PROVE  (x - y) % W = IF y <= x THEN x - y ELSE x - y + W
<1>1. \A d \in 0..(W - 1) : d % W = d /\ (d - W) % W = d
  OBVIOUS
<1>2. CASE y <= x
  BY <1>1, <1>2
<1>3. CASE ~(y <= x)
  <2>1. x - y + W \in 0..(W - 1) /\ (x - y + W) - W = x - y
    BY <1>3
  <2> QED  BY <1>1, <1>3, <2>1
<1> QED  BY <1>2, <1>3

\* The time since the time stamp x was taken.
Since(x) == ComputeElapsedTimeMS(now, x)

\* It is the difference, made up for by one wrap at most.
LEMMA SinceIs ==
  ASSUME now \in Clock, NEW x \in Clock
  PROVE  Since(x) \in Clock /\ Since(x) = IF x <= now THEN now - x ELSE now - x + ClockWrap
<1>1. ClockWrap \in Nat \ {0} /\ now \in 0..(ClockWrap - 1) /\ x \in 0..(ClockWrap - 1)
  BY SchedulerAssumption DEF Clock
<1> QED  BY <1>1, DifferenceWraps DEF Since, ComputeElapsedTimeMS, Clock

\* A tick adds one, if the clock has not gone all the way round.
LEMMA TickCountsOn ==
  ASSUME now \in Clock, now' = (now + 1) % ClockWrap, NEW x \in Clock, Since(x) + 1 < ClockWrap
  PROVE  now' \in Clock /\ ComputeElapsedTimeMS(now', x) = Since(x) + 1
<1>1. ClockWrap \in Nat \ {0} /\ now \in 0..(ClockWrap - 1) /\ x \in 0..(ClockWrap - 1)
  BY SchedulerAssumption DEF Clock
<1>2. Since(x) = IF x <= now THEN now - x ELSE now - x + ClockWrap
  BY SinceIs
<1>3. now' = (IF now = ClockWrap - 1 THEN 0 ELSE now + 1) /\ now' \in 0..(ClockWrap - 1)
  BY <1>1
<1>4. (now' - x) % ClockWrap = IF x <= now' THEN now' - x ELSE now' - x + ClockWrap
  BY <1>1, <1>3, DifferenceWraps
<1>5. (now' - x) % ClockWrap = Since(x) + 1
  BY <1>1, <1>2, <1>3, <1>4
<1> QED  BY <1>3, <1>5 DEF ComputeElapsedTimeMS, Clock

\* The time between two time stamps is the difference of the times since them.
LEMMA LaterIsCloser ==
  ASSUME now \in Clock, NEW x \in Clock, NEW y \in Clock, Since(y) <= Since(x)
  PROVE  ComputeElapsedTimeMS(y, x) = Since(x) - Since(y)
<1>1. ClockWrap \in Nat \ {0} /\ now \in 0..(ClockWrap - 1) /\ x \in 0..(ClockWrap - 1)
      /\ y \in 0..(ClockWrap - 1)
  BY SchedulerAssumption DEF Clock
<1>2. /\ Since(x) = IF x <= now THEN now - x ELSE now - x + ClockWrap
      /\ Since(y) = IF y <= now THEN now - y ELSE now - y + ClockWrap
  BY SinceIs
<1>3. (y - x) % ClockWrap = IF x <= y THEN y - x ELSE y - x + ClockWrap
  BY <1>1, DifferenceWraps
<1>4. (y - x) % ClockWrap = Since(x) - Since(y)
  BY <1>1, <1>2, <1>3
<1> QED  BY <1>4 DEF ComputeElapsedTimeMS

-----------------------------------------------------------------------------
SinceCycle         == Since(timeTestCycleStarted)
SinceExpiry        == Since(timeLastIterationPeriodExpired)
SinceKick          == Since(lastKick)
SinceCall          == Since(timestampCurrent)

\* The longest the scheduler can be away or find no iteration period expired.
Rest == WatchdogInterval - MaxGap

\* The longest the tests before a place of the list can take.
PassTime(e) == (e - 1) * MaxRunTime

\* A test whose loop of this cycle has not begun.
NotStarted(t) == testData[t].timesRan = 0 /\ testData[t].state # "TEST_IN_PROGRESS"

\* During a pass: it kicked the watchdog when it began, in time, and the tests that are
\* behind it took their share.
PassTimes ==
  /\ wait <= MaxRunTime
  /\ lastKick = timestampCurrent /\ timeLastIterationPeriodExpired = timestampCurrent
  /\ SinceCall <= PassTime(testEnumeration) + wait
  /\ SinceCycle - SinceCall < CyclePeriod

\* In the background: the last call found no period expired, or began a cycle and left the
\* iteration period for the next call.
BackgroundTimes ==
  /\ wait <= MaxGap
  /\ SinceCycle <= CyclePeriod + LongestPass + wait
  /\ \/ SinceExpiry <= Rest + wait
     \/ /\ SinceExpiry <= WatchdogInterval + wait
        /\ SinceCycle = wait /\ SinceKick = wait /\ \A t \in Tests : NotStarted(t)

TimesInv ==
  control # "halted" =>
    /\ SinceKick <= SinceExpiry /\ SinceCall <= SinceCycle
    /\ control = "testing" => PassTimes
    /\ control = "background" => BackgroundTimes

\* The bounds are numbers, and the longest rest covers a pass and an iteration period.
LEMMA Bounds ==
  /\ MaxGap \in Nat /\ MaxRunTime \in Nat /\ LongestPass \in Nat /\ Rest \in Nat
  /\ LongestPass <= Rest /\ IterationPeriod <= Rest + 1 /\ WatchdogInterval = MaxGap + Rest
  /\ CyclePeriod \in Nat /\ IterationPeriod \in Nat /\ ClockWrap \in Nat \ {0}
<1>1. NumberOfDiagTests \in Nat /\ MaxRunTime \in Nat /\ MaxGap \in Nat /\ IterationPeriod \in Nat
      /\ CyclePeriod \in Nat /\ ClockWrap \in Nat \ {0}
  BY SchedulerAssumption
<1>2. LongestPass \in Nat
  BY <1>1 DEF LongestPass
<1> QED  BY <1>1, <1>2 DEF Rest, WatchdogInterval

\* A test takes its share of the longest pass.
LEMMA PassTimeGrows ==
  ASSUME NEW e \in 1..(NumberOfDiagTests + 1)
  PROVE  /\ PassTime(e) \in Nat
         /\ PassTime(e) + MaxRunTime <= LongestPass
         /\ \A t \in Tests : t >= e => PassTime(e) + MaxRunTime <= PassTime(t + 1)
<1>0. NumberOfDiagTests \in Nat /\ MaxRunTime \in Nat
  BY SchedulerAssumption
<1>1. ASSUME NEW m \in Nat, e <= m PROVE (e - 1) * MaxRunTime + MaxRunTime <= m * MaxRunTime
  <2>1. PICK d \in Nat : m = e + d
    BY <1>1
  <2>2. m * MaxRunTime = (e - 1) * MaxRunTime + MaxRunTime + d * MaxRunTime
    BY <1>0, <2>1
  <2>3. d * MaxRunTime \in Nat /\ (e - 1) * MaxRunTime \in Nat
    BY <1>0
  <2> QED  BY <1>0, <2>2, <2>3
<1>2. (e - 1) * MaxRunTime \in Nat
  BY <1>0
<1>3. (e - 1) * MaxRunTime + MaxRunTime <= (NumberOfDiagTests + 1) * MaxRunTime
  BY <1>0, <1>1
<1>4. ASSUME NEW t \in Tests, t >= e PROVE PassTime(e) + MaxRunTime <= PassTime(t + 1)
  <2>1. t \in Nat /\ (t + 1) - 1 = t
    BY DEF Tests
  <2>2. (e - 1) * MaxRunTime + MaxRunTime <= t * MaxRunTime
    BY <1>1, <1>4, <2>1
  <2> QED  BY <2>1, <2>2 DEF PassTime
<1> QED  BY <1>2, <1>3, <1>4 DEF PassTime, LongestPass

\* While the invariant holds no time is so long ago that the clock has wrapped, ...
LEMMA TimesAreShort ==
  ASSUME TypeOK, TimesInv, ClockIsWide, Tick
  PROVE  /\ SinceKick + 1 < ClockWrap /\ SinceExpiry + 1 < ClockWrap
         /\ SinceCall + 1 < ClockWrap /\ SinceCycle + 1 < ClockWrap
         /\ SinceCycle < CyclePeriod + LongestPass + MaxGap
<1>0. /\ SinceKick \in Nat /\ SinceExpiry \in Nat /\ SinceCall \in Nat /\ SinceCycle \in Nat
      /\ wait \in Nat /\ testEnumeration \in 1..(NumberOfDiagTests + 1)
  BY SinceIs DEF TypeOK, SinceKick, SinceExpiry, SinceCall, SinceCycle, Clock
<1>1. WatchdogInterval + MaxGap < ClockWrap /\ 2 * (CyclePeriod + LongestPass + MaxGap) < ClockWrap
  BY DEF ClockIsWide
<1>2. CASE control = "background"
  <2>1. /\ wait < MaxGap /\ SinceCycle <= CyclePeriod + LongestPass + wait
        /\ SinceExpiry <= WatchdogInterval + wait
        /\ SinceKick <= SinceExpiry /\ SinceCall <= SinceCycle
    BY <1>0, <1>2, Bounds DEF TimesInv, BackgroundTimes, Tick
  <2> QED  BY <1>0, <1>1, <2>1, Bounds
<1>3. CASE control = "testing"
  <2>1. /\ wait < MaxRunTime /\ SinceKick = SinceCall /\ SinceExpiry = SinceCall
        /\ SinceCall <= PassTime(testEnumeration) + wait
        /\ SinceCycle - SinceCall < CyclePeriod
    BY <1>3 DEF TimesInv, PassTimes, Tick, SinceKick, SinceExpiry, SinceCall
  <2>2. PassTime(testEnumeration) \in Nat /\ PassTime(testEnumeration) + MaxRunTime <= LongestPass
    BY <1>0, PassTimeGrows
  <2>3. SinceCall + 1 <= LongestPass
    BY <1>0, <2>1, <2>2, Bounds
  <2> QED  BY <1>0, <1>1, <2>1, <2>3, Bounds
<1> QED  BY <1>2, <1>3 DEF Tick

\* ... so that with every tick all of them grow by one.
LEMMA TimesTick ==
  ASSUME TypeOK, TimesInv, ClockIsWide, Tick
  PROVE  /\ SinceKick' = SinceKick + 1 /\ SinceExpiry' = SinceExpiry + 1
         /\ SinceCall' = SinceCall + 1 /\ SinceCycle' = SinceCycle + 1
<1>1. /\ lastKick \in Clock /\ timeLastIterationPeriodExpired \in Clock
      /\ timestampCurrent \in Clock /\ timeTestCycleStarted \in Clock /\ now \in Clock
      /\ now' = (now + 1) % ClockWrap
      /\ UNCHANGED <<lastKick, timeLastIterationPeriodExpired, timestampCurrent,
                     timeTestCycleStarted>>
  BY DEF TypeOK, Tick, schedulerVars
<1>2. /\ Since(lastKick) + 1 < ClockWrap /\ Since(timeLastIterationPeriodExpired) + 1 < ClockWrap
      /\ Since(timestampCurrent) + 1 < ClockWrap /\ Since(timeTestCycleStarted) + 1 < ClockWrap
  BY TimesAreShort DEF SinceKick, SinceExpiry, SinceCall, SinceCycle
<1>3. ComputeElapsedTimeMS(now', lastKick) = Since(lastKick) + 1
  BY <1>1, <1>2, TickCountsOn
<1>4. ComputeElapsedTimeMS(now', timeLastIterationPeriodExpired)
        = Since(timeLastIterationPeriodExpired) + 1
  BY <1>1, <1>2, TickCountsOn
<1>5. ComputeElapsedTimeMS(now', timestampCurrent) = Since(timestampCurrent) + 1
  BY <1>1, <1>2, TickCountsOn
<1>6. ComputeElapsedTimeMS(now', timeTestCycleStarted) = Since(timeTestCycleStarted) + 1
  BY <1>1, <1>2, TickCountsOn
<1> QED  BY <1>1, <1>3, <1>4, <1>5, <1>6 DEF SinceKick, SinceExpiry, SinceCall, SinceCycle, Since

\* The times are numbers.
LEMMA TypesOfTimes ==
  ASSUME TypeOK
  PROVE  /\ SinceKick \in Nat /\ SinceExpiry \in Nat /\ SinceCall \in Nat /\ SinceCycle \in Nat
         /\ wait \in Nat /\ testEnumeration \in 1..(NumberOfDiagTests + 1)
         /\ PassTime(testEnumeration) \in Nat
         /\ PassTime(testEnumeration) + MaxRunTime <= LongestPass
<1>1. testEnumeration \in 1..(NumberOfDiagTests + 1)
  BY DEF TypeOK
<1>2. /\ PassTime(testEnumeration) \in Nat
      /\ PassTime(testEnumeration) + MaxRunTime <= LongestPass
  BY <1>1, PassTimeGrows
<1>3. /\ SinceKick \in Nat /\ SinceExpiry \in Nat /\ SinceCall \in Nat /\ SinceCycle \in Nat
      /\ wait \in Nat
  BY SinceIs DEF TypeOK, SinceKick, SinceExpiry, SinceCall, SinceCycle, Clock
<1> QED  BY <1>1, <1>2, <1>3

\* A call of RunScheduled has just read the time.
LEMMA TimesOfACall ==
  ASSUME TypeOK, EnterRunScheduled
  PROVE  /\ SinceCall' = 0 /\ wait' = 0 /\ control = "background"
         /\ timeTestCycleStarted' = timeTestCycleStarted => SinceCycle' = SinceCycle
         /\ timeTestCycleStarted' = now => SinceCycle' = 0
         /\ timeLastIterationPeriodExpired' = timeLastIterationPeriodExpired =>
              SinceExpiry' = SinceExpiry
         /\ timeLastIterationPeriodExpired' = now => SinceExpiry' = 0
         /\ lastKick' = lastKick => SinceKick' = SinceKick
         /\ lastKick' = now => SinceKick' = 0
<1>1. now \in Clock /\ ComputeElapsedTimeMS(now, now) = 0
  BY ElapsedIsClock DEF TypeOK
<1> QED
  BY <1>1 DEF EnterRunScheduled, SinceCall, SinceCycle, SinceExpiry, SinceKick, Since

\* While a test has not started its loop in a cycle not all tests are complete.
LEMMA CompleteTestsHaveStarted ==
  ASSUME NumberOfDiagTests # 0, AreAllTestsComplete
  PROVE  ~(\A t \in Tests : NotStarted(t))
<1>1. 1 \in Tests /\ TimesToRun[1] \in Nat \ {0}
  <2>1. 1 \in Tests
    BY SchedulerAssumption DEF Tests
  <2> QED  BY <2>1, SchedulerAssumption
<1>2. testData[1].timesRan >= TimesToRun[1]
  BY <1>1 DEF AreAllTestsComplete, IsTestingCompleteForDiagCycle
<1> QED  BY <1>1, <1>2 DEF NotStarted

\* The times since the cycle started, the iteration period expired, and the watchdog was
\* kicked: no step lets them grow further.
LEMMA TimesInductive ==
  ASSUME IInv, TypeOK', TimesInv, NumberOfDiagTests # 0, ClockIsWide, [Next]_vars
  PROVE  TimesInv'
<1>1. TypeOK /\ testData \in [Tests -> TestDataRecord]
  BY DEF IInv, TypeOK, TestDataRecord
<1>2. /\ SinceKick \in Nat /\ SinceExpiry \in Nat /\ SinceCall \in Nat /\ SinceCycle \in Nat
      /\ wait \in Nat /\ testEnumeration \in 1..(NumberOfDiagTests + 1)
      /\ PassTime(testEnumeration) \in Nat
      /\ PassTime(testEnumeration) + MaxRunTime <= LongestPass
  BY <1>1, TypesOfTimes
<1>3. CASE Tick
  <2>1. /\ SinceKick' = SinceKick + 1 /\ SinceExpiry' = SinceExpiry + 1
        /\ SinceCall' = SinceCall + 1 /\ SinceCycle' = SinceCycle + 1
    BY <1>1, <1>3, TimesTick
  <2>2. /\ wait' = wait + 1 /\ control' = control /\ testEnumeration' = testEnumeration
        /\ \A t \in Tests : NotStarted(t)' <=> NotStarted(t)
        /\ lastKick' = lastKick /\ timestampCurrent' = timestampCurrent
        /\ timeLastIterationPeriodExpired' = timeLastIterationPeriodExpired
        /\ control = "background" => wait < MaxGap
        /\ control = "testing" => wait < MaxRunTime
        /\ control \in {"background", "testing"}
    BY <1>3 DEF Tick, schedulerVars, NotStarted
  <2>3. PassTime(testEnumeration)' = PassTime(testEnumeration)
    BY <2>2 DEF PassTime
  <2>4. CASE control = "testing"
    <3>1. PassTimes /\ SinceKick <= SinceExpiry /\ SinceCall <= SinceCycle
      BY <2>4 DEF TimesInv
    <3>2. PassTimes'
      BY <1>2, <2>1, <2>2, <2>3, <2>4, <3>1, Bounds DEF PassTimes
    <3> QED  BY <1>2, <2>1, <2>2, <2>4, <3>1, <3>2 DEF TimesInv
  <2>5. CASE control = "background"
    <3>1. BackgroundTimes /\ SinceKick <= SinceExpiry /\ SinceCall <= SinceCycle
      BY <2>5 DEF TimesInv
    <3>2. BackgroundTimes'
      BY <1>2, <2>1, <2>2, <2>5, <3>1, Bounds DEF BackgroundTimes
    <3> QED  BY <1>2, <2>1, <2>2, <2>5, <3>1, <3>2 DEF TimesInv
  <2> QED  BY <2>2, <2>4, <2>5
\* The calls: in the background before, and mostly after.
<1>4. ASSUME EnterRunScheduled
      PROVE  /\ SinceKick <= SinceExpiry /\ SinceCall <= SinceCycle /\ wait <= MaxGap
             /\ \/ SinceExpiry <= Rest + wait
                \/ \A t \in Tests : NotStarted(t)
             /\ SinceExpiry <= WatchdogInterval + wait
             /\ control = "background"
  BY <1>2, <1>4, Bounds DEF TimesInv, BackgroundTimes, EnterRunScheduled
<1>5. ~IsDiagnosticCyleTimePeriodExpired(now) => SinceCycle < CyclePeriod
  BY <1>2, Bounds DEF IsDiagnosticCyleTimePeriodExpired, SinceCycle, Since
<1>6. ~IsIterationWithinDiagnosticCycleExpired(now) => SinceExpiry < IterationPeriod
  BY <1>2, Bounds DEF IsIterationWithinDiagnosticCycleExpired, SinceExpiry, Since
<1>7. CASE StartNextCycle
  <2>1. /\ SinceCall' = 0 /\ wait' = 0 /\ SinceCycle' = 0 /\ SinceKick' = 0
        /\ SinceExpiry' = SinceExpiry /\ control' = "background"
    BY <1>1, <1>7, TimesOfACall DEF StartNextCycle, KickWatchdog
  <2>2. \A t \in Tests : NotStarted(t)'
    <3>1. \A t \in Tests : testData'[t].timesRan = 0 /\ testData'[t].state = testData[t].state
      BY <1>1, <1>7 DEF StartNextCycle, ResetCount, TestDataRecord
    <3>2. \A t \in Tests : testData[t].state # "TEST_IN_PROGRESS"
      BY <1>7 DEF StartNextCycle, AreAllTestsComplete, IInv, CompleteTestsAreBetweenLoops
    <3> QED  BY <3>1, <3>2 DEF NotStarted
  <2>3. SinceExpiry <= WatchdogInterval
    <3>1. ~(\A t \in Tests : NotStarted(t))
      BY <1>7, CompleteTestsHaveStarted DEF StartNextCycle
    <3>2. SinceExpiry <= Rest + wait /\ wait <= MaxGap
      BY <1>4, <1>7, <3>1 DEF StartNextCycle
    <3> QED  BY <1>2, <3>2, Bounds
  <2>4. BackgroundTimes'
    BY <1>2, <2>1, <2>2, <2>3, Bounds DEF BackgroundTimes
  <2> QED  BY <1>2, <2>1, <2>4 DEF TimesInv
<1>8. CASE CrashOnIncompleteCycle
  BY <1>8 DEF CrashOnIncompleteCycle, TimesInv
<1>9. CASE RestUntilNextCycle \/ NothingDue
  <2>1. IterationPeriodExpires /\ control' = "background"
    BY <1>9 DEF RestUntilNextCycle, NothingDue, IterationPeriodExpires, EnterRunScheduled
  <2>2. /\ SinceCall' = 0 /\ wait' = 0 /\ SinceCycle' = SinceCycle /\ SinceKick' = 0
        /\ SinceExpiry' = 0 /\ SinceCycle < CyclePeriod
    BY <1>1, <1>5, <2>1, TimesOfACall DEF IterationPeriodExpires, KickWatchdog
  <2>3. BackgroundTimes'
    BY <1>2, <2>2, Bounds DEF BackgroundTimes
  <2> QED  BY <1>2, <2>1, <2>2, <2>3 DEF TimesInv
<1>10. CASE ScheduleIterations
  <2>1. PICK t \in Tests : testEnumeration' = t
    BY <1>10 DEF ScheduleIterations
  <2>2. /\ SinceCall' = 0 /\ wait' = 0 /\ SinceCycle' = SinceCycle /\ SinceKick' = 0
        /\ SinceExpiry' = 0 /\ SinceCycle < CyclePeriod /\ control' = "testing"
        /\ lastKick' = timestampCurrent' /\ timeLastIterationPeriodExpired' = timestampCurrent'
    BY <1>1, <1>5, <1>10, TimesOfACall
    DEF ScheduleIterations, IterationPeriodExpires, KickWatchdog, EnterRunScheduled
  <2>3. PassTime(testEnumeration)' \in Nat
    <3>1. PassTime(t) \in Nat
      BY PassTimeGrows, SchedulerAssumption DEF Tests
    <3> QED  BY <2>1, <3>1 DEF PassTime
  <2>4. PassTimes'
    BY <1>2, <2>2, <2>3, Bounds DEF PassTimes
  <2> QED  BY <1>2, <2>2, <2>4 DEF TimesInv
<1>11. CASE NoNewPeriod
  <2>1. /\ SinceCall' = 0 /\ wait' = 0 /\ SinceCycle' = SinceCycle /\ SinceKick' = SinceKick
        /\ SinceExpiry' = SinceExpiry /\ SinceCycle < CyclePeriod /\ SinceExpiry < IterationPeriod
        /\ control' = "background" /\ SinceKick <= SinceExpiry
    BY <1>1, <1>4, <1>5, <1>6, <1>11, TimesOfACall DEF NoNewPeriod, EnterRunScheduled
  <2>2. BackgroundTimes'
    BY <1>2, <2>1, Bounds DEF BackgroundTimes
  <2> QED  BY <1>2, <2>1, <2>2 DEF TimesInv
\* The pass.
<1>12. ASSUME UNCHANGED <<now, lastKick, timeLastIterationPeriodExpired, timestampCurrent,
                          timeTestCycleStarted>>
       PROVE  UNCHANGED <<SinceCall, SinceCycle, SinceKick, SinceExpiry>>
  BY <1>12 DEF SinceCall, SinceCycle, SinceKick, SinceExpiry, Since, ComputeElapsedTimeMS
<1>13. ASSUME NEW t \in Tests, RunDueTest(t) PROVE TimesInv'
  <2>1. /\ UNCHANGED <<SinceCall, SinceCycle, SinceKick, SinceExpiry>>
        /\ wait' = 0 /\ testEnumeration' = t + 1 /\ t >= testEnumeration
        /\ control = "testing" /\ control' = "testing"
        /\ UNCHANGED <<lastKick, timestampCurrent, timeLastIterationPeriodExpired>>
    BY <1>12, <1>13 DEF RunDueTest, IsNextToRun, ToBeRun
  <2>2. PassTimes /\ SinceKick <= SinceExpiry /\ SinceCall <= SinceCycle
    BY <2>1 DEF TimesInv
  <2>3. PassTime(testEnumeration) + MaxRunTime <= PassTime(t + 1) /\ PassTime(t + 1) \in Nat
    <3>1. t + 1 \in 1..(NumberOfDiagTests + 1)
      BY SchedulerAssumption DEF Tests
    <3> QED  BY <1>2, <2>1, <3>1, PassTimeGrows
  <2>4. PassTime(testEnumeration)' = PassTime(t + 1)
    BY <2>1 DEF PassTime
  <2>5. PassTimes'
    BY <1>2, <2>1, <2>2, <2>3, <2>4, Bounds DEF PassTimes
  <2> QED  BY <2>1, <2>2, <2>5 DEF TimesInv
<1>14. CASE EndOfTestList
  <2>1. /\ UNCHANGED <<SinceCall, SinceCycle, SinceKick, SinceExpiry>>
        /\ wait' = 0 /\ control = "testing" /\ control' = "background"
    BY <1>12, <1>14 DEF EndOfTestList
  <2>2. PassTimes /\ SinceKick <= SinceExpiry /\ SinceCall <= SinceCycle
    BY <2>1 DEF TimesInv
  <2>3. SinceExpiry = SinceCall
    BY <2>2 DEF PassTimes, SinceExpiry, SinceCall
  <2>4. SinceCall <= LongestPass /\ SinceCycle <= CyclePeriod + LongestPass
    BY <1>2, <2>2, Bounds DEF PassTimes
  <2>5. BackgroundTimes'
    BY <1>2, <2>1, <2>3, <2>4, Bounds DEF BackgroundTimes
  <2> QED  BY <2>1, <2>2, <2>5 DEF TimesInv
<1>15. ASSUME NEW t \in Tests, RunFailingTest(t) PROVE TimesInv'
  BY <1>15 DEF RunFailingTest, TimesInv
<1>16. CASE UNCHANGED vars
  <2>1. UNCHANGED <<SinceCall, SinceCycle, SinceKick, SinceExpiry>>
    BY <1>12, <1>16 DEF vars
  <2>2. \A t \in Tests : NotStarted(t)' <=> NotStarted(t)
    BY <1>16 DEF vars, NotStarted
  <2>3. PassTimes' <=> PassTimes
    BY <1>16, <2>1 DEF vars, PassTimes, PassTime
  <2>4. BackgroundTimes' <=> BackgroundTimes
    BY <1>16, <2>1, <2>2 DEF vars, BackgroundTimes
  <2> QED  BY <1>16, <2>1, <2>3, <2>4 DEF vars, TimesInv
<1> QED
  BY <1>3, <1>7, <1>8, <1>9, <1>10, <1>11, <1>13, <1>14, <1>15, <1>16
  DEF Next, RunScheduled, DoMoreDiagnosticTesting

\* At the start all times are zero.
LEMMA TimesInitially ==
  ASSUME Init
  PROVE  TimesInv
<1>1. now \in Clock /\ ComputeElapsedTimeMS(now, now) = 0
  <2>1. now \in Clock
    BY SchedulerAssumption DEF Init, Clock
  <2> QED  BY <2>1, ElapsedIsClock
<1>2. SinceKick = 0 /\ SinceExpiry = 0 /\ SinceCall = 0 /\ SinceCycle = 0
  BY <1>1 DEF Init, SinceKick, SinceExpiry, SinceCall, SinceCycle, Since
<1>3. wait = 0 /\ control = "background"
  BY DEF Init
<1> QED  BY <1>2, <1>3, Bounds DEF TimesInv, BackgroundTimes

\* The times hold in every state.
LEMMA TimesHold ==
  ASSUME NumberOfDiagTests # 0, ClockIsWide
  PROVE  Spec => []TimesInv
<1>1. IInv /\ IInv' /\ TimesInv /\ [Next]_vars => TimesInv'
  BY TimesInductive DEF IInv
<1> QED  BY <1>1, TimesInitially, InvariantHolds, PTL DEF Spec

\* For any tests that take their time and calls that come within MaxGap: the watchdog is
\* kicked before WatchdogInterval is over.
THEOREM WatchdogIsKicked ==
  ASSUME NumberOfDiagTests # 0, ClockIsWide
  PROVE  Spec => []WatchdogKickedInTime
<1>1. TypeOK /\ TimesInv => WatchdogKickedInTime
  <2> SUFFICES ASSUME TypeOK, TimesInv, control # "halted"
               PROVE  SinceKick <= WatchdogInterval
    BY DEF WatchdogKickedInTime, SinceKick, Since
  <2>1. /\ SinceKick \in Nat /\ SinceExpiry \in Nat /\ SinceCall \in Nat /\ SinceCycle \in Nat
        /\ wait \in Nat /\ PassTime(testEnumeration) \in Nat
        /\ PassTime(testEnumeration) + MaxRunTime <= LongestPass
    BY TypesOfTimes
  <2>2. CASE control = "background"
    BY <2>1, <2>2, Bounds DEF TimesInv, BackgroundTimes
  <2>3. CASE control = "testing"
    <3>1. SinceKick = SinceCall
      BY <2>3 DEF TimesInv, PassTimes, SinceKick, SinceCall
    <3> QED  BY <2>1, <2>3, <3>1, Bounds DEF TimesInv, PassTimes
  <2> QED  BY <2>2, <2>3 DEF TypeOK
<1> QED  BY <1>1, TimesHold, TypeCorrect, PTL

-----------------------------------------------------------------------------
\* How the next iteration of a test begins and ends: whether it opens a loop of its own
\* accord, how many are done then, whether it closes the loop, and how long after the
\* previous one.
Opens(t)      == t \in SelfConfiguring /\ testData[t].state \in {"TEST_LOOP_COMPLETE", "TEST_IDLE"}
DoneBefore(t) == IF Opens(t) THEN 0 ELSE testData[t].iteration
Closes(t)     == DoneBefore(t) + 1 >= Iterations[t]
BetweenCompletions(t) == ComputeElapsedTimeMS(timestampCurrent, testData[t].testComplete)

\* What an iteration leaves in the data of its test.
LEMMA IterationResult ==
  ASSUME TypeOK, NEW t \in Tests, RunDueTest(t)
  PROVE  /\ testData'[t].state = IF Closes(t) THEN "TEST_LOOP_COMPLETE" ELSE "TEST_IN_PROGRESS"
         /\ testData'[t].iteration = IF Closes(t) THEN Iterations[t] ELSE DoneBefore(t) + 1
         /\ testData'[t].period = IF Closes(t) THEN Period[t] ELSE PeriodInLoop[t]
         /\ testData'[t].timesRan = (IF Opens(t) THEN 0 ELSE testData[t].timesRan) + (IF Closes(t) THEN 1 ELSE 0)
         /\ testData'[t].iterationComplete = timestampCurrent
         /\ testData'[t].testComplete =
              IF Closes(t) /\ MonitorTotalTime THEN timestampCurrent ELSE testData[t].testComplete
         /\ testData'[t].maxBetweenCompletions =
              IF Closes(t) /\ MonitorTotalTime /\ BetweenCompletions(t) > testData[t].maxBetweenCompletions
              THEN BetweenCompletions(t) ELSE testData[t].maxBetweenCompletions
         /\ \A u \in Tests : u # t => testData'[u] = testData[u]
<1> DEFINE d == testData[t]
           a == WithStartTime(d)
           c == ConfigForAnyNewDiagCycle(t, a)
           b == RunTest(t, a)
           e == Account(b)
           f == [e EXCEPT !.iterationComplete = timestampCurrent]
<1>1. testData \in [Tests -> TestDataRecord] /\ timestampCurrent \in Clock /\ d \in TestDataRecord
  BY DEF TypeOK, TestDataRecord
<1>2. testData' = [testData EXCEPT ![t] = f]
  BY DEF RunDueTest
<1>3. /\ a \in TestDataRecord /\ a.state = d.state /\ a.timesRan = d.timesRan
      /\ a.iteration = d.iteration /\ a.testComplete = d.testComplete
      /\ a.maxBetweenCompletions = d.maxBetweenCompletions
  BY <1>1 DEF WithStartTime, TestDataRecord
<1> HIDE DEF a
<1>4. /\ c \in TestDataRecord /\ c.timesRan = (IF Opens(t) THEN 0 ELSE d.timesRan)
      /\ c.iteration = DoneBefore(t) /\ c.testComplete = d.testComplete
      /\ c.maxBetweenCompletions = d.maxBetweenCompletions
  <2>1. c \in TestDataRecord
    BY <1>3, ConfigType
  <2>2. c = IF Opens(t) THEN [a EXCEPT !.timesRan = 0, !.iteration = 0] ELSE a
    BY <1>3 DEF ConfigForAnyNewDiagCycle, Opens
  <2>3. CASE Opens(t)
    BY <1>3, <2>1, <2>2, <2>3 DEF TestDataRecord, DoneBefore
  <2>4. CASE ~Opens(t)
    BY <1>3, <2>1, <2>2, <2>4 DEF DoneBefore
  <2> QED  BY <2>3, <2>4
<1>5. b = [c EXCEPT !.state = IF Closes(t) THEN "TEST_LOOP_COMPLETE" ELSE "TEST_IN_PROGRESS",
                    !.iteration = IF Closes(t) THEN Iterations[t] ELSE DoneBefore(t) + 1,
                    !.period = IF Closes(t) THEN Period[t] ELSE PeriodInLoop[t]]
  BY <1>4 DEF RunTest, TestDataRecord, Closes
<1> HIDE DEF c
<1>6. /\ b.state = (IF Closes(t) THEN "TEST_LOOP_COMPLETE" ELSE "TEST_IN_PROGRESS")
      /\ b.iteration = (IF Closes(t) THEN Iterations[t] ELSE DoneBefore(t) + 1)
      /\ b.period = (IF Closes(t) THEN Period[t] ELSE PeriodInLoop[t])
      /\ b.timesRan = c.timesRan /\ b.testComplete = c.testComplete
      /\ b.maxBetweenCompletions = c.maxBetweenCompletions
  BY <1>4, <1>5 DEF TestDataRecord
<1>7. b \in TestDataRecord
  BY <1>3, RunTestType
<1> HIDE DEF b
<1>8. /\ e.state = b.state /\ e.iteration = b.iteration /\ e.period = b.period
      /\ e.timesRan = b.timesRan + (IF Closes(t) THEN 1 ELSE 0)
      /\ e.testComplete = (IF Closes(t) /\ MonitorTotalTime THEN timestampCurrent ELSE b.testComplete)
      /\ e.maxBetweenCompletions = (IF Closes(t) /\ MonitorTotalTime /\ BetweenCompletions(t) > b.maxBetweenCompletions
                                    THEN BetweenCompletions(t) ELSE b.maxBetweenCompletions)
  <2>1. /\ BetweenCompletions(t) = ComputeElapsedTimeMS(timestampCurrent, b.testComplete)
        /\ b.timesRan \in Nat /\ b.maxBetweenCompletions \in Clock
    BY <1>4, <1>6, <1>7 DEF TestDataRecord, BetweenCompletions
  <2>2. CASE Closes(t)
    <3>1. e = [b EXCEPT !.timesRan = b.timesRan + 1,
                        !.testComplete = IF MonitorTotalTime THEN timestampCurrent ELSE b.testComplete,
                        !.maxBetweenCompletions =
                           IF MonitorTotalTime /\ BetweenCompletions(t) > b.maxBetweenCompletions
                           THEN BetweenCompletions(t) ELSE b.maxBetweenCompletions]
      BY <1>6, <1>7, <2>1, <2>2 DEF Account, CompletionTime, TestDataRecord
    <3> QED  BY <1>7, <2>2, <3>1 DEF TestDataRecord
  <2>3. CASE ~Closes(t)
    <3>1. b.state # "TEST_LOOP_COMPLETE"
      BY <1>6, <2>3
    <3>2. e = b \/ e = [b EXCEPT !.iterationDuration = ComputeElapsedTimeMS(timestampCurrent, b.testStart)]
      BY <3>1 DEF Account
    <3> QED  BY <1>7, <2>1, <2>3, <3>2 DEF TestDataRecord
  <2> QED  BY <2>2, <2>3
<1>9. e \in TestDataRecord
  BY <1>1, <1>7, AccountType
<1> HIDE DEF e
<1>10. /\ f.state = e.state /\ f.iteration = e.iteration /\ f.period = e.period
       /\ f.timesRan = e.timesRan /\ f.testComplete = e.testComplete
       /\ f.maxBetweenCompletions = e.maxBetweenCompletions
       /\ f.iterationComplete = timestampCurrent
  BY <1>9 DEF TestDataRecord
<1> HIDE DEF f
<1>11. testData'[t] = f /\ \A u \in Tests : u # t => testData'[u] = testData[u]
  BY <1>1, <1>2
<1> QED  BY <1>4, <1>6, <1>8, <1>10, <1>11

-----------------------------------------------------------------------------
\* The time since the completion of a test.
SinceCompletion(t) == Since(testData[t].testComplete)

\* A cycle and the time by which the next one may begin late.
LateCycle == CyclePeriod + LongestPass + MaxGap

\* How long ago a test was completed, if completions are monitored.
CompletionInv ==
  \A t \in Tests :
    /\ testData[t].maxBetweenCompletions <= CyclePeriod + LateCycle
    /\ control # "halted" /\ MonitorTotalTime =>
         /\ testData[t].timesRan > 0 => SinceCompletion(t) <= SinceCycle
         /\ SinceCompletion(t) <= SinceCycle + LateCycle
         /\ SinceCall <= SinceCompletion(t)

\* A test that completed in this cycle did so since its start, and any other one since
\* the start of the cycle before, and all of them before the call: no step changes this.
LEMMA CompletionInductive ==
  ASSUME IInv, TypeOK', TimesInv, CompletionInv, NumberOfDiagTests # 0, ClockIsWide, [Next]_vars
  PROVE  CompletionInv'
<1>1. /\ TypeOK /\ testData \in [Tests -> TestDataRecord] /\ now \in Clock
      /\ timestampCurrent \in Clock
  BY DEF IInv, TypeOK, TestDataRecord
<1>2. /\ SinceKick \in Nat /\ SinceExpiry \in Nat /\ SinceCall \in Nat /\ SinceCycle \in Nat
      /\ wait \in Nat /\ PassTime(testEnumeration) \in Nat
      /\ PassTime(testEnumeration) + MaxRunTime <= LongestPass
  BY <1>1, TypesOfTimes
<1>3. LateCycle \in Nat /\ LateCycle = CyclePeriod + LongestPass + MaxGap /\ 2 * LateCycle < ClockWrap
      /\ CyclePeriod \in Nat
  BY Bounds DEF LateCycle, ClockIsWide
<1>4. \A t \in Tests : /\ testData[t].testComplete \in Clock /\ SinceCompletion(t) \in Nat
                       /\ testData[t].timesRan \in Nat /\ testData[t].maxBetweenCompletions \in Nat
  BY <1>1, SinceIs DEF SinceCompletion, TestDataRecord, Clock
\* The tests are left alone, and no time has passed.
<1>5. ASSUME now' = now, SinceCycle' = SinceCycle \/ control' = "halted",
             SinceCall' = SinceCall \/ SinceCall' = 0,
             UNCHANGED testData, control = "halted" => control' = "halted"
      PROVE  CompletionInv'
  <2>1. \A t \in Tests : SinceCompletion(t)' = SinceCompletion(t)
    BY <1>5 DEF SinceCompletion, Since, ComputeElapsedTimeMS
  <2>2. LateCycle' = LateCycle
    BY DEF LateCycle, LongestPass
  <2> QED  BY <1>2, <1>4, <1>5, <2>1, <2>2 DEF CompletionInv
<1>6. CASE Tick
  <2>1. /\ SinceCycle' = SinceCycle + 1 /\ SinceCycle < LateCycle /\ SinceCall' = SinceCall + 1
    BY <1>1, <1>6, TimesTick, TimesAreShort DEF LateCycle
  <2>2. ASSUME NEW t \in Tests, MonitorTotalTime PROVE SinceCompletion(t)' = SinceCompletion(t) + 1
    <3>1. SinceCompletion(t) <= SinceCycle + LateCycle
      BY <1>6, <2>2 DEF CompletionInv, Tick
    <3>2. SinceCompletion(t) + 1 < ClockWrap
      BY <1>2, <1>3, <1>4, <2>1, <3>1, Bounds
    <3>3. PICK x \in Clock : x = testData[t].testComplete
      BY <1>4
    <3>4. ComputeElapsedTimeMS(now', x) = Since(x) + 1
      BY <1>1, <1>6, <3>2, <3>3, TickCountsOn DEF Tick, SinceCompletion
    <3>5. testData'[t].testComplete = x
      BY <1>6, <3>3 DEF Tick
    <3> QED  BY <3>3, <3>4, <3>5 DEF SinceCompletion, Since
  <2>3. ASSUME NEW t \in Tests, MonitorTotalTime
        PROVE  /\ testData'[t].timesRan > 0 => SinceCompletion(t)' <= SinceCycle'
               /\ SinceCompletion(t)' <= SinceCycle' + LateCycle
               /\ SinceCall' <= SinceCompletion(t)'
    <3>1. /\ testData[t].timesRan > 0 => SinceCompletion(t) <= SinceCycle
          /\ SinceCompletion(t) <= SinceCycle + LateCycle
          /\ SinceCall <= SinceCompletion(t)
      BY <1>6, <2>3 DEF CompletionInv, Tick
    <3>2. testData' = testData /\ SinceCompletion(t)' = SinceCompletion(t) + 1
      BY <1>6, <2>2, <2>3 DEF Tick
    <3> QED  BY <1>2, <1>3, <1>4, <2>1, <3>1, <3>2
  <2>4. \A t \in Tests : testData'[t].maxBetweenCompletions <= CyclePeriod + LateCycle
    BY <1>6 DEF CompletionInv, Tick
  <2>5. LateCycle' = LateCycle
    BY DEF LateCycle, LongestPass
  <2> QED  BY <2>3, <2>4, <2>5 DEF CompletionInv
<1>7. CASE StartNextCycle
  <2>1. /\ SinceCycle' = 0 /\ SinceCall' = 0 /\ now' = now /\ control = "background"
    BY <1>1, <1>7, TimesOfACall DEF StartNextCycle, EnterRunScheduled
  <2>2. ASSUME NEW t \in Tests
        PROVE  /\ testData'[t].timesRan = 0
               /\ testData'[t].testComplete = testData[t].testComplete
               /\ testData'[t].maxBetweenCompletions = testData[t].maxBetweenCompletions
    BY <1>1, <1>7 DEF StartNextCycle, ResetCount, TestDataRecord
  <2>3. SinceCycle <= LateCycle
    BY <1>2, <1>3, <2>1, Bounds DEF TimesInv, BackgroundTimes
  <2>4. ASSUME NEW t \in Tests, MonitorTotalTime
        PROVE  SinceCompletion(t)' = SinceCompletion(t) /\ SinceCompletion(t) <= LateCycle
    <3>1. testData[t].timesRan >= TimesToRun[t] /\ TimesToRun[t] \in Nat \ {0}
      BY <1>7, SchedulerAssumption
      DEF StartNextCycle, AreAllTestsComplete, IsTestingCompleteForDiagCycle
    <3>2. SinceCompletion(t) <= SinceCycle
      BY <1>4, <2>1, <2>4, <3>1 DEF CompletionInv
    <3>3. SinceCompletion(t)' = SinceCompletion(t)
      BY <2>1, <2>2 DEF SinceCompletion, Since, ComputeElapsedTimeMS
    <3> QED  BY <1>2, <1>3, <1>4, <2>3, <3>2, <3>3
  <2>5. LateCycle' = LateCycle
    BY DEF LateCycle, LongestPass
  <2>6. ASSUME NEW t \in Tests
        PROVE  testData'[t].maxBetweenCompletions <= CyclePeriod + LateCycle
    BY <2>2 DEF CompletionInv
  <2>7. ASSUME NEW t \in Tests, MonitorTotalTime
        PROVE  /\ testData'[t].timesRan > 0 => SinceCompletion(t)' <= SinceCycle'
               /\ SinceCompletion(t)' <= SinceCycle' + LateCycle
               /\ SinceCall' <= SinceCompletion(t)'
    BY <1>3, <1>4, <2>1, <2>2, <2>4, <2>7
  <2> QED  BY <2>5, <2>6, <2>7 DEF CompletionInv
<1>8. CASE CrashOnIncompleteCycle
  <2>1. SinceCall' = 0 /\ control' = "halted" /\ now' = now /\ UNCHANGED testData /\ control # "halted"
    BY <1>1, <1>8, TimesOfACall DEF CrashOnIncompleteCycle, EnterRunScheduled
  <2> QED  BY <1>5, <2>1
<1>9. CASE RestUntilNextCycle \/ NothingDue \/ ScheduleIterations \/ NoNewPeriod
  <2>1. EnterRunScheduled /\ UNCHANGED <<timeTestCycleStarted, testData>>
    BY <1>9 DEF RestUntilNextCycle, NothingDue, ScheduleIterations, NoNewPeriod, IterationPeriodExpires
  <2>2. SinceCycle' = SinceCycle /\ SinceCall' = 0 /\ now' = now /\ control # "halted"
    BY <1>1, <2>1, TimesOfACall DEF EnterRunScheduled
  <2> QED  BY <1>5, <2>1, <2>2
<1>10. ASSUME NEW t \in Tests, RunDueTest(t) PROVE CompletionInv'
  <2>1. /\ testData'[t].timesRan =
             (IF Opens(t) THEN 0 ELSE testData[t].timesRan) + (IF Closes(t) THEN 1 ELSE 0)
        /\ testData'[t].testComplete =
             IF Closes(t) /\ MonitorTotalTime THEN timestampCurrent ELSE testData[t].testComplete
        /\ testData'[t].maxBetweenCompletions =
             IF Closes(t) /\ MonitorTotalTime
                /\ BetweenCompletions(t) > testData[t].maxBetweenCompletions
             THEN BetweenCompletions(t) ELSE testData[t].maxBetweenCompletions
    BY <1>1, <1>10, IterationResult
  <2>2. \A u \in Tests : u # t => testData'[u] = testData[u]
    BY <1>10, RunDueTestEffect
  <2>3. /\ SinceCycle' = SinceCycle /\ control = "testing" /\ now' = now
        /\ LateCycle' = LateCycle /\ SinceCall' = SinceCall
    BY <1>10 DEF RunDueTest, SinceCycle, SinceCall, Since, ComputeElapsedTimeMS, LateCycle, LongestPass
  <2>4. SinceCycle - SinceCall < CyclePeriod /\ SinceCall <= SinceCycle
    BY <2>3 DEF TimesInv, PassTimes
  <2>5. ASSUME MonitorTotalTime PROVE BetweenCompletions(t) <= CyclePeriod + LateCycle
    <3>1. SinceCompletion(t) <= SinceCycle + LateCycle /\ SinceCall <= SinceCompletion(t)
      BY <2>3, <2>5 DEF CompletionInv
    <3>2. BetweenCompletions(t) = SinceCompletion(t) - SinceCall
      BY <1>1, <1>4, <3>1, LaterIsCloser DEF SinceCompletion, SinceCall, BetweenCompletions
    <3> QED  BY <1>2, <1>3, <1>4, <2>4, <3>1, <3>2
  <2>6. ASSUME NEW u \in Tests, u # t PROVE SinceCompletion(u)' = SinceCompletion(u)
    BY <2>2, <2>3, <2>6 DEF SinceCompletion, Since, ComputeElapsedTimeMS
  <2>7. SinceCompletion(t)' = IF Closes(t) /\ MonitorTotalTime THEN SinceCall ELSE SinceCompletion(t)
    BY <2>1, <2>3 DEF SinceCompletion, SinceCall, Since, ComputeElapsedTimeMS
  <2>8. testData'[t].maxBetweenCompletions <= CyclePeriod + LateCycle
    BY <2>1, <2>5 DEF CompletionInv
  <2>9. ASSUME MonitorTotalTime
        PROVE  /\ testData'[t].timesRan > 0 => SinceCompletion(t)' <= SinceCycle
               /\ SinceCompletion(t)' <= SinceCycle + LateCycle
               /\ SinceCall <= SinceCompletion(t)'
    <3>1. /\ testData[t].timesRan > 0 => SinceCompletion(t) <= SinceCycle
          /\ SinceCompletion(t) <= SinceCycle + LateCycle
          /\ SinceCall <= SinceCompletion(t)
      BY <2>3, <2>9 DEF CompletionInv
    <3>2. CASE Closes(t)
      BY <1>2, <1>3, <2>4, <2>7, <2>9, <3>2
    <3>3. CASE ~Closes(t)
      BY <1>4, <2>1, <2>7, <3>1, <3>3
    <3> QED  BY <3>2, <3>3
  <2> QED  BY <2>2, <2>3, <2>6, <2>8, <2>9 DEF CompletionInv
<1>11. CASE EndOfTestList
  BY <1>5, <1>11 DEF EndOfTestList, SinceCycle, SinceCall, Since, ComputeElapsedTimeMS
<1>12. ASSUME NEW t \in Tests, RunFailingTest(t) PROVE CompletionInv'
  <2> DEFINE a == WithStartTime(testData[t])
             c == ConfigForAnyNewDiagCycle(t, a)
             d == [c EXCEPT !.state = "TEST_FAILURE", !.iterationComplete = timestampCurrent]
  <2>1. testData' = [testData EXCEPT ![t] = d] /\ control' = "halted"
    BY <1>12 DEF RunFailingTest
  <2>2. a \in TestDataRecord /\ a.maxBetweenCompletions = testData[t].maxBetweenCompletions
    BY <1>1 DEF WithStartTime, TestDataRecord
  <2> HIDE DEF a
  <2>3. c \in TestDataRecord /\ c.maxBetweenCompletions = a.maxBetweenCompletions
    <3>1. c \in TestDataRecord
      BY <2>2, ConfigType
    <3>2. c = a \/ c = [a EXCEPT !.timesRan = 0, !.iteration = 0]
      BY DEF ConfigForAnyNewDiagCycle
    <3> QED  BY <2>2, <3>1, <3>2 DEF TestDataRecord
  <2> HIDE DEF c
  <2>4. d.maxBetweenCompletions = c.maxBetweenCompletions
    BY <2>3 DEF TestDataRecord
  <2> HIDE DEF d
  <2>5. \A u \in Tests : testData'[u].maxBetweenCompletions = testData[u].maxBetweenCompletions
    BY <1>1, <2>1, <2>2, <2>3, <2>4
  <2>6. LateCycle' = LateCycle
    BY DEF LateCycle, LongestPass
  <2> QED  BY <2>1, <2>5, <2>6 DEF CompletionInv
<1>13. CASE UNCHANGED vars
  BY <1>5, <1>13 DEF vars, SinceCycle, SinceCall, Since, ComputeElapsedTimeMS
<1> QED
  BY <1>6, <1>7, <1>8, <1>9, <1>10, <1>11, <1>12, <1>13
  DEF Next, RunScheduled, DoMoreDiagnosticTesting

\* For any tests, and whatever the clock's wrap: the monitored distance of completions
\* is at most two cycles and the time by which the second begins late.
THEOREM CompletionsStayClose ==
  ASSUME NumberOfDiagTests # 0, ClockIsWide
  PROVE  Spec => []CompletionsAreCloseEnough
<1>1. Init => CompletionInv
  <2> SUFFICES ASSUME Init, NEW t \in Tests PROVE
        /\ testData[t].maxBetweenCompletions <= CyclePeriod + LateCycle
        /\ ~(testData[t].timesRan > 0)
        /\ SinceCompletion(t) <= SinceCycle + LateCycle
        /\ SinceCall <= SinceCompletion(t)
    BY DEF CompletionInv
  <2>1. testData[t].maxBetweenCompletions = 0 /\ testData[t].timesRan = 0 /\ testData[t].testComplete = 0
    BY DEF Init, InitialTestData
  <2>2. now \in Nat /\ now <= MaxGap /\ now \in Clock /\ 0 \in Clock
    BY SchedulerAssumption DEF Init, Clock
  <2>3. SinceCompletion(t) = now
    BY <2>1, <2>2, SinceIs DEF SinceCompletion
  <2>4. SinceCycle = 0 /\ SinceCall = 0
    BY <2>2, ElapsedIsClock DEF Init, SinceCycle, SinceCall, Since
  <2>5. LateCycle \in Nat /\ MaxGap \in Nat /\ MaxGap <= LateCycle /\ CyclePeriod \in Nat
    BY Bounds DEF LateCycle
  <2>6. SinceCompletion(t) <= SinceCycle + LateCycle /\ SinceCall <= SinceCompletion(t)
    BY <2>2, <2>3, <2>4, <2>5
  <2>7. testData[t].maxBetweenCompletions <= CyclePeriod + LateCycle
    BY <2>1, <2>5
  <2> QED  BY <2>1, <2>6, <2>7
<1>2. IInv /\ IInv' /\ TimesInv /\ CompletionInv /\ [Next]_vars => CompletionInv'
  BY CompletionInductive DEF IInv
<1>3. CompletionInv => CompletionsAreCloseEnough
  BY Bounds DEF CompletionInv, CompletionsAreCloseEnough, LateCycle
<1> QED  BY <1>1, <1>2, <1>3, TimesHold, InvariantHolds, PTL DEF Spec

-----------------------------------------------------------------------------
\* The time since a test's last iteration.
SinceIteration(t) == Since(testData[t].iterationComplete)
InLoop(t)         == testData[t].state = "TEST_IN_PROGRESS"

\* The longest from the end of a period to the start of the next iteration.
LatestStart(t)  == Period[t] + WatchdogInterval - 1
LatestInLoop(t) == PeriodInLoop[t] + WatchdogInterval - 1

\* The data of a test agree with each other.
DataFits(t) ==
  /\ testData[t].state # "TEST_FAILURE"
  /\ testData[t].state = "TEST_IDLE" => testData[t].iteration = 0
  /\ testData[t].state = "TEST_LOOP_COMPLETE" => testData[t].iteration = Iterations[t]
  /\ InLoop(t) => testData[t].iteration \in 1..(Iterations[t] - 1)
  /\ testData[t].period = IF InLoop(t) THEN PeriodInLoop[t] ELSE Period[t]

\* A test is in its loop, and within the time for as many iterations as it has done,
\* or has not started it, or is done with it.
LastIterationFits(t) ==
  /\ SinceIteration(t) <= SinceCycle + LateCycle
  /\ testData[t].timesRan > 0 => SinceIteration(t) <= SinceCycle
  /\ NotStarted(t) => SinceCycle <= SinceIteration(t)
  /\ InLoop(t) => /\ SinceIteration(t) <= SinceCycle
                  /\ SinceCycle <= SinceIteration(t) + LatestIteration(t, testData[t].iteration)

\* No test was due when the iteration period last expired.
WasNotDue(t) ==
  /\ NotStarted(t) => SinceCycle <= SinceExpiry \/ SinceIteration(t) < Period[t] + SinceExpiry
  /\ InLoop(t) => SinceIteration(t) < PeriodInLoop[t] + SinceExpiry

\* If a test is due at the call, it has not been for long.
IsDueInTime(t) ==
  /\ NotStarted(t) => SinceCycle <= SinceCall + LatestStart(t)
  /\ InLoop(t) => SinceCall <= SinceIteration(t) /\ SinceIteration(t) <= SinceCall + LatestInLoop(t)

\* The inductive invariant of the deadline.
DeadlineInv ==
  /\ EveryCycleMeetsItsDeadline
  /\ control # "halted" => \A t \in Tests :
       /\ DataFits(t) /\ LastIterationFits(t)
       /\ control = "background" => WasNotDue(t)
       /\ control = "testing" => IsDueInTime(t)

\* One iteration follows the other, and the last one of the loop is the latest.
LEMMA LatestIterationGrows ==
  ASSUME NEW t \in Tests, NEW n \in 1..Iterations[t]
  PROVE  /\ LatestStart(t) \in Nat /\ LatestInLoop(t) \in Nat
         /\ LatestStart(t) = Period[t] + WatchdogInterval - 1
         /\ LatestInLoop(t) = PeriodInLoop[t] + WatchdogInterval - 1
         /\ LatestIteration(t, n) \in Nat
         /\ LatestIteration(t, n) <= LatestIteration(t, Iterations[t])
         /\ LatestIteration(t, n + 1) = LatestIteration(t, n) + LatestInLoop(t)
         /\ LatestIteration(t, 1) = LatestStart(t)
<1>1. /\ Period[t] \in Nat \ {0} /\ PeriodInLoop[t] \in Nat \ {0} /\ Iterations[t] \in Nat \ {0}
      /\ WatchdogInterval \in Nat
  BY SchedulerAssumption, Bounds
<1>2. LatestStart(t) \in Nat /\ LatestInLoop(t) \in Nat
  BY <1>1 DEF LatestStart, LatestInLoop
<1>3. \A m : LatestIteration(t, m) = LatestStart(t) + (m - 1) * LatestInLoop(t)
  BY DEF LatestIteration, LatestStart, LatestInLoop
<1>4. ASSUME NEW L \in Nat, NEW k \in Nat, NEW m \in Nat, k <= m
      PROVE  k * L \in Nat /\ k * L <= m * L /\ (k + 1) * L = k * L + L
  <2>1. PICK d \in Nat : m = k + d
    BY <1>4
  <2>2. m * L = k * L + d * L
    BY <2>1
  <2>3. d * L \in Nat /\ k * L \in Nat
    OBVIOUS
  <2> QED  BY <2>2, <2>3
<1>5. n - 1 \in Nat /\ Iterations[t] - 1 \in Nat /\ n - 1 <= Iterations[t] - 1
  BY <1>1
<1>6. /\ (n - 1) * LatestInLoop(t) \in Nat
      /\ (n - 1) * LatestInLoop(t) <= (Iterations[t] - 1) * LatestInLoop(t)
      /\ ((n - 1) + 1) * LatestInLoop(t) = (n - 1) * LatestInLoop(t) + LatestInLoop(t)
      /\ (Iterations[t] - 1) * LatestInLoop(t) \in Nat
  BY <1>2, <1>4, <1>5
<1>7. (n + 1) - 1 = (n - 1) + 1 /\ (1 - 1) * LatestInLoop(t) = 0
  BY <1>2
<1>8. LatestIteration(t, n + 1) = LatestStart(t) + ((n - 1) + 1) * LatestInLoop(t)
  BY <1>3, <1>7
<1>9. LatestIteration(t, 1) = LatestStart(t)
  BY <1>2, <1>3, <1>7
<1>10. /\ LatestIteration(t, n) = LatestStart(t) + (n - 1) * LatestInLoop(t)
       /\ LatestIteration(t, Iterations[t]) = LatestStart(t) + (Iterations[t] - 1) * LatestInLoop(t)
  BY <1>3
<1>11. /\ LatestIteration(t, n) \in Nat
       /\ LatestIteration(t, n) <= LatestIteration(t, Iterations[t])
       /\ LatestIteration(t, n + 1) = LatestIteration(t, n) + LatestInLoop(t)
  BY <1>2, <1>6, <1>8, <1>10
<1> QED  BY <1>2, <1>9, <1>11 DEF LatestStart, LatestInLoop

TestTypes(t) ==
  /\ testData[t].iterationComplete \in Clock /\ SinceIteration(t) \in Nat
  /\ testData[t].timesRan \in Nat /\ testData[t].iteration \in Nat
  /\ Period[t] \in Nat \ {0} /\ PeriodInLoop[t] \in Nat \ {0} /\ Iterations[t] \in Nat \ {0}

\* A test's data are numbers.
LEMMA TypesOfATest ==
  ASSUME TypeOK, NEW t \in Tests
  PROVE  TestTypes(t)
<1>1. testData[t] \in TestDataRecord /\ now \in Clock
  BY DEF TypeOK, TestDataRecord
<1>2. testData[t].iterationComplete \in Clock /\ testData[t].timesRan \in Nat /\ testData[t].iteration \in Nat
  BY <1>1 DEF TestDataRecord
<1>3. SinceIteration(t) \in Nat
  BY <1>1, <1>2, SinceIs DEF SinceIteration, Clock
<1> QED  BY <1>2, <1>3, SchedulerAssumption DEF TestTypes

\* A test that runs once a cycle is complete, or has not started its loop, or is in it.
LEMMA OnceACycle ==
  ASSUME IInv, TestsFitTheCycle, NEW t \in Tests
  PROVE  /\ IsTestingCompleteForDiagCycle(t) <=> testData[t].timesRan > 0
         /\ IsTestingCompleteForDiagCycle(t) => ~NotStarted(t) /\ ~InLoop(t)
         /\ ~IsTestingCompleteForDiagCycle(t) => testData[t].timesRan = 0 /\ (NotStarted(t) <=> ~InLoop(t))
<1>1. TimesToRun[t] = 1 /\ testData[t].timesRan \in Nat
  BY TypesOfATest DEF IInv, TestsFitTheCycle, TestTypes
<1>2. IsTestingCompleteForDiagCycle(t) <=> testData[t].timesRan > 0
  BY <1>1 DEF IsTestingCompleteForDiagCycle
<1> QED  BY <1>1, <1>2 DEF IInv, CompleteTestsAreBetweenLoops, NotStarted, InLoop

\* When the scheduler is called, a test that may be due is not late.
LEMMA DueInTime ==
  ASSUME TypeOK, TimesInv, NEW t \in Tests, control = "background", DataFits(t), LastIterationFits(t),
         WasNotDue(t)
  PROVE  /\ NotStarted(t) => SinceCycle <= LatestStart(t)
         /\ InLoop(t) => SinceIteration(t) <= LatestInLoop(t)
<1>1. /\ SinceExpiry \in Nat /\ SinceCycle \in Nat /\ wait \in Nat /\ SinceIteration(t) \in Nat
      /\ Period[t] \in Nat \ {0} /\ PeriodInLoop[t] \in Nat \ {0}
  BY TypesOfTimes, TypesOfATest DEF TestTypes
<1>2. BackgroundTimes
  BY DEF TimesInv
<1>3. /\ LatestStart(t) = Period[t] + WatchdogInterval - 1
      /\ LatestInLoop(t) = PeriodInLoop[t] + WatchdogInterval - 1
  BY DEF LatestStart, LatestInLoop
<1>4. CASE SinceExpiry <= WatchdogInterval
  BY <1>1, <1>3, <1>4, Bounds DEF WasNotDue, LastIterationFits
<1>5. CASE ~(SinceExpiry <= WatchdogInterval)
  <2>1. SinceCycle = wait /\ wait <= MaxGap /\ NotStarted(t)
    BY <1>1, <1>2, <1>5, Bounds DEF BackgroundTimes
  <2>2. ~InLoop(t)
    BY <2>1 DEF NotStarted, InLoop
  <2> QED  BY <1>1, <1>3, <2>1, <2>2, Bounds
<1> QED  BY <1>4, <1>5

\* A cycle does not end before all tests are complete.
LEMMA AllCompleteInTime ==
  ASSUME IInv, TimesInv, DeadlineInv, TestsFitTheCycle, CrashOnIncompleteCycle
  PROVE  FALSE
<1>1. control = "background" /\ SinceCycle >= CyclePeriod /\ TypeOK
  BY DEF CrashOnIncompleteCycle, EnterRunScheduled, IsDiagnosticCyleTimePeriodExpired, SinceCycle, Since, IInv
<1>2. PICK t \in Tests : ~IsTestingCompleteForDiagCycle(t)
  BY DEF CrashOnIncompleteCycle, AreAllTestsComplete
<1>3. DataFits(t) /\ LastIterationFits(t) /\ WasNotDue(t)
  BY <1>1 DEF DeadlineInv
<1>4. /\ NotStarted(t) => SinceCycle <= LatestStart(t)
      /\ InLoop(t) => SinceIteration(t) <= LatestInLoop(t)
  BY <1>1, <1>3, DueInTime
<1>5. SinceCycle \in Nat /\ SinceIteration(t) \in Nat /\ Iterations[t] \in Nat \ {0} /\ CyclePeriod \in Nat
  BY <1>1, TypesOfTimes, TypesOfATest, Bounds DEF TestTypes
<1>6. LatestIteration(t, Iterations[t]) < CyclePeriod
  BY DEF TestsFitTheCycle
<1>7. CASE NotStarted(t)
  <2>1. 1 \in 1..Iterations[t]
    BY <1>5
  <2>2. LatestStart(t) <= LatestIteration(t, Iterations[t]) /\ LatestStart(t) \in Nat
    BY <2>1, LatestIterationGrows
  <2>3. LatestIteration(t, Iterations[t]) \in Nat
    BY <1>5, LatestIterationGrows
  <2> QED  BY <1>1, <1>4, <1>5, <1>6, <1>7, <2>2, <2>3
<1>8. CASE InLoop(t)
  <2> DEFINE n == testData[t].iteration
  <2>1. n \in 1..(Iterations[t] - 1) /\ SinceCycle <= SinceIteration(t) + LatestIteration(t, n)
    BY <1>3, <1>8 DEF DataFits, LastIterationFits
  <2> HIDE DEF n
  <2>2. n \in 1..Iterations[t] /\ n + 1 \in 1..Iterations[t]
    BY <1>5, <2>1
  <2>3. LatestIteration(t, n + 1) = LatestIteration(t, n) + LatestInLoop(t) /\ LatestIteration(t, n) \in Nat
        /\ LatestInLoop(t) \in Nat
    BY <2>2, LatestIterationGrows
  <2>4. /\ LatestIteration(t, n + 1) <= LatestIteration(t, Iterations[t])
        /\ LatestIteration(t, Iterations[t]) \in Nat
    BY <1>5, <2>2, LatestIterationGrows
  <2> QED  BY <1>1, <1>4, <1>5, <1>6, <1>8, <2>1, <2>3, <2>4
<1> QED  BY <1>2, <1>7, <1>8, OnceACycle

\* An iteration comes in time for the next one to do so.
LEMMA IterationFits ==
  ASSUME IInv, TimesInv, DeadlineInv, TestsFitTheCycle, NEW t \in Tests, RunDueTest(t)
  PROVE  DataFits(t)' /\ LastIterationFits(t)' /\ IsDueInTime(t)'
<1>1. /\ control = "testing" /\ TypeOK /\ testData[t].state \in TestStates
      /\ DataFits(t) /\ LastIterationFits(t) /\ IsDueInTime(t)
  BY DEF RunDueTest, DeadlineInv, IInv, TypeOK
<1>2. testData[t].timesRan = 0 /\ (NotStarted(t) <=> ~InLoop(t))
  BY OnceACycle DEF RunDueTest, IsNextToRun, ToBeRun
<1>3. /\ testData'[t].state = IF Closes(t) THEN "TEST_LOOP_COMPLETE" ELSE "TEST_IN_PROGRESS"
      /\ testData'[t].iteration = IF Closes(t) THEN Iterations[t] ELSE DoneBefore(t) + 1
      /\ testData'[t].period = IF Closes(t) THEN Period[t] ELSE PeriodInLoop[t]
      /\ testData'[t].timesRan = (IF Opens(t) THEN 0 ELSE testData[t].timesRan) + (IF Closes(t) THEN 1 ELSE 0)
      /\ testData'[t].iterationComplete = timestampCurrent
  BY <1>1, IterationResult
<1>4. /\ SinceCall' = SinceCall /\ SinceCycle' = SinceCycle /\ SinceIteration(t)' = SinceCall
      /\ SinceCall <= SinceCycle /\ LateCycle' = LateCycle
  BY <1>1, <1>3 DEF RunDueTest, SinceCall, SinceCycle, SinceIteration, Since, ComputeElapsedTimeMS,
     TimesInv, LateCycle, LongestPass
<1>5. /\ SinceCall \in Nat /\ SinceCycle \in Nat /\ SinceIteration(t) \in Nat /\ LateCycle \in Nat
      /\ testData[t].iteration \in Nat /\ Iterations[t] \in Nat \ {0} /\ PeriodInLoop[t] \in Nat \ {0}
  BY <1>1, TypesOfTimes, TypesOfATest, Bounds DEF TestTypes, LateCycle
<1>6. /\ DoneBefore(t) \in Nat
      /\ ~InLoop(t) /\ ~Closes(t) => DoneBefore(t) = 0
      /\ InLoop(t) => DoneBefore(t) = testData[t].iteration /\ DoneBefore(t) \in 1..(Iterations[t] - 1)
  <2>1. CASE InLoop(t)
    BY <1>1, <1>5, <2>1 DEF InLoop, DataFits, DoneBefore, Opens
  <2>2. CASE ~InLoop(t)
    <3>1. testData[t].state \in {"TEST_IDLE", "TEST_LOOP_COMPLETE"}
      BY <1>1, <2>2 DEF InLoop, DataFits, TestStates
    <3> QED  BY <1>1, <1>5, <2>2, <3>1 DEF DataFits, DoneBefore, Closes
  <2> QED  BY <2>1, <2>2
<1>7. Opens(t) \in BOOLEAN /\ Closes(t) \in BOOLEAN /\ (Closes(t) <=> DoneBefore(t) + 1 >= Iterations[t])
  BY DEF Opens, Closes
<1>8. CASE Closes(t)
  <2>1. /\ testData'[t].state = "TEST_LOOP_COMPLETE" /\ testData'[t].iteration = Iterations[t]
        /\ testData'[t].period = Period[t] /\ testData'[t].timesRan = 1
    BY <1>2, <1>3, <1>7, <1>8
  <2>2. ~NotStarted(t)' /\ ~InLoop(t)'
    BY <2>1 DEF NotStarted, InLoop
  <2>3. DataFits(t)'
    BY <2>1, <2>2 DEF DataFits
  <2>4. SinceIteration(t)' <= SinceCycle' + LateCycle' /\ SinceIteration(t)' <= SinceCycle'
    BY <1>4, <1>5
  <2> QED  BY <2>2, <2>3, <2>4 DEF LastIterationFits, IsDueInTime
<1>9. CASE ~Closes(t)
  <2>1. /\ testData'[t].state = "TEST_IN_PROGRESS" /\ testData'[t].iteration = DoneBefore(t) + 1
        /\ testData'[t].period = PeriodInLoop[t] /\ testData'[t].timesRan = 0
    BY <1>2, <1>3, <1>7, <1>9
  <2>2. ~NotStarted(t)' /\ InLoop(t)'
    BY <2>1 DEF NotStarted, InLoop
  <2>3. DoneBefore(t) + 1 \in 1..(Iterations[t] - 1) /\ DoneBefore(t) + 1 \in 1..Iterations[t]
    BY <1>5, <1>6, <1>7, <1>9
  <2>4. DataFits(t)'
    BY <2>1, <2>2, <2>3 DEF DataFits
  <2>5. SinceCycle <= SinceCall + LatestIteration(t, DoneBefore(t) + 1)
    <3>1. LatestStart(t) \in Nat /\ LatestInLoop(t) \in Nat /\ LatestIteration(t, 1) = LatestStart(t)
      BY <2>3, LatestIterationGrows
    <3>2. CASE ~InLoop(t)
      <4>1. DoneBefore(t) + 1 = 1 /\ NotStarted(t)
        BY <1>2, <1>6, <1>9, <3>2
      <4>2. SinceCycle <= SinceCall + LatestStart(t)
        BY <1>1, <4>1 DEF IsDueInTime
      <4> QED  BY <3>1, <4>1, <4>2
    <3>3. CASE InLoop(t)
      <4>1. /\ SinceCycle <= SinceIteration(t) + LatestIteration(t, DoneBefore(t))
            /\ SinceIteration(t) <= SinceCall + LatestInLoop(t)
        BY <1>1, <1>6, <3>3 DEF LastIterationFits, IsDueInTime
      <4>2. DoneBefore(t) \in 1..Iterations[t]
        BY <1>5, <1>6, <3>3
      <4>3. LatestIteration(t, DoneBefore(t) + 1) = LatestIteration(t, DoneBefore(t)) + LatestInLoop(t)
            /\ LatestIteration(t, DoneBefore(t)) \in Nat
        BY <4>2, LatestIterationGrows
      <4> QED  BY <1>5, <3>1, <4>1, <4>3
    <3> QED  BY <3>2, <3>3
  <2>6. LastIterationFits(t)'
    <3>1. SinceIteration(t)' <= SinceCycle' + LateCycle' /\ SinceIteration(t)' <= SinceCycle'
      BY <1>4, <1>5
    <3>2. LatestIteration(t, testData[t].iteration)' = LatestIteration(t, DoneBefore(t) + 1)
      BY <2>1 DEF LatestIteration, WatchdogInterval, LongestPass
    <3>3. SinceCycle' <= SinceIteration(t)' + LatestIteration(t, testData[t].iteration)'
      BY <1>4, <2>5, <3>2
    <3> QED  BY <2>2, <3>1, <3>3 DEF LastIterationFits
  <2>7. IsDueInTime(t)'
    <3>1. SinceCall' <= SinceIteration(t)' /\ LatestInLoop(t)' = LatestInLoop(t)
      BY <1>4, <1>5 DEF LatestInLoop, WatchdogInterval, LongestPass
    <3>2. LatestInLoop(t) \in Nat
      BY <2>3, LatestIterationGrows
    <3>3. SinceIteration(t)' <= SinceCall' + LatestInLoop(t)'
      BY <1>4, <1>5, <3>1, <3>2
    <3> QED  BY <2>2, <3>1, <3>3 DEF IsDueInTime
  <2> QED  BY <2>4, <2>6, <2>7
<1> QED  BY <1>7, <1>8, <1>9

\* While no time passes for it, a test that is left alone fits as it did.
LEMMA TestLeftAlone ==
  ASSUME NEW t \in Tests, now' = now, testData'[t] = testData[t], SinceCycle' = SinceCycle
  PROVE  /\ SinceIteration(t)' = SinceIteration(t)
         /\ NotStarted(t)' <=> NotStarted(t)
         /\ InLoop(t)' <=> InLoop(t)
         /\ LatestStart(t)' = LatestStart(t) /\ LatestInLoop(t)' = LatestInLoop(t)
         /\ DataFits(t) => DataFits(t)'
         /\ LastIterationFits(t) => LastIterationFits(t)'
<1>1. SinceIteration(t)' = SinceIteration(t)
  BY DEF SinceIteration, Since, ComputeElapsedTimeMS
<1>2. (NotStarted(t)' <=> NotStarted(t)) /\ (InLoop(t)' <=> InLoop(t))
  BY DEF NotStarted, InLoop
<1>3. DataFits(t) => DataFits(t)'
  BY <1>2 DEF DataFits
<1>4. /\ LateCycle' = LateCycle
      /\ LatestIteration(t, testData[t].iteration)' = LatestIteration(t, testData[t].iteration)
      /\ LatestStart(t)' = LatestStart(t) /\ LatestInLoop(t)' = LatestInLoop(t)
  BY DEF LateCycle, LatestIteration, WatchdogInterval, LongestPass, LatestStart, LatestInLoop
<1>5. LastIterationFits(t) => LastIterationFits(t)'
  BY <1>1, <1>2, <1>4 DEF LastIterationFits
<1> QED  BY <1>1, <1>2, <1>3, <1>4, <1>5

\* A tick moves every time on, and what fits goes on to.
LEMMA TickFits ==
  ASSUME TypeOK, TimesInv, ClockIsWide, Tick, NEW t \in Tests, DataFits(t), LastIterationFits(t)
  PROVE  /\ DataFits(t)' /\ LastIterationFits(t)'
         /\ WasNotDue(t) => WasNotDue(t)'
         /\ IsDueInTime(t) => IsDueInTime(t)'
<1>1. /\ SinceCycle' = SinceCycle + 1 /\ SinceCall' = SinceCall + 1 /\ SinceExpiry' = SinceExpiry + 1
      /\ SinceCycle < LateCycle
  BY TimesTick, TimesAreShort DEF LateCycle
<1>2. /\ SinceCall \in Nat /\ SinceCycle \in Nat /\ SinceExpiry \in Nat /\ SinceIteration(t) \in Nat
      /\ LateCycle \in Nat /\ 2 * LateCycle < ClockWrap /\ ClockWrap \in Nat
      /\ testData[t].iterationComplete \in Clock /\ now \in Clock
      /\ Period[t] \in Nat \ {0} /\ PeriodInLoop[t] \in Nat \ {0} /\ Iterations[t] \in Nat \ {0}
  BY TypesOfTimes, TypesOfATest, Bounds DEF TestTypes, LateCycle, ClockIsWide, TypeOK
<1>3. SinceIteration(t) <= SinceCycle + LateCycle
  BY DEF LastIterationFits
<1>4. SinceIteration(t)' = SinceIteration(t) + 1
  <2>1. PICK x \in Clock : x = testData[t].iterationComplete
    BY <1>2
  <2>2. Since(x) + 1 < ClockWrap
    BY <1>1, <1>2, <1>3, <2>1 DEF SinceIteration
  <2>3. ComputeElapsedTimeMS(now', x) = Since(x) + 1
    BY <1>2, <2>2, TickCountsOn DEF Tick
  <2>4. testData'[t].iterationComplete = x
    BY <2>1 DEF Tick
  <2> QED  BY <2>1, <2>3, <2>4 DEF SinceIteration, Since
<1>5. testData' = testData
  BY DEF Tick
<1>6. (NotStarted(t)' <=> NotStarted(t)) /\ (InLoop(t)' <=> InLoop(t))
  BY <1>5 DEF NotStarted, InLoop
<1>7. DataFits(t)'
  BY <1>5, <1>6 DEF DataFits
<1>8. /\ LateCycle' = LateCycle
      /\ LatestIteration(t, testData[t].iteration)' = LatestIteration(t, testData[t].iteration)
      /\ LatestStart(t)' = LatestStart(t) /\ LatestInLoop(t)' = LatestInLoop(t)
  BY <1>5 DEF LateCycle, LatestIteration, WatchdogInterval, LongestPass, LatestStart, LatestInLoop
<1>9. LastIterationFits(t)'
  <2>1. InLoop(t) => LatestIteration(t, testData[t].iteration) \in Nat
    <3>1. InLoop(t) => testData[t].iteration \in 1..Iterations[t]
      BY <1>2 DEF DataFits
    <3> QED  BY <3>1, LatestIterationGrows
  <2>2. SinceIteration(t)' <= SinceCycle' + LateCycle'
    BY <1>1, <1>2, <1>3, <1>4, <1>8
  <2>3. testData[t].timesRan > 0 => SinceIteration(t)' <= SinceCycle'
    BY <1>1, <1>2, <1>4 DEF LastIterationFits
  <2>4. NotStarted(t) => SinceCycle' <= SinceIteration(t)'
    BY <1>1, <1>2, <1>4 DEF LastIterationFits
  <2>5. InLoop(t) => /\ SinceIteration(t)' <= SinceCycle'
                     /\ SinceCycle' <= SinceIteration(t)' + LatestIteration(t, testData[t].iteration)
    BY <1>1, <1>2, <1>4, <2>1 DEF LastIterationFits
  <2> QED  BY <1>5, <1>6, <1>8, <2>2, <2>3, <2>4, <2>5 DEF LastIterationFits
<1>10. WasNotDue(t) => WasNotDue(t)'
  <2>1. SinceCycle <= SinceExpiry => SinceCycle' <= SinceExpiry'
    BY <1>1, <1>2
  <2>2. \A p \in Nat : SinceIteration(t) < p + SinceExpiry => SinceIteration(t)' < p + SinceExpiry'
    BY <1>1, <1>2, <1>4
  <2> QED  BY <1>2, <1>6, <2>1, <2>2 DEF WasNotDue
<1>11. IsDueInTime(t) => IsDueInTime(t)'
  <2>1. LatestStart(t) \in Nat /\ LatestInLoop(t) \in Nat
    <3>1. 1 \in 1..Iterations[t]
      BY <1>2
    <3> QED  BY <3>1, LatestIterationGrows
  <2>2. SinceCycle <= SinceCall + LatestStart(t) => SinceCycle' <= SinceCall' + LatestStart(t)
    BY <1>1, <1>2, <2>1
  <2>3. SinceCall <= SinceIteration(t) => SinceCall' <= SinceIteration(t)'
    BY <1>1, <1>2, <1>4
  <2>4. SinceIteration(t) <= SinceCall + LatestInLoop(t) => SinceIteration(t)' <= SinceCall' + LatestInLoop(t)
    BY <1>1, <1>2, <1>4, <2>1
  <2> QED  BY <1>6, <1>8, <2>2, <2>3, <2>4 DEF IsDueInTime
<1> QED  BY <1>7, <1>9, <1>10, <1>11

\* Every test is left waiting for less than its period, and started within an interval of
\* the watchdog after that: no step lets one fall further behind.
LEMMA DeadlineInductive ==
  ASSUME IInv, TimesInv, DeadlineInv, NumberOfDiagTests # 0, ClockIsWide, TestsFitTheCycle, [Next]_vars
  PROVE  DeadlineInv'
<1>1. TypeOK /\ EveryCycleMeetsItsDeadline /\ testData \in [Tests -> TestDataRecord] /\ now \in Clock
  BY DEF IInv, DeadlineInv, TypeOK, TestDataRecord
<1>2. /\ SinceExpiry \in Nat /\ SinceCall \in Nat /\ SinceCycle \in Nat
      /\ LateCycle \in Nat /\ CyclePeriod \in Nat
  BY <1>1, TypesOfTimes, Bounds DEF LateCycle
<1>3. \A t \in Tests : TestTypes(t)
  BY <1>1, TypesOfATest
<1>4. CASE Tick
  <2>1. ASSUME NEW t \in Tests
        PROVE  /\ DataFits(t)' /\ LastIterationFits(t)'
               /\ control' = "background" => WasNotDue(t)'
               /\ control' = "testing" => IsDueInTime(t)'
    <3>1. /\ DataFits(t) /\ LastIterationFits(t) /\ control' = control
          /\ control = "background" => WasNotDue(t)
          /\ control = "testing" => IsDueInTime(t)
      BY <1>4 DEF DeadlineInv, Tick
    <3> QED  BY <1>1, <1>4, <3>1, TickFits
  <2>2. EveryCycleMeetsItsDeadline'
    BY <1>1, <1>4 DEF Tick, EveryCycleMeetsItsDeadline
  <2> QED  BY <2>1, <2>2 DEF DeadlineInv
\* A call that does not start a cycle.
<1>5. ASSUME EnterRunScheduled, UNCHANGED <<timeTestCycleStarted, testData>>, NEW t \in Tests
      PROVE  /\ SinceCycle' = SinceCycle /\ SinceCall' = 0
             /\ DataFits(t)' /\ LastIterationFits(t)' /\ DataFits(t) /\ LastIterationFits(t)
             /\ WasNotDue(t)
             /\ SinceIteration(t)' = SinceIteration(t)
             /\ (NotStarted(t)' <=> NotStarted(t)) /\ (InLoop(t)' <=> InLoop(t))
             /\ LatestStart(t)' = LatestStart(t) /\ LatestInLoop(t)' = LatestInLoop(t)
  <2>1. SinceCycle' = SinceCycle /\ SinceCall' = 0 /\ control = "background" /\ now' = now
    BY <1>1, <1>5, TimesOfACall DEF EnterRunScheduled
  <2>2. DataFits(t) /\ LastIterationFits(t) /\ WasNotDue(t)
    BY <2>1 DEF DeadlineInv
  <2> QED  BY <1>5, <2>1, <2>2, TestLeftAlone
<1>6. CASE StartNextCycle
  <2>1. SinceCycle' = 0 /\ SinceExpiry' = SinceExpiry /\ control = "background" /\ control' = "background"
        /\ now' = now /\ EveryCycleMeetsItsDeadline'
    BY <1>1, <1>6, TimesOfACall DEF StartNextCycle, EnterRunScheduled, EveryCycleMeetsItsDeadline
  <2>2. SinceCycle <= LateCycle
    <3>1. BackgroundTimes /\ wait \in Nat
      BY <1>1, <2>1, TypesOfTimes DEF TimesInv
    <3> QED  BY <1>2, <3>1, Bounds DEF BackgroundTimes, LateCycle
  <2>3. ASSUME NEW t \in Tests
        PROVE  DataFits(t)' /\ LastIterationFits(t)' /\ WasNotDue(t)'
    <3>1. /\ testData'[t].timesRan = 0
          /\ testData'[t].state = testData[t].state
          /\ testData'[t].iteration = testData[t].iteration
          /\ testData'[t].period = testData[t].period
          /\ testData'[t].iterationComplete = testData[t].iterationComplete
      BY <1>1, <1>6 DEF StartNextCycle, ResetCount, TestDataRecord
    <3>2. /\ DataFits(t) /\ LastIterationFits(t)
          /\ testData[t].timesRan > 0 /\ ~InLoop(t)
      <4>1. IsTestingCompleteForDiagCycle(t)
        BY <1>6 DEF StartNextCycle, AreAllTestsComplete
      <4> QED  BY <2>1, <4>1, OnceACycle DEF DeadlineInv
    <3>3. ~InLoop(t)' /\ SinceIteration(t)' = SinceIteration(t)
      BY <2>1, <3>1, <3>2 DEF InLoop, SinceIteration, Since, ComputeElapsedTimeMS
    <3>4. DataFits(t)'
      BY <3>1, <3>2, <3>3 DEF DataFits
    <3>5. SinceIteration(t) <= LateCycle /\ SinceIteration(t) \in Nat
      BY <1>2, <1>3, <2>2, <3>2 DEF LastIterationFits, TestTypes
    <3>6. LastIterationFits(t)'
      <4>1. LateCycle' = LateCycle
        BY DEF LateCycle, LongestPass
      <4> QED  BY <1>2, <2>1, <3>1, <3>3, <3>5, <4>1 DEF LastIterationFits
    <3>7. WasNotDue(t)'
      BY <1>2, <2>1, <3>3 DEF WasNotDue
    <3> QED  BY <3>4, <3>6, <3>7
  <2> QED  BY <2>1, <2>3 DEF DeadlineInv
<1>7. CASE CrashOnIncompleteCycle
  BY <1>7, AllCompleteInTime
<1>8. CASE RestUntilNextCycle
  <2>1. /\ EnterRunScheduled /\ UNCHANGED <<timeTestCycleStarted, testData>> /\ control' = "background"
        /\ EveryCycleMeetsItsDeadline' /\ AreAllTestsComplete
    BY <1>8 DEF RestUntilNextCycle, IterationPeriodExpires, EnterRunScheduled, EveryCycleMeetsItsDeadline,
       IInv, RememberedCompletionIsTrue, AreAllTestsComplete
  <2>2. ASSUME NEW t \in Tests PROVE DataFits(t)' /\ LastIterationFits(t)' /\ WasNotDue(t)'
    <3>1. /\ DataFits(t)' /\ LastIterationFits(t)'
          /\ (NotStarted(t)' <=> NotStarted(t)) /\ (InLoop(t)' <=> InLoop(t))
      BY <1>5, <2>1
    <3>2. ~NotStarted(t) /\ ~InLoop(t)
      BY <2>1, OnceACycle DEF AreAllTestsComplete
    <3> QED  BY <3>1, <3>2 DEF WasNotDue
  <2> QED  BY <2>1, <2>2 DEF DeadlineInv
<1>9. CASE NothingDue
  <2>1. /\ EnterRunScheduled /\ UNCHANGED <<timeTestCycleStarted, testData>> /\ control' = "background"
        /\ EveryCycleMeetsItsDeadline' /\ ToBeRun(1, now) = {} /\ SinceExpiry' = 0
    BY <1>1, <1>9, TimesOfACall
    DEF NothingDue, IterationPeriodExpires, EnterRunScheduled, EveryCycleMeetsItsDeadline
  <2>2. ASSUME NEW t \in Tests PROVE DataFits(t)' /\ LastIterationFits(t)' /\ WasNotDue(t)'
    <3>1. /\ DataFits(t)' /\ LastIterationFits(t)' /\ DataFits(t)
          /\ (NotStarted(t)' <=> NotStarted(t)) /\ (InLoop(t)' <=> InLoop(t))
          /\ SinceIteration(t)' = SinceIteration(t)
      BY <1>5, <2>1
    <3>2. IsTestingCompleteForDiagCycle(t) \/ ~(SinceIteration(t) >= testData[t].period)
      <4>1. t >= 1
        BY SchedulerAssumption DEF Tests
      <4> QED  BY <2>1, <4>1 DEF ToBeRun, IsTestScheduledToRun, SinceIteration, Since
    <3>3. /\ NotStarted(t) => SinceIteration(t) < Period[t]
          /\ InLoop(t) => SinceIteration(t) < PeriodInLoop[t]
      BY <1>3, <3>1, <3>2, OnceACycle DEF DataFits, TestTypes
    <3> QED  BY <1>3, <2>1, <3>1, <3>3 DEF WasNotDue, TestTypes
  <2> QED  BY <2>1, <2>2 DEF DeadlineInv
<1>10. CASE ScheduleIterations
  <2>1. /\ EnterRunScheduled /\ UNCHANGED <<timeTestCycleStarted, testData>> /\ control' = "testing"
        /\ control = "background" /\ EveryCycleMeetsItsDeadline'
    BY <1>10 DEF ScheduleIterations, IterationPeriodExpires, EnterRunScheduled, EveryCycleMeetsItsDeadline
  <2>2. ASSUME NEW t \in Tests PROVE DataFits(t)' /\ LastIterationFits(t)' /\ IsDueInTime(t)'
    <3>1. /\ SinceCycle' = SinceCycle /\ SinceCall' = 0
          /\ DataFits(t)' /\ LastIterationFits(t)' /\ DataFits(t) /\ LastIterationFits(t) /\ WasNotDue(t)
          /\ SinceIteration(t)' = SinceIteration(t)
          /\ (NotStarted(t)' <=> NotStarted(t)) /\ (InLoop(t)' <=> InLoop(t))
          /\ LatestStart(t)' = LatestStart(t) /\ LatestInLoop(t)' = LatestInLoop(t)
      BY <1>5, <2>1
    <3>2. /\ NotStarted(t) => SinceCycle <= LatestStart(t)
          /\ InLoop(t) => SinceIteration(t) <= LatestInLoop(t)
      BY <1>1, <2>1, <3>1, DueInTime
    <3>3. LatestStart(t) \in Nat /\ LatestInLoop(t) \in Nat
      <4>1. 1 \in 1..Iterations[t]
        BY <1>3 DEF TestTypes
      <4> QED  BY <4>1, LatestIterationGrows
    <3>4. SinceIteration(t) \in Nat
      BY <1>3 DEF TestTypes
    <3>5. IsDueInTime(t)'
      <4>1. NotStarted(t) => SinceCycle' <= SinceCall' + LatestStart(t)
        BY <1>2, <3>1, <3>2, <3>3
      <4>2. InLoop(t) => SinceCall' <= SinceIteration(t)' /\ SinceIteration(t)' <= SinceCall' + LatestInLoop(t)
        BY <3>1, <3>2, <3>3, <3>4
      <4> QED  BY <3>1, <4>1, <4>2 DEF IsDueInTime
    <3> QED  BY <3>1, <3>5
  <2> QED  BY <2>1, <2>2 DEF DeadlineInv
<1>11. CASE NoNewPeriod
  <2>1. /\ EnterRunScheduled /\ UNCHANGED <<timeTestCycleStarted, testData>> /\ control' = "background"
        /\ EveryCycleMeetsItsDeadline' /\ SinceExpiry' = SinceExpiry
    BY <1>1, <1>11, TimesOfACall DEF NoNewPeriod, EnterRunScheduled, EveryCycleMeetsItsDeadline
  <2>2. ASSUME NEW t \in Tests PROVE DataFits(t)' /\ LastIterationFits(t)' /\ WasNotDue(t)'
    <3>1. /\ SinceCycle' = SinceCycle /\ DataFits(t)' /\ LastIterationFits(t)' /\ WasNotDue(t)
          /\ SinceIteration(t)' = SinceIteration(t)
          /\ (NotStarted(t)' <=> NotStarted(t)) /\ (InLoop(t)' <=> InLoop(t))
      BY <1>5, <2>1
    <3> QED  BY <2>1, <3>1 DEF WasNotDue
  <2> QED  BY <2>1, <2>2 DEF DeadlineInv
<1>12. ASSUME NEW t \in Tests, RunDueTest(t) PROVE DeadlineInv'
  <2>1. /\ SinceCycle' = SinceCycle /\ SinceCall' = SinceCall /\ now' = now
        /\ control = "testing" /\ control' = "testing" /\ EveryCycleMeetsItsDeadline'
    BY <1>1, <1>12 DEF RunDueTest, SinceCycle, SinceCall, Since, ComputeElapsedTimeMS, EveryCycleMeetsItsDeadline
  <2>2. ASSUME NEW u \in Tests PROVE DataFits(u)' /\ LastIterationFits(u)' /\ IsDueInTime(u)'
    <3>1. CASE u = t
      BY <1>12, <3>1, IterationFits
    <3>2. CASE u # t
      <4>1. testData'[u] = testData[u]
        BY <1>12, <3>2, RunDueTestEffect
      <4>2. DataFits(u) /\ LastIterationFits(u) /\ IsDueInTime(u)
        BY <2>1 DEF DeadlineInv
      <4>3. /\ DataFits(u)' /\ LastIterationFits(u)'
            /\ SinceIteration(u)' = SinceIteration(u)
            /\ (NotStarted(u)' <=> NotStarted(u)) /\ (InLoop(u)' <=> InLoop(u))
            /\ LatestStart(u)' = LatestStart(u) /\ LatestInLoop(u)' = LatestInLoop(u)
        BY <2>1, <4>1, <4>2, TestLeftAlone
      <4> QED  BY <2>1, <4>2, <4>3 DEF IsDueInTime
    <3> QED  BY <3>1, <3>2
  <2> QED  BY <2>1, <2>2 DEF DeadlineInv
<1>13. CASE EndOfTestList
  <2>1. /\ SinceCycle' = SinceCycle /\ SinceExpiry' = SinceExpiry /\ now' = now
        /\ control = "testing" /\ control' = "background" /\ EveryCycleMeetsItsDeadline'
        /\ testData' = testData /\ SinceExpiry = SinceCall /\ SinceCall <= SinceCycle
    BY <1>1, <1>13 DEF EndOfTestList, SinceCycle, SinceExpiry, SinceCall, Since, ComputeElapsedTimeMS,
       EveryCycleMeetsItsDeadline, TimesInv, PassTimes
  <2>2. ToBeRun(1, timestampCurrent) = {}
    <3>1. ToBeRun(1, timestampCurrent) \subseteq ToBeRun(testEnumeration, timestampCurrent)
      BY <2>1 DEF IInv, WalkedOverPartIsDone, ToBeRun
    <3> QED  BY <1>13, <3>1 DEF EndOfTestList
  <2>3. ASSUME NEW t \in Tests PROVE DataFits(t)' /\ LastIterationFits(t)' /\ WasNotDue(t)'
    <3>1. DataFits(t) /\ LastIterationFits(t) /\ IsDueInTime(t) /\ TestTypes(t)
      BY <1>3, <2>1 DEF DeadlineInv
    <3>2. /\ DataFits(t)' /\ LastIterationFits(t)'
          /\ SinceIteration(t)' = SinceIteration(t)
          /\ (NotStarted(t)' <=> NotStarted(t)) /\ (InLoop(t)' <=> InLoop(t))
      BY <2>1, <3>1, TestLeftAlone
    <3>3. NotStarted(t) \/ InLoop(t) => SinceCall <= SinceIteration(t)
      BY <1>2, <2>1, <3>1 DEF LastIterationFits, IsDueInTime, TestTypes
    <3>4. ASSUME NotStarted(t) \/ InLoop(t) PROVE SinceIteration(t) - SinceCall < testData[t].period
      <4>1. t >= 1 /\ ~IsTestingCompleteForDiagCycle(t)
        BY <3>4, OnceACycle, SchedulerAssumption DEF Tests
      <4>2. ~(ComputeElapsedTimeMS(timestampCurrent, testData[t].iterationComplete) >= testData[t].period)
        BY <2>2, <4>1 DEF ToBeRun, IsTestScheduledToRun
      <4>3. ComputeElapsedTimeMS(timestampCurrent, testData[t].iterationComplete)
              = SinceIteration(t) - SinceCall
        <5>1. timestampCurrent \in Clock /\ testData[t].iterationComplete \in Clock
          BY <1>1, <3>1 DEF TypeOK, TestTypes
        <5> QED  BY <1>1, <3>3, <3>4, <5>1, LaterIsCloser DEF SinceIteration, SinceCall
      <4>4. testData[t].period \in Nat
        BY <3>1 DEF DataFits, TestTypes
      <4> QED  BY <1>2, <3>1, <4>2, <4>3, <4>4 DEF TestTypes
    <3>5. /\ NotStarted(t) => SinceIteration(t) < Period[t] + SinceExpiry
          /\ InLoop(t) => SinceIteration(t) < PeriodInLoop[t] + SinceExpiry
      <4>1. NotStarted(t) => testData[t].period = Period[t]
        BY <3>1 DEF DataFits, NotStarted, InLoop
      <4>2. InLoop(t) => testData[t].period = PeriodInLoop[t]
        BY <3>1 DEF DataFits
      <4> QED  BY <1>2, <2>1, <3>1, <3>4, <4>1, <4>2 DEF TestTypes
    <3> QED  BY <2>1, <3>2, <3>5 DEF WasNotDue
  <2> QED  BY <2>1, <2>3 DEF DeadlineInv
<1>14. ASSUME NEW t \in Tests, RunFailingTest(t) PROVE DeadlineInv'
  BY <1>1, <1>14 DEF RunFailingTest, DeadlineInv, EveryCycleMeetsItsDeadline
<1>15. CASE UNCHANGED vars
  <2>1. /\ UNCHANGED <<SinceCycle, SinceExpiry, SinceCall, now, control, testData>>
        /\ EveryCycleMeetsItsDeadline'
    BY <1>1, <1>15 DEF vars, SinceCycle, SinceExpiry, SinceCall, Since, ComputeElapsedTimeMS,
       EveryCycleMeetsItsDeadline
  <2>2. ASSUME NEW t \in Tests, control # "halted"
        PROVE  /\ DataFits(t)' /\ LastIterationFits(t)'
               /\ control = "background" => WasNotDue(t)'
               /\ control = "testing" => IsDueInTime(t)'
    <3>1. /\ DataFits(t) /\ LastIterationFits(t)
          /\ control = "background" => WasNotDue(t)
          /\ control = "testing" => IsDueInTime(t)
      BY <2>2 DEF DeadlineInv
    <3>2. /\ DataFits(t)' /\ LastIterationFits(t)'
          /\ SinceIteration(t)' = SinceIteration(t)
          /\ (NotStarted(t)' <=> NotStarted(t)) /\ (InLoop(t)' <=> InLoop(t))
          /\ LatestStart(t)' = LatestStart(t) /\ LatestInLoop(t)' = LatestInLoop(t)
      BY <2>1, <3>1, TestLeftAlone
    <3>3. WasNotDue(t) => WasNotDue(t)'
      BY <2>1, <3>2 DEF WasNotDue
    <3>4. IsDueInTime(t) => IsDueInTime(t)'
      BY <2>1, <3>2 DEF IsDueInTime
    <3> QED  BY <3>1, <3>2, <3>3, <3>4
  <2> QED  BY <2>1, <2>2 DEF DeadlineInv
<1> QED
  BY <1>4, <1>6, <1>7, <1>8, <1>9, <1>10, <1>11, <1>12, <1>13, <1>14, <1>15
  DEF Next, RunScheduled, DoMoreDiagnosticTesting

\* For any tests that fit the cycle - whose last iteration comes before its end, if each
\* iteration waits its period and one interval of the watchdog more - every test is
\* complete when a cycle ends: the scheduler never crashes for a missed deadline.
THEOREM DeadlinesAreMet ==
  ASSUME NumberOfDiagTests # 0, ClockIsWide, TestsFitTheCycle
  PROVE  Spec => []EveryCycleMeetsItsDeadline
<1>1. Init => DeadlineInv
  <2> SUFFICES ASSUME Init, NEW t \in Tests
               PROVE  DataFits(t) /\ LastIterationFits(t) /\ WasNotDue(t)
    BY DEF DeadlineInv, Init, EveryCycleMeetsItsDeadline
  <2>1. /\ testData[t].state = "TEST_IDLE" /\ testData[t].iteration = 0 /\ testData[t].timesRan = 0
        /\ testData[t].period = Period[t] /\ testData[t].iterationComplete = 0
    BY DEF Init, InitialTestData
  <2>2. ~InLoop(t)
    BY <2>1 DEF InLoop
  <2>3. now \in Nat /\ now <= MaxGap /\ now \in Clock /\ 0 \in Clock
    BY SchedulerAssumption DEF Init, Clock
  <2>4. SinceIteration(t) = now
    BY <2>1, <2>3, SinceIs DEF SinceIteration
  <2>5. SinceCycle = 0 /\ SinceExpiry = 0
    BY <2>3, ElapsedIsClock DEF Init, SinceCycle, SinceExpiry, Since
  <2>6. LateCycle \in Nat /\ MaxGap \in Nat /\ MaxGap <= LateCycle
    BY Bounds DEF LateCycle
  <2>7. LastIterationFits(t)
    BY <2>1, <2>2, <2>3, <2>4, <2>5, <2>6 DEF LastIterationFits
  <2>8. DataFits(t) /\ WasNotDue(t)
    BY <2>1, <2>2, <2>5 DEF DataFits, WasNotDue
  <2> QED  BY <2>7, <2>8
<1>2. IInv /\ TimesInv /\ DeadlineInv /\ [Next]_vars => DeadlineInv'
  BY DeadlineInductive
<1>3. DeadlineInv => EveryCycleMeetsItsDeadline
  BY DEF DeadlineInv
<1> QED  BY <1>1, <1>2, <1>3, TimesHold, InvariantHolds, PTL DEF Spec
=============================================================================
