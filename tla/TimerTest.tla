------------------------------ MODULE TimerTest ------------------------------
(***************************************************************************)
(* BlackfinDiagTimerTest.cpp: the test that compares the clock of the host *)
(* with the clock of the Apex ASIC.  The first iteration of a loop reads   *)
(* both clocks, the second reads them again a timing period later, and the *)
(* test stops the system if either moved by more than a margin away from   *)
(* the period.                                                             *)
(*                                                                         *)
(* The scheduler decides when an iteration is due: by the clock of the     *)
(* host, read when a pass over the tests begins.  Both the time between    *)
(* passes and the time from the beginning of a pass to the reads stretch   *)
(* or shrink what the test measures.                                       *)
(***************************************************************************)
EXTENDS Integers

CONSTANTS
  TimingPeriod,    \* TIMER_TIMING_PERIOD_MS
  Margin,          \* TIMER_MARGIN_OF_ERROR
  StartPeriod,     \* the iteration period the test is configured with
  Rates,           \* the rates of a clock: ticks it counts in TimingPeriod ticks of time
  ClockWrap,       \* the clocks count modulo this
  MaxGap,          \* bound: ticks between two passes of the scheduler
  MaxPass,         \* bound: ticks from the beginning of a pass to the last read of it
  MaxNow           \* bound: the ticks of a behaviour

TimerAssumption ==
  /\ TimingPeriod \in Nat \ {0} /\ Margin \in 0..TimingPeriod
  /\ StartPeriod \in Nat /\ TimingPeriod \in Rates /\ Rates \subseteq Nat
  /\ ClockWrap \in Nat /\ ClockWrap > 2 * TimingPeriod
  /\ MaxGap \in Nat /\ MaxPass \in Nat /\ MaxNow \in Nat
  \* What the margin must cover, for the test to pass with sound clocks.
  /\ MaxGap + MaxPass <= Margin

\* No clock is more than twice as fast as it is to be, the clock of the host counts less
\* than once around between two iterations, and no clock gets so far ahead of the other
\* that once around looks like a timing period.
ClocksArePlausible ==
  \A host \in Rates :
    LET distance == TimingPeriod * TimingPeriod + (MaxGap + 2 * MaxPass) * host
    IN /\ host <= 2 * TimingPeriod
       /\ distance + TimingPeriod <= ClockWrap * TimingPeriod
       /\ \A apex \in Rates :
            distance * apex + TimingPeriod * host
              <= (ClockWrap + TimingPeriod - Margin) * TimingPeriod * host

VARIABLES
  now,                    \* time
  rateHost, rateApex,     \* the rates of the two clocks, for the whole behaviour
  control,                \* where the program is: "background", in a "pass" before the
                          \* test, between the two reads ("halfway"), or "halted"
  wait,                   \* ticks since the program came to control
  timestampCurrent,       \* the scheduler's time stamp of the pass
  iterationComplete,      \* m_IterationCompleteTimestamp
  period,                 \* m_IterationPeriod
  beingInstantiated,      \* m_BeingInstantiated
  testState,              \* m_CurrentTestState
  startHost, startApex,   \* m_HostTimerValueStart, m_ApexTimerValueStart
  firstRead,              \* the clock read first in this iteration
  error                   \* the error code of the assertion, or "none"

clocks == <<rateHost, rateApex>>
vars == <<now, clocks, control, wait, timestampCurrent, iterationComplete, period,
          beingInstantiated, testState, startHost, startApex, firstRead, error>>

Reading(rate) == ((now * rate) \div TimingPeriod) % ClockWrap
HostGetTime == Reading(rateHost)
ApexGetTime == Reading(rateApex)
Elapsed(stop, start) == (stop - start) % ClockWrap

Init ==
  /\ now = 0 /\ rateHost \in Rates /\ rateApex \in Rates
  /\ control = "background" /\ wait = 0
  /\ timestampCurrent = 0 /\ iterationComplete = 0
  /\ period = StartPeriod /\ beingInstantiated = TRUE /\ testState = "TEST_IDLE"
  /\ startHost = 0 /\ startApex = 0 /\ firstRead = 0 /\ error = "none"

\* Time, within the bounds of where the program is.  The wait of a pass is
\* counted on when the test begins to read.
Tick ==
  /\ control # "halted" /\ now < MaxNow
  /\ wait < IF control = "background" THEN MaxGap ELSE MaxPass
  /\ now' = now + 1 /\ wait' = wait + 1
  /\ UNCHANGED <<clocks, control, timestampCurrent, iterationComplete, period,
                 beingInstantiated, testState, startHost, startApex, firstRead, error>>

\* The decision of the scheduler: IsTestScheduledToRun of the time stamp of the pass.
IsDue(stamp) == Elapsed(stamp, iterationComplete) >= period

BeginPass ==
  /\ control = "background"
  /\ timestampCurrent' = HostGetTime
  /\ control' = IF IsDue(HostGetTime) THEN "pass" ELSE "background"
  /\ wait' = 0
  /\ UNCHANGED <<now, clocks, iterationComplete, period, beingInstantiated, testState,
                 startHost, startApex, firstRead, error>>

\* ConfigForAnyNewDiagCycle: a loop that starts instantiates the test again.
Instantiates == beingInstantiated \/ testState \in {"TEST_LOOP_COMPLETE", "TEST_IDLE"}

\* RunTest up to its first read: of the host's clock in the first iteration of a
\* loop, of the Apex clock in the second.
ReadFirstClock ==
  /\ control = "pass"
  /\ beingInstantiated' = Instantiates
  /\ firstRead' = IF Instantiates THEN HostGetTime ELSE ApexGetTime
  /\ control' = "halfway"
  /\ UNCHANGED <<now, clocks, wait, timestampCurrent, iterationComplete, period, testState,
                 startHost, startApex, error>>

\* What the scheduler does when RunTest has returned.
Return(state) ==
  /\ testState' = state
  /\ iterationComplete' = timestampCurrent
  /\ control' = "background" /\ wait' = 0
  /\ UNCHANGED <<now, clocks, timestampCurrent, error, firstRead>>

\* Mutant: the period of the configuration stays.
StartPeriodStays == StartPeriod

PeriodBetweenReads == TimingPeriod

\* The rest of the first iteration.
StartTiming ==
  /\ control = "halfway" /\ beingInstantiated
  /\ beingInstantiated' = FALSE
  /\ startHost' = firstRead /\ startApex' = ApexGetTime
  /\ period' = PeriodBetweenReads
  /\ Return("TEST_IN_PROGRESS")

\* Mutant: a clock that is slow passes.
IsNotFast(elapsed) == elapsed <= TimingPeriod + Margin

IsAccurate(elapsed) ==
  TimingPeriod - Margin <= elapsed /\ elapsed <= TimingPeriod + Margin

\* The rest of the second iteration: the host's clock is judged first.
OS_Assert(code) ==
  /\ error' = code /\ control' = "halted"
  /\ UNCHANGED <<now, clocks, wait, timestampCurrent, iterationComplete, period,
                 beingInstantiated, testState, startHost, startApex, firstRead>>

FindHostTimerErr ==
  /\ control = "halfway" /\ ~beingInstantiated
  /\ ~IsAccurate(Elapsed(HostGetTime, startHost))
  /\ OS_Assert("TIMER_TEST_HOST_TIMER_ERR")

FindApexTimerErr ==
  /\ control = "halfway" /\ ~beingInstantiated
  /\ IsAccurate(Elapsed(HostGetTime, startHost)) /\ ~IsAccurate(Elapsed(firstRead, startApex))
  /\ OS_Assert("TIMER_TEST_APEX_TIMER_ERR")

CompleteTiming ==
  /\ control = "halfway" /\ ~beingInstantiated
  /\ IsAccurate(Elapsed(HostGetTime, startHost)) /\ IsAccurate(Elapsed(firstRead, startApex))
  /\ startApex' = firstRead /\ startHost' = HostGetTime
  /\ period' = StartPeriod
  /\ beingInstantiated' = beingInstantiated
  /\ Return("TEST_LOOP_COMPLETE")

RunTest == ReadFirstClock \/ StartTiming \/ FindHostTimerErr \/ FindApexTimerErr \/ CompleteTiming

Next == Tick \/ BeginPass \/ RunTest

Spec == Init /\ [][Next]_vars

-----------------------------------------------------------------------------
\* Two clocks that are accurate never stop the system, however late in the gap
\* between passes and in a pass the two iterations run: the hazard of the margin
\* at BlackfinDiagTimerTest.cpp:84.
AccurateClocksPass == (rateHost = TimingPeriod /\ rateApex = TimingPeriod) => error = "none"

\* The rates of the two clocks are so far apart that the two elapsed times cannot
\* both be within the margin, whatever passes between the reads.
Disagree ==
  LET unclear == Margin + 2 * MaxPass + 1
  IN \E fast, slow \in Rates :
        /\ {fast, slow} = {rateHost, rateApex}
        /\ fast * (TimingPeriod - unclear) > slow * (TimingPeriod + unclear)

\* Clocks that disagree never get through a loop of the test: the purpose of it,
\* BlackfinDiagTimerTest.hpp:8, "agree on elapsed time".
DisagreementIsFound == Disagree => testState # "TEST_LOOP_COMPLETE"

=============================================================================
