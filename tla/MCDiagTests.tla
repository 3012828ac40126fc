----------------------------- MODULE MCDiagTests -----------------------------
(***************************************************************************)
(* The diagnostic tests.  They have no state in common, so checking each   *)
(* of them alone is checking them together: "testing" says which one a     *)
(* behaviour is about.                                                     *)
(***************************************************************************)
EXTENDS DataRam

CONSTANTS
  v1, v2,                                                              \* of DataRam
  Streams, LoadedRegions, Counts, WordSize, HeaderSize, DMA_BFR_SZ, MaxFaults,
                                                                       \* of InstructionRam
  TimingPeriod, Margin, StartPeriod, Rates, ClockWrap, MaxGap, MaxPass, MaxNow,
                                                                       \* of TimerTest
  Bits, ProgramValue                                                   \* of CpuTests

VARIABLES
  stream, faulty, instrTestState, header, bfrOffset, errorCode, oldFaults,
  now, rateHost, rateApex, control, wait, timestampCurrent, iterationComplete, period,
  beingInstantiated, timerTestState, startHost, startApex, firstRead, timerError,
  regs, stuckBit, sanityTestRan, regTestState, stuckAtStart, regError,
  testing

instrVars == <<stream, faulty, instrTestState, header, bfrOffset, errorCode, oldFaults>>
timerVars == <<now, rateHost, rateApex, control, wait, timestampCurrent, iterationComplete,
               period, beingInstantiated, timerTestState, startHost, startApex, firstRead,
               timerError>>
cpuVars   == <<regs, stuckBit, sanityTestRan, regTestState, stuckAtStart, regError>>
allVars   == <<vars, instrVars, timerVars, cpuVars, testing>>

MCBankSizes    == <<4, 2, 2>>
MCTestPatterns == <<v1, v2>>

\* The boot streams do not depend on the constant they are to be the value of.
BootStreams == INSTANCE MCInstructionRam WITH Streams <- {}, testState <- instrTestState
MCStreams   == BootStreams!MCStreams

Instr == INSTANCE InstructionRam WITH testState <- instrTestState
Timer == INSTANCE TimerTest WITH testState <- timerTestState, error <- timerError
Cpu   == INSTANCE CpuTests WITH stuck <- stuckBit, testState <- regTestState, error <- regError

ASSUME TestsAssumption ==
  Instr!InstructionRamAssumption /\ Timer!TimerAssumption /\ Cpu!CpuAssumption

ASSUME ClocksAssumption == Timer!ClocksArePlausible

\* What stands still has one value.
AllInit ==
  /\ testing \in {"instruction ram", "data ram", "timers", "cpu"}
  /\ Init /\ Instr!Init /\ Timer!Init /\ Cpu!Init
  /\ testing # "instruction ram" => stream = CHOOSE s \in Streams : TRUE
  /\ testing # "data ram" => ram = [a \in Addresses |-> v1]
  /\ testing # "timers" => rateHost = TimingPeriod /\ rateApex = TimingPeriod

OfInstructionRam(A) ==
  testing = "instruction ram" /\ A /\ UNCHANGED <<vars, timerVars, cpuVars, testing>>
OfDataRam(A) ==
  testing = "data ram" /\ A /\ UNCHANGED <<instrVars, timerVars, cpuVars, testing>>
OfTimers(A) ==
  testing = "timers" /\ A /\ UNCHANGED <<vars, instrVars, cpuVars, testing>>
OfCpu(A) ==
  testing = "cpu" /\ A /\ UNCHANGED <<vars, instrVars, timerVars, testing>>

InstructionRamNext ==
  \/ OfInstructionRam(Instr!CannotStart)
  \/ OfInstructionRam(Instr!ReadBuffer)
  \/ OfInstructionRam(Instr!ReadLastBuffer)
  \/ OfInstructionRam(Instr!CompleteLoop)
  \/ OfInstructionRam(Instr!FindBadBootStream)
  \/ \E i \in DOMAIN stream :
       \E a \in Instr!Bytes(stream[i], 0, stream[i].count) : OfInstructionRam(Instr!RamFails(a))

DataRamNext ==
  \/ OfDataRam(EnterBank)
  \/ OfDataRam(CompleteLoop)
  \/ OfDataRam(BeginByte)
  \/ OfDataRam(PatternPasses)
  \/ OfDataRam(PatternFails)
  \/ OfDataRam(EndByte)
  \/ OfDataRam(LeaveBank)
  \/ \E a \in Addresses, v \in {v1, v2} :
       OfDataRam(AppWrites(a, v)) \/ OfDataRam(ByteFails(a, v))

TimersNext ==
  \/ OfTimers(Timer!Tick)
  \/ OfTimers(Timer!BeginPass)
  \/ OfTimers(Timer!ReadFirstClock)
  \/ OfTimers(Timer!StartTiming)
  \/ OfTimers(Timer!FindHostTimerErr)
  \/ OfTimers(Timer!FindApexTimerErr)
  \/ OfTimers(Timer!CompleteTiming)

CpuNext ==
  \/ OfCpu(Cpu!RegisterFails)
  \/ OfCpu(Cpu!SanityIteration)
  \/ OfCpu(Cpu!RegisterIteration)
  \/ OfCpu(Cpu!InstructionsTest)

AllNext == InstructionRamNext \/ DataRamNext \/ TimersNext \/ CpuNext

\* The scheduler runs every test again and again until one fails.
AllSpec ==
  /\ AllInit /\ [][AllNext]_allVars
  /\ WF_allVars(OfInstructionRam(Instr!RunTest)) /\ WF_allVars(OfDataRam(Test))

-----------------------------------------------------------------------------
\* A loop of the test of the instruction RAM completes only if every byte it is to
\* compare was intact when it began, but for those of its last buffer.
NoFaultOutlivesALoop == Instr!NoFaultOutlivesALoop

\* Accurate clocks never stop the system, however late in the gap between passes
\* and in a pass the timer test runs.
AccurateClocksPass == Timer!AccurateClocksPass

\* Clocks that disagree never get through a loop of the timer test.
DisagreementIsFound == Timer!DisagreementIsFound

\* No loop of the registers test completes over a bit that was stuck when it began,
\* but for the two faults the routines cannot see.
StuckBitOutlivesNoLoop == Cpu!StuckBitOutlivesNoLoop

\* Every loop of either memory test ends.
EveryRamLoopEnds == EveryLoopEnds /\ Instr!EveryLoopEnds
=============================================================================
