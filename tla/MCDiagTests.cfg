\* Every boot stream of up to two blocks, in and out of instruction memory, filled
\* and not, empty, of one buffer and of more; banks of different size, one stuck
\* byte; clocks from two thirds to nearly twice their rate; one stuck bit.
SPECIFICATION AllSpec
CONSTANTS
  Streams <- MCStreams
  LoadedRegions = {"9", "a"}
  Counts = {0, 2, 4, 6}
  WordSize = 2
  HeaderSize = 2
  DMA_BFR_SZ = 4
  MaxFaults = 1
  NmbrBytesToTestPerIteration = 2
  Values = {v1, v2}
  BankSizes <- MCBankSizes
  TestPatterns <- MCTestPatterns
  v1 = v1
  v2 = v2
  TimingPeriod = 40
  Margin = 4
  StartPeriod = 3
  Rates = {26, 36, 40, 44, 70}
  ClockWrap = 100
  MaxGap = 3
  MaxPass = 1
  MaxNow = 110
  Bits = {0, 1}
  ProgramValue = {1}
\* A test that fails and a clock that has counted to its bound stop.
CHECK_DEADLOCK FALSE
INVARIANTS NoFaultOutlivesALoop ProgramKeepsItsData NoStuckByteOutlivesALoop
INVARIANTS AccurateClocksPass DisagreementIsFound StuckBitOutlivesNoLoop
PROPERTIES EveryRamLoopEnds
