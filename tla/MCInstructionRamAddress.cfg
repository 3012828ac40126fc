\* As MCInstructionRam.cfg: the address in the error code.
SPECIFICATION Spec
CONSTANTS
  Streams <- MCStreams
  LoadedRegions = {"9", "a"}
  Counts = {0, 2, 4, 6}
  WordSize = 2
  HeaderSize = 2
  DMA_BFR_SZ = 4
  MaxFaults = 1
CHECK_DEADLOCK FALSE
INVARIANT ErrorCodeNamesAFault
