\* Two tasks ask for the only host Cb.
SPECIFICATION Spec
CONSTANTS
  h1 = h1
  ApexCbs = {c1}
  HostTable <- OneHostCb
  Workers = {w1, w2}
  MsgQueueSizes = {4}
  CbTimeout = 2
INVARIANT HolderGetsTheResponse
CHECK_DEADLOCK FALSE
