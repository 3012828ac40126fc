\* Port B with two Cbs of the ASIC and one of the host, with a queue that overflows and
\* with the queue that apex_cbb_resp asks for: one more than there are Cbs.  Port A with
\* two tasks, and callers that ask for no time at all or for two delays.
SPECIFICATION PortsSpec
CONSTANTS
  h1 = h1
  ApexCbs = {c1, c2}
  HostTable <- OneHostCb
  Workers = {w1}
  MsgQueueSizes = {2, 4}
  CbTimeout = 2
  Tasks = {t1, t2}
  Timeouts = {0, 2}
INVARIANTS EveryCbIsInOnePlace NoSenderIsSuspended
PROPERTIES EveryRequestIsAnswered EveryHostCbIsFreedAgain ReadyTaskIsScheduled
\* An assertion stops the system.
CHECK_DEADLOCK FALSE
