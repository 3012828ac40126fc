\* The lock, unbounded; four rollovers of the time, updated just often enough to
\* meet the third quarter; two alarms over two wraps of the comparator, set up to
\* a wrap and more ahead, by code that takes just MIN_APEX_ALARM_TIME; and the
\* narrowest watchdog counter and time-out.
SPECIFICATION SharedSpec
CONSTANTS
  Wrap = 64
  HighWrap = 5
  MaxUpdateGap = 11
  MaxReadGap = 2
  Alarms = {a1, a2}
  MinAlarmTime = 1
  Latency = 1
  AlarmWrap = 8
  MaxTime = 18
  MaxSection = 1
  MaxDelay = 11
  CounterWrap = 2
  MaxCallGap = 3
  MaxEcho = 2
  Timeout = 6
INVARIANTS MutualExclusion AtMostOneOvertakes
INVARIANTS GetTimeIsExact NoAlarmIsMissed
INVARIANTS NoResetWhileApexWorks StoppedApexIsNoticed
PROPERTIES LockIsAcquired
\* The counted time and a run of the watchdog that was reset both end.
CHECK_DEADLOCK FALSE
