---------------------------- MODULE MCApexShared ----------------------------
(***************************************************************************)
(* What the host has in common with the Apex processor besides the         *)
(* messages: the firmware lock, the running time, the alarms and the       *)
(* watchdog.  They have no state in common, so checking each of them alone *)
(* is checking them together: "running" says which one a behaviour is      *)
(* about.                                                                  *)
(***************************************************************************)
EXTENDS ApexLock

CONSTANTS
  Wrap, HighWrap, MaxUpdateGap, MaxReadGap,                            \* of ApexTime
  Alarms, MinAlarmTime, Latency, AlarmWrap, MaxTime, MaxSection, MaxDelay,
                                                                       \* of ApexAlarm
  CounterWrap, MaxCallGap, MaxEcho, Timeout                            \* of ApexWatchdog

VARIABLES
  now, updating, wait, high, lastHigh,
  alarmNow, alarmList, hostTarget, pending, cpu, read, program, removed,
  host, asic, apex, sinceWrite, sinceCall, sinceKick, sinceStop, state,
  running

timeVars     == <<now, updating, wait, high, lastHigh>>
alarmVars    == <<alarmNow, alarmList, hostTarget, pending, cpu, read, program, removed>>
watchdogVars == <<host, asic, apex, sinceWrite, sinceCall, sinceKick, sinceStop, state>>
sharedVars   == <<vars, timeVars, alarmVars, watchdogVars, running>>

Time     == INSTANCE ApexTime
Alarm    == INSTANCE ApexAlarm WITH now <- alarmNow, Wrap <- AlarmWrap
Watchdog == INSTANCE ApexWatchdog

ASSUME SharedAssumption ==
  Time!TimeAssumption /\ Alarm!AlarmAssumption /\ Watchdog!WatchdogAssumption

\* The time stands still, at 0, in behaviours about another component.
SharedInit ==
  /\ Init /\ Time!Init /\ Alarm!Init /\ Watchdog!Init
  /\ running \in {"lock", "time", "alarm", "watchdog"}
  /\ running # "time" => now = 0

OfLock(A) ==
  running = "lock" /\ A /\ UNCHANGED <<timeVars, alarmVars, watchdogVars, running>>
OfTime(A) ==
  running = "time" /\ A /\ UNCHANGED <<vars, alarmVars, watchdogVars, running>>
OfAlarm(A) ==
  running = "alarm" /\ A /\ UNCHANGED <<vars, timeVars, watchdogVars, running>>
OfWatchdog(A) ==
  running = "watchdog" /\ A /\ UNCHANGED <<vars, timeVars, alarmVars, running>>

LockNext ==
  \E p \in Processors :
    \/ OfLock(RaiseFlag(p))
    \/ OfLock(GiveTurn(p))
    \/ OfLock(FlagIsDown(p))
    \/ OfLock(FlagIsUp(p))
    \/ OfLock(TurnIsNotOthers(p))
    \/ OfLock(TurnIsOthers(p))
    \/ OfLock(GiveUp(p))
    \/ OfLock(Unlock(p))

TimeNext ==
  \/ OfTime(Time!Tick)
  \/ OfTime(Time!ReadHigh)
  \/ OfTime(Time!ReadLow)

AlarmNext ==
  \/ OfAlarm(Alarm!Tick)
  \/ \E a \in Alarms :
       \/ OfAlarm(Alarm!AlarmSet(a))
       \/ OfAlarm(Alarm!AlarmResetRemove(a))
       \/ OfAlarm(Alarm!AlarmCancel(a))
       \/ OfAlarm(Alarm!RoutineSetsAlarm(a))
  \/ OfAlarm(Alarm!AlarmResetAdd)
  \/ OfAlarm(Alarm!EndAdd("add", "task"))
  \/ OfAlarm(Alarm!EndAdd("isrAdd", "isr"))
  \/ OfAlarm(Alarm!EnterAlarmInterrupt)
  \/ OfAlarm(Alarm!AlarmExpires)
  \/ OfAlarm(Alarm!NothingMoreExpires)
  \/ OfAlarm(Alarm!ReprogramAndReturn)

WatchdogNext ==
  \/ OfWatchdog(Watchdog!KickWatchdog)
  \/ OfWatchdog(Watchdog!AwaitEcho)
  \/ OfWatchdog(Watchdog!AssertFault)
  \/ OfWatchdog(Watchdog!ApexEchoes)
  \/ OfWatchdog(Watchdog!ApexStops)
  \/ OfWatchdog(Watchdog!Expires)
  \/ OfWatchdog(Watchdog!Tick)

SharedNext == LockNext \/ TimeNext \/ AlarmNext \/ WatchdogNext

\* The fairness of ApexLock!FairSpec; the properties of the others need none.
SharedSpec ==
  /\ SharedInit /\ [][SharedNext]_sharedVars
  /\ \A p \in Processors :
       WF_sharedVars(OfLock(InCall(p))) /\ WF_sharedVars(OfLock(Unlock(p)))

-----------------------------------------------------------------------------
\* Apex_GetTime returns the time the hardware counts whenever it is called,
\* also from an interrupt between the two reads of Apex_UpdateTime.
GetTimeIsExact == Time!GetTimeIsExact

\* An alarm whose time has come has an interrupt pending or a handler running.
NoAlarmIsMissed == Alarm!NoAlarmIsMissed

\* While the ASIC echoes in time, Apex_WatchdogKick keeps the hardware
\* watchdog from resetting the processor.
NoResetWhileApexWorks == Watchdog!NoResetWhileApexWorks

\* Apex_WatchdogKick runs on for at most one call and one time-out after the
\* ASIC has stopped.
StoppedApexIsNoticed == Watchdog!StoppedApexIsNoticed
=============================================================================
