------------------------------ MODULE ApexAlarm ------------------------------
(***************************************************************************)
(* The alarm list (Apex.c: Apex_AlarmSet, Apex_AlarmReset, apex_add_alarm, *)
(* Apex_AlarmCancel, Apex_AlarmTrip and the interrupt handler apex_Alarm). *)
(* The hardware has one comparator: it raises the alarm interrupt when the *)
(* low word of the time reaches HostTargetTime.  The list multiplexes any  *)
(* number of alarms on it.                                                 *)
(*                                                                         *)
(* Time passes while interrupts are disabled and while the handler runs:   *)
(* between reading the time and programming the comparator, and between    *)
(* two reads of the time.  The doubly linked circular list with its fixed  *)
(* head record is a sequence here.                                         *)
(***************************************************************************)
EXTENDS Integers, Sequences, SequencesExt

CONSTANTS
  Alarms,        \* alarm records of the application
  MinAlarmTime,  \* MIN_APEX_ALARM_TIME
  Latency,       \* CCLK_TO_US(APEX_ALARM_INT_LATENCY)
  Wrap,          \* values of the low word of the time (2^32)
  MaxTime,       \* bound: the last instant modelled
  MaxSection,    \* bound: ticks from reading the time to programming the comparator
  MaxDelay       \* bound: alarms are set at most this far ahead

None == "none"

\* What the constants are; assumed where they get their values.  A critical
\* section is no longer than the time kept free before an alarm, and no alarm
\* has the name of something else the processor runs.
AlarmAssumption ==
  /\ Alarms \cap {"task", "add", "isr", "isrAdd", "isrDone", None} = {}
  /\ MinAlarmTime \in Nat /\ Latency \in Nat /\ Wrap \in Nat \ {0}
  /\ MaxTime \in Nat /\ MaxDelay \in Nat
  /\ MaxSection \in Nat /\ MaxSection <= MinAlarmTime

VARIABLES
  now,         \* Apex_GetTime()
  alarmList,   \* the records on the list, in list order: [alarm, expiration]
  hostTarget,  \* pHI_ApexReg->HostTargetTime
  pending,     \* the alarm interrupt is pending
  cpu,         \* what runs: a task, apex_add_alarm, or apex_Alarm
  read,        \* ticks since the running code read the time
  program,     \* apex_add_alarm still has to program the comparator
  removed      \* the record Apex_AlarmReset has taken off the list

vars == <<now, alarmList, hostTarget, pending, cpu, read, program, removed>>

Init ==
  /\ now = 0
  /\ alarmList = <<>>
  /\ hostTarget = 0
  /\ pending = FALSE
  /\ cpu = "task"
  /\ read = 0
  /\ program = FALSE
  /\ removed = None

\* What the 32 bit comparator keeps of an expiration time.
LowWord(time) == time % Wrap

OnList(a) == \E i \in DOMAIN alarmList : alarmList[i].alarm = a

\* The hardware: time passes, and the comparator matches the low word.
Tick ==
  /\ now < MaxTime
  /\ cpu \in {"add", "isrAdd", "isrDone"} => read < MaxSection
  /\ now' = now + 1
  /\ read' = IF cpu \in {"add", "isrAdd", "isrDone"} THEN read + 1 ELSE read
  /\ pending' = (pending \/ LowWord(now + 1) = hostTarget)
  /\ UNCHANGED <<alarmList, hostTarget, cpu, program, removed>>

(***************************************************************************)
(* apex_add_alarm, in two steps inside one critical section: the time is   *)
(* read and the record linked, then the comparator programmed.             *)
(***************************************************************************)
IsInFuture(alarmTime) == alarmTime > now + MinAlarmTime + Latency

\* The entries the search passes over: they expire no later.
Before(expiration) == {i \in DOMAIN alarmList : expiration >= alarmList[i].expiration}

\* The search stops at the first entry that expires later.
IsPosition(i, expiration) ==
  /\ \A j \in 1..(i - 1) : j \in Before(expiration)
  /\ i \notin Before(expiration)

\* The alarm was added to the front of the list.
IsFront(position) == position = 1

\* The record is linked and the comparator programmed next, or, if the time is
\* not in the future, the caller gets an error.
AddAlarm(a, alarmTime, onSuccess, onError) ==
  IF IsInFuture(alarmTime)
  THEN \E position \in 1..(Len(alarmList) + 1) :
         LET expiration == alarmTime - Latency
         IN /\ IsPosition(position, expiration)
            /\ alarmList' = InsertAt(alarmList, position, [alarm |-> a, expiration |-> expiration])
            /\ program' = IsFront(position)
            /\ cpu' = onSuccess
            /\ read' = 0
  ELSE cpu' = onError /\ UNCHANGED <<alarmList, program, read>>

\* The end of apex_add_alarm: program the comparator if need be, sti.
EndAdd(from, to) ==
  /\ cpu = from
  /\ hostTarget' = IF program THEN LowWord(Head(alarmList).expiration) ELSE hostTarget
  /\ program' = FALSE
  /\ cpu' = to
  /\ UNCHANGED <<now, alarmList, pending, read, removed>>

\* Apex_AlarmSet from a task, for a record that is not on the list.
AlarmSet(a) ==
  /\ cpu = "task" /\ ~OnList(a) /\ removed # a
  /\ \E t \in (now + 1)..(now + MaxDelay) : AddAlarm(a, t, "add", "task")
  /\ UNCHANGED <<now, hostTarget, pending, removed>>

\* The record leaves the list.
Unlink(a) ==
  \E i \in DOMAIN alarmList : alarmList[i].alarm = a /\ alarmList' = RemoveAt(alarmList, i)

\* The first critical section of Apex_AlarmReset.
AlarmResetRemove(a) ==
  /\ cpu = "task" /\ removed = None
  /\ removed' = a
  /\ IF OnList(a) THEN Unlink(a) ELSE UNCHANGED alarmList
  /\ UNCHANGED <<now, hostTarget, pending, cpu, read, program>>

\* The second: the record goes back, or is lost if the new time has passed.
AlarmResetAdd ==
  /\ cpu = "task" /\ removed # None
  /\ \E t \in (now + 1)..(now + MaxDelay) : AddAlarm(removed, t, "add", "task")
  /\ removed' = None
  /\ UNCHANGED <<now, hostTarget, pending>>

\* Apex_AlarmCancel.  Apex_AlarmTrip changes the list in the same way, and
\* then calls the alarm's routine.
AlarmCancel(a) ==
  /\ cpu = "task" /\ Unlink(a)
  /\ UNCHANGED <<now, hostTarget, pending, cpu, read, program, removed>>

(***************************************************************************)
(* apex_Alarm, the interrupt handler.                                      *)
(***************************************************************************)
\* The interrupt is taken and acknowledged.
EnterAlarmInterrupt ==
  /\ cpu = "task" /\ pending
  /\ pending' = FALSE
  /\ cpu' = "isr"
  /\ UNCHANGED <<now, alarmList, hostTarget, read, program, removed>>

\* Mutant: only alarms whose time has come are taken off the list.
IsPast(expiration) == now >= expiration

HasExpired(expiration) == now + MinAlarmTime >= expiration

\* The first record has expired: it leaves the list and its routine runs,
\* which may set the same alarm again.
AlarmExpires ==
  /\ cpu = "isr" /\ alarmList # <<>>
  /\ HasExpired(Head(alarmList).expiration)
  /\ alarmList' = Tail(alarmList)
  /\ \/ cpu' = "isr"
     \/ cpu' = Head(alarmList).alarm
  /\ UNCHANGED <<now, hostTarget, pending, read, program, removed>>

\* The routine of alarm a sets it again.
RoutineSetsAlarm(a) ==
  /\ cpu = a
  /\ \E t \in (now + 1)..(now + MaxDelay) : AddAlarm(a, t, "isrAdd", "isr")
  /\ UNCHANGED <<now, hostTarget, pending, removed>>

\* The first record has not expired: the loop ends with the time just read.
NothingMoreExpires ==
  /\ cpu = "isr"
  /\ alarmList # <<>> => ~HasExpired(Head(alarmList).expiration)
  /\ cpu' = "isrDone"
  /\ read' = 0
  /\ UNCHANGED <<now, alarmList, hostTarget, pending, program, removed>>

\* The comparator is programmed for the first record left, and the handler returns.
ReprogramAndReturn ==
  /\ cpu = "isrDone"
  /\ hostTarget' = IF alarmList # <<>> THEN LowWord(Head(alarmList).expiration) ELSE hostTarget
  /\ cpu' = "task"
  /\ UNCHANGED <<now, alarmList, pending, read, program, removed>>

Next ==
  \/ Tick
  \/ \E a \in Alarms : AlarmSet(a) \/ AlarmResetRemove(a) \/ AlarmCancel(a) \/ RoutineSetsAlarm(a)
  \/ AlarmResetAdd
  \/ EndAdd("add", "task")
  \/ EndAdd("isrAdd", "isr")
  \/ EnterAlarmInterrupt
  \/ AlarmExpires
  \/ NothingMoreExpires
  \/ ReprogramAndReturn

Spec == Init /\ [][Next]_vars

-----------------------------------------------------------------------------
\* No wake-up is lost: an alarm on the list whose time has come is about to
\* be served, by an interrupt that is pending or a handler that is running.
\* Programming the comparator too late would cost a whole wrap of the time.
NoAlarmIsMissed ==
  \A i \in DOMAIN alarmList :
    alarmList[i].expiration <= now => pending \/ cpu \notin {"task", "add"}
=============================================================================
