----------------------------- MODULE NullProcess -----------------------------
(***************************************************************************)
(* The delayed write of calibration data by the background task (User.c:   *)
(* User_NullProcess).  A task of higher priority calibrates a channel: it  *)
(* changes cal_flash, reports success in CalSuccessful and asks for the    *)
(* write by new_flash_pending.  The background erases the sector of flash, *)
(* polls until that is done, writes it and takes the request back; later   *)
(* it takes the report back.  The other task may run between any two of    *)
(* its steps.                                                              *)
(*                                                                         *)
(* The calibration, the flash and the sampling of the inputs are external. *)
(***************************************************************************)
EXTENDS Integers

CONSTANTS
  Channels,
  MaxPerChannel,  \* a bound: calibrations of a channel
  Second,         \* 1000000, in the unit of the time stamps
  MaxTime         \* a bound: the last time stamp

NullProcessAssumption ==
  /\ MaxPerChannel \in Nat /\ Second \in Nat /\ MaxTime \in Nat

VARIABLES
  pc,               \* where the background is
  newFlashPending,  \* new_flash_pending
  waitingOnErase,   \* waiting_on_erase
  calFlash,         \* cal_flash, as the number of its version
  lastCalDate,      \* cal_flash.last_cal_date
  timestamp,        \* if8i_i.timestamp
  calSuccessful,    \* if8i_i.Ch[i].CalSuccessful
  clearing,         \* the channel found to be clear of its second, or "none"
  foundAt,          \* history: when it was found
  calibratedAt,     \* history: when a channel was last calibrated
  calibrations,     \* history: how often
  flash             \* the sector at CAL_ADDRESS: the version stored there, or
                    \* Erasing, Erased, Torn

vars == <<pc, newFlashPending, waitingOnErase, calFlash, lastCalDate, timestamp,
          calSuccessful, clearing, foundAt, calibratedAt, calibrations, flash>>
history == <<foundAt, calibratedAt, calibrations>>

Erased  == -1
Erasing == -2
Torn    == -3

Init ==
  /\ pc = "top"
  /\ newFlashPending = FALSE
  /\ waitingOnErase = FALSE
  /\ calFlash = 0 /\ flash = 0
  /\ lastCalDate = 0 /\ timestamp = 0
  /\ calSuccessful = [i \in Channels |-> FALSE]
  /\ clearing = "none" /\ foundAt = 0
  /\ calibratedAt = [i \in Channels |-> 0] /\ calibrations = [i \in Channels |-> 0]

(***************************************************************************)
(* The other task, the sampling and the flash.                             *)
(***************************************************************************)
Calibrate(i) ==
  /\ calibrations[i] < MaxPerChannel
  /\ calibrations' = [calibrations EXCEPT ![i] = @ + 1]
  /\ calFlash' = calFlash + 1
  /\ lastCalDate' = timestamp
  /\ calSuccessful' = [calSuccessful EXCEPT ![i] = TRUE]
  /\ calibratedAt' = [calibratedAt EXCEPT ![i] = timestamp]
  /\ newFlashPending' = TRUE
  /\ UNCHANGED <<pc, waitingOnErase, timestamp, clearing, foundAt, flash>>

Sample ==
  /\ timestamp < MaxTime
  /\ timestamp' = timestamp + 1
  /\ UNCHANGED <<pc, newFlashPending, waitingOnErase, calFlash, lastCalDate, calSuccessful,
                 clearing, history, flash>>

EraseEnds ==
  /\ flash = Erasing
  /\ flash' = Erased
  /\ UNCHANGED <<pc, newFlashPending, waitingOnErase, calFlash, lastCalDate, timestamp,
                 calSuccessful, clearing, history>>

(***************************************************************************)
(* The loop of the background task.                                        *)
(***************************************************************************)
\* nvs_FlashDelayEraseSector.
EraseSector == Erasing

StartErase ==
  /\ pc = "top" /\ newFlashPending /\ ~waitingOnErase
  /\ flash' = EraseSector
  /\ waitingOnErase' = TRUE
  /\ pc' = "wait"
  /\ UNCHANGED <<newFlashPending, calFlash, lastCalDate, timestamp, calSuccessful,
                 clearing, history>>

KeepWaiting ==
  /\ pc = "top" /\ newFlashPending /\ waitingOnErase
  /\ pc' = "wait"
  /\ UNCHANGED <<newFlashPending, waitingOnErase, calFlash, lastCalDate, timestamp,
                 calSuccessful, clearing, history, flash>>

\* *working_addr == 0xffff
IsErased == flash = Erased

\* Go back to the beginning ...
PollAgain ==
  /\ pc = "wait" /\ ~IsErased
  /\ pc' = "top"
  /\ UNCHANGED <<newFlashPending, waitingOnErase, calFlash, lastCalDate, timestamp,
                 calSuccessful, clearing, history, flash>>

\* ... and wait for erase to complete.
WriteFlash ==
  /\ pc = "wait" /\ IsErased
  /\ flash' = calFlash
  /\ pc' = "written"
  /\ UNCHANGED <<newFlashPending, waitingOnErase, calFlash, lastCalDate, timestamp,
                 calSuccessful, clearing, history>>

\* nvs_FlashDelayEraseSector or nvs_FlashWrite returns an error.
FlashFails ==
  /\ \/ pc = "top" /\ newFlashPending /\ ~waitingOnErase /\ UNCHANGED flash
     \/ pc = "wait" /\ IsErased /\ flash' = Torn
  /\ pc' = "OS_Assert"
  /\ UNCHANGED <<newFlashPending, waitingOnErase, calFlash, lastCalDate, timestamp,
                 calSuccessful, clearing, history>>

ClearPending ==
  /\ pc = "written"
  /\ newFlashPending' = FALSE
  /\ pc' = "top"
  /\ UNCHANGED <<waitingOnErase, calFlash, lastCalDate, timestamp, calSuccessful,
                 clearing, history, flash>>

\* Nothing is pending: the loop over the channels begins ...
StartClearing ==
  /\ pc = "top" /\ ~newFlashPending
  /\ pc' = "clear"
  /\ UNCHANGED <<newFlashPending, waitingOnErase, calFlash, lastCalDate, timestamp,
                 calSuccessful, clearing, history, flash>>

\* Mutant: a bit less than a second is enough.
IsAlmostASecondAgo == timestamp - lastCalDate >= Second

IsASecondAgo == timestamp - lastCalDate > Second

\* ... which finds a channel that reports success ...
FindCalSuccessful(i) ==
  /\ pc = "clear" /\ clearing = "none"
  /\ calSuccessful[i] /\ IsASecondAgo
  /\ clearing' = i /\ foundAt' = timestamp
  /\ UNCHANGED <<pc, newFlashPending, waitingOnErase, calFlash, lastCalDate, timestamp,
                 calSuccessful, calibratedAt, calibrations, flash>>

\* ... and takes the report back, one by one ...
ClearCalSuccessful ==
  /\ pc = "clear" /\ clearing # "none"
  /\ calSuccessful' = [calSuccessful EXCEPT ![clearing] = FALSE]
  /\ clearing' = "none"
  /\ UNCHANGED <<pc, newFlashPending, waitingOnErase, calFlash, lastCalDate, timestamp,
                 history, flash>>

\* ... and ends.
EndClearing ==
  /\ pc = "clear" /\ clearing = "none"
  /\ \A i \in Channels : ~(calSuccessful[i] /\ IsASecondAgo)
  /\ pc' = "top"
  /\ UNCHANGED <<newFlashPending, waitingOnErase, calFlash, lastCalDate, timestamp,
                 calSuccessful, clearing, history, flash>>

Background ==
  \/ StartErase \/ KeepWaiting \/ PollAgain \/ WriteFlash \/ ClearPending
  \/ StartClearing \/ ClearCalSuccessful \/ EndClearing
  \/ \E i \in Channels : FindCalSuccessful(i)

Next == Background \/ FlashFails \/ Sample \/ EraseEnds \/ \E i \in Channels : Calibrate(i)

Spec == Init /\ [][Next]_vars

\* The background gets on, and an erase takes a finite time.
FairSpec == Spec /\ WF_vars(Background) /\ WF_vars(Sample) /\ WF_vars(EraseEnds)

-----------------------------------------------------------------------------
\* "wait at least 1 second before clearing bit": a channel shows the success of its
\* calibration for more than a second, whatever other channels do while the loop over
\* the channels runs.  Only a calibration of the channel itself, between the look at
\* its age and the clear (User.c:315 and 317), loses its report.
SuccessIsShownForASecond ==
  [][\A i \in Channels :
       calSuccessful[i] /\ ~calSuccessful'[i] =>
         timestamp - calibratedAt[i] > Second \/ calibratedAt[i] >= foundAt]_vars

\* new_flash_pending is the "Flag we need to do a Cal Flash in the background task":
\* the background does it, unless the flash fails.
PendingWriteIsDone == newFlashPending ~> ~newFlashPending \/ pc = "OS_Assert"
=============================================================================
