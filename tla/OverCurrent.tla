------------------------------ MODULE OverCurrent ------------------------------
(***************************************************************************)
(* The last part of the loop of User_NullProcess (User.c): with every new  *)
(* sample it locks the channels that have sourced too much current for too *)
(* long, and writes the ADCs so that they stop.  The input task, which     *)
(* samples and counts while the background runs, is external; so is        *)
(* whoever unlocks a channel again, which is left out.                     *)
(***************************************************************************)
EXTENDS Naturals

CONSTANTS
  IF8I_NUM_CH,
  over_current_timer_expired,  \* samples
  MaxRolling                   \* a bound: the last sample

OverCurrentAssumption ==
  /\ IF8I_NUM_CH \in Nat \ {0} /\ over_current_timer_expired \in Nat /\ MaxRolling \in Nat

IF8I_Channels == 1..IF8I_NUM_CH

VARIABLES
  scanning,          \* the background is in the loop over the channels
  channel,           \* i
  rolling,           \* if8i_i.rolling
  lastRolling,       \* last_rolling
  sourceOverCount,   \* dbase[i].Alarm.SourceOverCount
  sourceOverLocked,  \* dbase[i].Alarm.SourceOverLocked
  sourcing,          \* the bits of field power in ADC_config[i]
  adcData,           \* adc_data
  adcs,              \* what the ADCs were written with
  sendLock           \* send_lock

vars == <<scanning, channel, rolling, lastRolling, sourceOverCount, sourceOverLocked, sourcing,
          adcData, adcs, sendLock>>

Init ==
  /\ scanning = FALSE /\ channel = 1
  /\ rolling = 0 /\ lastRolling = 0
  /\ sourceOverCount = [i \in IF8I_Channels |-> 0]
  /\ sourceOverLocked = [i \in IF8I_Channels |-> FALSE]
  /\ sourcing = [i \in IF8I_Channels |-> TRUE]
  /\ adcData \in {[i \in IF8I_Channels |-> on] : on \in BOOLEAN}
  /\ adcs = [i \in IF8I_Channels |-> TRUE]
  /\ sendLock = FALSE

\* The input task takes a sample: a channel that does not source too much counts from 0.
Sample ==
  /\ rolling < MaxRolling
  /\ rolling' = rolling + 1
  /\ sourceOverCount' \in
       {[i \in IF8I_Channels |-> IF i \in over THEN sourceOverCount[i] + 1 ELSE 0] :
          over \in SUBSET {i \in IF8I_Channels : adcs[i]}}
  /\ UNCHANGED <<scanning, channel, lastRolling, sourceOverLocked, sourcing, adcData, adcs,
                 sendLock>>

\* "Rolling check ensures a new sample": last_rolling is set before the channels are
\* looked at.
StartScan ==
  /\ ~scanning /\ lastRolling # rolling
  /\ lastRolling' = rolling
  /\ scanning' = TRUE /\ channel' = 1 /\ sendLock' = FALSE
  /\ UNCHANGED <<rolling, sourceOverCount, sourceOverLocked, sourcing, adcData, adcs>>

IsNewOverSource(i) ==
  sourceOverCount[i] > over_current_timer_expired /\ ~sourceOverLocked[i]

\* Mutant: the register is collected before its bits are cleared.
CollectedBefore(i) == sourcing[i]

\* adc_data[i] = ADC_config[i].cfg_regs[3]
Collected(i) == sourcing'[i]

ScanChannel ==
  /\ scanning /\ channel \in IF8I_Channels
  /\ LET new == IsNewOverSource(channel)
     IN /\ sendLock' = (sendLock \/ new)
        /\ sourceOverLocked' = [sourceOverLocked EXCEPT ![channel] = @ \/ new]
        /\ sourcing' = [sourcing EXCEPT ![channel] = @ /\ ~new]
  /\ adcData' = [adcData EXCEPT ![channel] = Collected(channel)]
  /\ channel' = channel + 1
  /\ UNCHANGED <<scanning, rolling, lastRolling, sourceOverCount, adcs>>

\* Mutant: last_rolling is set after the channels were looked at.
SeenAtTheEnd == rolling

SeenAtTheStart == lastRolling

\* if8i_Write_ADCs, if a channel was locked.
EndScan ==
  /\ scanning /\ channel \notin IF8I_Channels
  /\ adcs' = IF sendLock THEN adcData ELSE adcs
  /\ lastRolling' = SeenAtTheStart
  /\ scanning' = FALSE
  /\ UNCHANGED <<channel, rolling, sourceOverCount, sourceOverLocked, sourcing, adcData, sendLock>>

Background == StartScan \/ ScanChannel \/ EndScan

Next == Sample \/ Background

Spec == Init /\ [][Next]_vars

\* The background gets on.
FairSpec == Spec /\ WF_vars(Background)

-----------------------------------------------------------------------------
\* "Reconfigure ADCs to turn off sourcing on Over Current channel(s)": between two
\* scans exactly the locked channels have been turned off, whatever the input task
\* counted meanwhile.
LockedChannelsAreOff ==
  ~scanning => \A i \in IF8I_Channels : adcs[i] <=> ~sourceOverLocked[i]

\* A channel that has sourced too much for too long is locked in the end or recovers,
\* though samples arrive while the channels are looked at.
OverCurrentIsLocked ==
  \A i \in IF8I_Channels :
    sourceOverCount[i] > over_current_timer_expired ~>
      sourceOverLocked[i] \/ sourceOverCount[i] <= over_current_timer_expired
=============================================================================
