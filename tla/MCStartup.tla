------------------------------- MODULE MCStartup -------------------------------
(***************************************************************************)
(* The start of the system, and what its background task and its objects   *)
(* do after it: the delayed write of calibration data, the check for over  *)
(* current, and the check of electronic keys.  They have no state in       *)
(* common: "about" says which of them a behaviour is about.                *)
(***************************************************************************)
EXTENDS Startup

CONSTANTS
  Channels, MaxPerChannel, Second, MaxTime,             \* of NullProcess
  IF8I_NUM_CH, over_current_timer_expired, MaxRolling,  \* of OverCurrent
  Products, Keys                                        \* of ElectronicKey

VARIABLES
  pc, newFlashPending, waitingOnErase, calFlash, lastCalDate, timestamp, calSuccessful,
  clearing, foundAt, calibratedAt, calibrations, flash,
  scanning, channel, rolling, lastRolling, sourceOverCount, sourceOverLocked, sourcing,
  adcData, adcs, sendLock,
  product, key, status,
  about

calVars  == <<pc, newFlashPending, waitingOnErase, calFlash, lastCalDate, timestamp,
              calSuccessful, clearing, foundAt, calibratedAt, calibrations, flash>>
overVars == <<scanning, channel, rolling, lastRolling, sourceOverCount, sourceOverLocked,
              sourcing, adcData, adcs, sendLock>>
keyVars  == <<product, key, status>>
allVars  == <<vars, calVars, overVars, keyVars, about>>

Cal  == INSTANCE NullProcess
Over == INSTANCE OverCurrent
Key  == INSTANCE ElectronicKey

ASSUME AllAssumption ==
  Cal!NullProcessAssumption /\ Over!OverCurrentAssumption /\ Key!KeyAssumption

(***************************************************************************)
(* The boards: a sound one, and those with one thing wrong.                *)
(***************************************************************************)
Fault(kind, bit, other, cell, to) ==
  [kind |-> kind, bit |-> bit, other |-> other, cell |-> cell, to |-> to]

NoFault == Fault("none", 0, 0, 0, 0)

BitFaults(cell) ==
  {Fault(kind, b, b, cell, cell) : kind \in {"stuck at 0", "stuck at 1"}, b \in Bits}
  \cup {Fault("bridged", b[1], b[2], cell, cell) : b \in {p \in Bits \X Bits : p[1] < p[2]}}

AliasedCells ==
  {Fault("aliased", 0, 0, a[1], a[2]) : a \in {p \in Addresses \X Addresses : p[1] # p[2]}}

Responses == {{}, {"cba"}, {"cbb"}}

SoundBoard ==
  [resetPullsFault |-> TRUE, faulted |-> FALSE, revision |-> TRUE, register |-> NoFault,
   memory |-> NoFault, lines |-> [r \in Responses |-> r], acksAfter |-> 1,
   faultsAfter |-> BootPolls + 2, firmware |-> TRUE]

\* A line that is always up, or never, and two that are crossed.
LineFaults ==
  {[r \in Responses |-> r \cup {e}] : e \in {"cba", "cbb"}}
  \cup {[r \in Responses |-> r \ {e}] : e \in {"cba", "cbb"}}
  \cup {[r \in Responses |-> IF r = {} THEN {} ELSE {"cba", "cbb"} \ r]}

MCBoards ==
  {SoundBoard,
   [SoundBoard EXCEPT !.resetPullsFault = FALSE], [SoundBoard EXCEPT !.faulted = TRUE],
   [SoundBoard EXCEPT !.revision = FALSE], [SoundBoard EXCEPT !.firmware = FALSE]}
  \cup {[SoundBoard EXCEPT !.register = f] : f \in BitFaults(0)}
  \cup {[SoundBoard EXCEPT !.memory = f] : f \in UNION {BitFaults(c) : c \in Addresses}}
  \cup {[SoundBoard EXCEPT !.memory = f] : f \in AliasedCells}
  \cup {[SoundBoard EXCEPT !.lines = f] : f \in LineFaults}
  \cup {[SoundBoard EXCEPT !.acksAfter = a, !.faultsAfter = f] :
          a \in 1..(BootPolls + 1), f \in 1..(BootPolls + 1)}

MCQueueSizes == [q \in {"message", "input"} |-> IF q = "message" THEN 3 ELSE 2]
MCTaskStacks == [t \in {"null", "message", "input"} |-> 2]

MCProducts ==
  {[vendor_id |-> 1, product_type |-> 1, product_code |-> c, major_rev |-> a, minor_rev |-> b] :
     c \in {1, 2}, a \in {1, 2}, b \in {1, 2}}
MCKeys ==
  {[vendor_id |-> v, product_type |-> t, product_code |-> c, major_rev |-> a, minor_rev |-> b,
    compatible |-> m] :
     v \in 0..2, t \in 0..2, c \in {0, 2}, a \in 0..2, b \in 0..2, m \in BOOLEAN}

\* What stands still has one value.
AllInit ==
  /\ about \in {"start", "calibration", "over current", "key"}
  /\ Init /\ Cal!Init /\ Over!Init
  /\ about # "start" =>
       /\ board = SoundBoard /\ releaseBuild = TRUE /\ sicImask = {}
       /\ heap = CHOOSE n \in HeapSizes : TRUE
       /\ emptySize = CHOOSE n \in StackSpaces : TRUE
  /\ about # "over current" => \A i \in DOMAIN adcData : adcData[i]
  /\ \/ about = "key" /\ Key!Init
     \/ /\ about # "key"
        /\ product = CHOOSE p \in Products : TRUE
        /\ key = CHOOSE k \in Keys : TRUE
        /\ status = "none"

OfStart(A) == about = "start" /\ A /\ UNCHANGED <<calVars, overVars, keyVars, about>>
OfCal(A)   == about = "calibration" /\ A /\ UNCHANGED <<vars, overVars, keyVars, about>>
OfOver(A)  == about = "over current" /\ A /\ UNCHANGED <<vars, calVars, keyVars, about>>
OfKey(A)   == about = "key" /\ A /\ UNCHANGED <<vars, calVars, overVars, about>>

StartNext ==
  \/ OfStart(InitData)
  \/ OfStart(CreateMessageQueue)
  \/ OfStart(CreateNullTask)
  \/ OfStart(CreateMessageTask)
  \/ OfStart(ResetApex)
  \/ OfStart(TestRegister)
  \/ OfStart(TestMemory)
  \/ OfStart(TestInterrupts)
  \/ OfStart(StartWatchdog)
  \/ OfStart(UserInit)
  \/ OfStart(BootApex)
  \/ OfStart(WaitForApex)
  \/ OfStart(PostTest)
  \/ OfStart(FirstKick)
  \/ OfStart(EnablePortG)
  \/ OfStart(EnableInterrupts)
  \/ OfStart(ArmWatchdog)
  \/ OfStart(WriteCrashLog)
  \/ OfStart(Stop)
  \/ OfStart(WatchdogExpires)
  \/ OfStart(LockBus)
  \/ \E e \in OS_INTERRUPTS : OfStart(Serve(e))
  \/ \E e \in {"cba", "cbb"} : OfStart(RaiseInterrupt(e))

CalNext ==
  \/ OfCal(Cal!StartErase)
  \/ OfCal(Cal!KeepWaiting)
  \/ OfCal(Cal!PollAgain)
  \/ OfCal(Cal!WriteFlash)
  \/ OfCal(Cal!FlashFails)
  \/ OfCal(Cal!ClearPending)
  \/ OfCal(Cal!StartClearing)
  \/ OfCal(Cal!ClearCalSuccessful)
  \/ OfCal(Cal!EndClearing)
  \/ OfCal(Cal!Sample)
  \/ OfCal(Cal!EraseEnds)
  \/ \E i \in Channels : OfCal(Cal!FindCalSuccessful(i)) \/ OfCal(Cal!Calibrate(i))

OverNext ==
  \/ OfOver(Over!Sample)
  \/ OfOver(Over!StartScan)
  \/ OfOver(Over!ScanChannel)
  \/ OfOver(Over!EndScan)

KeyNext == OfKey(Key!User_ValidateKey)

AllNext == StartNext \/ CalNext \/ OverNext \/ KeyNext

\* The fairness of the four.
AllSpec ==
  /\ AllInit /\ [][AllNext]_allVars
  /\ WF_allVars(OfStart(Program)) /\ WF_allVars(OfStart(WatchdogExpires))
  /\ WF_allVars(OfCal(Cal!Background)) /\ WF_allVars(OfCal(Cal!Sample))
  /\ WF_allVars(OfCal(Cal!EraseEnds))
  /\ WF_allVars(OfOver(Over!Background))

-----------------------------------------------------------------------------
\* A channel shows the success of its calibration for more than a second, unless it is
\* calibrated again between the look at its age and the clear.
SuccessIsShownForASecond == Cal!SuccessIsShownForASecond

\* Between two scans exactly the locked channels have been turned off.
LockedChannelsAreOff == Over!LockedChannelsAreOff

\* A channel that has sourced too much for too long is locked in the end or recovers.
OverCurrentIsLocked == Over!OverCurrentIsLocked

\* A compatible key that a product accepts is accepted by every later revision of it.
UpgradeKeepsCompatibleKeys == Key!UpgradeKeepsCompatibleKeys
=============================================================================
