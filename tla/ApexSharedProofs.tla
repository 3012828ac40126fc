-------------------------- MODULE ApexSharedProofs --------------------------
(***************************************************************************)
(* Proofs about what the two processors share: the lock, on its own, for   *)
(* every interleaving of their accesses to it; and the time, the alarms    *)
(* and the watchdog, for any widths, delays and alarm records that meet    *)
(* SharedAssumption.  Each component has an inductive invariant of its     *)
(* own; a step of SharedNext is a step of one component and leaves the     *)
(* others alone.                                                           *)
(***************************************************************************)
EXTENDS MCApexShared, Sequences, TLAPS

-----------------------------------------------------------------------------
(***************************************************************************)
(* The lock.                                                               *)
(***************************************************************************)
\* Type correctness, and the flags mirror the calls that are open.
THEOREM LockTypeCorrect == Spec => []TypeOK
  <1>1. Init => TypeOK
    BY DEF Init, TypeOK, Processors, HOST_LOCK, APEX_LOCK
  <1>2. TypeOK /\ [Next]_vars => TypeOK'
    <2> SUFFICES ASSUME TypeOK, [Next]_vars
                 PROVE  TypeOK'
      OBVIOUS
    <2>0. \A p \in Processors : Other(p) \in Processors
      BY DEF Processors, HOST_LOCK, APEX_LOCK, Other
    <2>1. ASSUME NEW p \in Processors, RaiseFlag(p)
          PROVE  TypeOK'
      BY <2>1 DEF RaiseFlag, Go, TypeOK
    <2>2. ASSUME NEW p \in Processors, GiveTurn(p)
          PROVE  TypeOK'
      BY <2>0, <2>2 DEF GiveTurn, TurnGivenAway, Go, TypeOK
    <2>3. ASSUME NEW p \in Processors, FlagIsDown(p) \/ TurnIsNotOthers(p)
          PROVE  TypeOK'
      BY <2>0, <2>3 DEF FlagIsDown, TurnIsNotOthers, Acquire, TypeOK
    <2>4. ASSUME NEW p \in Processors, FlagIsUp(p) \/ TurnIsOthers(p)
          PROVE  TypeOK'
      BY <2>4 DEF FlagIsUp, TurnIsOthers, Go, TypeOK
    <2>5. ASSUME NEW p \in Processors, GiveUp(p) \/ Unlock(p)
          PROVE  TypeOK'
      BY <2>5 DEF GiveUp, Unlock, FlagLowered, Go, TypeOK
    <2>6. CASE UNCHANGED vars
      BY <2>6 DEF vars, TypeOK
    <2>7. QED
      BY <2>1, <2>2, <2>3, <2>4, <2>5, <2>6 DEF Next, InCall
  <1>3. QED
    BY <1>1, <1>2, PTL DEF Spec

\* While one processor holds the lock, the other, if it has given the turn
\* away and not withdrawn yet, has given it to the holder.
TurnIsHolders ==
  \A p \in Processors :
    at[p] = "inside" /\ at[Other(p)] \in {"readFlag", "readTurn", "giveUp", "inside"} =>
      turn = p

\* The holder's turn survives every step of both processors.
LEMMA TurnIsHoldersInductive ==
  ASSUME TypeOK, TurnIsHolders, [Next]_vars
  PROVE  TurnIsHolders'
  <1>0. \A p \in Processors : /\ Other(p) \in Processors /\ Other(p) # p
                              /\ Other(Other(p)) = p
                              /\ \A q \in Processors : q = p \/ q = Other(p)
    BY DEF Processors, HOST_LOCK, APEX_LOCK, Other
  <1> USE DEF TypeOK, TurnIsHolders, Go
  <1>1. ASSUME NEW p \in Processors, RaiseFlag(p)
        PROVE  TurnIsHolders'
    BY <1>0, <1>1 DEF RaiseFlag
  <1>2. ASSUME NEW p \in Processors, GiveTurn(p)
        PROVE  TurnIsHolders'
    BY <1>0, <1>2 DEF GiveTurn, TurnGivenAway
  <1>3. ASSUME NEW p \in Processors, FlagIsDown(p)
        PROVE  TurnIsHolders'
    BY <1>0, <1>3 DEF FlagIsDown, Acquire
  <1>4. ASSUME NEW p \in Processors, TurnIsNotOthers(p)
        PROVE  TurnIsHolders'
    BY <1>0, <1>4 DEF TurnIsNotOthers, Acquire
  <1>5. ASSUME NEW p \in Processors, FlagIsUp(p) \/ TurnIsOthers(p)
        PROVE  TurnIsHolders'
    BY <1>0, <1>5 DEF FlagIsUp, TurnIsOthers
  <1>6. ASSUME NEW p \in Processors, GiveUp(p) \/ Unlock(p)
        PROVE  TurnIsHolders'
    BY <1>0, <1>6 DEF GiveUp, Unlock
  <1>7. CASE UNCHANGED vars
    BY <1>7 DEF vars
  <1>8. QED
    BY <1>1, <1>2, <1>3, <1>4, <1>5, <1>6, <1>7 DEF Next, InCall

\* The host and Apex never hold the lock at once.
THEOREM LockMutualExclusion == Spec => []MutualExclusion
  <1>1. Init => TurnIsHolders
    BY DEF Init, TurnIsHolders
  <1>2. TypeOK /\ TurnIsHolders => MutualExclusion
    BY DEF TurnIsHolders, MutualExclusion, Processors, HOST_LOCK, APEX_LOCK, Other
  <1>3. QED
    BY <1>1, <1>2, LockTypeCorrect, TurnIsHoldersInductive, PTL DEF Spec

Waits(p) == at[p] \in {"readFlag", "readTurn"}

\* While a processor waits that was overtaken once, the turn is its own as soon as the
\* other one tries again: then the other cannot get by a second time.
OvertakenHasTheTurn ==
  \A p \in Processors :
    /\ overtaken[p] <= 1
    /\ Waits(p) /\ overtaken[p] = 1 /\ at[Other(p)] \in {"readFlag", "readTurn", "giveUp"} =>
         turn = p

\* The turn stays with who was overtaken, through every step of both processors.
LEMMA OvertakenHasTheTurnInductive ==
  ASSUME TypeOK, OvertakenHasTheTurn, [Next]_vars
  PROVE  OvertakenHasTheTurn'
  <1>0. \A p \in Processors : /\ Other(p) \in Processors /\ Other(p) # p
                              /\ Other(Other(p)) = p
                              /\ \A q \in Processors : q = p \/ q = Other(p)
    BY DEF Processors, HOST_LOCK, APEX_LOCK, Other
  <1> USE DEF TypeOK, OvertakenHasTheTurn, Waits, Go
  <1>1. ASSUME NEW p \in Processors, RaiseFlag(p) \/ GiveUp(p) \/ Unlock(p)
        PROVE  OvertakenHasTheTurn'
    BY <1>0, <1>1 DEF RaiseFlag, GiveUp, Unlock
  <1>2. ASSUME NEW p \in Processors, GiveTurn(p)
        PROVE  OvertakenHasTheTurn'
    BY <1>0, <1>2 DEF GiveTurn, TurnGivenAway
  <1>3. ASSUME NEW p \in Processors, FlagIsDown(p) \/ TurnIsNotOthers(p)
        PROVE  OvertakenHasTheTurn'
    <2>1. Waits(Other(p)) => overtaken[Other(p)] = 0
      BY <1>0, <1>3 DEF FlagIsDown, TurnIsNotOthers
    <2> QED
      BY <1>0, <1>3, <2>1 DEF FlagIsDown, TurnIsNotOthers, Acquire
  <1>4. ASSUME NEW p \in Processors, FlagIsUp(p) \/ TurnIsOthers(p)
        PROVE  OvertakenHasTheTurn'
    BY <1>0, <1>4 DEF FlagIsUp, TurnIsOthers
  <1>5. CASE UNCHANGED vars
    BY <1>5 DEF vars
  <1>6. QED
    BY <1>1, <1>2, <1>3, <1>4, <1>5 DEF Next, InCall

\* While one processor waits, the other gets the lock at most once, however often it
\* calls Apex_Lock or Apex_TryLock.
THEOREM LockOvertakesOnce == Spec => []AtMostOneOvertakes
  <1>1. Init => OvertakenHasTheTurn
    BY DEF Init, OvertakenHasTheTurn
  <1>2. OvertakenHasTheTurn => AtMostOneOvertakes
    BY DEF OvertakenHasTheTurn, AtMostOneOvertakes
  <1>3. QED
    BY <1>1, <1>2, LockTypeCorrect, OvertakenHasTheTurnInductive, PTL DEF Spec

-----------------------------------------------------------------------------
(***************************************************************************)
(* The time.                                                               *)
(***************************************************************************)
\* A number is its quotient and its remainder.
LEMMA QuotientAndRemainder ==
  ASSUME NEW W \in Nat \ {0}, NEW n \in Nat
  PROVE  n \div W \in Nat /\ n % W \in 0..(W - 1) /\ n = (n \div W) * W + (n % W)
OBVIOUS

\* Counting on by one carries into the quotient exactly at the last remainder.
LEMMA CarryOrNot ==
  ASSUME NEW W \in Nat \ {0}, NEW n \in Nat
  PROVE  \/ /\ (n + 1) \div W = n \div W
            /\ (n + 1) % W = (n % W) + 1
            /\ n % W # W - 1
         \/ /\ (n + 1) \div W = (n \div W) + 1
            /\ (n + 1) % W = 0
            /\ n % W = W - 1
OBVIOUS

\* Types, and how long Apex_UpdateTime waits before its next step.
TimeTypeOK ==
  /\ now \in Nat /\ now < Wrap * HighWrap
  /\ updating \in BOOLEAN
  /\ wait \in 0..(IF updating THEN MaxReadGap ELSE MaxUpdateGap)
  /\ high \in Nat /\ lastHigh \in 0..(HighWrap - 1)

\* The high word before this one; the first has the last before it.
WordBefore(word) == IF word = 0 THEN HighWrap - 1 ELSE word - 1

\* apex_time_high_cache is one behind only since a rollover that
\* Apex_UpdateTime has not seen yet.
HighIsLateBriefly ==
  high = Time!SystemTimeHigh \/
    /\ high = Time!SystemTimeHigh - 1
    /\ Time!SystemTime < IF updating THEN wait ELSE MaxReadGap + wait

\* last_apex_time_high_cache is one behind until Apex_UpdateTime finds the low
\* word in its third quarter, which it does not step over.
LastHighFollowsLate ==
  \/ /\ lastHigh = WordBefore(Time!SystemTimeHigh)
     /\ Time!SystemTime <= (Time!ULONG_MAX \div 2) + wait + IF updating THEN MaxUpdateGap ELSE 0
  \/ lastHigh = Time!SystemTimeHigh /\ Time!SystemTime > Time!ULONG_MAX \div 2

\* The inductive invariant of the time.
TimeInv == TimeTypeOK /\ HighIsLateBriefly /\ LastHighFollowsLate

\* The bounds of the four sections of the low word are in order.
LEMMA Quarters ==
  ASSUME Time!TimeAssumption
  PROVE  LET U == Time!ULONG_MAX IN
         /\ U \in Nat /\ U \div 2 \in Nat /\ U \div 4 \in Nat
         /\ U \div 4 <= U \div 2 /\ 3 * (U \div 4) <= U
         /\ 3 * (U \div 4) <= (U \div 2) + (U \div 4)
BY DEF Time!TimeAssumption, Time!ULONG_MAX

\* The high word is one of the HighWrap values.
LEMMA HighInRange ==
  ASSUME Time!TimeAssumption, TimeTypeOK
  PROVE  Time!SystemTimeHigh \in 0..(HighWrap - 1)
<1>1. now \in Nat /\ Wrap \in Nat \ {0} /\ HighWrap \in Nat \ {0} /\ now < Wrap * HighWrap
  BY DEF Time!TimeAssumption, TimeTypeOK
<1>2. now \div Wrap \in Nat /\ now % Wrap \in 0..(Wrap - 1) /\ now = (now \div Wrap) * Wrap + (now % Wrap)
  BY <1>1, QuotientAndRemainder
<1>3. ASSUME now \div Wrap >= HighWrap PROVE FALSE
  <2>1. (now \div Wrap) * Wrap >= HighWrap * Wrap
    BY <1>1, <1>2, <1>3
  <2> QED  BY <2>1, <1>1, <1>2
<1> QED  BY <1>1, <1>2, <1>3 DEF Time!SystemTimeHigh

\* In the first quarter the word after last_apex_time_high_cache is the high
\* word, in the others apex_time_high_cache is.
LEMMA TimeExact ==
  ASSUME Time!TimeAssumption, TimeInv
  PROVE  Time!GetTimeIsExact
<1> USE DEF Time!TimeAssumption
<1>1. now \in Nat /\ Wrap \in Nat \ {0}  BY DEF TimeInv, TimeTypeOK
<1>2. now = Time!SystemTimeHigh * Wrap + Time!SystemTime
  BY <1>1, QuotientAndRemainder DEF Time!SystemTimeHigh, Time!SystemTime
<1>3. Time!SystemTime \in Nat
  BY <1>1, QuotientAndRemainder DEF Time!SystemTime
<1>4. Time!SystemTimeHigh \in 0..(HighWrap - 1)  BY HighInRange DEF TimeInv
<1>5. CASE Time!SystemTime < Time!ULONG_MAX \div 4
  <2>1. lastHigh = WordBefore(Time!SystemTimeHigh)
    BY <1>3, <1>5, Quarters DEF TimeInv, LastHighFollowsLate
  <2>2. (lastHigh + 1) % HighWrap = Time!SystemTimeHigh
    <3>1. CASE Time!SystemTimeHigh = 0
      BY <3>1, <2>1 DEF WordBefore
    <3>2. CASE Time!SystemTimeHigh # 0
      BY <3>2, <2>1, <1>4 DEF WordBefore
    <3> QED  BY <3>1, <3>2
  <2> QED  BY <2>2, <1>5, <1>2 DEF Time!GetTimeIsExact, Time!GetTime
<1>6. CASE ~(Time!SystemTime < Time!ULONG_MAX \div 4)
  <2>1. high = Time!SystemTimeHigh
    BY <1>3, <1>6, Quarters DEF TimeInv, TimeTypeOK, HighIsLateBriefly
  <2> QED  BY <2>1, <1>6, <1>2 DEF Time!GetTimeIsExact, Time!GetTime
<1> QED  BY <1>5, <1>6

\* Every step of the time keeps its invariant.
LEMMA TimeInductive ==
  ASSUME Time!TimeAssumption, TimeInv, [Time!Next]_Time!vars
  PROVE  TimeInv'
<1> USE DEF Time!TimeAssumption, TimeInv
<1>1. now \in Nat /\ Wrap \in Nat \ {0}  BY DEF TimeTypeOK
<1>2. Time!SystemTime \in 0..Time!ULONG_MAX /\ Time!SystemTimeHigh \in 0..(HighWrap - 1)
  BY <1>1, QuotientAndRemainder, HighInRange DEF Time!SystemTime, Time!ULONG_MAX
<1>3. CASE Time!Tick
  <2>1. TimeTypeOK'
    BY <1>1, <1>3 DEF TimeTypeOK, Time!Tick
  <2>2. CASE /\ Time!SystemTimeHigh' = Time!SystemTimeHigh
             /\ Time!SystemTime' = Time!SystemTime + 1
             /\ Time!SystemTime # Time!ULONG_MAX
    BY <1>2, <1>3, <2>1, <2>2, Quarters
    DEF TimeTypeOK, HighIsLateBriefly, LastHighFollowsLate, WordBefore, Time!Tick, Time!ULONG_MAX
  <2>3. CASE /\ Time!SystemTimeHigh' = Time!SystemTimeHigh + 1
             /\ Time!SystemTime' = 0
             /\ Time!SystemTime = Time!ULONG_MAX
    BY <1>2, <1>3, <2>1, <2>3, Quarters
    DEF TimeTypeOK, HighIsLateBriefly, LastHighFollowsLate, WordBefore, Time!Tick, Time!ULONG_MAX
  <2> QED
    BY <1>1, <1>3, <2>2, <2>3, CarryOrNot
    DEF Time!Tick, Time!SystemTime, Time!SystemTimeHigh, Time!ULONG_MAX
<1>4. CASE Time!ReadHigh
  BY <1>1, <1>2, <1>4 DEF Time!ReadHigh, TimeTypeOK, HighIsLateBriefly, LastHighFollowsLate, WordBefore,
     Time!SystemTime, Time!SystemTimeHigh, Time!ULONG_MAX
<1>5. CASE Time!ReadLow
  <2>1. Time!SystemTime' = Time!SystemTime /\ Time!SystemTimeHigh' = Time!SystemTimeHigh
    BY <1>5 DEF Time!ReadLow, Time!SystemTime, Time!SystemTimeHigh
  <2>2. ~(Time!SystemTime < wait) => high = Time!SystemTimeHigh
    BY <1>2, <1>5 DEF HighIsLateBriefly, Time!ReadLow, TimeTypeOK
  <2>3. Time!SystemTime > Time!ULONG_MAX \div 2 => high = Time!SystemTimeHigh
    BY <1>2, <1>5, <2>2, Quarters DEF TimeTypeOK, Time!ReadLow
  <2>4. TimeTypeOK'
    <3>1. lastHigh' \in 0..(HighWrap - 1)
      BY <1>2, <1>5, <2>3 DEF TimeTypeOK, Time!ReadLow, Time!AwayFromRollover
    <3>2. ~updating' /\ updating' \in BOOLEAN
      BY <1>5, Zenon DEF Time!ReadLow
    <3> QED  BY <1>5, <3>1, <3>2 DEF TimeTypeOK, Time!ReadLow
  <2>5. HighIsLateBriefly'
    BY <1>2, <1>5, <2>1 DEF TimeTypeOK, HighIsLateBriefly, Time!ReadLow
  <2>6. LastHighFollowsLate'
    BY <1>2, <1>5, <2>1, <2>3, Quarters
    DEF TimeTypeOK, LastHighFollowsLate, WordBefore, Time!ReadLow, Time!AwayFromRollover
  <2> QED  BY <2>4, <2>5, <2>6
<1>6. CASE UNCHANGED Time!vars
  BY <1>6 DEF Time!vars, TimeTypeOK, HighIsLateBriefly, LastHighFollowsLate, WordBefore,
     Time!SystemTime, Time!SystemTimeHigh
<1> QED
  BY <1>3, <1>4, <1>5, <1>6 DEF Time!Next

\* The caches start as if the word before the first had just ended.
LEMMA TimeInitially ==
  ASSUME Time!TimeAssumption, Time!Init
  PROVE  TimeInv
<1> USE DEF Time!TimeAssumption
<1>1. now \in 0..MaxUpdateGap /\ MaxUpdateGap < Wrap /\ MaxUpdateGap <= Time!ULONG_MAX \div 2
  BY Quarters DEF Time!Init, Time!ULONG_MAX
<1>2. now % Wrap = now /\ now \div Wrap = 0
  BY <1>1
<1>3. now < Wrap * HighWrap
  BY <1>1
<1>4. ~updating /\ updating \in BOOLEAN
  BY Zenon DEF Time!Init
<1> QED
  BY <1>1, <1>2, <1>3, <1>4, Quarters DEF Time!Init, TimeInv, TimeTypeOK, HighIsLateBriefly, LastHighFollowsLate, WordBefore,
     Time!SystemTime, Time!SystemTimeHigh, Time!InitialLastHigh

-----------------------------------------------------------------------------
(***************************************************************************)
(* The alarms.                                                             *)
(***************************************************************************)
\* What the list holds.
Record == [alarm : Alarms, expiration : Nat]

\* The list is in order of expiration.
IsSorted(list) ==
  \A i, j \in DOMAIN list : i <= j => list[i].expiration <= list[j].expiration

\* The records after the one removed move up.
LEMMA AfterRemoval ==
  ASSUME NEW list \in Seq(Record), NEW i \in 1..Len(list)
  PROVE  /\ Alarm!RemoveAt(list, i) \in Seq(Record)
         /\ Len(Alarm!RemoveAt(list, i)) = Len(list) - 1
         /\ \A j \in 1..(Len(list) - 1) :
              Alarm!RemoveAt(list, i)[j] = IF j < i THEN list[j] ELSE list[j + 1]
<1> DEFINE front == SubSeq(list, 1, i - 1)
           back  == SubSeq(list, i + 1, Len(list))
<1>1. /\ front \in Seq(Record) /\ Len(front) = i - 1
      /\ \A j \in 1..(i - 1) : front[j] = list[j]
  OBVIOUS
<1>2. /\ back \in Seq(Record) /\ Len(back) = Len(list) - i
      /\ \A j \in 1..(Len(list) - i) : back[j] = list[i + j]
  OBVIOUS
<1>3. Alarm!RemoveAt(list, i) = front \o back
  BY DEF Alarm!RemoveAt
<1> HIDE DEF front, back
<1>4. front \o back \in Seq(Record) /\ Len(front \o back) = Len(list) - 1
  BY <1>1, <1>2
<1>5. ASSUME NEW j \in 1..(Len(list) - 1)
      PROVE  (front \o back)[j] = IF j < i THEN list[j] ELSE list[j + 1]
  <2>1. CASE j < i
    BY <1>1, <1>2, <2>1
  <2>2. CASE ~(j < i)
    <3>1. j - (i - 1) \in 1..(Len(list) - i) /\ i + (j - (i - 1)) = j + 1
      BY <2>2
    <3> QED  BY <1>1, <1>2, <2>2, <3>1
  <2> QED  BY <2>1, <2>2
<1> QED  BY <1>3, <1>4, <1>5

\* The records from the new one on move down.
LEMMA AfterInsertion ==
  ASSUME NEW list \in Seq(Record), NEW i \in 1..(Len(list) + 1), NEW r \in Record
  PROVE  /\ Alarm!InsertAt(list, i, r) \in Seq(Record)
         /\ Len(Alarm!InsertAt(list, i, r)) = Len(list) + 1
         /\ \A j \in 1..(Len(list) + 1) :
              Alarm!InsertAt(list, i, r)[j] =
                IF j < i THEN list[j] ELSE IF j = i THEN r ELSE list[j - 1]
<1> DEFINE front == SubSeq(list, 1, i - 1)
           upTo  == front \o <<r>>
           back  == SubSeq(list, i, Len(list))
<1>1. /\ front \in Seq(Record) /\ Len(front) = i - 1
      /\ \A j \in 1..(i - 1) : front[j] = list[j]
  OBVIOUS
<1>2. back \in Seq(Record) /\ Len(back) = Len(list) - i + 1
  OBVIOUS
<1>3. \A j \in 1..(Len(list) - i + 1) : back[j] = list[i + j - 1]
  OBVIOUS
<1>4. Alarm!InsertAt(list, i, r) = upTo \o back
  BY DEF Alarm!InsertAt
<1> HIDE DEF front, back
<1>5. upTo \in Seq(Record) /\ Len(upTo) = i
  BY <1>1
<1>6. \A j \in 1..i : upTo[j] = IF j < i THEN list[j] ELSE r
  BY <1>1
<1> HIDE DEF upTo
<1>7. upTo \o back \in Seq(Record) /\ Len(upTo \o back) = Len(list) + 1
  BY <1>2, <1>5
<1>8. ASSUME NEW j \in 1..(Len(list) + 1)
      PROVE  (upTo \o back)[j] = IF j < i THEN list[j] ELSE IF j = i THEN r ELSE list[j - 1]
  <2>1. CASE j <= i
    BY <1>2, <1>5, <1>6, <2>1
  <2>2. CASE ~(j <= i)
    <3>1. j - i \in 1..(Len(list) - i + 1) /\ i + (j - i) - 1 = j - 1
      BY <2>2
    <3> QED  BY <1>2, <1>3, <1>5, <2>2, <3>1
  <2> QED  BY <2>1, <2>2
<1>9. \A j \in 1..(Len(list) + 1) :
        Alarm!InsertAt(list, i, r)[j] = IF j < i THEN list[j] ELSE IF j = i THEN r ELSE list[j - 1]
  BY <1>4, <1>8, Zenon
<1>10. Alarm!InsertAt(list, i, r) \in Seq(Record) /\ Len(Alarm!InsertAt(list, i, r)) = Len(list) + 1
  BY <1>4, <1>7
<1> QED  BY <1>9, <1>10

\* Types; no critical section takes longer than MaxSection.
AlarmTypeOK ==
  /\ alarmNow \in Nat
  /\ alarmList \in Seq(Record)
  /\ hostTarget \in Nat
  /\ pending \in BOOLEAN
  /\ read \in 0..MaxSection
  /\ program \in BOOLEAN
  /\ removed \in Alarms \cup {Alarm!None}

\* The comparator matches before the first alarm expires, or as it does.
WillMatch ==
  \E x \in Nat : /\ x > alarmNow /\ Alarm!LowWord(x) = hostTarget
                 /\ x <= alarmList[1].expiration

\* What holds when a task runs: the first alarm is not forgotten.
FirstIsWaitedFor == alarmList = <<>> \/ pending \/ WillMatch

\* The first alarm lay MIN_APEX_ALARM_TIME ahead when the time was read.
FirstIsAhead == alarmList # <<>> => alarmList[1].expiration + read > alarmNow + MinAlarmTime

\* What is known of the first alarm, by what the processor runs.
ComparatorIsProgrammed ==
  /\ cpu = "task" \/ (cpu = "add" /\ ~program) => FirstIsWaitedFor
  /\ (cpu = "add" /\ program) \/ cpu = "isrDone" => FirstIsAhead
  /\ cpu \in {"add", "isrAdd"} /\ program => alarmList # <<>>

\* The inductive invariant of the alarms.
AlarmInv == AlarmTypeOK /\ IsSorted(alarmList) /\ ComparatorIsProgrammed

\* A record of the list has an expiration.
LEMMA ExpirationType ==
  ASSUME NEW list \in Seq(Record), NEW i \in 1..Len(list)
  PROVE  list[i].expiration \in Nat /\ i \in DOMAIN list
<1>1. list[i] \in Record /\ i \in DOMAIN list
  OBVIOUS
<1> QED  BY <1>1 DEF Record

\* Unlinking a record keeps the order.
LEMMA SortedAfterRemoval ==
  ASSUME NEW list \in Seq(Record), NEW i \in 1..Len(list), IsSorted(list)
  PROVE  IsSorted(Alarm!RemoveAt(list, i))
<1> DEFINE rest == Alarm!RemoveAt(list, i)
           Old(j) == IF j < i THEN j ELSE j + 1
<1>1. rest \in Seq(Record) /\ Len(rest) = Len(list) - 1
  BY AfterRemoval
<1>2. ASSUME NEW j \in 1..(Len(list) - 1)
      PROVE  Old(j) \in 1..Len(list) /\ rest[j] = list[Old(j)]
  <2>1. rest[j] = IF j < i THEN list[j] ELSE list[j + 1]
    BY AfterRemoval
  <2>2. CASE j < i
    BY <2>1, <2>2
  <2>3. CASE ~(j < i)
    BY <2>1, <2>3
  <2> QED  BY <2>2, <2>3
<1>3. \A j, k \in 1..(Len(list) - 1) : j <= k => Old(j) <= Old(k)
  OBVIOUS
<1>4. \A j, k \in 1..Len(list) : j <= k => list[j].expiration <= list[k].expiration
  BY DEF IsSorted
<1>5. DOMAIN rest = 1..(Len(list) - 1)
  BY <1>1
<1> HIDE DEF rest, Old
<1>6. IsSorted(rest)
  BY <1>2, <1>3, <1>4, <1>5 DEF IsSorted
<1> QED  BY <1>6 DEF rest

\* Linking a record before the first that expires later keeps the order.
LEMMA SortedAfterInsertion ==
  ASSUME NEW list \in Seq(Record), NEW i \in 1..(Len(list) + 1), NEW r \in Record, IsSorted(list),
         \A j \in 1..(i - 1) : list[j].expiration <= r.expiration,
         i <= Len(list) => r.expiration < list[i].expiration
  PROVE  IsSorted(Alarm!InsertAt(list, i, r))
<1> DEFINE longer == Alarm!InsertAt(list, i, r)
<1>1. longer \in Seq(Record) /\ Len(longer) = Len(list) + 1 /\ DOMAIN longer = 1..(Len(list) + 1)
  BY AfterInsertion
<1>2. \A j \in 1..(Len(list) + 1) :
        longer[j] = IF j < i THEN list[j] ELSE IF j = i THEN r ELSE list[j - 1]
  BY AfterInsertion
<1>3. \A j, k \in 1..Len(list) : j <= k => list[j].expiration <= list[k].expiration
  BY DEF IsSorted
<1>4. r.expiration \in Nat /\ \A j \in 1..Len(list) : list[j].expiration \in Nat
  BY ExpirationType DEF Record
<1>5. \A k \in i..Len(list) : r.expiration <= list[k].expiration
  <2>1. SUFFICES ASSUME NEW k \in i..Len(list)
                 PROVE  r.expiration <= list[k].expiration
    OBVIOUS
  <2>2. i \in 1..Len(list) /\ k \in 1..Len(list) /\ i <= k
    OBVIOUS
  <2>3. list[i].expiration <= list[k].expiration
    BY <1>3, <2>2
  <2> QED  BY <1>4, <2>2, <2>3
<1> HIDE DEF longer
<1>6. ASSUME NEW j \in 1..(Len(list) + 1), NEW k \in 1..(Len(list) + 1), j <= k
      PROVE  longer[j].expiration <= longer[k].expiration
  <2>1. CASE k < i
    BY <1>2, <1>3, <1>6, <2>1
  <2>2. CASE k = i
    BY <1>2, <1>4, <1>6, <2>2
  <2>3. CASE k > i /\ j < i
    <3>1. longer[j] = list[j] /\ longer[k] = list[k - 1] /\ k - 1 \in 1..Len(list) /\ j <= k - 1
      BY <1>2, <2>3
    <3> QED  BY <1>3, <3>1
  <2>4. CASE k > i /\ j = i
    BY <1>2, <1>5, <2>4
  <2>5. CASE k > i /\ j > i
    <3>1. longer[j] = list[j - 1] /\ longer[k] = list[k - 1]
      BY <1>2, <2>5
    <3>2. j - 1 \in 1..Len(list) /\ k - 1 \in 1..Len(list) /\ j - 1 <= k - 1
      BY <1>6, <2>5
    <3> QED  BY <1>3, <3>1, <3>2
  <2> QED  BY <2>1, <2>2, <2>3, <2>4, <2>5
<1>7. IsSorted(longer)
  BY <1>1, <1>6 DEF IsSorted
<1> QED  BY <1>7 DEF longer

\* The empty list needs no interrupt.
LEMMA AlarmInitially ==
  ASSUME Alarm!AlarmAssumption, Alarm!Init
  PROVE  AlarmInv
<1>1. AlarmTypeOK
  <2>1. pending \in BOOLEAN /\ program \in BOOLEAN
    BY Zenon DEF Alarm!Init
  <2> QED  BY <2>1 DEF Alarm!AlarmAssumption, Alarm!Init, AlarmTypeOK
<1>2. IsSorted(alarmList) /\ FirstIsWaitedFor
  BY DEF Alarm!Init, IsSorted, FirstIsWaitedFor
<1> QED  BY <1>1, <1>2 DEF Alarm!Init, AlarmInv, ComparatorIsProgrammed

\* The list is in order and its first alarm is not missed: none is.
LEMMA AlarmsNotMissed ==
  ASSUME Alarm!AlarmAssumption, AlarmInv
  PROVE  Alarm!NoAlarmIsMissed
<1> SUFFICES ASSUME NEW i \in DOMAIN alarmList, alarmList[i].expiration <= alarmNow,
                    cpu \in {"task", "add"}, ~pending
             PROVE  FALSE
  BY DEF Alarm!NoAlarmIsMissed
<1>1. /\ alarmNow \in Nat /\ MinAlarmTime \in Nat /\ read \in Nat /\ read <= MinAlarmTime
      /\ alarmList \in Seq(Record) /\ i \in 1..Len(alarmList) /\ 1 \in 1..Len(alarmList)
  BY DEF Alarm!AlarmAssumption, AlarmInv, AlarmTypeOK
<1>2. alarmList[1].expiration \in Nat /\ alarmList[i].expiration \in Nat
  BY <1>1, ExpirationType
<1>3. alarmList[1].expiration <= alarmList[i].expiration
  BY <1>1 DEF AlarmInv, IsSorted
<1>4. alarmList # <<>>
  BY <1>1
<1>5. WillMatch \/ FirstIsAhead
  BY <1>4 DEF AlarmInv, ComparatorIsProgrammed, FirstIsWaitedFor
<1>6. alarmList[1].expiration > alarmNow
  BY <1>1, <1>2, <1>4, <1>5 DEF WillMatch, FirstIsAhead
<1> QED  BY <1>1, <1>2, <1>3, <1>6

\* What apex_add_alarm does with a time that is in the future.
LEMMA RecordAdded ==
  ASSUME Alarm!AlarmAssumption, AlarmTypeOK, IsSorted(alarmList), NEW a \in Alarms,
         NEW t \in (alarmNow + 1)..(alarmNow + MaxDelay), Alarm!IsInFuture(t),
         NEW onSuccess, NEW onError, Alarm!AddAlarm(a, t, onSuccess, onError),
         alarmNow' = alarmNow
  PROVE  /\ alarmList' \in Seq(Record) /\ alarmList' # <<>> /\ IsSorted(alarmList)'
         /\ read' = 0 /\ program' \in BOOLEAN /\ cpu' = onSuccess
         /\ program' => FirstIsAhead'
         /\ ~program' => alarmList # <<>> /\ alarmList'[1] = alarmList[1]
<1> DEFINE e == t - Latency
           r == [alarm |-> a, expiration |-> e]
<1>1. PICK i \in 1..(Len(alarmList) + 1) :
        /\ Alarm!IsPosition(i, e) /\ alarmList' = Alarm!InsertAt(alarmList, i, r)
        /\ program' = Alarm!IsFront(i) /\ cpu' = onSuccess /\ read' = 0
  BY DEF Alarm!AddAlarm
<1>2. /\ alarmNow \in Nat /\ MinAlarmTime \in Nat
      /\ e \in Nat /\ e > alarmNow + MinAlarmTime
  BY DEF Alarm!IsInFuture, Alarm!AlarmAssumption, AlarmTypeOK
<1>3. r \in Record /\ r.expiration = e
  BY <1>2 DEF Record
<1>4. alarmList \in Seq(Record)
  BY DEF AlarmTypeOK
<1> HIDE DEF e, r
<1>5. /\ alarmList' \in Seq(Record) /\ Len(alarmList') = Len(alarmList) + 1
      /\ \A j \in 1..(Len(alarmList) + 1) :
           alarmList'[j] = IF j < i THEN alarmList[j] ELSE IF j = i THEN r ELSE alarmList[j - 1]
  BY <1>1, <1>3, <1>4, AfterInsertion
<1>6. 1 \in 1..(Len(alarmList) + 1)
  BY <1>4
<1>7. i = 1 => alarmList'[1] = r
  BY <1>5, <1>6
<1>8. i # 1 => alarmList'[1] = alarmList[1]
  BY <1>5, <1>6
<1>9. /\ \A j \in 1..(i - 1) : alarmList[j].expiration <= r.expiration
  BY <1>1, <1>2, <1>3, <1>4, ExpirationType DEF Alarm!IsPosition, Alarm!Before
<1>10. i <= Len(alarmList) => r.expiration < alarmList[i].expiration
  <2>1. SUFFICES ASSUME i <= Len(alarmList) PROVE r.expiration < alarmList[i].expiration
    OBVIOUS
  <2>2. i \in 1..Len(alarmList)
    BY <1>4, <2>1
  <2>3. alarmList[i].expiration \in Nat /\ i \in DOMAIN alarmList
    BY <1>4, <2>2, ExpirationType
  <2> QED  BY <1>1, <1>2, <1>3, <2>3 DEF Alarm!IsPosition, Alarm!Before
<1>11. IsSorted(alarmList')
  BY <1>1, <1>3, <1>4, <1>9, <1>10, SortedAfterInsertion
<1>12. program' \in BOOLEAN /\ (program' <=> i = 1)
  BY <1>1, Zenon DEF Alarm!IsFront
<1>13. i = 1 => FirstIsAhead'
  BY <1>1, <1>2, <1>3, <1>5, <1>7 DEF FirstIsAhead
<1>14. i # 1 => alarmList # <<>>
  BY <1>4
<1>15. alarmList' # <<>>
  BY <1>4, <1>5
<1>16. IsSorted(alarmList)'
  BY <1>11 DEF IsSorted
<1> QED  BY <1>1, <1>5, <1>8, <1>12, <1>13, <1>14, <1>15, <1>16

\* Unlinking any record leaves the comparator early enough for the first.
LEMMA RecordUnlinked ==
  ASSUME Alarm!AlarmAssumption, AlarmInv, NEW a, Alarm!Unlink(a), cpu = "task",
         UNCHANGED <<alarmNow, hostTarget, pending, cpu, read, program>>,
         removed' \in Alarms \cup {Alarm!None}
  PROVE  AlarmInv'
<1>1. PICK i \in DOMAIN alarmList : alarmList' = Alarm!RemoveAt(alarmList, i)
  BY DEF Alarm!Unlink
<1>2. alarmList \in Seq(Record) /\ i \in 1..Len(alarmList)
  BY DEF AlarmInv, AlarmTypeOK
<1>3. /\ alarmList' \in Seq(Record) /\ Len(alarmList') = Len(alarmList) - 1
      /\ \A j \in 1..(Len(alarmList) - 1) :
           alarmList'[j] = IF j < i THEN alarmList[j] ELSE alarmList[j + 1]
  BY <1>1, <1>2, AfterRemoval
<1>4. IsSorted(alarmList')
  BY <1>1, <1>2, SortedAfterRemoval DEF AlarmInv
<1>5. ASSUME alarmList' # <<>>
      PROVE  /\ alarmList[1].expiration \in Nat /\ alarmList'[1].expiration \in Nat
             /\ alarmList[1].expiration <= alarmList'[1].expiration
  <2>1. 1 \in 1..(Len(alarmList) - 1) /\ 2 \in 1..Len(alarmList)
    BY <1>2, <1>3, <1>5
  <2>2. alarmList'[1] = alarmList[1] \/ alarmList'[1] = alarmList[2]
    BY <1>3, <2>1
  <2>3. alarmList[1].expiration \in Nat /\ alarmList[2].expiration \in Nat
    BY <1>2, <2>1, ExpirationType
  <2>4. alarmList[1].expiration <= alarmList[2].expiration
    BY <1>2, <2>1 DEF AlarmInv, IsSorted
  <2> QED  BY <2>2, <2>3, <2>4
<1>6. FirstIsWaitedFor'
  <2>1. CASE alarmList' = <<>> \/ pending
    BY <2>1 DEF FirstIsWaitedFor
  <2>2. CASE alarmList' # <<>> /\ ~pending
    <3>1. alarmList # <<>>
      BY <1>2, <1>3, <2>2
    <3>2. WillMatch
      BY <2>2, <3>1 DEF AlarmInv, ComparatorIsProgrammed, FirstIsWaitedFor
    <3>3. PICK x \in Nat : x > alarmNow /\ Alarm!LowWord(x) = hostTarget /\ x <= alarmList[1].expiration
      BY <3>2 DEF WillMatch
    <3>4. x <= alarmList'[1].expiration
      BY <1>5, <2>2, <3>3
    <3> QED  BY <3>3, <3>4 DEF FirstIsWaitedFor, WillMatch, Alarm!LowWord
  <2> QED  BY <2>1, <2>2
<1>7. AlarmTypeOK'
  BY <1>3 DEF AlarmInv, AlarmTypeOK
<1>8. IsSorted(alarmList)'
  BY <1>4 DEF IsSorted
<1> QED  BY <1>6, <1>7, <1>8 DEF AlarmInv, ComparatorIsProgrammed

\* A call of apex_add_alarm by a task, with or without success.
LEMMA TaskSetsAlarm ==
  ASSUME Alarm!AlarmAssumption, AlarmInv, cpu = "task", NEW a \in Alarms,
         NEW t \in (alarmNow + 1)..(alarmNow + MaxDelay), Alarm!AddAlarm(a, t, "add", "task"),
         UNCHANGED <<alarmNow, hostTarget, pending>>, removed' \in Alarms \cup {Alarm!None}
  PROVE  AlarmInv'
<1>1. CASE Alarm!IsInFuture(t)
  <2>1. /\ alarmList' \in Seq(Record) /\ alarmList' # <<>> /\ IsSorted(alarmList)'
        /\ read' = 0 /\ program' \in BOOLEAN /\ cpu' = "add"
        /\ program' => FirstIsAhead'
        /\ ~program' => alarmList # <<>> /\ alarmList'[1] = alarmList[1]
    BY <1>1, RecordAdded DEF AlarmInv
  <2>2. AlarmTypeOK'
    BY <2>1 DEF AlarmInv, AlarmTypeOK, Alarm!AlarmAssumption
  <2>3. ~program' => FirstIsWaitedFor'
    BY <2>1 DEF AlarmInv, ComparatorIsProgrammed, FirstIsWaitedFor, WillMatch, Alarm!LowWord
  <2> QED  BY <2>1, <2>2, <2>3 DEF AlarmInv, ComparatorIsProgrammed
<1>2. CASE ~Alarm!IsInFuture(t)
  <2>1. UNCHANGED <<alarmNow, alarmList, hostTarget, pending, cpu, read, program>>
    BY <1>2 DEF Alarm!AddAlarm
  <2> QED
    BY <2>1 DEF AlarmInv, AlarmTypeOK, IsSorted, ComparatorIsProgrammed, FirstIsWaitedFor, FirstIsAhead,
       WillMatch, Alarm!LowWord
<1> QED  BY <1>1, <1>2

\* A call of apex_add_alarm by the routine of an alarm.
LEMMA RoutineSetsAlarm ==
  ASSUME Alarm!AlarmAssumption, AlarmInv, NEW a \in Alarms, Alarm!RoutineSetsAlarm(a)
  PROVE  AlarmInv'
<1>1. PICK t \in (alarmNow + 1)..(alarmNow + MaxDelay) : Alarm!AddAlarm(a, t, "isrAdd", "isr")
  BY DEF Alarm!RoutineSetsAlarm
<1>2. UNCHANGED <<alarmNow, hostTarget, pending, removed>>
  BY DEF Alarm!RoutineSetsAlarm
<1>3. CASE Alarm!IsInFuture(t)
  <2>1. /\ alarmList' \in Seq(Record) /\ alarmList' # <<>> /\ IsSorted(alarmList)'
        /\ read' = 0 /\ program' \in BOOLEAN /\ cpu' = "isrAdd"
    BY <1>1, <1>2, <1>3, RecordAdded DEF AlarmInv
  <2>2. AlarmTypeOK'
    BY <1>2, <2>1 DEF AlarmInv, AlarmTypeOK, Alarm!AlarmAssumption
  <2> QED  BY <2>1, <2>2 DEF AlarmInv, ComparatorIsProgrammed
<1>4. CASE ~Alarm!IsInFuture(t)
  <2>1. UNCHANGED <<alarmNow, alarmList, hostTarget, pending, read, program>> /\ cpu' = "isr"
    BY <1>1, <1>2, <1>4 DEF Alarm!AddAlarm
  <2> QED  BY <1>2, <2>1 DEF AlarmInv, AlarmTypeOK, IsSorted, ComparatorIsProgrammed
<1> QED  BY <1>3, <1>4

\* The comparator is programmed with the low word of a time.
LEMMA FirstLowWord ==
  ASSUME Alarm!AlarmAssumption, AlarmTypeOK, alarmList # <<>>
  PROVE  /\ Head(alarmList) = alarmList[1] /\ alarmList[1].expiration \in Nat
         /\ Alarm!LowWord(Head(alarmList).expiration) \in Nat
<1>1. 1 \in 1..Len(alarmList) /\ Head(alarmList) = alarmList[1]
  BY DEF AlarmTypeOK
<1>2. alarmList[1].expiration \in Nat
  BY <1>1, ExpirationType DEF AlarmTypeOK
<1> QED  BY <1>1, <1>2 DEF Alarm!LowWord, Alarm!AlarmAssumption

\* An alarm still ahead is waited for once the comparator is programmed.
LEMMA FirstIsProgrammed ==
  ASSUME Alarm!AlarmAssumption, AlarmInv, FirstIsAhead, alarmList # <<>>,
         hostTarget' = Alarm!LowWord(Head(alarmList).expiration),
         cpu' = "task", program' \in BOOLEAN,
         UNCHANGED <<alarmNow, alarmList, pending, read, removed>>
  PROVE  AlarmInv'
<1>1. alarmList[1].expiration > alarmNow
  BY FirstLowWord DEF FirstIsAhead, AlarmInv, AlarmTypeOK, Alarm!AlarmAssumption
<1>2. WillMatch'
  BY <1>1, FirstLowWord DEF WillMatch, AlarmInv, Alarm!LowWord
<1>3. AlarmTypeOK'
  BY FirstLowWord DEF AlarmInv, AlarmTypeOK
<1> QED
  BY <1>2, <1>3 DEF AlarmInv, IsSorted, ComparatorIsProgrammed, FirstIsWaitedFor

\* Every step of the alarms keeps their invariant.
LEMMA AlarmInductive ==
  ASSUME Alarm!AlarmAssumption, AlarmInv, [Alarm!Next]_Alarm!vars
  PROVE  AlarmInv'
<1>1. CASE Alarm!Tick
  <2>1. pending' \in BOOLEAN /\ (pending' <=> pending \/ Alarm!LowWord(alarmNow + 1) = hostTarget)
    BY <1>1, Zenon DEF Alarm!Tick, AlarmInv, AlarmTypeOK
  <2>2. AlarmTypeOK' /\ IsSorted(alarmList)'
    BY <1>1, <2>1 DEF Alarm!Tick, AlarmInv, AlarmTypeOK, IsSorted, Alarm!AlarmAssumption
  <2>3. ASSUME FirstIsWaitedFor PROVE FirstIsWaitedFor'
    <3>1. CASE alarmList = <<>> \/ pending
      BY <1>1, <2>1, <3>1 DEF Alarm!Tick, FirstIsWaitedFor
    <3>2. CASE WillMatch
      <4>1. PICK x \in Nat : x > alarmNow /\ Alarm!LowWord(x) = hostTarget /\ x <= alarmList[1].expiration
        BY <3>2 DEF WillMatch
      <4>2. CASE x = alarmNow + 1
        BY <2>1, <4>1, <4>2 DEF FirstIsWaitedFor
      <4>3. CASE x # alarmNow + 1
        <5>1. x > alarmNow'
          BY <1>1, <4>1, <4>3 DEF Alarm!Tick, AlarmInv, AlarmTypeOK
        <5> QED  BY <1>1, <4>1, <5>1 DEF Alarm!Tick, FirstIsWaitedFor, WillMatch, Alarm!LowWord
      <4> QED  BY <4>2, <4>3
    <3> QED  BY <2>3, <3>1, <3>2 DEF FirstIsWaitedFor
  <2>4. ASSUME cpu \in {"add", "isrDone"}, FirstIsAhead PROVE FirstIsAhead'
    <3>1. alarmList # <<>> => alarmList[1].expiration \in Nat
      BY ExpirationType DEF AlarmInv, AlarmTypeOK
    <3> QED
      BY <1>1, <2>4, <3>1 DEF Alarm!Tick, AlarmInv, AlarmTypeOK, FirstIsAhead, Alarm!AlarmAssumption
  <2> QED  BY <1>1, <2>2, <2>3, <2>4 DEF Alarm!Tick, AlarmInv, ComparatorIsProgrammed
<1>2. ASSUME NEW a \in Alarms, Alarm!AlarmSet(a) PROVE AlarmInv'
  BY <1>2, TaskSetsAlarm DEF Alarm!AlarmSet, AlarmInv, AlarmTypeOK
<1>3. ASSUME NEW a \in Alarms, Alarm!AlarmResetRemove(a) PROVE AlarmInv'
  <2>1. CASE Alarm!OnList(a)
    BY <1>3, <2>1, RecordUnlinked DEF Alarm!AlarmResetRemove, AlarmInv, AlarmTypeOK
  <2>2. CASE ~Alarm!OnList(a)
    BY <1>3, <2>2 DEF Alarm!AlarmResetRemove, AlarmInv, AlarmTypeOK, IsSorted, ComparatorIsProgrammed,
       FirstIsWaitedFor, FirstIsAhead, WillMatch, Alarm!LowWord
  <2> QED  BY <2>1, <2>2
<1>4. ASSUME NEW a \in Alarms, Alarm!AlarmCancel(a) PROVE AlarmInv'
  BY <1>4, RecordUnlinked DEF Alarm!AlarmCancel, AlarmInv, AlarmTypeOK
<1>5. ASSUME NEW a \in Alarms, Alarm!RoutineSetsAlarm(a) PROVE AlarmInv'
  BY <1>5, RoutineSetsAlarm
<1>6. CASE Alarm!AlarmResetAdd
  BY <1>6, TaskSetsAlarm DEF Alarm!AlarmResetAdd, AlarmInv, AlarmTypeOK
<1>7. CASE Alarm!EndAdd("add", "task")
  <2>1. program' \in BOOLEAN /\ ~program'
    BY <1>7, Zenon DEF Alarm!EndAdd
  <2>2. CASE program
    BY <1>7, <2>1, <2>2, FirstIsProgrammed DEF Alarm!EndAdd, AlarmInv, ComparatorIsProgrammed
  <2>3. CASE ~program
    BY <1>7, <2>1, <2>3 DEF Alarm!EndAdd, AlarmInv, AlarmTypeOK, IsSorted, ComparatorIsProgrammed,
       FirstIsWaitedFor, WillMatch, Alarm!LowWord
  <2> QED  BY <2>2, <2>3
<1>8. CASE Alarm!EndAdd("isrAdd", "isr")
  <2>1. program => Alarm!LowWord(Head(alarmList).expiration) \in Nat
    BY <1>8, FirstLowWord DEF Alarm!EndAdd, AlarmInv, ComparatorIsProgrammed
  <2>2. program' \in BOOLEAN
    BY <1>8, Zenon DEF Alarm!EndAdd
  <2> QED
    BY <1>8, <2>1, <2>2 DEF Alarm!EndAdd, AlarmInv, AlarmTypeOK, IsSorted, ComparatorIsProgrammed
<1>9. CASE Alarm!EnterAlarmInterrupt
  <2>1. pending' \in BOOLEAN
    BY <1>9, Zenon DEF Alarm!EnterAlarmInterrupt
  <2> QED
    BY <1>9, <2>1 DEF Alarm!EnterAlarmInterrupt, AlarmInv, AlarmTypeOK, IsSorted, ComparatorIsProgrammed
<1>10. CASE Alarm!AlarmExpires
  <2>1. alarmList # <<>> /\ alarmList' = Tail(alarmList)
    BY <1>10 DEF Alarm!AlarmExpires
  <2>2. cpu' = "isr" \/ cpu' \in Alarms
    <3>1. Head(alarmList) \in Record
      BY <2>1 DEF AlarmInv, AlarmTypeOK
    <3>2. Head(alarmList).alarm \in Alarms
      BY <3>1 DEF Record
    <3> QED  BY <1>10, <3>2 DEF Alarm!AlarmExpires
  <2>3. alarmList' \in Seq(Record) /\ IsSorted(alarmList)'
    BY <2>1 DEF AlarmInv, AlarmTypeOK, IsSorted
  <2>4. cpu' \notin {"task", "add", "isrAdd", "isrDone"}
    BY <2>2 DEF Alarm!AlarmAssumption
  <2> QED
    BY <1>10, <2>3, <2>4 DEF Alarm!AlarmExpires, AlarmInv, AlarmTypeOK, ComparatorIsProgrammed
<1>11. CASE Alarm!NothingMoreExpires
  <2>1. alarmList # <<>> => alarmList[1].expiration \in Nat
    BY ExpirationType DEF AlarmInv, AlarmTypeOK
  <2>2. FirstIsAhead'
    BY <1>11, <2>1 DEF Alarm!NothingMoreExpires, Alarm!HasExpired, AlarmInv, AlarmTypeOK, FirstIsAhead,
       Alarm!AlarmAssumption
  <2> QED
    BY <1>11, <2>2 DEF Alarm!NothingMoreExpires, AlarmInv, AlarmTypeOK, IsSorted, ComparatorIsProgrammed,
       Alarm!AlarmAssumption
<1>12. CASE Alarm!ReprogramAndReturn
  <2>1. CASE alarmList # <<>>
    BY <1>12, <2>1, FirstIsProgrammed DEF Alarm!ReprogramAndReturn, AlarmInv, AlarmTypeOK, ComparatorIsProgrammed
  <2>2. CASE alarmList = <<>>
    BY <1>12, <2>2 DEF Alarm!ReprogramAndReturn, AlarmInv, AlarmTypeOK, IsSorted, ComparatorIsProgrammed,
       FirstIsWaitedFor
  <2> QED  BY <2>1, <2>2
<1>13. CASE UNCHANGED Alarm!vars
  BY <1>13 DEF Alarm!vars, AlarmInv, AlarmTypeOK, IsSorted, ComparatorIsProgrammed, FirstIsWaitedFor,
     FirstIsAhead, WillMatch, Alarm!LowWord
<1> QED
  BY <1>1, <1>2, <1>3, <1>4, <1>5, <1>6, <1>7, <1>8, <1>9, <1>10, <1>11, <1>12, <1>13 DEF Alarm!Next

-----------------------------------------------------------------------------
(***************************************************************************)
(* The watchdog.                                                           *)
(***************************************************************************)
\* Types.
WatchdogTypeOK ==
  /\ host \in 0..(CounterWrap - 1) /\ asic \in 0..(CounterWrap - 1)
  /\ apex \in {"works", "stopped", "faulted"}
  /\ sinceWrite \in Nat /\ sinceCall \in 0..MaxCallGap /\ sinceKick \in 0..Timeout
  /\ sinceStop \in Nat
  /\ state \in {"running", "reset", "asserted"}

\* While the ASIC works, the time since the last kick is that of one echo and
\* of the call after it.
EchoIsOnTime ==
  apex = "works" =>
    /\ state = "running" /\ sinceStop = 0
    /\ asic # host => sinceKick = sinceWrite /\ sinceWrite <= MaxEcho
    /\ asic = host => sinceKick <= MaxEcho + sinceCall

\* An ASIC that has stopped echoes at most the value it had then.
StopCostsOneKick ==
  state = "running" =>
    sinceStop <= IF asic = host THEN sinceCall ELSE MaxCallGap + sinceKick

\* The inductive invariant of the watchdog.
WatchdogInv == WatchdogTypeOK /\ EchoIsOnTime /\ StopCostsOneKick

\* The next value differs from the one echoed, also where the counter wraps.
LEMMA NextHostDiffers ==
  ASSUME Watchdog!WatchdogAssumption, host \in 0..(CounterWrap - 1)
  PROVE  Watchdog!NextHost \in 0..(CounterWrap - 1) /\ Watchdog!NextHost # host
BY DEF Watchdog!NextHost, Watchdog!WatchdogAssumption

\* Every step of the watchdog keeps its invariant.
LEMMA WatchdogInductive ==
  ASSUME Watchdog!WatchdogAssumption, WatchdogInv, [Watchdog!Next]_Watchdog!vars
  PROVE  WatchdogInv'
<1> USE DEF Watchdog!WatchdogAssumption, WatchdogInv, WatchdogTypeOK, EchoIsOnTime, StopCostsOneKick
<1>1. CASE Watchdog!KickWatchdog
  BY <1>1, NextHostDiffers DEF Watchdog!KickWatchdog, Watchdog!IsEchoed, Watchdog!HW_WatchdogKick
<1>2. CASE Watchdog!AwaitEcho
  BY <1>2 DEF Watchdog!AwaitEcho, Watchdog!IsEchoed
<1>3. CASE Watchdog!AssertFault
  BY <1>3 DEF Watchdog!AssertFault
<1>4. CASE Watchdog!ApexEchoes
  BY <1>4 DEF Watchdog!ApexEchoes
<1>5. CASE Watchdog!ApexStops
  BY <1>5 DEF Watchdog!ApexStops
<1>6. CASE Watchdog!Expires
  BY <1>6 DEF Watchdog!Expires, Watchdog!WatchdogAssumption
<1>7. CASE Watchdog!Tick
  BY <1>7 DEF Watchdog!Tick, Watchdog!WatchdogAssumption, Watchdog!MaxSinceStop
<1>8. CASE UNCHANGED Watchdog!vars
  BY <1>8 DEF Watchdog!vars
<1> QED
  BY <1>1, <1>2, <1>3, <1>4, <1>5, <1>6, <1>7, <1>8 DEF Watchdog!Next, Watchdog!Apex_WatchdogKick

\* The counters start equal and the hardware watchdog kicked.
LEMMA WatchdogInitially ==
  ASSUME Watchdog!WatchdogAssumption, Watchdog!Init
  PROVE  WatchdogInv
BY DEF Watchdog!WatchdogAssumption, Watchdog!Init, WatchdogInv, WatchdogTypeOK, EchoIsOnTime,
   StopCostsOneKick

\* Both properties of the watchdog follow from its invariant.
LEMMA WatchdogInTime ==
  ASSUME Watchdog!WatchdogAssumption, WatchdogInv
  PROVE  Watchdog!NoResetWhileApexWorks /\ Watchdog!StoppedApexIsNoticed
BY DEF Watchdog!WatchdogAssumption, WatchdogInv, WatchdogTypeOK, EchoIsOnTime, StopCostsOneKick,
   Watchdog!NoResetWhileApexWorks, Watchdog!StoppedApexIsNoticed

-----------------------------------------------------------------------------
(***************************************************************************)
(* All of them together.                                                   *)
(***************************************************************************)
\* A step of all of them is a step or a stutter of each.
LEMMA StepOfOneComponent ==
  ASSUME [SharedNext]_sharedVars
  PROVE  /\ [Time!Next]_Time!vars
         /\ [Alarm!Next]_Alarm!vars
         /\ [Watchdog!Next]_Watchdog!vars
<1> USE DEF timeVars, alarmVars, watchdogVars, Time!vars, Alarm!vars, Watchdog!vars,
            OfLock, OfTime, OfAlarm, OfWatchdog
<1>1. CASE LockNext
  BY <1>1 DEF LockNext
<1>2. CASE TimeNext
  BY <1>2 DEF TimeNext, Time!Next
<1>3. CASE AlarmNext
  BY <1>3 DEF AlarmNext, Alarm!Next
<1>4. CASE WatchdogNext
  BY <1>4 DEF WatchdogNext, Watchdog!Next, Watchdog!Apex_WatchdogKick
<1>5. CASE UNCHANGED sharedVars
  BY <1>5 DEF sharedVars
<1> QED  BY <1>1, <1>2, <1>3, <1>4, <1>5 DEF SharedNext

\* Apex_GetTime returns the time the hardware counts, whenever it is called.
THEOREM TimeIsExact == SharedSpec => []GetTimeIsExact
<1>1. SharedInit => TimeInv
  BY TimeInitially, SharedAssumption DEF SharedInit
<1>2. TimeInv /\ [SharedNext]_sharedVars => TimeInv'
  BY TimeInductive, StepOfOneComponent, SharedAssumption
<1>3. TimeInv => GetTimeIsExact
  BY TimeExact, SharedAssumption DEF GetTimeIsExact
<1> QED  BY <1>1, <1>2, <1>3, PTL DEF SharedSpec

\* No alarm on the list passes its time without an interrupt or the handler.
THEOREM AlarmsAreServed == SharedSpec => []NoAlarmIsMissed
<1>1. SharedInit => AlarmInv
  BY AlarmInitially, SharedAssumption DEF SharedInit
<1>2. AlarmInv /\ [SharedNext]_sharedVars => AlarmInv'
  BY AlarmInductive, StepOfOneComponent, SharedAssumption
<1>3. AlarmInv => NoAlarmIsMissed
  BY AlarmsNotMissed, SharedAssumption DEF NoAlarmIsMissed
<1> QED  BY <1>1, <1>2, <1>3, PTL DEF SharedSpec

\* The invariant of the watchdog holds in every behaviour.
LEMMA WatchdogInvHolds == SharedSpec => []WatchdogInv
<1>1. SharedInit => WatchdogInv
  BY WatchdogInitially, SharedAssumption DEF SharedInit
<1>2. WatchdogInv /\ [SharedNext]_sharedVars => WatchdogInv'
  BY WatchdogInductive, StepOfOneComponent, SharedAssumption
<1> QED  BY <1>1, <1>2, PTL DEF SharedSpec

\* While the ASIC works the hardware watchdog does not expire.
THEOREM WorkingApexIsNotReset == SharedSpec => []NoResetWhileApexWorks
<1>1. WatchdogInv => NoResetWhileApexWorks
  BY WatchdogInTime, SharedAssumption DEF NoResetWhileApexWorks
<1> QED  BY <1>1, WatchdogInvHolds, PTL

\* The host does not run on for longer than a call and a time-out after the
\* ASIC has stopped.
THEOREM StoppedApexResetsHost == SharedSpec => []StoppedApexIsNoticed
<1>1. WatchdogInv => StoppedApexIsNoticed
  BY WatchdogInTime, SharedAssumption DEF StoppedApexIsNoticed
<1> QED  BY <1>1, WatchdogInvHolds, PTL
=============================================================================
