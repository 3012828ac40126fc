----------------------------- MODULE StartupProofs -----------------------------
(***************************************************************************)
(* The start of the system, for every board and all sizes of heap, stacks  *)
(* and memory: no interrupt is served before what its handler needs is     *)
(* there, and the background task is reached on sound boards only.  Then   *)
(* what the background task and its objects promise: exactly the locked    *)
(* channels are off, a calibration shows its success for a second, and an  *)
(* upgrade keeps the compatible keys.                                      *)
(***************************************************************************)
EXTENDS MCStartup, TLAPS

\* The stages from a point of the start on.
WithInterrupts == {"arm watchdog", "null loop"}
WithProcess    == WithInterrupts \cup {"null process"}
AfterPostTest  == WithProcess \cup {"kick watchdog", "enable port G"}
AfterBoot      == AfterPostTest \cup {"post test"}
AfterUserInit  == AfterBoot \cup {"boot", "wait for apex"}
WithVectors    == AfterUserInit \cup {"start watchdog", "user init"}
AfterMemoryTest   == WithVectors \cup {"interrupt test"}
AfterRegisterTest == AfterMemoryTest \cup {"memory test"}
WithTasks         == AfterRegisterTest \cup {"reset apex", "register test"}
WithHandlers      == WithTasks \cup {"message queue", "null task", "message task"}

(***************************************************************************)
(* Nothing is served unprepared.                                           *)
(***************************************************************************)
\* What has been prepared by a stage of the start.
StagesArePrepared ==
  /\ stage \in WithHandlers => handlers
  /\ stage \in WithVectors => vectors
  /\ stage \in WithProcess => currentProc

\* Interrupts are enabled at the end of the start only; an assertion disables them.
EnabledAtTheEnd == imask # {} => stage \in WithInterrupts

\* The invariant of the order of the start.
PreparedInv == StagesArePrepared /\ EnabledAtTheEnd

\* A step that asserts keeps the invariant.
LEMMA AssertPreserves ==
  ASSUME NEW error, OS_Assert(error)
  PROVE  PreparedInv'
BY DEF OS_Assert, PreparedInv, StagesArePrepared, EnabledAtTheEnd, WithHandlers, WithTasks,
       AfterRegisterTest, AfterMemoryTest, WithVectors, AfterUserInit, AfterBoot,
       AfterPostTest, WithProcess, WithInterrupts

\* So does one that goes on to a stage that needs no more than the one before.
LEMMA GoOnPreserves ==
  ASSUME PreparedInv, NEW s, GoOn(s), stage \notin WithInterrupts,
         UNCHANGED <<handlers, vectors, currentProc>>,
         s \in WithHandlers => stage \in WithHandlers,
         s \in WithVectors => stage \in WithVectors,
         s \in WithProcess => stage \in WithProcess
  PROVE  PreparedInv'
BY DEF GoOn, PreparedInv, StagesArePrepared, EnabledAtTheEnd

\* The steps that go on or assert and prepare nothing.
LEMMA PlainStepPreserves ==
  ASSUME PreparedInv,
         \/ CreateMessageQueue \/ ResetApex \/ TestRegister \/ TestMemory \/ StartWatchdog
         \/ UserInit \/ BootApex \/ WaitForApex \/ PostTest \/ FirstKick
  PROVE  PreparedInv'
<1> USE AssertPreserves, GoOnPreserves
    DEF At, GoOnIf, setup, WithHandlers, WithTasks, AfterRegisterTest, AfterMemoryTest,
        WithVectors, AfterUserInit, AfterBoot, AfterPostTest, WithProcess, WithInterrupts
<1>1. CASE CreateMessageQueue
  BY <1>1 DEF CreateMessageQueue
<1>2. CASE ResetApex
  BY <1>2 DEF ResetApex
<1>3. CASE TestRegister
  BY <1>3 DEF TestRegister
<1>4. CASE TestMemory
  BY <1>4 DEF TestMemory
<1>5. CASE StartWatchdog
  BY <1>5 DEF StartWatchdog
<1>6. CASE UserInit
  BY <1>6 DEF UserInit
<1>7. CASE BootApex
  BY <1>7 DEF BootApex
<1>8. CASE WaitForApex
  BY <1>8 DEF WaitForApex
<1>9. CASE PostTest
  BY <1>9 DEF PostTest
<1>10. CASE FirstKick
  BY <1>10 DEF FirstKick, KickWatchdog
<1> QED
  BY <1>1, <1>2, <1>3, <1>4, <1>5, <1>6, <1>7, <1>8, <1>9, <1>10

\* The steps that prepare something, or enable what was prepared.
LEMMA PreparingStepPreserves ==
  ASSUME PreparedInv,
         \/ InitData \/ CreateNullTask \/ CreateMessageTask \/ TestInterrupts \/ EnablePortG
         \/ EnableInterrupts \/ ArmWatchdog
  PROVE  PreparedInv'
<1> USE AssertPreserves
    DEF At, GoOn, GoOnIf, setup, PreparedInv, StagesArePrepared, EnabledAtTheEnd,
        WithHandlers, WithTasks, AfterRegisterTest, AfterMemoryTest, WithVectors,
        AfterUserInit, AfterBoot, AfterPostTest, WithProcess, WithInterrupts
<1>1. CASE InitData
  BY <1>1 DEF InitData
<1>2. CASE CreateNullTask
  BY <1>2 DEF CreateNullTask, EnabledAgain
<1>3. CASE CreateMessageTask
  BY <1>3 DEF CreateMessageTask, EnabledAgain
<1>4. CASE TestInterrupts
  BY <1>4 DEF TestInterrupts
<1>5. CASE EnablePortG
  BY <1>5 DEF EnablePortG
<1>6. CASE EnableInterrupts
  BY <1>6 DEF EnableInterrupts
<1>7. CASE ArmWatchdog
  BY <1>7 DEF ArmWatchdog, KickWatchdog
<1> QED
  BY <1>1, <1>2, <1>3, <1>4, <1>5, <1>6, <1>7

\* Every step keeps that order.
LEMMA PreparedInvIsInductive ==
  ASSUME PreparedInv, [Next]_vars
  PROVE  PreparedInv'
<1>1. CASE WriteCrashLog \/ Stop
  BY <1>1
  DEF WriteCrashLog, Stop, At, events, PreparedInv, StagesArePrepared, EnabledAtTheEnd,
      WithHandlers, WithTasks, AfterRegisterTest, AfterMemoryTest, WithVectors,
      AfterUserInit, AfterBoot, AfterPostTest, WithProcess, WithInterrupts
<1>2. CASE WatchdogExpires
  BY <1>2, AssertPreserves DEF WatchdogExpires
<1>3. CASE \/ LockBus \/ UNCHANGED vars
           \/ \E e \in OS_INTERRUPTS : Serve(e)
           \/ \E e \in {"cba", "cbb"} : RaiseInterrupt(e)
  BY <1>3
  DEF LockBus, Serve, RaiseInterrupt, vars, setup, events, PreparedInv, StagesArePrepared,
      EnabledAtTheEnd
<1> QED
  BY <1>1, <1>2, <1>3, PlainStepPreserves, PreparingStepPreserves DEF Next, Program

\* For every board and all sizes of heap and stacks: nothing is let through to a handler
\* before the handlers, the vectors and a current process are there.
THEOREM StartPreparesHandlers == Spec => []NothingIsServedUnprepared
<1>1. Init => PreparedInv
  BY DEF Init, PreparedInv, StagesArePrepared, EnabledAtTheEnd, WithHandlers, WithTasks,
         AfterRegisterTest, AfterMemoryTest, WithVectors, AfterUserInit, AfterBoot,
         AfterPostTest, WithProcess, WithInterrupts
<1>2. PreparedInv /\ [Next]_vars => PreparedInv'
  BY PreparedInvIsInductive
<1>3. PreparedInv => NothingIsServedUnprepared
  BY DEF PreparedInv, StagesArePrepared, EnabledAtTheEnd, NothingIsServedUnprepared,
         IsServed, WithHandlers, WithTasks, AfterRegisterTest, AfterMemoryTest, WithVectors,
         AfterUserInit, AfterBoot, AfterPostTest, WithProcess, WithInterrupts
<1> QED BY <1>1, <1>2, <1>3, PTL DEF Spec

(***************************************************************************)
(* The tests of the ASIC.                                                  *)
(***************************************************************************)
\* Every byte is stored, at an address of its own.
MemoryIsSound == board.memory.kind # "aliased" /\ IsSound(board.memory)

\* The bytes whose k lowest bits are 1 ...
Ones(k) == 0..(k - 1)
\* ... and those whose others are.
OnesFrom(k) == k..(Width - 1)

\* The memory has been seen to store the first k of them.
StoresAll(k) == \A j \in 0..(k - 1) : Seen(board.memory, Ones(j)) = Ones(j)

\* The addresses are told apart and hold what the last walk wrote.
AllHold(v) == board.memory.kind # "aliased" /\ \A c \in Addresses : cells[c] = v

\* The walk comes with ones from below, ...
OnesEnter(k) ==
  /\ k \in 0..(Width - 1)
  /\ lastValue = Ones(k) /\ nextValue = Ones(k + 1)
  /\ StoresAll(k)
  /\ IF k = 0 THEN cells = Cleared ELSE AllHold(lastValue)

\* ... or with zeros.
ZerosEnter(k) ==
  /\ k \in 1..Width
  /\ lastValue = OnesFrom(k - 1) /\ nextValue = OnesFrom(k)
  /\ StoresAll(IF k = 1 THEN Width ELSE Width + 1)
  /\ AllHold(lastValue)

\* The test has come so far, and the memory has stood it.
MemoryTestIsSharp == \E k \in 0..Width : OnesEnter(k) \/ ZerosEnter(k)

\* Memory that stores them all stores every byte: the lowest bit of two that are
\* bridged, or a bit that is stuck, is written as 1 without those above it, and as 0.
LEMMA SoundMemory ==
  ASSUME StoresAll(Width + 1), board.memory \in Faults, Width \in Nat \ {0}
  PROVE  IsSound(board.memory)
<1> DEFINE f == board.memory
<1>1. /\ f.kind \in {"none", "stuck at 0", "stuck at 1", "bridged", "aliased"}
      /\ f.bit \in Bits /\ f.other \in Bits
  BY DEF Faults
<1>2. \A j \in 0..Width : Seen(f, Ones(j)) = Ones(j)
  BY DEF StoresAll
<1> HIDE DEF f
<1>3. CASE f.kind = "stuck at 1"
  <2>1. Seen(f, Ones(0)) = Ones(0) /\ Ones(0) = {}
    BY <1>2 DEF Ones
  <2>2. f.bit \in Seen(f, Ones(0))
    BY <1>3 DEF Seen
  <2> QED  BY <2>1, <2>2
<1>4. CASE f.kind = "stuck at 0"
  <2>1. Seen(f, Ones(Width)) = Ones(Width) /\ Ones(Width) = Bits
    BY <1>2 DEF Ones, Bits
  <2>2. f.bit \notin Seen(f, Ones(Width))
    BY <1>4 DEF Seen
  <2> QED  BY <1>1, <2>1, <2>2
<1>5. CASE f.kind = "bridged"
  <2>1. ASSUME NEW b \in Bits, NEW o \in Bits, b < o, {f.bit, f.other} = {b, o} PROVE FALSE
    <3>1. Seen(f, Ones(o)) = Ones(o)
      BY <1>2 DEF Bits
    <3>2. b \in Ones(o) /\ o \notin Ones(o)
      BY <2>1 DEF Ones, Bits
    <3>3. o \in Seen(f, Ones(o))
      BY <1>5, <2>1, <3>2 DEF Seen
    <3> QED  BY <3>1, <3>2, <3>3
  <2>2. ~(f.bit < f.other) /\ ~(f.other < f.bit)
    <3>1. {f.bit, f.other} = {f.other, f.bit}
      OBVIOUS
    <3> QED  BY <1>1, <2>1, <3>1
  <2>3. f.bit = f.other
    <3>1. \A b, o \in Bits : b < o \/ o < b \/ b = o
      BY DEF Bits
    <3> QED  BY <1>1, <2>2, <3>1
  <2>4. \A v \in SUBSET Bits : Seen(f, v) = v
    BY <1>5, <2>3 DEF Seen
  <2> QED  BY <2>4 DEF IsSound, f
<1>6. CASE f.kind \in {"none", "aliased"}
  <2>1. \A v \in SUBSET Bits : Seen(f, v) = v
    BY <1>6 DEF Seen
  <2> QED  BY <2>1 DEF IsSound, f
<1> QED  BY <1>1, <1>3, <1>4, <1>5, <1>6

\* The three patterns of the register test leave a bridge of equal parity only.
LEMMA HiddenOrSoundRegister ==
  ASSUME NEW f \in Faults, \A v \in RegisterPatterns : Seen(f, v) = v, Width \in Nat \ {0}
  PROVE  IsSound(f) \/ IsHiddenBridge(f)
<1> DEFINE even == {b \in Bits : b % 2 = 0}
           odd  == {b \in Bits : b % 2 = 1}
<1>1. /\ f.kind \in {"none", "stuck at 0", "stuck at 1", "bridged", "aliased"}
      /\ f.bit \in Bits /\ f.other \in Bits
  BY DEF Faults
<1>2. Seen(f, even) = even /\ Seen(f, odd) = odd /\ Seen(f, {}) = {}
  BY DEF RegisterPatterns
<1>3. \A b \in Bits : (b \in even <=> b % 2 = 0) /\ (b \in odd <=> b % 2 = 1) /\ b % 2 \in {0, 1}
  BY DEF Bits
<1> HIDE DEF even, odd
<1>4. CASE f.kind = "stuck at 1"
  <2>1. f.bit \in Seen(f, {})
    BY <1>4 DEF Seen
  <2> QED  BY <1>2, <2>1
<1>5. CASE f.kind = "stuck at 0"
  <2>1. f.bit \notin Seen(f, even) /\ f.bit \notin Seen(f, odd)
    BY <1>5 DEF Seen
  <2> QED  BY <1>1, <1>2, <1>3, <2>1
<1>6. CASE f.kind = "bridged"
  <2>1. f.bit \in even <=> f.other \in even
    BY <1>2, <1>6 DEF Seen
  <2> QED  BY <1>1, <1>3, <1>6, <2>1 DEF IsHiddenBridge
<1>7. CASE f.kind \in {"none", "aliased"}
  <2>1. \A v \in SUBSET Bits : Seen(f, v) = v
    BY <1>7 DEF Seen
  <2> QED  BY <2>1 DEF IsSound
<1> QED  BY <1>1, <1>4, <1>5, <1>6, <1>7

\* A walk that writes what it does not read finds an address that selects the cell of
\* another one, from whichever of the two it comes to last.
LEMMA WalkFindsAlias ==
  ASSUME StartupAssumption, board \in Boards, WalkIsOk, nextValue # lastValue
  PROVE  board.memory.kind # "aliased"
<1> SUFFICES ASSUME board.memory.kind = "aliased" PROVE FALSE
  OBVIOUS
<1> DEFINE a == board.memory.cell
           d == board.memory.to
<1>1. a \in Addresses /\ d \in Addresses /\ a # d
  BY DEF StartupAssumption, Faults
<1>2. CellOf(a) = d /\ CellOf(d) = d
  BY <1>1 DEF CellOf
<1>3. \A x \in Addresses : ReadCell(CellOf(x), Held(x)) = lastValue
  BY DEF WalkIsOk, Tested, Addresses
<1>4. \A v : ReadCell(d, v) = v
  BY <1>1 DEF ReadCell
<1>5. Held(a) = lastValue /\ Held(d) = lastValue
  BY <1>1, <1>2, <1>3, <1>4
<1>6. a < d \/ d < a
  BY <1>1 DEF Addresses
<1>7. Held(a) = nextValue \/ Held(d) = nextValue
  <2>1. CASE a < d
    <3>1. a \in 0..(d - 1)
      BY <1>1, <2>1 DEF Addresses
    <3> QED  BY <1>2, <3>1 DEF Held
  <2>2. CASE d < a
    <3>1. d \in 0..(a - 1)
      BY <1>1, <2>2 DEF Addresses
    <3> QED  BY <1>2, <3>1 DEF Held
  <2> QED  BY <1>6, <2>1, <2>2
<1> QED  BY <1>5, <1>7

\* If no address does, the walk reads what the last one wrote, and writes all cells.
LEMMA WalkReadsAndWrites ==
  ASSUME StartupAssumption, board \in Boards, WalkIsOk, board.memory.kind # "aliased",
         \A c \in Addresses : cells[c] = lastValue
  PROVE  /\ Seen(board.memory, lastValue) = lastValue
         /\ \A c \in Addresses : Walked[c] = nextValue
<1>1. \A a \in Addresses : CellOf(a) = a
  BY DEF CellOf
<1>2. \A a \in Addresses : Held(a) = lastValue
  <2> SUFFICES ASSUME NEW a \in Addresses PROVE Held(a) = lastValue
    OBVIOUS
  <2>1. ASSUME NEW b \in 0..(a - 1) PROVE b \in Addresses /\ b # a
    <3>1. RamSize \in Nat \ {0}
      BY DEF StartupAssumption
    <3> QED  BY <3>1 DEF Addresses
  <2> QED  BY <1>1, <2>1 DEF Held
<1>3. board.memory.cell \in Addresses
  BY DEF StartupAssumption, Faults
<1>4. \A x \in Addresses : ReadCell(CellOf(x), Held(x)) = lastValue
  BY DEF WalkIsOk, Tested, Addresses
<1>5. Seen(board.memory, lastValue) = lastValue
  BY <1>1, <1>2, <1>3, <1>4 DEF ReadCell
<1>6. \A c \in Addresses : Walked[c] = nextValue
  BY <1>1 DEF Walked, Tested, Addresses
<1> QED  BY <1>5, <1>6

\* What a stage of the start says of the board and of the tasks.
TestsArePassed ==
  /\ stage \in WithTasks => {"null", "message"} \subseteq tasks
  /\ stage \in AfterRegisterTest =>
       board.revision /\ \A v \in RegisterPatterns : Seen(board.register, v) = v
  /\ stage = "memory test" => MemoryTestIsSharp
  /\ stage \in AfterMemoryTest => MemoryIsSound
  /\ stage \in WithVectors => \A r \in {{}, {"cba"}, {"cbb"}} : board.lines[r] = r
  /\ stage \in AfterUserInit => "input" \in tasks
  /\ stage = "wait for apex" => polls \in 1..BootPolls
  /\ stage \in AfterBoot => board.acksAfter <= BootPolls /\ board.acksAfter < board.faultsAfter
  /\ stage \in AfterPostTest => board.firmware

\* The invariant of the tests.
SoundInv == board \in Boards /\ tasks \subseteq {"null", "message", "input"} /\ TestsArePassed

\* A step that asserts keeps the invariant, ...
LEMMA AssertIsSound ==
  ASSUME SoundInv, NEW error, OS_Assert(error), UNCHANGED board,
         tasks' \subseteq {"null", "message", "input"}
  PROVE  SoundInv'
BY DEF SoundInv, TestsArePassed, OS_Assert, WithTasks, AfterRegisterTest, AfterMemoryTest,
       WithVectors, AfterUserInit, AfterBoot, AfterPostTest, WithProcess, WithInterrupts

\* ... and so does one that leaves the stage, the board, the tasks and the walk alone.
LEMMA StandingStillIsSound ==
  ASSUME SoundInv, UNCHANGED <<stage, board, tasks, ram, polls>>
  PROVE  SoundInv'
BY DEF SoundInv, TestsArePassed, MemoryTestIsSharp, OnesEnter, ZerosEnter, StoresAll,
       AllHold, MemoryIsSound, Seen, IsSound, RegisterPatterns, ram

\* How the byte of the walk goes on: ones enter from below, then zeros.
LEMMA Shifting ==
  ASSUME Width \in Nat \ {0}, NEW k \in 0..Width
  PROVE  /\ k < Width => Ones(k + 1) # Ones(k)
         /\ Width - 1 \in Ones(k + 1) <=> k >= Width - 1
         /\ k < Width - 1 => Shifted(Ones(k + 1)) \cup {0} = Ones(k + 2)
         /\ Shifted(Ones(Width)) = OnesFrom(1)
         /\ k >= 1 => OnesFrom(k) # OnesFrom(k - 1)
         /\ Width - 1 \in OnesFrom(k) <=> k < Width
         /\ Shifted(OnesFrom(k)) = OnesFrom(k + 1)
         /\ OnesFrom(k) = {} <=> k = Width
         /\ OnesFrom(0) = Ones(Width)
  <1>1. k < Width => Ones(k + 1) # Ones(k)
    BY DEF Ones
  <1>2. Width - 1 \in Ones(k + 1) <=> k >= Width - 1
    BY DEF Ones
  <1>3. k < Width - 1 => Shifted(Ones(k + 1)) \cup {0} = Ones(k + 2)
    BY DEF Ones, Shifted, Bits
  <1>4. Shifted(Ones(Width)) = OnesFrom(1)
    BY DEF Ones, OnesFrom, Shifted, Bits
  <1>5. k >= 1 => OnesFrom(k) # OnesFrom(k - 1)
    BY DEF OnesFrom
  <1>6. Width - 1 \in OnesFrom(k) <=> k < Width
    BY DEF OnesFrom
  <1>7. Shifted(OnesFrom(k)) = OnesFrom(k + 1)
    BY DEF OnesFrom, Shifted, Bits
  <1>8. OnesFrom(k) = {} <=> k = Width
    BY DEF OnesFrom
  <1>9. OnesFrom(0) = Ones(Width)
    BY DEF OnesFrom, Ones
  <1> QED  BY <1>1, <1>2, <1>3, <1>4, <1>5, <1>6, <1>7, <1>8, <1>9

\* A walk keeps the invariant; the last one shows the memory to be sound.
LEMMA MemoryTestIsSound ==
  ASSUME SoundInv, TestMemory
  PROVE  SoundInv'
<1>0. Width \in Nat \ {0}
  BY StartupAssumption DEF StartupAssumption
<1>1. /\ board \in Boards /\ board.memory \in Faults
      /\ stage = "memory test" /\ UNCHANGED <<board, tasks, polls>>
      /\ cells' = Walked /\ lastValue' = nextValue
      /\ nextValue' = IF Width - 1 \in nextValue THEN Shifted(nextValue)
                      ELSE Shifted(nextValue) \cup {0}
  BY StartupAssumption DEF SoundInv, TestMemory, At, fixed, setup, StartupAssumption
<1>2. CASE ~WalkIsOk
  BY <1>1, <1>2, AssertIsSound DEF TestMemory, GoOnIf, SoundInv
<1>3. CASE WalkIsOk
  <2>1. PICK k \in 0..Width : OnesEnter(k) \/ ZerosEnter(k)
    BY <1>1 DEF SoundInv, TestsArePassed, MemoryTestIsSharp
  <2>2. nextValue # lastValue
    BY <1>0, <2>1, Shifting DEF OnesEnter, ZerosEnter
  <2>3. board.memory.kind # "aliased"
    BY <1>1, <1>3, <2>2, WalkFindsAlias, StartupAssumption
  <2>4. \A c \in Addresses : cells[c] = lastValue
    <3>1. CASE OnesEnter(k)
      <4>1. Ones(0) = {}
        BY DEF Ones
      <4> QED  BY <3>1, <4>1 DEF OnesEnter, Cleared, AllHold
    <3>2. CASE ZerosEnter(k)
      BY <3>2 DEF ZerosEnter, AllHold
    <3> QED  BY <2>1, <3>1, <3>2
  <2>5. /\ Seen(board.memory, lastValue) = lastValue
        /\ \A c \in Addresses : cells'[c] = nextValue
    BY <1>1, <1>3, <2>3, <2>4, WalkReadsAndWrites, StartupAssumption
  <2>6. AllHold(lastValue)'
    BY <1>1, <2>3, <2>5 DEF AllHold
  <2>7. GoOn(IF nextValue = {} THEN "interrupt test" ELSE "memory test")
    BY <1>3 DEF TestMemory, GoOnIf
  <2>8. CASE OnesEnter(k)
    <3>1. k \in 0..(Width - 1) /\ lastValue = Ones(k) /\ nextValue = Ones(k + 1) /\ StoresAll(k)
      BY <2>8 DEF OnesEnter
    <3>2. StoresAll(k + 1)
      BY <2>5, <3>1 DEF StoresAll
    <3>3. nextValue # {}
      BY <3>1 DEF Ones
    <3>4. MemoryTestIsSharp'
      <4>1. CASE k < Width - 1
        <5>1. nextValue' = Ones(k + 2)
          <6>1. Width - 1 \notin Ones(k + 1) /\ Shifted(Ones(k + 1)) \cup {0} = Ones(k + 2)
            BY <1>0, <4>1, Shifting
          <6> QED  BY <1>1, <3>1, <6>1
        <5>2. k + 1 \in 0..(Width - 1) /\ k + 1 # 0 /\ (k + 1) + 1 = k + 2
          BY <1>0, <3>1, <4>1
        <5>3. StoresAll(k + 1)'
          BY <1>1, <3>2 DEF StoresAll, Seen
        <5>4. OnesEnter(k + 1)'
          BY <1>1, <2>6, <3>1, <5>1, <5>2, <5>3 DEF OnesEnter
        <5>5. k + 1 \in 0..Width
          BY <1>0, <3>1
        <5> QED  BY <5>4, <5>5, Zenon DEF MemoryTestIsSharp
      <4>2. CASE k = Width - 1
        <5>1. nextValue' = OnesFrom(1) /\ lastValue' = OnesFrom(0)
          <6>1. Width \in 0..Width /\ 0 \in 0..Width /\ k + 1 = Width
            BY <1>0, <4>2
          <6>2. /\ Width - 1 \in Ones(Width) /\ Shifted(Ones(Width)) = OnesFrom(1)
                /\ OnesFrom(0) = Ones(Width)
            BY <1>0, <4>2, <6>1, Shifting
          <6> QED  BY <1>1, <3>1, <6>1, <6>2
        <5>2. 1 \in 1..Width /\ 1 - 1 = 0 /\ k + 1 = Width
          BY <1>0, <4>2
        <5>3. StoresAll(Width)'
          BY <1>1, <3>2, <5>2 DEF StoresAll, Seen
        <5>4. ZerosEnter(1)'
          BY <1>1, <2>6, <5>1, <5>2, <5>3 DEF ZerosEnter
        <5>5. 1 \in 0..Width
          BY <1>0
        <5> QED  BY <5>4, <5>5, Zenon DEF MemoryTestIsSharp
      <4> QED  BY <1>0, <3>1, <4>1, <4>2
    <3>5. stage' = "memory test"
      BY <2>7, <3>3 DEF GoOn
    <3> QED
      BY <1>1, <3>4, <3>5
      DEF SoundInv, TestsArePassed, WithTasks, AfterRegisterTest, AfterMemoryTest, WithVectors,
          AfterUserInit, AfterBoot, AfterPostTest, WithProcess, WithInterrupts
  <2>9. CASE ZerosEnter(k)
    <3>1. /\ k \in 1..Width /\ lastValue = OnesFrom(k - 1) /\ nextValue = OnesFrom(k)
          /\ StoresAll(IF k = 1 THEN Width ELSE Width + 1)
      BY <2>9 DEF ZerosEnter
    <3>2. StoresAll(Width + 1)
      <4>1. CASE k = 1
        <5>1. Seen(board.memory, Ones(Width)) = Ones(Width)
          <6>1. 0 \in 0..Width /\ k - 1 = 0
            BY <1>0, <4>1
          <6>2. OnesFrom(0) = Ones(Width)
            BY <1>0, <6>1, Shifting
          <6> QED  BY <2>5, <3>1, <6>1, <6>2
        <5>2. \A j \in 0..((Width + 1) - 1) : j \in 0..(Width - 1) \/ j = Width
          BY <1>0
        <5> QED  BY <3>1, <4>1, <5>1, <5>2 DEF StoresAll
      <4>2. CASE k # 1
        BY <3>1, <4>2
      <4> QED  BY <4>1, <4>2
    <3>3. CASE k < Width
      <4>1. nextValue # {} /\ nextValue' = OnesFrom(k + 1) /\ lastValue' = OnesFrom((k + 1) - 1)
        <5>1. /\ Width - 1 \in OnesFrom(k) /\ Shifted(OnesFrom(k)) = OnesFrom(k + 1)
              /\ OnesFrom(k) # {} /\ (k + 1) - 1 = k
          BY <1>0, <3>3, Shifting
        <5> QED  BY <1>1, <3>1, <5>1
      <4>2. ZerosEnter(k + 1)'
        <5>1. k + 1 \in 1..Width /\ k + 1 # 1
          BY <1>0, <3>1, <3>3
        <5>2. StoresAll(Width + 1)'
          BY <1>1, <3>2 DEF StoresAll, Seen
        <5> QED  BY <1>1, <2>6, <4>1, <5>1, <5>2 DEF ZerosEnter
      <4>3. MemoryTestIsSharp'
        <5>1. k + 1 \in 0..Width
          BY <1>0, <3>1, <3>3
        <5> QED  BY <4>2, <5>1, Zenon DEF MemoryTestIsSharp
      <4>4. stage' = "memory test"
        BY <2>7, <4>1 DEF GoOn
      <4> QED
        BY <1>1, <4>3, <4>4
        DEF SoundInv, TestsArePassed, WithTasks, AfterRegisterTest, AfterMemoryTest, WithVectors,
            AfterUserInit, AfterBoot, AfterPostTest, WithProcess, WithInterrupts
    <3>4. CASE k = Width
      <4>1. nextValue = {}
        BY <1>0, <3>1, <3>4, Shifting
      <4>2. stage' = "interrupt test"
        BY <2>7, <4>1 DEF GoOn
      <4>3. MemoryIsSound'
        <5>1. MemoryIsSound
          BY <1>0, <1>1, <2>3, <3>2, SoundMemory DEF MemoryIsSound
        <5> QED  BY <1>1, <5>1 DEF MemoryIsSound, IsSound, Seen
      <4> QED
        BY <1>1, <4>2, <4>3
        DEF SoundInv, TestsArePassed, WithTasks, AfterRegisterTest, AfterMemoryTest, WithVectors,
            AfterUserInit, AfterBoot, AfterPostTest, WithProcess, WithInterrupts
    <3> QED  BY <1>0, <3>1, <3>3, <3>4
  <2> QED  BY <2>1, <2>8, <2>9
<1> QED  BY <1>2, <1>3

\* A round of the loop of Apex_Boot keeps the invariant.
LEMMA WaitForApexIsSound ==
  ASSUME SoundInv, WaitForApex
  PROVE  SoundInv'
<1>0. board.acksAfter \in Nat /\ board.faultsAfter \in Nat
  BY StartupAssumption DEF SoundInv, StartupAssumption
<1>1. polls \in 1..BootPolls /\ BootPolls \in Nat
  BY StartupAssumption DEF WaitForApex, At, SoundInv, TestsArePassed, StartupAssumption
<1>2. /\ stage = "wait for apex" /\ UNCHANGED <<board, tasks, ram>>
      /\ \/ OS_Assert("APEXBOOT")
         \/ /\ ~HasHappened(board.faultsAfter) /\ HasHappened(board.acksAfter)
            /\ GoOn("post test")
         \/ polls' = PollsLeft /\ PollsLeft > 0 /\ GoOn("wait for apex")
  BY DEF WaitForApex, At, GoOnIf, fixed, setup
<1>3. CASE OS_Assert("APEXBOOT")
  BY <1>2, <1>3, AssertIsSound DEF SoundInv
<1>4. CASE ~HasHappened(board.faultsAfter) /\ HasHappened(board.acksAfter) /\ GoOn("post test")
  <2>1. board.acksAfter <= BootPolls /\ board.acksAfter < board.faultsAfter
    <3>1. \A a, f \in Nat : ~HasHappened(f) /\ HasHappened(a) => a <= BootPolls /\ a < f
      BY <1>1 DEF HasHappened
    <3> QED  BY <1>0, <1>4, <3>1
  <2> QED
    BY <1>2, <1>4, <2>1
    DEF GoOn, SoundInv, TestsArePassed, WithTasks, AfterRegisterTest, AfterMemoryTest, WithVectors,
        AfterUserInit, AfterBoot, AfterPostTest, WithProcess, WithInterrupts, MemoryIsSound, IsSound
<1>5. CASE polls' = PollsLeft /\ PollsLeft > 0 /\ GoOn("wait for apex")
  <2>1. polls' \in 1..BootPolls
    <3>1. PollsLeft > 0 => PollsLeft \in 1..BootPolls
      BY <1>1 DEF PollsLeft
    <3> QED  BY <1>5, <3>1
  <2> QED
    BY <1>2, <1>5, <2>1
    DEF GoOn, SoundInv, TestsArePassed, WithTasks, AfterRegisterTest, AfterMemoryTest, WithVectors,
        AfterUserInit, AfterBoot, AfterPostTest, WithProcess, WithInterrupts, MemoryIsSound, IsSound
<1> QED  BY <1>2, <1>3, <1>4, <1>5

\* So do the other steps of the start, ...
LEMMA OtherStepIsSound ==
  ASSUME SoundInv,
         \/ InitData \/ CreateMessageQueue \/ CreateNullTask \/ CreateMessageTask \/ ResetApex
         \/ TestRegister \/ TestInterrupts \/ StartWatchdog \/ UserInit \/ BootApex \/ WaitForApex
         \/ PostTest \/ FirstKick \/ EnablePortG \/ EnableInterrupts \/ ArmWatchdog
  PROVE  SoundInv'
<1>0. /\ BootPolls \in 1..BootPolls
      /\ 0 \in 0..Width /\ 0 \in 0..(Width - 1) /\ Ones(0) = {} /\ Ones(0 + 1) = {0}
      /\ StoresAll(0)'
  BY StartupAssumption DEF StartupAssumption, Ones, StoresAll
<1> USE DEF SoundInv, TestsArePassed, WithTasks, AfterRegisterTest, AfterMemoryTest, WithVectors,
        AfterUserInit, AfterBoot, AfterPostTest, WithProcess, WithInterrupts, MemoryIsSound,
        At, GoOn, GoOnIf, OS_Assert, fixed, setup, IsSound
<1>1. CASE InitData
  BY <1>1 DEF InitData
<1>2. CASE CreateMessageQueue
  BY <1>2 DEF CreateMessageQueue
<1>3. CASE CreateNullTask
  BY <1>3 DEF CreateNullTask, CreateTask
<1>4. CASE CreateMessageTask
  BY <1>4 DEF CreateMessageTask, CreateTask
<1>5. CASE ResetApex
  BY <1>5 DEF ResetApex
<1>6. CASE TestRegister
  <2>1. CASE board.revision /\ \A v \in RegisterPatterns : Seen(board.register, v) = v
    <3>1. OnesEnter(0)'
      BY <1>0, <1>6 DEF TestRegister, OnesEnter
    <3>2. MemoryTestIsSharp'
      BY <1>0, <3>1, Zenon DEF MemoryTestIsSharp
    <3>3. RegisterPatterns' = RegisterPatterns
      BY DEF RegisterPatterns
    <3> QED  BY <1>6, <2>1, <3>2, <3>3 DEF TestRegister
  <2>2. CASE ~(board.revision /\ \A v \in RegisterPatterns : Seen(board.register, v) = v)
    BY <1>6, <2>2 DEF TestRegister
  <2> QED  BY <2>1, <2>2
<1>7. CASE TestInterrupts
  BY <1>7 DEF TestInterrupts
<1>8. CASE StartWatchdog
  BY <1>8 DEF StartWatchdog
<1>9. CASE UserInit
  BY <1>9 DEF UserInit, CreateQueue, CreateTask
<1>10. CASE BootApex
  BY <1>0, <1>10 DEF BootApex
<1>11. CASE WaitForApex
  BY <1>11, WaitForApexIsSound
<1>12. CASE PostTest
  BY <1>12 DEF PostTest
<1>13. CASE FirstKick
  BY <1>13 DEF FirstKick, KickWatchdog
<1>14. CASE EnablePortG
  BY <1>14 DEF EnablePortG
<1>15. CASE EnableInterrupts
  BY <1>15 DEF EnableInterrupts
<1>16. CASE ArmWatchdog
  BY <1>16 DEF ArmWatchdog, KickWatchdog
<1> QED
  BY <1>1, <1>2, <1>3, <1>4, <1>5, <1>6, <1>7, <1>8, <1>9, <1>10, <1>11, <1>12, <1>13,
     <1>14, <1>15, <1>16

\* ... and every step.
LEMMA SoundInvIsInductive ==
  ASSUME SoundInv, [Next]_vars
  PROVE  SoundInv'
<1>1. CASE WriteCrashLog \/ Stop
  BY <1>1
  DEF WriteCrashLog, Stop, At, fixed, setup, SoundInv, TestsArePassed, WithTasks,
      AfterRegisterTest, AfterMemoryTest, WithVectors, AfterUserInit, AfterBoot,
      AfterPostTest, WithProcess, WithInterrupts
<1>2. CASE WatchdogExpires
  BY <1>2, AssertIsSound DEF WatchdogExpires, fixed, setup, SoundInv
<1>3. CASE \/ LockBus \/ UNCHANGED vars
           \/ \E e \in OS_INTERRUPTS : Serve(e)
           \/ \E e \in {"cba", "cbb"} : RaiseInterrupt(e)
  BY <1>3, StandingStillIsSound DEF LockBus, Serve, RaiseInterrupt, vars, fixed, setup
<1> QED
  BY <1>1, <1>2, <1>3, MemoryTestIsSound, OtherStepIsSound DEF Next, Program

\* The background task is reached on sound boards only, with every task created: for every
\* board, memory of any size, and registers of any width.
THEOREM SoundBoardsStart == Spec => []StartedSystemIsSound
<1>1. Init => SoundInv
  BY DEF Init, SoundInv, TestsArePassed, WithTasks, AfterRegisterTest, AfterMemoryTest, WithVectors,
         AfterUserInit, AfterBoot, AfterPostTest, WithProcess, WithInterrupts
<1>2. SoundInv /\ [Next]_vars => SoundInv'
  BY SoundInvIsInductive
<1>3. SoundInv => StartedSystemIsSound
  <2> SUFFICES ASSUME SoundInv, stage \in {"null process", "arm watchdog", "null loop"}
               PROVE  StartedSystemIsSound
    BY DEF StartedSystemIsSound
  <2>1. /\ board.register \in Faults /\ Width \in Nat \ {0}
        /\ DOMAIN TaskStacks = {"null", "message", "input"}
    BY StartupAssumption DEF SoundInv, StartupAssumption
  <2>2. /\ board.revision /\ board.firmware /\ MemoryIsSound
        /\ \A v \in RegisterPatterns : Seen(board.register, v) = v
        /\ \A r \in {{}, {"cba"}, {"cbb"}} : board.lines[r] = r
        /\ board.acksAfter <= BootPolls /\ board.acksAfter < board.faultsAfter
        /\ tasks = {"null", "message", "input"}
    BY DEF SoundInv, TestsArePassed, WithTasks, AfterRegisterTest, AfterMemoryTest, WithVectors,
           AfterUserInit, AfterBoot, AfterPostTest, WithProcess, WithInterrupts
  <2>3. IsSound(board.register) \/ IsHiddenBridge(board.register)
    BY <2>1, <2>2, HiddenOrSoundRegister
  <2> QED  BY <2>1, <2>2, <2>3 DEF StartedSystemIsSound, MemoryIsSound
<1> QED  BY <1>1, <1>2, <1>3, PTL DEF Spec

\* The steps of the composition are steps of its parts.
LEMMA StepsOfTheParts ==
  ASSUME [AllNext]_allVars
  PROVE  [Next]_vars /\ [Cal!Next]_Cal!vars /\ [Over!Next]_Over!vars
<1>1. [Next]_vars
  BY DEF AllNext, StartNext, CalNext, OverNext, KeyNext, OfStart, OfCal, OfOver, OfKey,
         Next, Program, allVars
<1>2. [Cal!Next]_Cal!vars
  BY DEF AllNext, StartNext, CalNext, OverNext, KeyNext, OfStart, OfCal, OfOver, OfKey, Cal!Next,
         Cal!Background, allVars, calVars, Cal!vars
<1>3. [Over!Next]_Over!vars
  BY DEF AllNext, StartNext, CalNext, OverNext, KeyNext, OfStart, OfCal, OfOver, OfKey, Over!Next,
         Over!Background, allVars, overVars, Over!vars
<1> QED  BY <1>1, <1>2, <1>3

(***************************************************************************)
(* The check for over current.                                             *)
(***************************************************************************)
\* Types of the check for over current.
OverTypeOK ==
  /\ sourceOverLocked \in [Over!IF8I_Channels -> BOOLEAN]
  /\ sourcing \in [Over!IF8I_Channels -> BOOLEAN]
  /\ adcData \in [Over!IF8I_Channels -> BOOLEAN]
  /\ adcs \in [Over!IF8I_Channels -> BOOLEAN]
  /\ channel \in Nat /\ channel >= 1

\* The configuration of a channel sources exactly while the channel is not locked.
ConfigFollowsLock == \A i \in Over!IF8I_Channels : sourcing[i] = ~sourceOverLocked[i]

\* What a scan has passed is collected as it is configured, ...
PassedIsCollected ==
  scanning => \A i \in Over!IF8I_Channels : i < channel => adcData[i] = ~sourceOverLocked[i]

\* ... and the ADCs lag behind only while a scan has locked a channel.
AdcsLagOnlyInScans ==
  ~scanning \/ ~sendLock => \A i \in Over!IF8I_Channels : adcs[i] = ~sourceOverLocked[i]

\* The invariant of the check.
OverInv == OverTypeOK /\ ConfigFollowsLock /\ PassedIsCollected /\ AdcsLagOnlyInScans

\* Every step of the background and of the input task keeps it.
LEMMA OverInvIsInductive ==
  ASSUME OverInv, [Over!Next]_Over!vars
  PROVE  OverInv'
<1>0. Over!OverCurrentAssumption
  BY AllAssumption DEF AllAssumption
<1> USE <1>0 DEF OverInv
<1>1. CASE Over!Sample
  BY <1>1 DEF Over!Sample, OverTypeOK, ConfigFollowsLock, PassedIsCollected, AdcsLagOnlyInScans
<1>2. CASE Over!StartScan
  <2>1. \A i \in Over!IF8I_Channels : ~(i < 1)
    BY DEF Over!IF8I_Channels, Over!OverCurrentAssumption
  <2> QED
    BY <1>2, <2>1
    DEF Over!StartScan, OverTypeOK, ConfigFollowsLock, PassedIsCollected, AdcsLagOnlyInScans
<1>3. CASE Over!ScanChannel
  <2> DEFINE new == Over!IsNewOverSource(channel)
  <2>1. /\ channel \in Over!IF8I_Channels /\ scanning /\ scanning' = scanning /\ adcs' = adcs
        /\ sendLock' = (sendLock \/ new)
        /\ sourceOverLocked' = [sourceOverLocked EXCEPT ![channel] = @ \/ new]
        /\ sourcing' = [sourcing EXCEPT ![channel] = @ /\ ~new]
        /\ adcData' = [adcData EXCEPT ![channel] = sourcing'[channel]]
        /\ channel' = channel + 1
    BY <1>3 DEF Over!ScanChannel, Over!Collected
  <2>2. new \in BOOLEAN
    BY <2>1 DEF Over!IsNewOverSource, OverTypeOK
  <2> HIDE DEF new
  <2>3. OverTypeOK'
    BY <2>1, <2>2 DEF OverTypeOK
  <2>4. ConfigFollowsLock'
    BY <2>1, <2>2 DEF OverTypeOK, ConfigFollowsLock
  <2>5. PassedIsCollected'
    <3> SUFFICES ASSUME NEW i \in Over!IF8I_Channels, i < channel + 1
                 PROVE  adcData'[i] = ~sourceOverLocked'[i]
      BY <2>1 DEF PassedIsCollected
    <3>1. CASE i = channel
      BY <2>1, <2>4, <3>1 DEF OverTypeOK, ConfigFollowsLock
    <3>2. CASE i # channel
      <4>1. i < channel
        BY <3>2 DEF OverTypeOK, Over!IF8I_Channels, Over!OverCurrentAssumption
      <4> QED BY <2>1, <3>2, <4>1 DEF OverTypeOK, PassedIsCollected
    <3> QED BY <3>1, <3>2
  <2>6. AdcsLagOnlyInScans'
    <3> SUFFICES ASSUME ~sendLock, ~new
                 PROVE  AdcsLagOnlyInScans'
      BY <2>1 DEF AdcsLagOnlyInScans
    <3>1. \A i \in Over!IF8I_Channels : sourceOverLocked'[i] = sourceOverLocked[i]
      BY <2>1 DEF OverTypeOK
    <3> QED BY <2>1, <3>1 DEF AdcsLagOnlyInScans
  <2> QED BY <2>3, <2>4, <2>5, <2>6
<1>4. CASE Over!EndScan
  <2>1. \A i \in Over!IF8I_Channels : i < channel
    BY <1>4 DEF Over!EndScan, Over!IF8I_Channels, OverTypeOK, Over!OverCurrentAssumption
  <2>2. \A i \in Over!IF8I_Channels : adcs'[i] = ~sourceOverLocked[i]
    BY <1>4, <2>1 DEF Over!EndScan, PassedIsCollected, AdcsLagOnlyInScans
  <2> QED
    BY <1>4, <2>2
    DEF Over!EndScan, OverTypeOK, ConfigFollowsLock, PassedIsCollected, AdcsLagOnlyInScans
<1>5. CASE UNCHANGED Over!vars
  BY <1>5 DEF Over!vars, OverTypeOK, ConfigFollowsLock, PassedIsCollected, AdcsLagOnlyInScans
<1> QED
  BY <1>1, <1>2, <1>3, <1>4, <1>5 DEF Over!Next, Over!Background

\* For any number of channels: between two scans exactly the locked channels are off,
\* whatever the input task has counted meanwhile.
THEOREM LockedChannelsStayOff == AllSpec => []LockedChannelsAreOff
<1>1. AllInit => OverInv
  <2> SUFFICES ASSUME Over!Init PROVE OverInv
    BY DEF AllInit
  <2>1. adcData \in [Over!IF8I_Channels -> BOOLEAN]
    <3>1. PICK on \in BOOLEAN : adcData = [i \in Over!IF8I_Channels |-> on]
      BY DEF Over!Init
    <3> QED  BY <3>1
  <2>2. OverTypeOK
    BY <2>1 DEF Over!Init, OverTypeOK
  <2> QED
    BY <2>2 DEF Over!Init, OverInv, ConfigFollowsLock, PassedIsCollected, AdcsLagOnlyInScans
<1>2. OverInv /\ [AllNext]_allVars => OverInv'
  BY StepsOfTheParts, OverInvIsInductive
<1>3. OverInv => LockedChannelsAreOff
  BY DEF OverInv, OverTypeOK, AdcsLagOnlyInScans, LockedChannelsAreOff, Over!LockedChannelsAreOff
<1> QED  BY <1>1, <1>2, <1>3, PTL DEF AllSpec

(***************************************************************************)
(* The delayed write of calibration data.                                  *)
(***************************************************************************)
\* Types of the write of calibration data.
CalTypeOK ==
  /\ timestamp \in Nat /\ lastCalDate \in Nat /\ foundAt \in Nat
  /\ calibratedAt \in [Channels -> Nat]
  /\ calSuccessful \in [Channels -> BOOLEAN]

\* No channel was calibrated after the last calibration, which is not to come.
LastCalIsTheLast ==
  /\ lastCalDate <= timestamp /\ foundAt <= timestamp
  /\ \A i \in Channels : calibratedAt[i] <= lastCalDate

\* A channel whose report is about to be taken back had shown it for a second when it
\* was found, or has been calibrated again since.
FoundIsOldOrNew ==
  clearing # "none" =>
    /\ clearing \in Channels
    /\ calibratedAt[clearing] >= foundAt \/ foundAt - calibratedAt[clearing] > Second

\* The invariant of the reports.
CalInv == CalTypeOK /\ LastCalIsTheLast /\ FoundIsOldOrNew

\* Every step of the background and of the other task keeps it.
LEMMA CalInvIsInductive ==
  ASSUME CalInv, [Cal!Next]_Cal!vars
  PROVE  CalInv'
<1> USE DEF CalInv, CalTypeOK, LastCalIsTheLast, FoundIsOldOrNew
<1>1. CASE \E i \in Channels : Cal!Calibrate(i)
  BY <1>1 DEF Cal!Calibrate
<1>2. CASE \E i \in Channels : Cal!FindCalSuccessful(i)
  <2>1. Second \in Nat
    BY AllAssumption DEF AllAssumption, Cal!NullProcessAssumption
  <2> QED  BY <1>2, <2>1 DEF Cal!FindCalSuccessful, Cal!IsASecondAgo
<1>3. CASE Cal!ClearCalSuccessful
  BY <1>3 DEF Cal!ClearCalSuccessful, Cal!history
<1>4. CASE Cal!Sample
  BY <1>4 DEF Cal!Sample, Cal!history
<1>5. CASE \/ Cal!StartErase \/ Cal!KeepWaiting \/ Cal!PollAgain \/ Cal!WriteFlash
           \/ Cal!ClearPending \/ Cal!StartClearing \/ Cal!EndClearing \/ Cal!FlashFails
           \/ Cal!EraseEnds \/ UNCHANGED Cal!vars
  BY <1>5
  DEF Cal!StartErase, Cal!KeepWaiting, Cal!PollAgain, Cal!WriteFlash, Cal!ClearPending,
      Cal!StartClearing, Cal!EndClearing, Cal!FlashFails, Cal!EraseEnds, Cal!vars, Cal!history
<1> QED  BY <1>1, <1>2, <1>3, <1>4, <1>5 DEF Cal!Next, Cal!Background

\* A report is only taken back of the channel that was found.
LEMMA OnlyTheFoundIsCleared ==
  ASSUME CalInv, [Cal!Next]_Cal!vars, NEW i \in Channels, calSuccessful[i], ~calSuccessful'[i]
  PROVE  timestamp - calibratedAt[i] > Second \/ calibratedAt[i] >= foundAt
<1>1. CASE Cal!ClearCalSuccessful
  <2>1. clearing # "none" /\ calSuccessful' = [calSuccessful EXCEPT ![clearing] = FALSE]
    BY <1>1 DEF Cal!ClearCalSuccessful
  <2>2. i = clearing
    BY <2>1 DEF CalInv, CalTypeOK
  <2>3. Second \in Nat
    BY AllAssumption DEF AllAssumption, Cal!NullProcessAssumption
  <2> QED  BY <2>1, <2>2, <2>3 DEF CalInv, CalTypeOK, LastCalIsTheLast, FoundIsOldOrNew
<1>2. CASE \E j \in Channels : Cal!Calibrate(j)
  <2>1. calSuccessful'[i]
    BY <1>2 DEF Cal!Calibrate, CalInv, CalTypeOK
  <2> QED  BY <2>1
<1>3. CASE ~Cal!ClearCalSuccessful /\ ~\E j \in Channels : Cal!Calibrate(j)
  <2>1. UNCHANGED calSuccessful
    BY <1>3
    DEF Cal!Next, Cal!Background, Cal!StartErase, Cal!KeepWaiting, Cal!PollAgain, Cal!WriteFlash,
        Cal!ClearPending, Cal!StartClearing, Cal!EndClearing, Cal!FlashFails, Cal!EraseEnds,
        Cal!FindCalSuccessful, Cal!Sample, Cal!vars
  <2> QED  BY <2>1
<1> QED  BY <1>1, <1>2, <1>3

\* For any number of channels and any time: whatever other channels do while the loop
\* over the channels runs, a channel shows the success of its calibration for more than
\* a second, or is calibrated again before the report is taken back.
THEOREM SuccessIsShownLongEnough == AllSpec => SuccessIsShownForASecond
<1>1. AllInit => CalInv
  <2> SUFFICES ASSUME Cal!Init PROVE CalInv
    BY DEF AllInit
  <2>1. CalTypeOK
    BY DEF Cal!Init, CalTypeOK
  <2>2. LastCalIsTheLast
    BY DEF Cal!Init, LastCalIsTheLast
  <2>3. FoundIsOldOrNew
    BY DEF Cal!Init, FoundIsOldOrNew
  <2> QED  BY <2>1, <2>2, <2>3 DEF CalInv
<1>2. CalInv /\ [AllNext]_allVars => CalInv'
  BY StepsOfTheParts, CalInvIsInductive
<1>3. CalInv /\ [AllNext]_allVars =>
        [\A i \in Channels :
           calSuccessful[i] /\ ~calSuccessful'[i] =>
             timestamp - calibratedAt[i] > Second \/ calibratedAt[i] >= foundAt]_Cal!vars
  BY StepsOfTheParts, OnlyTheFoundIsCleared
<1> QED
  BY <1>1, <1>2, <1>3, PTL
  DEF AllSpec, SuccessIsShownForASecond, Cal!SuccessIsShownForASecond

(***************************************************************************)
(* The check of electronic keys.                                           *)
(***************************************************************************)
\* A product whose key check succeeds with a compatible key is upgraded: so does the new one.
LEMMA UpgradeAccepts ==
  ASSUME NEW k \in Key!KeyType, NEW p \in Key!Identity, NEW q \in Key!Identity,
         k.compatible, Key!IsUpgradeOf(q, p), Key!Validated(k, p) = "success"
  PROVE  Key!Validated(k, q) = "success"
<1>1. \A field \in {"vendor_id", "product_type", "product_code"} : ~Key!Mismatches(k, p, field)
  BY DEF Key!Validated
<1>2. \A field \in {"vendor_id", "product_type", "product_code"} : ~Key!Mismatches(k, q, field)
  BY <1>1 DEF Key!Mismatches, Key!IsUpgradeOf
<1>3. k.major_rev = 0 \/ Key!RevisionFits(k, p)
  BY <1>1 DEF Key!Validated
<1>4. k.major_rev = 0 \/ Key!RevisionFits(k, q)
  BY <1>3 DEF Key!RevisionFits, Key!IsUpgradeOf, Key!KeyType, Key!Identity
<1> QED BY <1>2, <1>4 DEF Key!Validated

\* What was returned is what the key and the product say.
StatusIsCurrent ==
  /\ about = "key" => product \in Products /\ key \in Keys
  /\ status # "none" =>
       product \in Products /\ key \in Keys /\ status = Key!Validated(key, product)

\* For all products and keys: an upgrade keeps the compatible keys.
THEOREM UpgradesKeepKeys == AllSpec => []UpgradeKeepsCompatibleKeys
<1>1. AllInit => StatusIsCurrent
  BY DEF AllInit, Key!Init, StatusIsCurrent
<1>2. StatusIsCurrent /\ [AllNext]_allVars => StatusIsCurrent'
  BY DEF StatusIsCurrent, AllNext, StartNext, CalNext, OverNext, KeyNext, OfStart, OfCal, OfOver,
         OfKey, Key!User_ValidateKey, keyVars, allVars
<1>3. StatusIsCurrent => UpgradeKeepsCompatibleKeys
  <2> SUFFICES ASSUME StatusIsCurrent, NEW q \in Products,
                      status = "success", key.compatible, Key!IsUpgradeOf(q, product)
               PROVE  Key!Validated(key, q) = "success"
    BY DEF UpgradeKeepsCompatibleKeys, Key!UpgradeKeepsCompatibleKeys
  <2>1. key \in Key!KeyType /\ product \in Key!Identity /\ q \in Key!Identity
    BY AllAssumption DEF StatusIsCurrent, AllAssumption, Key!KeyAssumption
  <2>2. Key!Validated(key, product) = "success"
    BY DEF StatusIsCurrent
  <2> QED  BY <2>1, <2>2, UpgradeAccepts
<1> QED  BY <1>1, <1>2, <1>3, PTL DEF AllSpec
=============================================================================
