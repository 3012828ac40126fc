---------------------------- MODULE DiagTestsProofs ----------------------------
(***************************************************************************)
(* The diagnostic tests, for memory of any size, any patterns, any boot    *)
(* streams a loader makes, registers of any width and any margin of the    *)
(* timer test: the test of the data RAM is invisible to the program, the   *)
(* tests of either memory miss no byte that fails, but for the last buffer *)
(* of the instruction RAM, the test of the registers misses no bit but the *)
(* two it cannot see, and the timer test leaves accurate clocks alone and  *)
(* finds those that disagree.                                              *)
(***************************************************************************)
EXTENDS MCDiagTests, Iteration

(***************************************************************************)
(* The test of the data RAM is invisible.                                  *)
(***************************************************************************)
\* The content of the memory and what is known of it, by address.
DataTypeOK ==
  /\ ram = [a \in Addresses |-> ram[a]]
  /\ app = [a \in Addresses |-> app[a]]
  /\ stuck = [a \in Addresses |-> stuck[a]]

\* A byte that works holds what the program has last written there, but for the byte
\* under test; and what was saved of that one is what the program has written there.
OnlyTheTestedByteDiffers ==
  /\ \A a \in Addresses :
       stuck[a] = None /\ (saved = None \/ a # Current) => ram[a] = app[a]
  /\ saved # None /\ Current \in Addresses /\ stuck[Current] = None => saved = app[Current]

\* A byte is under test only inside RunTest, and with interrupts off.
TestedByteIsProtected == saved # None => bank # 0 /\ ~interrupts

\* The invariant of the data.
DataInv == DataTypeOK /\ OnlyTheTestedByteDiffers /\ TestedByteIsProtected

\* Nothing moves the byte under test while it is tested.
LEMMA TestedByteStays ==
  ASSUME UNCHANGED <<bytesTested, bank, thisIteration>>
  PROVE  Current' = Current
BY DEF Current

\* Every step of the test, of the program and of the hardware keeps it.
LEMMA DataInvIsInductive ==
  ASSUME DataInv, [Next]_vars
  PROVE  DataInv'
<1> USE DEF DataInv, Stored
<1>1. ASSUME NEW a \in Addresses, NEW v \in Values, AppWrites(a, v)
      PROVE  DataInv'
  <2>1. saved = None /\ saved' = None
    BY <1>1 DEF AppWrites, TestedByteIsProtected
  <2>2. DataTypeOK'
    BY <1>1 DEF AppWrites, DataTypeOK
  <2>3. OnlyTheTestedByteDiffers'
    BY <1>1, <2>1 DEF AppWrites, OnlyTheTestedByteDiffers, DataTypeOK
  <2> QED  BY <2>1, <2>2, <2>3 DEF TestedByteIsProtected
<1>2. ASSUME NEW a \in Addresses, NEW v \in Values, ByteFails(a, v)
      PROVE  DataInv'
  <2>1. Current' = Current /\ saved' = saved /\ stuck'[a] # None
        /\ \A b \in Addresses \ {a} : stuck'[b] = stuck[b] /\ ram'[b] = ram[b]
    BY <1>2, TestedByteStays, DataRamAssumption DEF ByteFails, testVars, DataTypeOK
  <2>2. DataTypeOK'
    BY <1>2 DEF ByteFails, DataTypeOK
  <2>3. OnlyTheTestedByteDiffers'
    BY <1>2, <2>1 DEF ByteFails, OnlyTheTestedByteDiffers
  <2> QED  BY <1>2, <2>2, <2>3 DEF ByteFails, TestedByteIsProtected
<1>3. CASE EnterBank \/ CompleteLoop \/ LeaveBank
  <2>1. saved = None /\ UNCHANGED <<ram, stuck, app, saved>>
    BY <1>3 DEF EnterBank, CompleteLoop, LeaveBank, BeginRunTest, ramVars, TestedByteIsProtected
  <2> QED
    BY <2>1 DEF DataTypeOK, OnlyTheTestedByteDiffers, TestedByteIsProtected
<1>4. CASE BeginByte
  <2>1. Current' = Current
    BY <1>4, TestedByteStays DEF BeginByte, testVars
  <2>2. OnlyTheTestedByteDiffers'
    BY <1>4, <2>1 DEF BeginByte, ramVars, OnlyTheTestedByteDiffers
  <2> QED
    BY <1>4, <2>2 DEF BeginByte, ramVars, InterruptsOff, DataTypeOK, TestedByteIsProtected
<1>5. CASE PatternPasses
  <2>1. Current' = Current /\ saved' = saved
        /\ \A a \in Addresses : a # Current => ram'[a] = ram[a]
    BY <1>5, TestedByteStays DEF PatternPasses, testVars, DataTypeOK
  <2>2. DataTypeOK'
    BY <1>5 DEF PatternPasses, DataTypeOK
  <2>3. OnlyTheTestedByteDiffers'
    BY <1>5, <2>1 DEF PatternPasses, OnlyTheTestedByteDiffers
  <2> QED  BY <1>5, <2>2, <2>3 DEF PatternPasses, TestedByteIsProtected
<1>6. CASE EndByte \/ PatternFails
  <2>1. saved # None /\ saved' = None /\ UNCHANGED <<stuck, app>>
        /\ ram' = [ram EXCEPT ![Current] = Stored(Current, saved)]
    BY <1>6 DEF EndByte, PatternFails, Restored
  <2>2. \A a \in Addresses : stuck[a] = None => ram'[a] = app[a]
    BY <2>1 DEF OnlyTheTestedByteDiffers, DataTypeOK
  <2>3. DataTypeOK'
    BY <2>1 DEF DataTypeOK
  <2> QED
    BY <2>1, <2>2, <2>3 DEF OnlyTheTestedByteDiffers, TestedByteIsProtected
<1>7. CASE UNCHANGED vars
  BY <1>7, TestedByteStays
  DEF vars, DataTypeOK, OnlyTheTestedByteDiffers, TestedByteIsProtected, Current
<1> QED
  BY <1>1, <1>2, <1>3, <1>4, <1>5, <1>6, <1>7 DEF Next, Test

\* Whatever the sizes of the banks, the patterns and the program: whenever anything but
\* the test can look, a byte that works holds what the program has last written to it.
THEOREM TestIsInvisible == Spec => []ProgramKeepsItsData
<1>1. Init => DataInv
  BY DEF Init, DataInv, DataTypeOK, OnlyTheTestedByteDiffers, TestedByteIsProtected
<1>2. DataInv /\ [Next]_vars => DataInv'
  BY DataInvIsInductive
<1>3. DataInv => ProgramKeepsItsData
  BY DEF DataInv, OnlyTheTestedByteDiffers, TestedByteIsProtected, ProgramKeepsItsData
<1> QED  BY <1>1, <1>2, <1>3, PTL DEF Spec

(***************************************************************************)
(* It misses no byte that is stuck.                                        *)
(***************************************************************************)
\* Types of a loop of the test.
LoopTypeOK ==
  /\ ram = [a \in Addresses |-> ram[a]]
  /\ bytesTested \in [Banks -> Nat] /\ completed \in [Banks -> BOOLEAN]
  /\ testState \in {"TEST_IDLE", "TEST_IN_PROGRESS", "TEST_LOOP_COMPLETE", "OS_Assert"}
  /\ bank \in Banks \cup {0}
  /\ thisIteration \in Nat /\ patternNo \in 0..Len(TestPatterns)

\* A byte under test is in the bank that is entered.
TestingInABank == saved # None => bank # 0

\* What is stuck stays so.
OldIsStuck == oldStuck \subseteq Addresses /\ \A a \in oldStuck : stuck[a] # None

\* What this loop has passed of a bank.
Passed(k) == bytesTested[k] + IF k = bank THEN thisIteration ELSE 0

\* A loop of the test is in progress.
InLoop == testState = "TEST_IN_PROGRESS"

\* In a loop, no byte that it has passed was stuck when it began, and the patterns the
\* byte under test has passed are what it is stuck at, if it was.
PassedWorked ==
  InLoop =>
    /\ \A k \in Banks : \A o \in Nat : o < Passed(k) => <<k, o>> \notin oldStuck
    /\ \A k \in Banks : completed[k] => bytesTested[k] >= BankSizes[k]
    /\ saved # None /\ Current \in oldStuck =>
         \A i \in 1..patternNo : TestPatterns[i] = stuck[Current]

\* A bank is entered in a loop only.
BankIsInLoop == bank # 0 => testState \in {"TEST_IN_PROGRESS", "OS_Assert"}

\* The invariant of a loop.
LoopInv ==
  LoopTypeOK /\ TestingInABank /\ OldIsStuck /\ PassedWorked /\ BankIsInLoop
  /\ NoStuckByteOutlivesALoop

\* A bank is a place in BankSizes, and has a size.
LEMMA BankFacts ==
  \A k \in Banks : k # 0 /\ BankSizes[k] \in Nat
<1>1. BankSizes \in Seq(Nat)
  BY DataRamAssumption DEF DataRamAssumption
<1> QED  BY <1>1 DEF Banks

\* No byte is stuck at all patterns.
LEMMA DifferentPatterns ==
  \A v : ~ \A i \in 1..Len(TestPatterns) : TestPatterns[i] = v
<1>1. PICK i, j \in DOMAIN TestPatterns : TestPatterns[i] # TestPatterns[j]
  BY DataRamAssumption DEF DataRamAssumption
<1>2. DOMAIN TestPatterns = 1..Len(TestPatterns)
  BY DataRamAssumption DEF DataRamAssumption
<1> QED  BY <1>1, <1>2

\* Every step keeps the invariant of a loop.
LEMMA LoopInvIsInductive ==
  ASSUME LoopInv, [Next]_vars
  PROVE  LoopInv'
<1> USE DEF LoopInv
<1>1. ASSUME NEW a \in Addresses, NEW v \in Values, AppWrites(a, v)
      PROVE  LoopInv'
  BY <1>1
  DEF AppWrites, testVars, LoopTypeOK, TestingInABank, OldIsStuck, PassedWorked,
      BankIsInLoop, NoStuckByteOutlivesALoop, Passed, InLoop, Current
<1>2. ASSUME NEW a \in Addresses, NEW v \in Values, ByteFails(a, v)
      PROVE  LoopInv'
  <2>1. oldStuck = {}
    BY <1>2 DEF ByteFails, OldIsStuck
  <2> QED
    BY <1>2, <2>1
    DEF ByteFails, testVars, LoopTypeOK, TestingInABank, OldIsStuck, PassedWorked,
        BankIsInLoop, NoStuckByteOutlivesALoop, Passed, InLoop, Current
<1>3. ASSUME BeginRunTest
      PROVE  /\ bytesTested' \in [Banks -> Nat] /\ completed' \in [Banks -> BOOLEAN]
             /\ oldStuck' \subseteq Addresses /\ \A a \in oldStuck' : stuck'[a] # None
             /\ bank = 0 /\ saved = None /\ saved' = None
             /\ UNCHANGED <<ram, stuck, patternNo>>
             /\ \A k \in Banks : \A o \in Nat : o < bytesTested'[k] => <<k, o>> \notin oldStuck'
             /\ \A k \in Banks : completed'[k] => bytesTested'[k] >= BankSizes[k]
  <2>1. /\ bank = 0 /\ saved = None /\ saved' = None
        /\ UNCHANGED <<ram, stuck, patternNo>>
    BY <1>3 DEF BeginRunTest, ramVars, TestingInABank
  <2>2. CASE NewLoop
    <3>1. /\ bytesTested' = [k \in Banks |-> 0] /\ completed' = [k \in Banks |-> FALSE]
          /\ oldStuck' = {a \in Addresses : stuck[a] # None}
      BY <1>3, <2>2 DEF BeginRunTest, BanksReset
    <3> QED  BY <2>1, <3>1
  <2>3. CASE ~NewLoop
    <3>1. UNCHANGED <<bytesTested, completed, oldStuck>> /\ InLoop
      BY <1>3, <2>3 DEF BeginRunTest, BanksReset, NewLoop, Halted, InLoop, LoopTypeOK
    <3> QED  BY <2>1, <3>1, BankFacts DEF LoopTypeOK, OldIsStuck, PassedWorked, Passed
  <2> QED  BY <2>2, <2>3
<1>4. CASE EnterBank
  <2>1. bank' \in Banks /\ thisIteration' = 0 /\ testState' = "TEST_IN_PROGRESS"
    BY <1>4 DEF EnterBank
  <2>2. LoopTypeOK' /\ TestingInABank' /\ OldIsStuck' /\ BankIsInLoop' /\ NoStuckByteOutlivesALoop'
    BY <1>3, <1>4, <2>1
    DEF EnterBank, LoopTypeOK, TestingInABank, OldIsStuck, BankIsInLoop,
        NoStuckByteOutlivesALoop
  <2>3. PassedWorked'
    BY <1>3, <1>4, <2>1, <2>2 DEF EnterBank, PassedWorked, LoopTypeOK, Passed
  <2> QED  BY <2>2, <2>3
<1>5. CASE CompleteLoop
  <2>1. testState' = "TEST_LOOP_COMPLETE" /\ UNCHANGED <<bank, thisIteration>>
        /\ \A k \in Banks : completed'[k]
    BY <1>5 DEF CompleteLoop
  <2>2. oldStuck' = {}
    <3>1. \A k \in Banks : \A o \in 0..(BankSizes[k] - 1) : <<k, o>> \notin oldStuck'
      <4>1. BeginRunTest
        BY <1>5 DEF CompleteLoop
      <4> SUFFICES ASSUME NEW k \in Banks, NEW o \in 0..(BankSizes[k] - 1)
                   PROVE  o \in Nat /\ o < bytesTested'[k]
        BY <1>3, <4>1
      <4>2. bytesTested'[k] \in Nat /\ bytesTested'[k] >= BankSizes[k] /\ BankSizes[k] \in Nat
        BY <1>3, <2>1, <4>1, BankFacts
      <4> QED  BY <4>2
    <3> QED  BY <1>3, <1>5, <3>1 DEF CompleteLoop, Addresses
  <2> QED
    BY <1>3, <1>5, <2>1, <2>2
    DEF CompleteLoop, LoopTypeOK, TestingInABank, OldIsStuck, PassedWorked, BankIsInLoop,
        NoStuckByteOutlivesALoop, InLoop
<1>6. CASE BeginByte
  BY <1>6
  DEF BeginByte, ramVars, testVars, LoopTypeOK, TestingInABank, OldIsStuck, PassedWorked,
      BankIsInLoop, NoStuckByteOutlivesALoop, Passed, InLoop
<1>7. CASE PatternPasses
  <2>1. /\ saved # None /\ patternNo' = patternNo + 1 /\ patternNo < Len(TestPatterns)
        /\ ram' = [ram EXCEPT ![Current] = Stored(Current, TestPatterns[patternNo + 1])]
        /\ ram'[Current] = TestPatterns[patternNo + 1]
        /\ UNCHANGED <<stuck, testState, bytesTested, completed, bank, thisIteration, saved,
                       oldStuck>>
    BY <1>7 DEF PatternPasses, testVars
  <2>2. Current' = Current
    BY <2>1 DEF Current
  <2>3. ASSUME Current \in oldStuck
        PROVE  TestPatterns[patternNo + 1] = stuck[Current]
    <3>1. Current \in Addresses /\ stuck[Current] # None
      BY <2>3 DEF OldIsStuck
    <3> QED  BY <2>1, <3>1 DEF LoopTypeOK, Stored
  <2>4. patternNo' \in 0..Len(TestPatterns) /\ 1..patternNo' = (1..patternNo) \cup {patternNo + 1}
    BY <2>1, DataRamAssumption DEF DataRamAssumption, LoopTypeOK
  <2>5. LoopTypeOK'
    BY <2>1, <2>4 DEF LoopTypeOK
  <2>6. PassedWorked'
    BY <2>1, <2>2, <2>3, <2>4 DEF PassedWorked, Passed, InLoop
  <2> QED
    BY <2>1, <2>5, <2>6 DEF TestingInABank, OldIsStuck, BankIsInLoop, NoStuckByteOutlivesALoop
<1>8. CASE EndByte
  <2>1. /\ saved # None /\ saved' = None /\ patternNo = Len(TestPatterns)
        /\ ram' = [ram EXCEPT ![Current] = Restored]
        /\ thisIteration' = thisIteration + 1
        /\ UNCHANGED <<stuck, testState, bytesTested, completed, bank, patternNo, oldStuck>>
    BY <1>8 DEF EndByte, testVars
  <2>2. bank \in Banks /\ bank # 0
    BY <2>1 DEF LoopTypeOK, TestingInABank
  <2>3. InLoop => Current \notin oldStuck
    BY <2>1, DifferentPatterns DEF PassedWorked
  <2>4. LoopTypeOK'
    BY <2>1 DEF LoopTypeOK
  <2>5. ASSUME InLoop, NEW k \in Banks, NEW o \in Nat, o < Passed(k)'
        PROVE  <<k, o>> \notin oldStuck
    <3>1. CASE k = bank
      <4>1. o < bytesTested[bank] + (thisIteration + 1)
        BY <2>1, <2>5, <3>1 DEF Passed
      <4>2. o < bytesTested[bank] + thisIteration \/ o = bytesTested[bank] + thisIteration
        BY <2>2, <4>1 DEF LoopTypeOK
      <4> QED  BY <2>3, <2>5, <3>1, <4>2 DEF PassedWorked, Passed, Current
    <3>2. CASE k # bank
      BY <2>1, <2>5, <3>2 DEF PassedWorked, Passed
    <3> QED  BY <3>1, <3>2
  <2>6. PassedWorked'
    BY <2>1, <2>5 DEF PassedWorked, InLoop
  <2> QED
    BY <2>1, <2>4, <2>6 DEF TestingInABank, OldIsStuck, BankIsInLoop, NoStuckByteOutlivesALoop
<1>9. CASE PatternFails
  BY <1>9 DEF PatternFails, LoopTypeOK, TestingInABank, OldIsStuck, PassedWorked, BankIsInLoop,
     NoStuckByteOutlivesALoop, InLoop
<1>10. CASE LeaveBank
  <2>1. /\ saved = None /\ saved' = None /\ bank \in Banks /\ bank # 0 /\ bank' = 0 /\ InLoop
        /\ bytesTested' = [bytesTested EXCEPT ![bank] = bytesTested[bank] + thisIteration]
        /\ completed' = [completed EXCEPT ![bank] = bytesTested'[bank] >= BankSizes[bank]]
        /\ UNCHANGED <<ram, stuck, testState, thisIteration, patternNo, oldStuck>>
    BY <1>10
    DEF LeaveBank, ramVars, NmbrBytesTested, IsTested, Halted, InLoop, BankIsInLoop,
        LoopTypeOK
  <2>2. LoopTypeOK'
    BY <2>1 DEF LoopTypeOK
  <2>3. \A k \in Banks : Passed(k)' = Passed(k)
    BY <2>1, BankFacts DEF Passed, LoopTypeOK
  <2>4. \A k \in Banks : completed'[k] => bytesTested'[k] >= BankSizes[k]
    BY <2>1 DEF PassedWorked, LoopTypeOK
  <2>5. PassedWorked'
    BY <2>1, <2>3, <2>4 DEF PassedWorked, InLoop
  <2> QED
    BY <2>1, <2>2, <2>5 DEF TestingInABank, OldIsStuck, BankIsInLoop, NoStuckByteOutlivesALoop
<1>11. CASE UNCHANGED vars
  BY <1>11 DEF vars, LoopTypeOK, TestingInABank, OldIsStuck, PassedWorked, BankIsInLoop,
     NoStuckByteOutlivesALoop, Passed, InLoop, Current
<1> QED
  BY <1>1, <1>2, <1>4, <1>5, <1>6, <1>7, <1>8, <1>9, <1>10, <1>11 DEF Next, Test

\* For banks of any size and any patterns that are not all the same: a loop completes
\* only when every byte of every bank worked when it started.
THEOREM NoStuckByteIsMissed == Spec => []NoStuckByteOutlivesALoop
<1>1. Init => LoopInv
  <2> SUFFICES ASSUME Init PROVE LoopInv
    OBVIOUS
  <2>1. 0 \in 0..Len(TestPatterns)
    BY DataRamAssumption DEF DataRamAssumption
  <2> QED
    BY <2>1
    DEF Init, LoopInv, LoopTypeOK, TestingInABank, OldIsStuck, PassedWorked, BankIsInLoop,
        NoStuckByteOutlivesALoop, InLoop
<1>2. LoopInv /\ [Next]_vars => LoopInv'
  BY LoopInvIsInductive
<1>3. LoopInv => NoStuckByteOutlivesALoop
  BY DEF LoopInv
<1> QED  BY <1>1, <1>2, <1>3, PTL DEF Spec

(***************************************************************************)
(* The test of the registers.                                              *)
(***************************************************************************)
\* The registers of the first iteration.
SanitySet == {"R0", "R1", "R2", "P0"}

\* What is stuck at the start of a loop stays so, and a loop that is in progress has
\* passed the first iteration with it.
CpuInv ==
  /\ stuckBit \in Cpu!Faults \cup {Cpu!Sound}
  /\ stuckAtStart # Cpu!Sound => stuckBit = stuckAtStart
  /\ regTestState \in {"TEST_IDLE", "TEST_IN_PROGRESS", "TEST_LOOP_COMPLETE"}
  /\ regTestState = "TEST_IN_PROGRESS" => sanityTestRan
  /\ regTestState = "TEST_IN_PROGRESS" /\ ~regError =>
       stuckAtStart = Cpu!Sound \/ Cpu!IsHidden(stuckAtStart) \/ stuckAtStart.reg \notin SanitySet
  /\ Cpu!StuckBitOutlivesNoLoop

\* The first iteration finds every bit of its registers that is not hidden, ...
LEMMA SanityFindsStuckBits ==
  ASSUME Cpu!CpuAssumption, stuckBit \in Cpu!Faults, stuckBit.reg \in SanitySet,
         ~Cpu!IsHidden(stuckBit)
  PROVE  Cpu!ReturnsError(Cpu!SanityChkPatternFails(Bits), Cpu!SanityChkPatternFails({}))
<1> DEFINE r == stuckBit.reg
           b == stuckBit.bit
<1>1. r \in SanitySet /\ b \in Bits /\ stuckBit.at \in {0, 1}
  BY DEF Cpu!Faults
<1>2. CASE stuckBit.at = 1
  <2>1. \A x, v : Cpu!Stored(x, v) = IF x = r THEN v \cup {b} ELSE v
    BY <1>2 DEF Cpu!Stored, Cpu!Holds
  <2>2. r # "R1"
    BY <1>2 DEF Cpu!IsHidden
  <2>3. CASE r = "R0"
    BY <2>1, <2>3 DEF Cpu!ReturnsError
  <2>4. CASE r = "R2"
    <3>1. Cpu!SanityChkPatternFails({})
      BY <2>1, <2>4 DEF Cpu!SanityChkPatternFails
    <3> QED  BY <2>1, <2>4, <3>1 DEF Cpu!ReturnsError
  <2>5. CASE r = "P0"
    <3>1. Cpu!SanityChkPatternFails({})
      BY <2>1, <2>5 DEF Cpu!SanityChkPatternFails
    <3> QED  BY <2>1, <2>5, <3>1 DEF Cpu!ReturnsError
  <2> QED  BY <1>1, <2>2, <2>3, <2>4, <2>5 DEF SanitySet
<1>3. CASE stuckBit.at = 0
  <2>1. \A x, v : Cpu!Stored(x, v) = IF x = r THEN v \ {b} ELSE v
    BY <1>3 DEF Cpu!Stored, Cpu!Holds
  <2>2. r # "R0"
    BY <1>3 DEF Cpu!IsHidden
  <2>3. Cpu!SanityChkPatternFails(Bits)
    <3>1. CASE r = "R1"
      BY <1>1, <2>1, <3>1 DEF Cpu!SanityChkPatternFails
    <3>2. CASE r = "R2"
      BY <1>1, <2>1, <3>2 DEF Cpu!SanityChkPatternFails
    <3>3. CASE r = "P0"
      BY <1>1, <2>1, <3>3 DEF Cpu!SanityChkPatternFails
    <3> QED  BY <1>1, <2>2, <3>1, <3>2, <3>3 DEF SanitySet
  <2> QED  BY <2>3 DEF Cpu!ReturnsError
<1> QED  BY <1>1, <1>2, <1>3

\* ... and the second one every bit of all others.
LEMMA PatternsFindStuckBits ==
  ASSUME Cpu!CpuAssumption, stuckBit \in Cpu!Faults, stuckBit.reg \notin SanitySet
  PROVE  Cpu!ReturnsError(Cpu!RegTestPatternFails(Bits), Cpu!RegTestPatternFails({}))
<1> DEFINE r == stuckBit.reg
           b == stuckBit.bit
<1>1. r \in Cpu!Regs /\ b \in Bits /\ stuckBit.at \in {0, 1} /\ r # "R0" /\ r # "R1"
  BY DEF Cpu!Faults, SanitySet
<1>2. PICK i \in DOMAIN Cpu!PatternRegs : Cpu!PatternRegs[i] = r
  <2>1. \A j \in DOMAIN Cpu!SanityRegs : Cpu!SanityRegs[j] \in SanitySet
    BY DEF Cpu!SanityRegs, SanitySet
  <2> QED  BY <1>1, <2>1 DEF Cpu!Regs
<1>3. \A v : Cpu!Stored("R0", v) = v /\ Cpu!Stored("R1", v) = v
  BY <1>1 DEF Cpu!Stored, Cpu!Holds
<1>4. ASSUME NEW v, Cpu!IsWrong(r, v)
      PROVE  Cpu!RegTestPatternFails(v)
  BY <1>2, <1>3, <1>4 DEF Cpu!RegTestPatternFails
<1>5. \A v : Cpu!Stored(Cpu!MovedTo(r), Cpu!Stored(r, v))
              \in {Cpu!Stored(r, v), Cpu!Stored(r, Cpu!Stored(r, v))}
  BY DEF Cpu!Stored, Cpu!Holds
<1>6. CASE stuckBit.at = 1
  <2>1. \A v : Cpu!Stored(r, v) = v \cup {b}
    BY <1>6 DEF Cpu!Stored, Cpu!Holds
  <2>2. b \in Cpu!Stored(Cpu!MovedTo(r), Cpu!Stored(r, {}))
    BY <1>5, <2>1
  <2>3. Cpu!RegTestPatternFails({})
    BY <1>4, <2>2 DEF Cpu!IsWrong
  <2> QED  BY <1>3, <2>3 DEF Cpu!ReturnsError
<1>7. CASE stuckBit.at = 0
  <2>1. \A v : Cpu!Stored(r, v) = v \ {b}
    BY <1>7 DEF Cpu!Stored, Cpu!Holds
  <2>2. b \notin Cpu!Stored(Cpu!MovedTo(r), Cpu!Stored(r, Bits))
    BY <1>5, <2>1
  <2>3. Cpu!RegTestPatternFails(Bits)
    BY <1>1, <1>4, <2>2 DEF Cpu!IsWrong
  <2> QED  BY <2>3 DEF Cpu!ReturnsError
<1> QED  BY <1>1, <1>6, <1>7

\* Every iteration keeps the invariant.
LEMMA CpuInvIsInductive ==
  ASSUME CpuInv, [Cpu!Next]_Cpu!vars
  PROVE  CpuInv'
<1>0. Cpu!CpuAssumption
  BY TestsAssumption DEF TestsAssumption
<1>1. CASE Cpu!RegisterFails
  BY <1>1 DEF Cpu!RegisterFails, CpuInv, Cpu!StuckBitOutlivesNoLoop
<1>2. CASE Cpu!SanityIteration
  <2>1. /\ stuckBit' = stuckBit /\ sanityTestRan'
        /\ Cpu!StartsLoop /\ stuckAtStart' = stuckBit
        /\ regTestState' \in {regTestState, "TEST_IN_PROGRESS"}
        /\ ~regError' => regTestState' = "TEST_IN_PROGRESS"
    BY <1>2 DEF Cpu!SanityIteration, Cpu!StartsLoop, CpuInv
  <2>2. ~regError' =>
          ~Cpu!ReturnsError(Cpu!SanityChkPatternFails(Bits), Cpu!SanityChkPatternFails({}))
    BY <1>2 DEF Cpu!SanityIteration
  <2>3. ~regError' =>
          stuckBit = Cpu!Sound \/ Cpu!IsHidden(stuckBit) \/ stuckBit.reg \notin SanitySet
    BY <1>0, <2>2, SanityFindsStuckBits DEF CpuInv
  <2> QED
    BY <2>1, <2>3 DEF CpuInv, Cpu!StuckBitOutlivesNoLoop
<1>3. CASE Cpu!RegisterIteration
  <2>1. /\ UNCHANGED <<stuckBit, sanityTestRan, stuckAtStart>>
        /\ regTestState = "TEST_IN_PROGRESS" /\ ~regError
        /\ regTestState' \in {regTestState, "TEST_LOOP_COMPLETE"}
        /\ ~regError' => regTestState' = "TEST_LOOP_COMPLETE"
    BY <1>3 DEF Cpu!RegisterIteration, Cpu!StartsLoop, CpuInv
  <2>2. ~regError' => ~Cpu!ReturnsError(Cpu!RegTestPatternFails(Bits), Cpu!RegTestPatternFails({}))
    BY <1>3 DEF Cpu!RegisterIteration
  <2>3. ~regError' => stuckAtStart = Cpu!Sound \/ Cpu!IsHidden(stuckAtStart)
    BY <1>0, <2>1, <2>2, PatternsFindStuckBits DEF CpuInv
  <2> QED
    BY <2>1, <2>3 DEF CpuInv, Cpu!StuckBitOutlivesNoLoop
<1>4. CASE Cpu!InstructionsTest \/ UNCHANGED Cpu!vars
  BY <1>4 DEF Cpu!InstructionsTest, Cpu!vars, CpuInv, Cpu!StuckBitOutlivesNoLoop
<1> QED  BY <1>1, <1>2, <1>3, <1>4 DEF Cpu!Next

\* For registers of any width: no loop completes over a bit that was stuck when it began,
\* but for the two faults the routines cannot see.
THEOREM StuckBitsAreFound == Cpu!Spec => []StuckBitOutlivesNoLoop
<1>1. Cpu!Init => CpuInv
  BY DEF Cpu!Init, CpuInv, Cpu!StuckBitOutlivesNoLoop
<1>2. CpuInv /\ [Cpu!Next]_Cpu!vars => CpuInv'
  BY CpuInvIsInductive
<1>3. CpuInv => StuckBitOutlivesNoLoop
  BY DEF CpuInv, StuckBitOutlivesNoLoop
<1> QED  BY <1>1, <1>2, <1>3, PTL DEF Cpu!Spec

(***************************************************************************)
(* The timer test.                                                         *)
(***************************************************************************)
\* An accurate clock counts the time.
LEMMA ReadingOfAccurateClock ==
  ASSUME NEW T \in Nat \ {0}, NEW n \in Nat
  PROVE  (n * T) \div T = n
OBVIOUS

\* A number is its quotient and its remainder.
LEMMA QuotientAndRemainder ==
  ASSUME NEW W \in Nat \ {0}, NEW n \in Nat
  PROVE  n \div W \in Nat /\ n % W \in 0..(W - 1) /\ n = (n \div W) * W + (n % W)
OBVIOUS

\* The difference of two readings of a clock is exact if it is less than what the
\* clock counts to, whether or not the clock wraps between them.
LEMMA WrappedDifference ==
  ASSUME NEW W \in Nat \ {0}, NEW s \in Nat, NEW t \in Nat, s <= t, t - s < W
  PROVE  ((t % W) - (s % W)) % W = t - s
<1> DEFINE q == t \div W
           p == s \div W
           x == t % W
           y == s % W
<1>1. q \in Nat /\ x \in 0..(W - 1) /\ t = q * W + x
  BY QuotientAndRemainder
<1>2. p \in Nat /\ y \in 0..(W - 1) /\ s = p * W + y
  BY QuotientAndRemainder
<1> HIDE DEF q, p, x, y
<1>3. (q - p) * W = (t - s) - (x - y)
  BY <1>1, <1>2
<1>4. CASE q = p
  <2>1. x - y = t - s
    BY <1>1, <1>2, <1>4
  <2> QED  BY <2>1 DEF x, y
<1>5. CASE q = p + 1
  <2>1. (x - y) + W = t - s
    BY <1>1, <1>2, <1>5
  <2>2. x - y \in Int /\ x - y < 0 /\ (x - y) + W \in 0..(W - 1)
    BY <1>1, <1>2, <2>1
  <2>3. \A d \in Int : d < 0 /\ d + W \in 0..(W - 1) => d % W = d + W
    OBVIOUS
  <2>4. (x - y) % W = t - s
    BY <2>1, <2>2, <2>3
  <2> QED  BY <2>4 DEF x, y
<1>6. CASE q < p \/ q > p + 1
  <2>1. CASE q < p
    <3>1. q * W <= (p - 1) * W
      BY <1>1, <1>2, <2>1
    <3> QED  BY <1>1, <1>2, <3>1
  <2>2. CASE q > p + 1
    <3>1. q * W >= (p + 2) * W
      BY <1>1, <1>2, <2>2
    <3> QED  BY <1>1, <1>2, <3>1
  <2> QED  BY <1>6, <2>1, <2>2
<1> QED  BY <1>1, <1>2, <1>4, <1>5, <1>6

\* Both clocks are accurate.
Accurate == rateHost = TimingPeriod /\ rateApex = TimingPeriod

\* When the program came to where it is.
Since == now - wait

\* Types, and how long the program is where it is.
TimerTypeOK ==
  /\ now \in Nat /\ wait \in Nat /\ wait <= now
  /\ control \in {"background", "pass", "halfway", "halted"}
  /\ wait <= IF control = "background" THEN MaxGap ELSE MaxPass
  /\ timerTestState \in {"TEST_IDLE", "TEST_IN_PROGRESS", "TEST_LOOP_COMPLETE"}
  /\ beingInstantiated \in BOOLEAN
  /\ beingInstantiated => timerTestState # "TEST_IN_PROGRESS"
  /\ control = "halfway" /\ ~beingInstantiated => timerTestState = "TEST_IN_PROGRESS"

\* What was read of accurate clocks in this pass.
PassIsStamped ==
  /\ control \in {"pass", "halfway"} => timestampCurrent = Since % ClockWrap
  /\ control = "halfway" => \E f \in Since..now : firstRead = f % ClockWrap

\* A pass at s has read them at h and a, and the one that reads them again is neither
\* early nor late.
TimedSince(s, h, a) ==
  /\ s \in Nat /\ h \in s..(s + MaxPass) /\ a \in s..(s + MaxPass)
  /\ iterationComplete = s % ClockWrap /\ period = TimingPeriod
  /\ startHost = h % ClockWrap /\ startApex = a % ClockWrap
  /\ s <= Since
  /\ control = "background" => Since <= s + MaxPass \/ Since < s + TimingPeriod
  /\ control \in {"pass", "halfway"} => Since \in (s + TimingPeriod)..(s + TimingPeriod + MaxGap)

\* The second iteration of a loop comes a timing period after the first.
TimingIsExact == timerTestState = "TEST_IN_PROGRESS" => \E s, h, a \in Nat : TimedSince(s, h, a)

\* The invariant of the timer test.
TimerInv ==
  /\ TimerTypeOK
  /\ Accurate => PassIsStamped /\ TimingIsExact /\ timerError = "none"

\* What the margin covers.
LEMMA TimerConstants ==
  /\ TimingPeriod \in Nat \ {0} /\ Margin \in Nat /\ Margin <= TimingPeriod
  /\ ClockWrap \in Nat \ {0} /\ ClockWrap > 2 * TimingPeriod
  /\ MaxGap \in Nat /\ MaxPass \in Nat /\ MaxGap + MaxPass <= Margin
BY TestsAssumption DEF TestsAssumption, Timer!TimerAssumption

\* Accurate clocks read the time.
LEMMA AccurateReading ==
  ASSUME Accurate, now \in Nat
  PROVE  Timer!HostGetTime = now % ClockWrap /\ Timer!ApexGetTime = now % ClockWrap
BY TimerConstants, ReadingOfAccurateClock
DEF Accurate, Timer!HostGetTime, Timer!ApexGetTime, Timer!Reading

\* What elapsed between two readings of them.
LEMMA ExactElapsed ==
  ASSUME NEW s \in Nat, NEW t \in Nat, s <= t, t - s < ClockWrap
  PROVE  Timer!Elapsed(t % ClockWrap, s % ClockWrap) = t - s
BY TimerConstants, WrappedDifference DEF Timer!Elapsed

\* The second pass of a loop finds accurate clocks accurate.
LEMMA AccurateIsFoundAccurate ==
  ASSUME TimerTypeOK, PassIsStamped, TimingIsExact, Accurate, control = "halfway",
         ~beingInstantiated
  PROVE  /\ Timer!IsAccurate(Timer!Elapsed(Timer!HostGetTime, startHost))
         /\ Timer!IsAccurate(Timer!Elapsed(firstRead, startApex))
<1>1. PICK s \in Nat, h \in Nat, a \in Nat : TimedSince(s, h, a)
  BY DEF TimingIsExact, TimerTypeOK
<1>2. PICK f \in Since..now : firstRead = f % ClockWrap
  BY DEF PassIsStamped
<1>3. /\ now \in Nat /\ Since \in Nat /\ now - Since <= MaxPass /\ Since <= now
      /\ h \in s..(s + MaxPass) /\ a \in s..(s + MaxPass)
      /\ Since \in (s + TimingPeriod)..(s + TimingPeriod + MaxGap)
      /\ startHost = h % ClockWrap /\ startApex = a % ClockWrap
  BY <1>1, TimerConstants DEF TimerTypeOK, Since, TimedSince
<1>4. ASSUME NEW r \in Since..now, NEW b \in s..(s + MaxPass)
      PROVE  Timer!IsAccurate(Timer!Elapsed(r % ClockWrap, b % ClockWrap))
  <2>1. /\ r \in Nat /\ b \in Nat /\ b <= r /\ r - b < ClockWrap
        /\ TimingPeriod - Margin <= r - b /\ r - b <= TimingPeriod + Margin
    BY <1>3, TimerConstants
  <2> QED  BY <2>1, ExactElapsed DEF Timer!IsAccurate
<1>5. Timer!HostGetTime = now % ClockWrap /\ now \in Since..now
  BY <1>3, AccurateReading
<1> QED  BY <1>2, <1>3, <1>4, <1>5

\* Every step of the test and of time keeps the invariant.
LEMMA TimerInvIsInductive ==
  ASSUME TimerInv, [Timer!Next]_Timer!vars
  PROVE  TimerInv'
<1> USE TimerConstants
<1>1. TimerTypeOK
  BY DEF TimerInv
<1>2. CASE Timer!Tick
  <2>1. /\ now' = now + 1 /\ wait' = wait + 1 /\ control # "halted"
        /\ wait < IF control = "background" THEN MaxGap ELSE MaxPass
        /\ UNCHANGED <<rateHost, rateApex, control, timestampCurrent, iterationComplete, period,
                       beingInstantiated, timerTestState, startHost, startApex, firstRead,
                       timerError>>
    BY <1>2 DEF Timer!Tick, Timer!clocks
  <2>2. TimerTypeOK' /\ Since' = Since /\ Since..now \subseteq (Since..now)'
    BY <1>1, <2>1 DEF TimerTypeOK, Since
  <2>3. ASSUME Accurate, PassIsStamped PROVE PassIsStamped'
    BY <2>1, <2>2, <2>3 DEF PassIsStamped
  <2>4. ASSUME TimingIsExact PROVE TimingIsExact'
    BY <2>1, <2>2, <2>4 DEF TimingIsExact, TimedSince
  <2> QED  BY <2>1, <2>2, <2>3, <2>4 DEF TimerInv, Accurate
<1>3. CASE Timer!BeginPass
  <2>1. /\ control = "background" /\ timestampCurrent' = Timer!HostGetTime /\ wait' = 0
        /\ control' = IF Timer!IsDue(Timer!HostGetTime) THEN "pass" ELSE "background"
        /\ UNCHANGED <<now, rateHost, rateApex, iterationComplete, period,
                       beingInstantiated, timerTestState, startHost, startApex, firstRead,
                       timerError>>
    BY <1>3 DEF Timer!BeginPass, Timer!clocks
  <2>2. TimerTypeOK' /\ Since' = now /\ now \in Nat
    BY <1>1, <2>1 DEF TimerTypeOK, Since
  <2>3. ASSUME Accurate PROVE PassIsStamped'
    BY <2>1, <2>2, <2>3, AccurateReading DEF PassIsStamped
  <2>4. ASSUME Accurate, TimingIsExact PROVE TimingIsExact'
    <3> SUFFICES ASSUME NEW s \in Nat, NEW h \in Nat, NEW a \in Nat, TimedSince(s, h, a)
                 PROVE  TimedSince(s, h, a)'
      BY <2>1, <2>4 DEF TimingIsExact
    <3>1. /\ s <= now /\ now - s < ClockWrap
          /\ now <= s + TimingPeriod + MaxGap
      BY <1>1, <2>1 DEF TimedSince, TimerTypeOK, Since
    <3>2. Timer!IsDue(Timer!HostGetTime) <=> now - s >= TimingPeriod
      BY <2>2, <2>4, <3>1, AccurateReading, ExactElapsed DEF Timer!IsDue, TimedSince
    <3>3. CASE now - s >= TimingPeriod
      BY <2>1, <2>2, <3>1, <3>2, <3>3 DEF TimedSince
    <3>4. CASE now - s < TimingPeriod
      BY <2>1, <2>2, <3>1, <3>2, <3>4 DEF TimedSince
    <3> QED  BY <2>2, <3>3, <3>4
  <2> QED  BY <2>1, <2>2, <2>3, <2>4 DEF TimerInv, Accurate
<1>4. CASE Timer!ReadFirstClock
  <2>1. /\ control = "pass" /\ control' = "halfway" /\ beingInstantiated' = Timer!Instantiates
        /\ firstRead' \in {Timer!HostGetTime, Timer!ApexGetTime}
        /\ UNCHANGED <<now, rateHost, rateApex, wait, timestampCurrent, iterationComplete, period,
                       timerTestState, startHost, startApex, timerError>>
    BY <1>4 DEF Timer!ReadFirstClock, Timer!clocks
  <2>2. TimerTypeOK'
    BY <1>1, <2>1 DEF TimerTypeOK, Timer!Instantiates
  <2>3. Since' = Since /\ now \in Since..now /\ now \in Nat
    BY <1>1, <2>1 DEF TimerTypeOK, Since
  <2>4. ASSUME Accurate, PassIsStamped PROVE PassIsStamped'
    BY <2>1, <2>3, <2>4, AccurateReading DEF PassIsStamped
  <2>5. ASSUME TimingIsExact PROVE TimingIsExact'
    BY <2>1, <2>3, <2>5 DEF TimingIsExact, TimedSince
  <2> QED  BY <2>1, <2>2, <2>4, <2>5 DEF TimerInv, Accurate
<1>5. CASE Timer!StartTiming
  <2>1. /\ control = "halfway" /\ control' = "background" /\ ~beingInstantiated' /\ wait' = 0
        /\ beingInstantiated' \in BOOLEAN
        /\ startHost' = firstRead /\ startApex' = Timer!ApexGetTime /\ period' = TimingPeriod
        /\ timerTestState' = "TEST_IN_PROGRESS" /\ iterationComplete' = timestampCurrent
        /\ UNCHANGED <<now, rateHost, rateApex, timestampCurrent, firstRead, timerError>>
    BY <1>5 DEF Timer!StartTiming, Timer!Return, Timer!PeriodBetweenReads, Timer!clocks
  <2>2. TimerTypeOK'
    BY <1>1, <2>1 DEF TimerTypeOK
  <2>3. /\ Since' = now /\ now \in Nat /\ Since \in Nat /\ Since <= now /\ now <= Since + MaxPass
    BY <1>1, <2>1 DEF TimerTypeOK, Since
  <2>4. PassIsStamped'
    BY <2>1 DEF PassIsStamped
  <2>5. ASSUME Accurate, PassIsStamped PROVE TimingIsExact'
    <3>1. PICK f \in Since..now : firstRead = f % ClockWrap
      BY <2>1, <2>5 DEF PassIsStamped
    <3>2. PICK s \in Nat, a \in Nat : s = Since /\ a = now
      BY <2>3
    <3>3. f \in Nat /\ f \in s..(s + MaxPass) /\ a \in s..(s + MaxPass)
      BY <2>3, <3>2
    <3>4. timestampCurrent = s % ClockWrap /\ Timer!ApexGetTime = a % ClockWrap
      BY <2>1, <2>5, <3>2, AccurateReading DEF PassIsStamped
    <3>5. TimedSince(s, f, a)'
      BY <2>1, <2>3, <3>1, <3>2, <3>3, <3>4 DEF TimedSince
    <3> QED  BY <3>2, <3>3, <3>5 DEF TimingIsExact
  <2> QED  BY <2>1, <2>2, <2>4, <2>5 DEF TimerInv, Accurate
<1>6. CASE Timer!FindHostTimerErr \/ Timer!FindApexTimerErr
  <2>1. control = "halfway" /\ ~beingInstantiated /\ control' = "halted"
        /\ UNCHANGED <<now, rateHost, rateApex, wait, beingInstantiated, timerTestState>>
    BY <1>6 DEF Timer!FindHostTimerErr, Timer!FindApexTimerErr, Timer!OS_Assert, Timer!clocks
  <2>2. TimerTypeOK'
    BY <1>1, <2>1 DEF TimerTypeOK
  <2>3. ~Accurate
    BY <1>1, <1>6, <2>1, AccurateIsFoundAccurate
    DEF TimerInv, Timer!FindHostTimerErr, Timer!FindApexTimerErr
  <2> QED  BY <2>1, <2>2, <2>3 DEF TimerInv, Accurate
<1>7. CASE Timer!CompleteTiming
  <2>1. /\ control = "halfway" /\ control' = "background" /\ ~beingInstantiated' /\ wait' = 0
        /\ beingInstantiated' = beingInstantiated /\ timerTestState' = "TEST_LOOP_COMPLETE"
        /\ UNCHANGED <<now, rateHost, rateApex, timerError>>
    BY <1>7 DEF Timer!CompleteTiming, Timer!Return, Timer!clocks
  <2>2. TimerTypeOK'
    BY <1>1, <2>1 DEF TimerTypeOK
  <2> QED  BY <2>1, <2>2 DEF TimerInv, Accurate, PassIsStamped, TimingIsExact
<1>8. CASE UNCHANGED Timer!vars
  BY <1>8
  DEF Timer!vars, Timer!clocks, TimerInv, TimerTypeOK, Accurate, PassIsStamped, TimingIsExact,
      TimedSince, Since
<1> QED
  BY <1>2, <1>3, <1>4, <1>5, <1>6, <1>7, <1>8 DEF Timer!Next, Timer!RunTest

\* For any period, and any gaps and passes the margin covers: accurate clocks never stop
\* the system, wrapped or not.
THEOREM AccurateClocksAreLeftAlone == Timer!Spec => []AccurateClocksPass
<1>1. Timer!Init => TimerInv
  BY TimerConstants DEF Timer!Init, TimerInv, TimerTypeOK, PassIsStamped, TimingIsExact
<1>2. TimerInv /\ [Timer!Next]_Timer!vars => TimerInv'
  BY TimerInvIsInductive
<1>3. TimerInv => AccurateClocksPass
  BY DEF TimerInv, Accurate, AccurateClocksPass, Timer!AccurateClocksPass
<1> QED  BY <1>1, <1>2, <1>3, PTL DEF Timer!Spec
(***************************************************************************)
(* The timer test finds clocks that disagree.                              *)
(***************************************************************************)
\* What a clock of a rate has counted at a time.
Ticks(t, rate) == (t * rate) \div TimingPeriod

LEMMA TicksOfATime ==
  ASSUME NEW t \in Nat, NEW r \in Nat
  PROVE  /\ Ticks(t, r) \in Nat
         /\ Ticks(t, r) * TimingPeriod <= t * r
         /\ t * r < Ticks(t, r) * TimingPeriod + TimingPeriod
<1>1. t * r \in Nat
  OBVIOUS
<1> DEFINE n == t * r
<1> HIDE DEF n
<1>2. n \in Nat
  BY <1>1 DEF n
<1>3. /\ n \div TimingPeriod \in Nat /\ n % TimingPeriod \in 0..(TimingPeriod - 1)
      /\ n = (n \div TimingPeriod) * TimingPeriod + (n % TimingPeriod)
  BY <1>2, TimerConstants, QuotientAndRemainder
<1>4. (n \div TimingPeriod) * TimingPeriod \in Nat
  BY <1>3, TimerConstants
<1>5. /\ (n \div TimingPeriod) * TimingPeriod <= n
      /\ n < (n \div TimingPeriod) * TimingPeriod + TimingPeriod
  BY <1>2, <1>3, <1>4, TimerConstants
<1> QED  BY <1>3, <1>5 DEF Ticks, n

\* What a clock counts between two times, to within a tick.
LEMMA TicksBetween ==
  ASSUME NEW s \in Nat, NEW t \in Nat, s <= t, NEW r \in Nat
  PROVE  LET e == Ticks(t, r) - Ticks(s, r)
         IN /\ e \in Nat
            /\ e * TimingPeriod < (t - s) * r + TimingPeriod
            /\ (t - s) * r < e * TimingPeriod + TimingPeriod
<1> DEFINE x == Ticks(t, r)
           y == Ticks(s, r)
<1>1. /\ x \in Nat /\ x * TimingPeriod <= t * r
      /\ t * r < x * TimingPeriod + TimingPeriod
  BY TicksOfATime
<1>2. /\ y \in Nat /\ y * TimingPeriod <= s * r
      /\ s * r < y * TimingPeriod + TimingPeriod
  BY TicksOfATime
<1>3. (t - s) * r \in Nat /\ t * r = s * r + (t - s) * r
  <2>1. PICK d \in Nat : d = t - s
    OBVIOUS
  <2>2. d * r \in Nat /\ t = s + d /\ (s + d) * r = s * r + d * r
    BY <2>1
  <2> QED  BY <2>1, <2>2
<1> HIDE DEF x, y
<1>4. (x - y) * TimingPeriod = x * TimingPeriod - y * TimingPeriod
  BY <1>1, <1>2, TimerConstants
<1>5. ~(x < y)
  <2>1. ASSUME x < y PROVE FALSE
    <3>1. PICK m \in Nat : y = x + 1 + m
      <4>1. y - x - 1 \in Nat /\ y = x + 1 + (y - x - 1)
        BY <1>1, <1>2, <2>1
      <4> QED  BY <4>1
    <3>2. m * TimingPeriod \in Nat
          /\ y * TimingPeriod = x * TimingPeriod + TimingPeriod + m * TimingPeriod
      BY <1>1, <3>1, TimerConstants
    <3>3. x * TimingPeriod \in Nat /\ s * r \in Nat
      BY <1>1, TimerConstants
    <3> QED  BY <1>1, <1>2, <1>3, <3>2, <3>3, TimerConstants
  <2> QED  BY <2>1
<1>6. x * TimingPeriod \in Nat /\ y * TimingPeriod \in Nat /\ s * r \in Nat
  BY <1>1, <1>2, TimerConstants
<1>7. /\ (x - y) * TimingPeriod < (t - s) * r + TimingPeriod
      /\ (t - s) * r < (x - y) * TimingPeriod + TimingPeriod
  BY <1>1, <1>2, <1>3, <1>4, <1>6, TimerConstants
<1>8. x - y \in Nat
  BY <1>1, <1>2, <1>5
<1> QED  BY <1>7, <1>8 DEF x, y

\* Once around, a clock shows the same.
LEMMA OnceAround ==
  ASSUME NEW W \in Nat \ {0}, NEW n \in Nat
  PROVE  (n + W) % W = n % W
<1> DEFINE q == n \div W
           r == n % W
           p == (n + W) \div W
           x == (n + W) % W
<1>1. q \in Nat /\ r \in 0..(W - 1) /\ n = q * W + r
  BY QuotientAndRemainder
<1>2. p \in Nat /\ x \in 0..(W - 1) /\ n + W = p * W + x
  <2>1. n + W \in Nat
    OBVIOUS
  <2> QED  BY <2>1, QuotientAndRemainder
<1> HIDE DEF q, r, p, x
<1>3. PICK d \in Int : p = q + 1 + d
  <2>1. p - q - 1 \in Int /\ p = q + 1 + (p - q - 1)
    BY <1>1, <1>2
  <2> QED  BY <2>1
<1>4. d * W = r - x
  <2>1. p * W = q * W + W + d * W /\ d * W \in Int /\ q * W \in Int
    BY <1>1, <1>3
  <2> QED  BY <1>1, <1>2, <2>1
<1>5. d = 0
  <2>1. CASE d > 0
    <3>1. d * W >= W
      BY <2>1
    <3> QED  BY <1>1, <1>2, <1>4, <3>1
  <2>2. CASE d < 0
    <3>1. d * W <= -W
      BY <2>2
    <3> QED  BY <1>1, <1>2, <1>4, <3>1
  <2> QED  BY <2>1, <2>2
<1>6. x = r
  BY <1>1, <1>2, <1>4, <1>5
<1> QED  BY <1>6 DEF x, r

\* A clock that has counted on by less than twice around shows it, or once around less.
LEMMA ElapsedOfTicks ==
  ASSUME NEW y \in Nat, NEW x \in Nat, y <= x, x - y < 2 * ClockWrap
  PROVE  Timer!Elapsed(x % ClockWrap, y % ClockWrap)
           = IF x - y < ClockWrap THEN x - y ELSE x - y - ClockWrap
<1>1. CASE x - y < ClockWrap
  BY <1>1, TimerConstants, WrappedDifference DEF Timer!Elapsed
<1>2. CASE ~(x - y < ClockWrap)
  <2> DEFINE z == y + ClockWrap
  <2>1. z \in Nat /\ z <= x /\ x - z < ClockWrap /\ x - z = x - y - ClockWrap
    BY <1>2, TimerConstants
  <2>2. z % ClockWrap = y % ClockWrap
    BY TimerConstants, OnceAround
  <2> HIDE DEF z
  <2>3. ((x % ClockWrap) - (z % ClockWrap)) % ClockWrap = x - z
    BY <2>1, TimerConstants, WrappedDifference
  <2> QED  BY <1>2, <2>1, <2>2, <2>3 DEF Timer!Elapsed
<1> QED  BY <1>1, <1>2

\* The purpose of the test: two clocks that disagree do not both count a timing period,
\* to within the margin, in times that differ by no more than the passes.
LEMMA DisagreementShows ==
  ASSUME NEW T \in Nat \ {0}, NEW M \in Nat, NEW P \in Nat,
         NEW fast \in Nat, NEW slow \in Nat, fast <= 2 * T,
         NEW df \in Nat, NEW ds \in Nat, ds <= df + 2 * P,
         NEW ef \in Nat, NEW es \in Nat,
         df * fast < ef * T + T, ef <= T + M,
         es * T < ds * slow + T, T - M <= es,
         fast * (T - (M + 2 * P + 1)) > slow * (T + (M + 2 * P + 1))
  PROVE  FALSE
<1> DEFINE u == M + 2 * P + 1
           v == T - u
           w == T + u
<1>1. w \in Nat /\ fast * v > slow * w /\ v \in Int
  OBVIOUS
<1>2. v \in Nat /\ v > 0
  <2>1. slow * w \in Nat
    BY <1>1
  <2> HIDE DEF v, w
  <2>2. ASSUME v <= 0 PROVE FALSE
    <3>1. PICK n \in Nat : v = -n
      BY <1>1, <2>2
    <3>2. fast * v = -(fast * n) /\ fast * n \in Nat
      BY <3>1
    <3> QED  BY <1>1, <2>1, <3>2
  <2> QED  BY <1>1, <2>2
<1>3. df * fast < (T + M + 1) * T
  <2>1. PICK n \in Nat : T + M = ef + n
    <3>1. T + M - ef \in Nat /\ T + M = ef + (T + M - ef)
      OBVIOUS
    <3> QED  BY <3>1
  <2>2. (T + M + 1) * T = ef * T + n * T + T /\ n * T \in Nat
    BY <2>1
  <2> QED  BY <2>2
<1>4. (T - M - 1) * T < (df + 2 * P) * slow
  <2>1. PICK n \in Nat : es = T - M + n
    <3>1. es - (T - M) \in Nat /\ es = T - M + (es - (T - M))
      OBVIOUS
    <3> QED  BY <3>1
  <2>2. es * T = (T - M - 1) * T + T + n * T /\ n * T \in Nat
    BY <2>1
  <2>3. PICK m \in Nat : df + 2 * P = ds + m
    <3>1. df + 2 * P - ds \in Nat /\ df + 2 * P = ds + (df + 2 * P - ds)
      OBVIOUS
    <3> QED  BY <3>1
  <2>4. (df + 2 * P) * slow = ds * slow + m * slow /\ m * slow \in Nat
    BY <2>3
  <2> QED  BY <2>2, <2>4
<1>5. slow * w <= 2 * T * v
  <2> HIDE DEF v, w
  <2>1. PICK n \in Nat : 2 * T = fast + n
    <3>1. 2 * T - fast \in Nat /\ 2 * T = fast + (2 * T - fast)
      OBVIOUS
    <3> QED  BY <3>1
  <2>2. 2 * T * v = fast * v + n * v /\ n * v \in Nat
    BY <1>2, <2>1
  <2> QED  BY <1>1, <1>2, <2>2
<1>6. T = v + u /\ w = v + 2 * u /\ u \in Nat /\ M + 1 \in Nat
  OBVIOUS
<1> HIDE DEF u, v, w
\* What the fast clock says of df * slow,
<1>7. df * (slow * w) < ((T + M + 1) * T) * v
  <2>1. (df * fast) * v < ((T + M + 1) * T) * v
    <3>1. \A a, b \in Nat : a < b => a * v < b * v
      BY <1>2
    <3>2. df * fast \in Nat /\ (T + M + 1) * T \in Nat
      OBVIOUS
    <3> QED  BY <1>3, <3>1, <3>2
  <2>2. df * (slow * w) <= df * (fast * v)
    <3>1. \A a, b \in Nat : a < b => df * a <= df * b
      OBVIOUS
    <3>2. slow * w \in Nat /\ fast * v \in Nat
      BY <1>1, <1>2
    <3> QED  BY <1>1, <3>1, <3>2
  <2>3. df * (fast * v) = (df * fast) * v
    BY <1>2
  <2>4. df * (slow * w) \in Nat /\ (df * fast) * v \in Nat /\ ((T + M + 1) * T) * v \in Nat
    BY <1>1, <1>2
  <2> QED  BY <2>1, <2>2, <2>3, <2>4
\* and what the slow one says of it.
<1>8. ((T - M - 1) * T) * w < df * (slow * w) + 2 * P * (2 * T * v)
  <2>1. w > 0
    BY <1>2, <1>6
  <2>2. ((T - M - 1) * T) * w < ((df + 2 * P) * slow) * w
    <3>1. \A a, b \in Int : a < b => a * w < b * w
      BY <1>1, <2>1
    <3>2. (df + 2 * P) * slow \in Int /\ (T - M - 1) * T \in Int
      OBVIOUS
    <3> QED  BY <1>4, <3>1, <3>2
  <2>3. ((df + 2 * P) * slow) * w = df * (slow * w) + 2 * P * (slow * w)
    BY <1>1
  <2>4. 2 * P * (slow * w) <= 2 * P * (2 * T * v)
    <3>1. \A a, b \in Nat : a <= b => 2 * P * a <= 2 * P * b
      OBVIOUS
    <3>2. slow * w \in Nat /\ 2 * T * v \in Nat
      BY <1>1, <1>2
    <3> QED  BY <1>5, <3>1, <3>2
  <2>5. /\ ((T - M - 1) * T) * w \in Int /\ df * (slow * w) \in Int
        /\ 2 * P * (slow * w) \in Int /\ 2 * P * (2 * T * v) \in Int
    BY <1>1, <1>2
  <2> QED  BY <2>2, <2>3, <2>4, <2>5
<1>9. ((T - M - 1) * T) * w < ((T + M + 1) * T) * v + 2 * P * (2 * T * v)
  <2>1. /\ ((T - M - 1) * T) * w \in Int /\ df * (slow * w) \in Int
        /\ ((T + M + 1) * T) * v \in Int /\ 2 * P * (2 * T * v) \in Int
    BY <1>1, <1>2
  <2> QED  BY <1>7, <1>8, <2>1
<1>10. u = M + 1 + 2 * P
  BY DEF u
<1> DEFINE m == M + 1
<1>11. T - M - 1 = T - m /\ T + M + 1 = T + m /\ m \in Nat /\ u = m + 2 * P
  BY <1>10
<1> HIDE DEF m
\* Without the common factor T, as polynomials in v, u and P.
<1>12. /\ ((T - M - 1) * T) * w = T * ((T - m) * w)
       /\ ((T + M + 1) * T) * v + 2 * P * (2 * T * v) = T * ((T + m) * v + 4 * P * v)
  BY <1>1, <1>2, <1>11
<1>13. (T - m) * w < (T + m) * v + 4 * P * v
  <2>1. \A a, b \in Int : T * a < T * b => a < b
    OBVIOUS
  <2>2. (T - m) * w \in Int /\ (T + m) * v + 4 * P * v \in Int
    BY <1>1, <1>2, <1>11
  <2> QED  BY <1>9, <1>12, <2>1, <2>2
<1>14. (T - m) * w = (T + m) * v + 4 * P * T
  <2>1. T - m = v + 2 * P /\ w = v + 2 * m + 4 * P /\ T = v + m + 2 * P
    BY <1>2, <1>6, <1>11
  <2> QED  BY <1>2, <1>11, <2>1
<1>15. 4 * P * v <= 4 * P * T
  <2>1. 4 * P * T = 4 * P * v + 4 * P * u /\ 4 * P * u \in Nat
    BY <1>2, <1>6
  <2>2. 4 * P * v \in Nat
    BY <1>2
  <2> QED  BY <2>1, <2>2
<1> QED
  <2>1. (T + m) * v \in Int /\ 4 * P * T \in Int /\ 4 * P * v \in Int
    BY <1>2, <1>11
  <2> QED  BY <1>13, <1>14, <1>15, <2>1

\* Rates of clocks that keep up.
LEMMA PlausibleRates ==
  ASSUME NEW host \in Rates, NEW apex \in Rates
  PROVE  LET distance == TimingPeriod * TimingPeriod + (MaxGap + 2 * MaxPass) * host
         IN /\ host \in Nat /\ apex \in Nat /\ host > 0 /\ host <= 2 * TimingPeriod
            /\ distance \in Nat /\ distance + TimingPeriod <= ClockWrap * TimingPeriod
            /\ distance * apex + TimingPeriod * host
                 <= (ClockWrap + TimingPeriod - Margin) * TimingPeriod * host
<1> DEFINE distance == TimingPeriod * TimingPeriod + (MaxGap + 2 * MaxPass) * host
<1>1. host \in Nat /\ apex \in Nat /\ TimingPeriod \in Rates
  BY TestsAssumption DEF TestsAssumption, Timer!TimerAssumption
<1>2. /\ host <= 2 * TimingPeriod
      /\ distance + TimingPeriod <= ClockWrap * TimingPeriod
      /\ \A other \in Rates : distance * other + TimingPeriod * host
              <= (ClockWrap + TimingPeriod - Margin) * TimingPeriod * host
  BY ClocksAssumption DEF ClocksAssumption, Timer!ClocksArePlausible
<1>3. distance \in Nat
  BY <1>1, TimerConstants
<1>4. host > 0
  <2>1. ASSUME host = 0 PROVE FALSE
    <3>1. distance = TimingPeriod * TimingPeriod
      BY <2>1, TimerConstants
    <3>2. distance * TimingPeriod + TimingPeriod * host
            <= (ClockWrap + TimingPeriod - Margin) * TimingPeriod * host
      BY <1>1, <1>2
    <3>3. /\ TimingPeriod * host = 0
          /\ (ClockWrap + TimingPeriod - Margin) * TimingPeriod * host = 0
      BY <2>1, TimerConstants
    <3>4. distance * TimingPeriod > 0
      BY <3>1, TimerConstants
    <3> HIDE DEF distance
    <3> QED  BY <1>3, <3>2, <3>3, <3>4, TimerConstants
  <2> QED  BY <1>1, <2>1
<1> QED  BY <1>1, <1>2, <1>3, <1>4

\* What was read of the clocks in this pass.
ReadsOfThePass ==
  /\ control \in {"pass", "halfway"} => timestampCurrent = Ticks(Since, rateHost) % ClockWrap
  /\ control = "halfway" =>
       \E f \in Since..now :
         firstRead = Ticks(f, IF beingInstantiated THEN rateHost ELSE rateApex) % ClockWrap

\* A pass at s has read them at h and a, and by the clock of the host less than a timing
\* period went by since, but for a pass and the gap before this one.
ReadSince(s, h, a) ==
  /\ s \in Nat /\ h \in s..(s + MaxPass) /\ a \in s..(s + MaxPass)
  /\ iterationComplete = Ticks(s, rateHost) % ClockWrap /\ period = TimingPeriod
  /\ startHost = Ticks(h, rateHost) % ClockWrap /\ startApex = Ticks(a, rateApex) % ClockWrap
  /\ h <= Since /\ a <= Since
  /\ control = "background" =>
       (Since - s) * rateHost < TimingPeriod * TimingPeriod + MaxPass * rateHost
  /\ control \in {"pass", "halfway"} =>
       (Since - s) * rateHost < TimingPeriod * TimingPeriod + (MaxGap + MaxPass) * rateHost

\* The second iteration of a loop comes soon enough after the first.
SecondReadIsSoon ==
  timerTestState = "TEST_IN_PROGRESS" => \E s, h, a \in Nat : ReadSince(s, h, a)

\* The invariant of clocks of any rate.
ClockInv ==
  /\ rateHost \in Rates /\ rateApex \in Rates
  /\ ReadsOfThePass /\ SecondReadIsSoon /\ DisagreementIsFound

\* Clocks read what they have counted.
LEMMA ClocksShowTicks ==
  /\ Timer!HostGetTime = Ticks(now, rateHost) % ClockWrap
  /\ Timer!ApexGetTime = Ticks(now, rateApex) % ClockWrap
BY DEF Timer!HostGetTime, Timer!ApexGetTime, Timer!Reading, Ticks

\* Later, a clock that has counted less than a bound has counted less before.
LEMMA LaterIsMore ==
  ASSUME NEW c \in Nat, NEW d \in Nat, c <= d, NEW r \in Nat
  PROVE  c * r \in Nat /\ c * r <= d * r
<1>1. PICK n \in Nat : d = c + n
  <2>1. d - c \in Nat /\ d = c + (d - c)
    OBVIOUS
  <2> QED  BY <2>1
<1>2. n * r \in Nat /\ c * r \in Nat /\ d * r = c * r + n * r
  BY <1>1
<1> QED  BY <1>2

\* A number of ticks is bounded by what bounds the time they took.
LEMMA FewerTicks ==
  ASSUME NEW e \in Int, NEW n \in Int, e * TimingPeriod < n * TimingPeriod
  PROVE  e < n
<1>1. ASSUME e >= n PROVE FALSE
  <2>1. PICK d \in Nat : e = n + d
    <3>1. e - n \in Nat /\ e = n + (e - n)
      BY <1>1
    <3> QED  BY <3>1
  <2>2. d * TimingPeriod \in Nat /\ e * TimingPeriod = n * TimingPeriod + d * TimingPeriod
        /\ n * TimingPeriod \in Int
    BY <2>1, TimerConstants
  <2> QED  BY <2>2
<1> QED  BY <1>1

\* Two clocks that are both found accurate do not disagree.
LEMMA FoundAccurateAgree ==
  ASSUME TimerTypeOK, ClockInv, control = "halfway", ~beingInstantiated,
         Timer!IsAccurate(Timer!Elapsed(Timer!HostGetTime, startHost)),
         Timer!IsAccurate(Timer!Elapsed(firstRead, startApex))
  PROVE  ~Timer!Disagree
<1> USE TimerConstants
<1> DEFINE T == TimingPeriod
           W == ClockWrap
           H == rateHost
           A == rateApex
           distance == T * T + (MaxGap + 2 * MaxPass) * H
<1>1. PICK s \in Nat, h \in Nat, a \in Nat : ReadSince(s, h, a)
  BY DEF ClockInv, SecondReadIsSoon, TimerTypeOK
<1>2. PICK f \in Since..now : firstRead = Ticks(f, A) % W
  BY DEF ClockInv, ReadsOfThePass
<1>3. /\ H \in Nat /\ A \in Nat /\ H > 0 /\ H <= 2 * T /\ A <= 2 * T
      /\ distance \in Nat /\ distance + T <= W * T
      /\ distance * A + T * H <= (W + T - Margin) * T * H
  BY PlausibleRates DEF ClockInv
<1> HIDE DEF distance
<1>4. /\ now \in Nat /\ Since \in Nat /\ Since <= now /\ now <= Since + MaxPass
      /\ f \in Nat /\ Since <= f /\ f <= now
      /\ h \in s..(s + MaxPass) /\ a \in s..(s + MaxPass) /\ h <= Since /\ a <= Since
      /\ startHost = Ticks(h, H) % W /\ startApex = Ticks(a, A) % W
  BY <1>1 DEF TimerTypeOK, Since, ReadSince
\* The time between the two passes, by the clock of the host,
<1>5. (now - s) * H \in Nat /\ (now - s) * H < distance
  <2>1. (Since - s) * H < T * T + (MaxGap + MaxPass) * H
    BY <1>1 DEF ReadSince
  <2>2. PICK d \in Nat : Since = s + d
    <3>1. Since - s \in Nat /\ Since = s + (Since - s)
      BY <1>4
    <3> QED  BY <3>1
  <2>3. now - s \in Nat /\ now - s <= d + MaxPass
    BY <1>4, <2>2
  <2>4. (now - s) * H \in Nat /\ (now - s) * H <= (d + MaxPass) * H
    BY <1>3, <2>3, LaterIsMore
  <2>5. (d + MaxPass) * H = d * H + MaxPass * H /\ Since - s = d
    BY <1>3, <2>2
  <2>6. distance = T * T + (MaxGap + MaxPass) * H + MaxPass * H
    BY <1>3 DEF distance
  <2>7. /\ d * H \in Nat /\ MaxPass * H \in Nat /\ T * T + (MaxGap + MaxPass) * H \in Nat
    BY <1>3
  <2> QED  BY <2>1, <2>4, <2>5, <2>6, <2>7
\* and what the two clocks count in it.
<1> DEFINE host == Ticks(now, H) - Ticks(h, H)
           apex == Ticks(f, A) - Ticks(a, A)
<1>6. /\ host \in Nat /\ host * T < (now - h) * H + T /\ (now - h) * H < host * T + T
      /\ Ticks(now, H) \in Nat /\ Ticks(h, H) \in Nat
  <2>1. h <= now
    BY <1>4
  <2>2. H \in Nat /\ now \in Nat
    BY <1>3, <1>4
  <2> QED  BY <2>1, <2>2, TicksBetween, TicksOfATime
<1>7. /\ apex \in Nat /\ apex * T < (f - a) * A + T /\ (f - a) * A < apex * T + T
      /\ Ticks(f, A) \in Nat /\ Ticks(a, A) \in Nat
  <2>1. a <= f
    BY <1>4
  <2>2. A \in Nat /\ f \in Nat
    BY <1>3, <1>4
  <2> QED  BY <2>1, <2>2, TicksBetween, TicksOfATime
<1>8. T - Margin <= host /\ host <= T + Margin
  <2>1. now - h \in Nat /\ now - h <= now - s /\ now - s \in Nat
    BY <1>4
  <2>2. (now - h) * H \in Nat /\ (now - h) * H <= (now - s) * H
    BY <1>3, <2>1, LaterIsMore
  <2>3. host * T < W * T
    <3> HIDE DEF host
    <3>1. host * T \in Nat /\ W * T \in Nat
      BY <1>6
    <3> QED  BY <1>3, <1>5, <1>6, <2>2, <3>1
  <2>4. host < W
    <3> HIDE DEF host
    <3> QED  BY <1>6, <2>3, FewerTicks
  <2>5. Timer!Elapsed(Timer!HostGetTime, startHost) = host
    <3>1. /\ Ticks(h, H) <= Ticks(now, H) /\ Ticks(now, H) - Ticks(h, H) < 2 * ClockWrap
          /\ Ticks(now, H) - Ticks(h, H) < ClockWrap
      BY <1>6, <2>4
    <3> QED  BY <1>4, <1>6, <3>1, ElapsedOfTicks, ClocksShowTicks
  <2> QED  BY <2>5 DEF Timer!IsAccurate
<1>9. T - Margin <= apex /\ apex <= T + Margin
  <2>1. f - a \in Nat /\ f - a <= now - s /\ now - s \in Nat
    BY <1>4
  <2>2. (f - a) * H \in Nat /\ (f - a) * H <= distance
    BY <1>3, <1>5, <2>1, LaterIsMore
  <2>3. ((f - a) * H) * A <= distance * A
    BY <1>3, <2>2, LaterIsMore
  <2>4. (apex * T) * H < ((f - a) * A + T) * H
    <3>1. \A m, n \in Nat : m < n => m * H < n * H
      BY <1>3
    <3> HIDE DEF apex
    <3>2. apex * T \in Nat /\ (f - a) * A + T \in Nat
      BY <1>3, <1>7, <2>1
    <3> QED  BY <1>7, <3>1, <3>2
  <2>5. ((f - a) * A + T) * H = ((f - a) * H) * A + T * H
    BY <1>3, <2>1
  <2>6. (apex * T) * H < ((W + T - Margin) * T) * H
    <3> HIDE DEF apex
    <3>1. /\ (apex * T) * H \in Nat /\ T * H \in Nat /\ distance * A \in Nat
          /\ ((f - a) * H) * A \in Nat /\ ((W + T - Margin) * T) * H \in Nat
      BY <1>3, <1>7, <2>2
    <3> QED  BY <1>3, <2>3, <2>4, <2>5, <3>1
  <2>7. apex < W + T - Margin
    <3> HIDE DEF apex
    <3>1. apex * T \in Nat /\ (W + T - Margin) * T \in Nat /\ W + T - Margin \in Nat
      BY <1>7
    <3>2. \A m, n \in Nat : m * H < n * H => m < n
      BY <1>3
    <3>3. apex * T < (W + T - Margin) * T
      BY <2>6, <3>1, <3>2
    <3> QED  BY <1>7, <3>1, <3>3, FewerTicks
  <2>8. apex < 2 * W
    BY <1>7, <2>7
  <2>9. Timer!Elapsed(firstRead, startApex) = IF apex < W THEN apex ELSE apex - W
    BY <1>2, <1>4, <1>7, <2>8, ElapsedOfTicks
  <2>10. /\ T - Margin <= Timer!Elapsed(firstRead, startApex)
         /\ Timer!Elapsed(firstRead, startApex) <= T + Margin
    BY DEF Timer!IsAccurate
  <2> HIDE DEF apex
  <2> QED  BY <1>7, <2>7, <2>9, <2>10
<1> HIDE DEF host, apex
<1>10. SUFFICES ASSUME NEW fast \in Rates, NEW slow \in Rates, {fast, slow} = {H, A},
                       fast * (T - (Margin + 2 * MaxPass + 1))
                         > slow * (T + (Margin + 2 * MaxPass + 1))
                PROVE  FALSE
  BY DEF Timer!Disagree
<1>11. /\ now - h \in Nat /\ f - a \in Nat
       /\ now - h <= (f - a) + 2 * MaxPass /\ f - a <= (now - h) + 2 * MaxPass
  BY <1>4
<1>12. CASE fast = H /\ slow = A
  BY <1>3, <1>6, <1>7, <1>8, <1>9, <1>10, <1>11, <1>12, DisagreementShows
<1>13. CASE fast = A /\ slow = H
  BY <1>3, <1>6, <1>7, <1>8, <1>9, <1>10, <1>11, <1>13, DisagreementShows
<1> QED  BY <1>10, <1>12, <1>13

\* Every step of the test and of time keeps the invariant.
LEMMA ClockInvIsInductive ==
  ASSUME TimerInv, ClockInv, [Timer!Next]_Timer!vars
  PROVE  ClockInv'
<1> USE TimerConstants
<1> DEFINE T == TimingPeriod
           H == rateHost
           A == rateApex
<1>1. TimerTypeOK /\ H \in Rates /\ A \in Rates /\ H \in Nat /\ A \in Nat
  BY PlausibleRates DEF TimerInv, ClockInv
<1>2. /\ now \in Nat /\ Since \in Nat /\ Since <= now
      /\ now <= Since + IF control = "background" THEN MaxGap ELSE MaxPass
  BY <1>1 DEF TimerTypeOK, Since
<1>3. CASE Timer!Tick
  <2>1. /\ now' = now + 1 /\ wait' = wait + 1
        /\ UNCHANGED <<rateHost, rateApex, control, timestampCurrent, iterationComplete, period,
                       beingInstantiated, timerTestState, startHost, startApex, firstRead>>
    BY <1>3 DEF Timer!Tick, Timer!clocks
  <2>2. Since' = Since /\ Since..now \subseteq (Since..now)'
    BY <1>1, <2>1 DEF TimerTypeOK, Since
  <2>3. ReadsOfThePass'
    <3>1. Ticks(Since, H)' = Ticks(Since, H)
      BY <2>1, <2>2 DEF Ticks
    <3>2. \A t : Ticks(t, IF beingInstantiated THEN H ELSE A)'
                   = Ticks(t, IF beingInstantiated THEN H ELSE A)
      BY <2>1 DEF Ticks
    <3> QED  BY <2>1, <2>2, <3>1, <3>2 DEF ClockInv, ReadsOfThePass, Ticks
  <2>4. SecondReadIsSoon'
    BY <2>1, <2>2 DEF ClockInv, SecondReadIsSoon, ReadSince, Ticks
  <2> QED
    BY <2>1, <2>3, <2>4 DEF ClockInv, DisagreementIsFound, Timer!DisagreementIsFound, Timer!Disagree
<1>4. CASE Timer!BeginPass
  <2>1. /\ control = "background" /\ timestampCurrent' = Timer!HostGetTime /\ wait' = 0
        /\ control' = IF Timer!IsDue(Timer!HostGetTime) THEN "pass" ELSE "background"
        /\ UNCHANGED <<now, rateHost, rateApex, iterationComplete, period,
                       beingInstantiated, timerTestState, startHost, startApex, firstRead>>
    BY <1>4 DEF Timer!BeginPass, Timer!clocks
  <2>2. Since' = now
    BY <1>2, <2>1 DEF Since
  <2>3. ReadsOfThePass'
    BY <2>1, <2>2, ClocksShowTicks DEF ReadsOfThePass, Ticks
  <2>4. ASSUME NEW s \in Nat, NEW h \in Nat, NEW a \in Nat, ReadSince(s, h, a)
        PROVE  ReadSince(s, h, a)'
    <3>1. PICK d \in Nat : now = s + d
      <4>1. now - s \in Nat /\ now = s + (now - s)
        BY <1>2, <2>4 DEF ReadSince
      <4> QED  BY <4>1
    <3>2. d * H < T * T + (MaxGap + MaxPass) * H
      <4>1. PICK c \in Nat : Since = s + c
        <5>1. Since - s \in Nat /\ Since = s + (Since - s)
          BY <1>2, <2>4 DEF ReadSince
        <5> QED  BY <5>1
      <4>2. c * H < T * T + MaxPass * H
        <5>1. Since - s = c
          BY <4>1
        <5> QED  BY <2>1, <2>4, <5>1 DEF ReadSince
      <4>3. d <= c + MaxGap
        BY <1>2, <2>1, <3>1, <4>1
      <4>4. d * H <= (c + MaxGap) * H
        BY <1>1, <4>3, LaterIsMore
      <4>5. (c + MaxGap) * H = c * H + MaxGap * H
            /\ (MaxGap + MaxPass) * H = MaxGap * H + MaxPass * H
        BY <1>1
      <4>6. /\ c * H \in Nat /\ MaxGap * H \in Nat /\ MaxPass * H \in Nat
            /\ d * H \in Nat /\ T * T \in Nat
        BY <1>1
      <4> QED  BY <4>2, <4>4, <4>5, <4>6
    \* The clock of the host is not once around, so that it shows whether the test is due.
    <3> DEFINE e == Ticks(now, H) - Ticks(s, H)
    <3>3. now - s = d /\ s <= now
      BY <3>1
    <3>4. /\ e \in Nat /\ e * T < d * H + T /\ d * H < e * T + T
          /\ Ticks(now, H) \in Nat /\ Ticks(s, H) \in Nat
      BY <1>1, <1>2, <3>3, TicksBetween, TicksOfATime
    <3>5. e < ClockWrap
      <4> DEFINE distance == T * T + (MaxGap + 2 * MaxPass) * H
      <4>1. distance + T <= ClockWrap * T
        BY <1>1, PlausibleRates
      <4>2. distance = T * T + (MaxGap + MaxPass) * H + MaxPass * H
        BY <1>1
      <4> HIDE DEF e, distance
      <4>3. MaxPass * H \in Nat /\ d * H \in Nat /\ T * T + (MaxGap + MaxPass) * H \in Nat
            /\ e * T \in Nat /\ ClockWrap * T \in Nat
        BY <1>1, <3>4
      <4>4. e * T < ClockWrap * T
        BY <3>2, <3>4, <4>1, <4>2, <4>3
      <4> QED  BY <3>4, <4>4, FewerTicks
    <3>6. Timer!IsDue(Timer!HostGetTime) <=> e >= T
      <4>1. Timer!Elapsed(Timer!HostGetTime, iterationComplete) = e
        <5>1. /\ Ticks(s, H) <= Ticks(now, H) /\ Ticks(now, H) - Ticks(s, H) < 2 * ClockWrap
              /\ Ticks(now, H) - Ticks(s, H) < ClockWrap
          BY <3>4, <3>5
        <5>2. iterationComplete = Ticks(s, H) % ClockWrap
          BY <2>4 DEF ReadSince
        <5> QED  BY <3>4, <5>1, <5>2, ElapsedOfTicks, ClocksShowTicks
      <4> QED  BY <2>4, <4>1 DEF Timer!IsDue, ReadSince
    <3> HIDE DEF e
    <3>7. control' = "background" => d * H < T * T + MaxPass * H
      <4>1. ASSUME e < T PROVE d * H < T * T + MaxPass * H
        <5>1. e + 1 <= T /\ e + 1 \in Nat
          BY <3>4, <4>1
        <5>2. (e + 1) * T <= T * T
          BY <5>1, LaterIsMore
        <5>3. (e + 1) * T = e * T + T /\ e * T \in Nat /\ MaxPass * H \in Nat
              /\ d * H \in Nat /\ T * T \in Nat
          BY <1>1, <3>4
        <5> QED  BY <3>4, <5>2, <5>3
      <4> QED  BY <2>1, <3>4, <3>6, <4>1
    <3>8. h <= now /\ a <= now
      BY <1>2, <2>4 DEF ReadSince
    <3> QED
      BY <2>1, <2>2, <2>4, <3>2, <3>3, <3>7, <3>8 DEF ReadSince, Ticks
  <2>5. SecondReadIsSoon'
    BY <2>1, <2>4 DEF ClockInv, SecondReadIsSoon
  <2> QED
    BY <2>1, <2>3, <2>5 DEF ClockInv, DisagreementIsFound, Timer!DisagreementIsFound, Timer!Disagree
<1>5. CASE Timer!ReadFirstClock
  <2>1. /\ control = "pass" /\ control' = "halfway" /\ beingInstantiated' = Timer!Instantiates
        /\ firstRead' = IF Timer!Instantiates THEN Timer!HostGetTime ELSE Timer!ApexGetTime
        /\ UNCHANGED <<now, rateHost, rateApex, wait, timestampCurrent, iterationComplete, period,
                       timerTestState, startHost, startApex>>
    BY <1>5 DEF Timer!ReadFirstClock, Timer!clocks
  <2>2. Since' = Since /\ now \in Since..now
    BY <1>2, <2>1 DEF Since
  <2>3. ReadsOfThePass'
    BY <2>1, <2>2, ClocksShowTicks DEF ClockInv, ReadsOfThePass, Ticks
  <2>4. SecondReadIsSoon'
    BY <2>1, <2>2 DEF ClockInv, SecondReadIsSoon, ReadSince, Ticks
  <2> QED
    BY <2>1, <2>3, <2>4 DEF ClockInv, DisagreementIsFound, Timer!DisagreementIsFound, Timer!Disagree
<1>6. CASE Timer!StartTiming
  <2>1. /\ control = "halfway" /\ beingInstantiated /\ control' = "background" /\ wait' = 0
        /\ startHost' = firstRead /\ startApex' = Timer!ApexGetTime /\ period' = TimingPeriod
        /\ timerTestState' = "TEST_IN_PROGRESS" /\ iterationComplete' = timestampCurrent
        /\ UNCHANGED <<now, rateHost, rateApex>>
    BY <1>6 DEF Timer!StartTiming, Timer!Return, Timer!PeriodBetweenReads, Timer!clocks
  <2>2. PICK f \in Since..now : firstRead = Ticks(f, H) % ClockWrap
    BY <2>1 DEF ClockInv, ReadsOfThePass
  <2>3. Since' = now /\ now <= Since + MaxPass
    BY <1>2, <2>1 DEF Since
  <2>4. (now - Since) * H < T * T + MaxPass * H
    <3>1. now - Since \in Nat /\ now - Since <= MaxPass
      BY <1>2, <2>3
    <3>2. (now - Since) * H \in Nat /\ (now - Since) * H <= MaxPass * H /\ MaxPass * H \in Nat
      BY <1>1, <3>1, LaterIsMore
    <3>3. T * T \in Nat /\ T * T > 0
      OBVIOUS
    <3> QED  BY <3>2, <3>3
  <2>5. timestampCurrent = Ticks(Since, H) % ClockWrap
    BY <2>1 DEF ClockInv, ReadsOfThePass
  <2>6. PICK s \in Nat : s = Since
    BY <1>2
  <2>7. ReadSince(s, f, now)'
    <3>1. f \in s..(s + MaxPass) /\ now \in s..(s + MaxPass) /\ f <= now
      BY <1>2, <2>3, <2>6
    <3>2. Timer!ApexGetTime = Ticks(now, A) % ClockWrap
      BY ClocksShowTicks
    <3> QED  BY <1>2, <2>1, <2>2, <2>3, <2>4, <2>5, <2>6, <3>1, <3>2 DEF ReadSince, Ticks
  <2>8. SecondReadIsSoon'
    <3>1. f \in Nat /\ now' = now
      BY <1>2, <2>1
    <3>2. \E t, h, a \in Nat : ReadSince(t, h, a)'
      BY <1>2, <2>6, <2>7, <3>1
    <3> QED  BY <3>2 DEF SecondReadIsSoon
  <2>9. ReadsOfThePass'
    BY <2>1 DEF ReadsOfThePass
  <2> QED
    BY <2>1, <2>8, <2>9 DEF ClockInv, DisagreementIsFound, Timer!DisagreementIsFound
<1>7. CASE Timer!FindHostTimerErr \/ Timer!FindApexTimerErr
  <2>1. control' = "halted"
        /\ UNCHANGED <<now, rateHost, rateApex, wait, iterationComplete, period, timerTestState,
                       startHost, startApex>>
        /\ control = "halfway"
    BY <1>7 DEF Timer!FindHostTimerErr, Timer!FindApexTimerErr, Timer!OS_Assert, Timer!clocks
  <2>2. ReadsOfThePass' /\ Since' = Since
    BY <2>1 DEF ReadsOfThePass, Since
  <2>3. SecondReadIsSoon'
    BY <2>1, <2>2 DEF ClockInv, SecondReadIsSoon, ReadSince, Ticks
  <2> QED
    BY <2>1, <2>2, <2>3 DEF ClockInv, DisagreementIsFound, Timer!DisagreementIsFound, Timer!Disagree
<1>8. CASE Timer!CompleteTiming
  <2>1. /\ control = "halfway" /\ ~beingInstantiated /\ control' = "background"
        /\ timerTestState' = "TEST_LOOP_COMPLETE"
        /\ UNCHANGED <<now, rateHost, rateApex>>
    BY <1>8 DEF Timer!CompleteTiming, Timer!Return, Timer!clocks
  <2>2. ~Timer!Disagree
    BY <1>1, <1>8, FoundAccurateAgree DEF Timer!CompleteTiming
  <2>3. ~Timer!Disagree'
    BY <2>1, <2>2 DEF Timer!Disagree
  <2> QED
    BY <2>1, <2>3
    DEF ClockInv, ReadsOfThePass, SecondReadIsSoon, DisagreementIsFound, Timer!DisagreementIsFound
<1>9. CASE UNCHANGED Timer!vars
  <2>1. UNCHANGED <<now, rateHost, rateApex, control, wait, timestampCurrent, iterationComplete,
                    period, beingInstantiated, timerTestState, startHost, startApex, firstRead>>
    BY <1>9 DEF Timer!vars, Timer!clocks
  <2> QED
    BY <2>1
    DEF ClockInv, ReadsOfThePass, SecondReadIsSoon, ReadSince, Since, Ticks, DisagreementIsFound,
        Timer!DisagreementIsFound, Timer!Disagree
<1> QED
  BY <1>3, <1>4, <1>5, <1>6, <1>7, <1>8, <1>9 DEF Timer!Next, Timer!RunTest

\* For clocks of any plausible rates: clocks that disagree never get through a loop of the
\* timer test, wherever in the gaps and passes it reads them.
THEOREM DisagreeingClocksAreFound == Timer!Spec => []DisagreementIsFound
<1>1. Timer!Init => TimerInv /\ ClockInv
  BY TimerConstants
  DEF Timer!Init, TimerInv, TimerTypeOK, PassIsStamped, TimingIsExact, ClockInv, ReadsOfThePass,
      SecondReadIsSoon, DisagreementIsFound, Timer!DisagreementIsFound
<1>2. TimerInv /\ ClockInv /\ [Timer!Next]_Timer!vars => (TimerInv /\ ClockInv)'
  BY TimerInvIsInductive, ClockInvIsInductive
<1>3. ClockInv => DisagreementIsFound
  BY DEF ClockInv
<1> QED  BY <1>1, <1>2, <1>3, PTL DEF Timer!Spec

(***************************************************************************)
(* The test of the instruction RAM misses no fault.                        *)
(***************************************************************************)
\* No byte of a block before a header, and none of the first n of its own block, was
\* faulty when the loop began.
IntactUpTo(faults, h, n) ==
  /\ \A i \in Instr!Tested : i < h =>
       faults \cap Instr!Bytes(stream[i], 0, stream[i].count) = {}
  /\ faults \cap Instr!Bytes(stream[h], 0, n) = {}

\* A place where the test may read: at a whole number of buffers in a block to test,
\* before its end, with what comes before it found intact.
PlaceToRead(faults, h, n) ==
  /\ h \in DOMAIN stream /\ Instr!IsToBeTested(stream[h])
  /\ \E k \in Nat : n = k * DMA_BFR_SZ
  /\ n < stream[h].count
  /\ IntactUpTo(faults, h, n)

\* The invariant of the test.
InstrInv ==
  /\ stream \in Streams
  /\ instrTestState \in {"TEST_IDLE", "TEST_IN_PROGRESS", "TEST_LOOP_COMPLETE", "TEST_FAILURE"}
  /\ oldFaults \subseteq faulty
  /\ instrTestState = "TEST_IN_PROGRESS" => PlaceToRead(oldFaults, header, bfrOffset)
  /\ NoFaultOutlivesALoop

\* What a boot stream is made of, and the place of its last header.
LEMMA StreamFacts ==
  ASSUME stream \in Streams
  PROVE  /\ DOMAIN stream \subseteq Nat
         /\ \A o \in DOMAIN stream : stream[o] \in Instr!Block
         /\ \E last \in DOMAIN stream : \A o \in DOMAIN stream : o <= last
         /\ \A o, p \in DOMAIN stream : o < p =>
              ~stream[o].final
              /\ o + HeaderSize + (IF stream[o].fill THEN 0 ELSE stream[o].count) <= p
         /\ WordSize \in Nat \ {0} /\ HeaderSize \in Nat \ {0} /\ DMA_BFR_SZ \in Nat \ {0}
BY TestsAssumption DEF TestsAssumption, Instr!InstructionRamAssumption

\* Where there is no header there is no signature, and the walk goes on from every place.
LEMMA HeaderFacts ==
  ASSUME stream \in Streams, NEW o \in Nat
  PROVE  /\ o \in DOMAIN stream => Instr!HeaderAt(o) = stream[o]
         /\ Instr!HeaderAt(o).signed => o \in DOMAIN stream
         /\ Instr!Follow(o) \in Nat /\ Instr!Follow(o) > o
<1>1. HeaderSize \in Nat \ {0}
  BY StreamFacts
<1>2. CASE o \in DOMAIN stream
  <2>1. stream[o].count \in Nat
    BY <1>2, StreamFacts DEF Instr!Block
  <2> QED  BY <1>1, <1>2, <2>1 DEF Instr!HeaderAt, Instr!Follow
<1>3. CASE o \notin DOMAIN stream
  <2>1. Instr!HeaderAt(o) = Instr!NoBlock
    BY <1>3 DEF Instr!HeaderAt
  <2>2. ~Instr!NoBlock.signed /\ ~Instr!NoBlock.fill /\ Instr!NoBlock.count = 0
    BY DEF Instr!NoBlock
  <2> QED  BY <1>1, <1>3, <2>1, <2>2 DEF Instr!Follow
<1> QED  BY <1>2, <1>3

\* The walk visits the headers in order, and every one of them.
LEMMA HeadersFollow ==
  ASSUME stream \in Streams, NEW o \in DOMAIN stream, NEW p \in DOMAIN stream, o < p
  PROVE  ~stream[o].final /\ Instr!Follow(o) <= p
<1>1. o \in Nat /\ Instr!HeaderAt(o) = stream[o]
  BY StreamFacts, HeaderFacts
<1> QED  BY <1>1, StreamFacts DEF Instr!Follow

\* The walk as a function, and a place behind every header.
Followed == [o \in Nat |-> Instr!Follow(o)]

LEMMA FollowedFacts ==
  ASSUME stream \in Streams
  PROVE  /\ Followed \in [Nat -> Nat]
         /\ \A o \in Nat : Followed[o] = Instr!Follow(o) /\ Followed[o] > o
         /\ \E last \in Nat : \A o \in Nat : o > last => ~Instr!HeaderAt(o).signed
<1>1. \A o \in Nat : Instr!Follow(o) \in Nat /\ Instr!Follow(o) > o
  BY HeaderFacts
<1>2. \E last \in Nat : \A o \in Nat : o > last => ~Instr!HeaderAt(o).signed
  <2>1. PICK last \in DOMAIN stream : \A o \in DOMAIN stream : o <= last
    BY StreamFacts
  <2>2. last \in Nat
    BY StreamFacts
  <2>3. ASSUME NEW o \in Nat, o > last PROVE ~Instr!HeaderAt(o).signed
    <3>1. o \notin DOMAIN stream
      BY <2>1, <2>2, <2>3
    <3> QED  BY <3>1, HeaderFacts
  <2> QED  BY <2>2, <2>3
<1> QED  BY <1>1, <1>2 DEF Followed

\* No block from o on and before p is to be tested.
NoneIsSkipped(o, p) ==
  \A i \in DOMAIN stream : o <= i /\ i < p => ~Instr!IsToBeTested(stream[i])

\* If none is skipped from the next header on, none is skipped from a block on that is
\* not to be tested.
LEMMA NoneIsSkippedBefore ==
  ASSUME stream \in Streams, NEW o \in DOMAIN stream, ~Instr!IsToBeTested(stream[o]),
         NEW p, NoneIsSkipped(Instr!Follow(o), p)
  PROVE  NoneIsSkipped(o, p)
<1> SUFFICES ASSUME NEW i \in DOMAIN stream, o <= i, i < p
             PROVE  ~Instr!IsToBeTested(stream[i])
  BY DEF NoneIsSkipped
<1>1. CASE i = o
  BY <1>1
<1>2. CASE i # o
  <2>1. o \in Nat /\ i \in Nat
    BY StreamFacts
  <2>2. Instr!Follow(o) <= i
    BY <1>2, <2>1, HeadersFollow
  <2> QED  BY <2>2 DEF NoneIsSkipped
<1> QED  BY <1>1, <1>2

\* The loop that looks for the next block to test passes none.
LEMMA EnumerateFinds ==
  ASSUME stream \in Streams, NEW o \in Nat
  PROVE  LET e == Instr!EnumerateAt[o]
         IN /\ e \in Nat /\ NoneIsSkipped(o, e)
            /\ Instr!HeaderAt(e).signed /\ ~Instr!HeaderAt(e).final =>
                 Instr!IsToBeTested(Instr!HeaderAt(e))
<1> DEFINE Stops(p) == \/ ~Instr!HeaderAt(p).signed \/ Instr!HeaderAt(p).final
                       \/ Instr!IsToBeTested(Instr!HeaderAt(p))
           stops == {p \in Nat : Stops(p)}
           result == [p \in Nat |-> p]
           E == Instr!EnumerateAt
           Good(p) == /\ E[p] \in Nat /\ NoneIsSkipped(p, E[p])
                      /\ Stops(E[p])
           Q == {p \in Nat : Good(p)}
<1>1. PICK last \in Nat : \A p \in Nat : p > last => ~Instr!HeaderAt(p).signed
  BY FollowedFacts
<1>2. /\ Followed \in [Nat -> Nat] /\ \A p \in Nat : Followed[p] > p
      /\ \A p \in Nat : p > last => p \in stops
  BY <1>1, FollowedFacts
<1>3. E = [p \in Nat |-> IF Stops(p) THEN p ELSE E[Instr!Follow(p)]]
  <2> DEFINE Is(f) == f = [p \in Nat |-> IF Stops(p) THEN p ELSE f[Instr!Follow(p)]]
  <2>1. \E f : IsWalk(f, stops, result, Followed)
    <3> HIDE DEF stops, result
    <3> QED  BY <1>2, WalksAreFunctions
  <2>2. PICK f : IsWalk(f, stops, result, Followed)
    BY <2>1
  <2>3. \A p \in Nat : (p \in stops <=> Stops(p)) /\ result[p] = p
                        /\ Followed[p] = Instr!Follow(p)
    BY FollowedFacts
  <2>4. Is(f)
    <3> HIDE DEF stops, result, Stops
    <3> QED  BY <2>2, <2>3 DEF IsWalk
  <2>5. E = CHOOSE g : Is(g)
    BY DEF Instr!EnumerateAt
  <2> HIDE DEF Is, E
  <2>6. Is(E)
    BY <2>4, <2>5
  <2> QED  BY <2>6 DEF Is
<1> HIDE DEF E
<1>4. ASSUME NEW p \in Nat, p \in stops PROVE p \in Q
  <2>1. Stops(p) /\ E[p] = p
    BY <1>3, <1>4
  <2>2. NoneIsSkipped(p, p)
    BY StreamFacts DEF NoneIsSkipped
  <2> HIDE DEF Stops
  <2> QED  BY <2>1, <2>2
<1>5. ASSUME NEW p \in Nat, p \notin stops, Followed[p] \in Q PROVE p \in Q
  <2>1. ~Stops(p) /\ Followed[p] = Instr!Follow(p) /\ Instr!Follow(p) \in Nat
    BY <1>5, FollowedFacts, HeaderFacts
  <2>2. E[p] = E[Instr!Follow(p)]
    BY <1>3, <2>1
  <2>3. p \in DOMAIN stream /\ Instr!HeaderAt(p) = stream[p]
    BY <2>1, HeaderFacts
  <2>4. ~Instr!IsToBeTested(stream[p])
    BY <2>1, <2>3
  <2> HIDE DEF Stops
  <2>5. Good(Instr!Follow(p))
    BY <1>5, <2>1
  <2>6. NoneIsSkipped(p, E[p])
    BY <2>2, <2>3, <2>4, <2>5, NoneIsSkippedBefore
  <2> QED  BY <2>2, <2>5, <2>6
<1> HIDE DEF stops, Q
<1>6. Nat \subseteq Q
  BY <1>2, <1>4, <1>5, WalkInduction
<1>7. Good(o)
  BY <1>6 DEF Q
<1> QED  BY <1>7 DEF E

\* The loop that looks for the first block to test finds it, unless the stream is bad or
\* there is none.
LEMMA StartFinds ==
  ASSUME stream \in Streams, Instr!FirstHeader # Instr!NotFound
  PROVE  /\ Instr!FirstHeader \in DOMAIN stream
         /\ Instr!IsToBeTested(stream[Instr!FirstHeader])
         /\ NoneIsSkipped(0, Instr!FirstHeader)
<1> DEFINE Fails(p) == p % WordSize # 0 \/ ~Instr!HeaderAt(p).signed
           Finds(p) == Instr!IsToBeTested(Instr!HeaderAt(p))
           Stops(p) == Fails(p) \/ Finds(p) \/ Instr!HeaderAt(p).final
           Result(p) == IF ~Fails(p) /\ Finds(p) THEN p ELSE Instr!NotFound
           stops == {p \in Nat : Stops(p)}
           result == [p \in Nat |-> Result(p)]
           F == Instr!StartAt
           Good(p) == F[p] # Instr!NotFound =>
                        /\ F[p] \in DOMAIN stream /\ Instr!IsToBeTested(stream[F[p]])
                        /\ NoneIsSkipped(p, F[p])
           Q == {p \in Nat : Good(p)}
<1>1. PICK last \in Nat : \A p \in Nat : p > last => ~Instr!HeaderAt(p).signed
  BY FollowedFacts
<1>2. /\ Followed \in [Nat -> Nat] /\ \A p \in Nat : Followed[p] > p
      /\ \A p \in Nat : p > last => p \in stops
  BY <1>1, FollowedFacts
<1>3. F = [p \in Nat |-> IF Stops(p) THEN Result(p) ELSE F[Instr!Follow(p)]]
  <2> DEFINE Is(f) == f = [p \in Nat |-> IF Fails(p) THEN Instr!NotFound
                                         ELSE IF Finds(p) THEN p
                                         ELSE IF Instr!HeaderAt(p).final THEN Instr!NotFound
                                         ELSE f[Instr!Follow(p)]]
  <2>1. \E f : IsWalk(f, stops, result, Followed)
    <3> HIDE DEF stops, result
    <3> QED  BY <1>2, WalksAreFunctions
  <2>2. PICK f : IsWalk(f, stops, result, Followed)
    BY <2>1
  <2>3. \A p \in Nat : (p \in stops <=> Stops(p)) /\ result[p] = Result(p)
                        /\ Followed[p] = Instr!Follow(p)
    BY FollowedFacts
  <2>4. Is(f)
    <3> HIDE DEF stops, result, Fails, Finds
    <3> QED  BY <2>2, <2>3 DEF IsWalk
  <2>5. F = CHOOSE g : Is(g)
    BY DEF Instr!StartAt
  <2> HIDE DEF Is, F
  <2>6. Is(F)
    BY <2>4, <2>5
  <2> HIDE DEF Fails, Finds
  <2> QED  BY <2>6 DEF Is
<1> HIDE DEF F
<1>4. ASSUME NEW p \in Nat, p \in stops PROVE p \in Q
  <2>1. F[p] = Result(p)
    BY <1>3, <1>4
  <2>2. NoneIsSkipped(p, p)
    BY StreamFacts DEF NoneIsSkipped
  <2>3. ASSUME F[p] # Instr!NotFound
        PROVE  p \in DOMAIN stream /\ F[p] = p /\ Instr!IsToBeTested(stream[p])
    BY <2>1, <2>3, HeaderFacts
  <2> QED  BY <2>2, <2>3
<1>5. ASSUME NEW p \in Nat, p \notin stops, Followed[p] \in Q PROVE p \in Q
  <2>1. ~Stops(p) /\ Followed[p] = Instr!Follow(p) /\ Instr!Follow(p) \in Nat
    BY <1>5, FollowedFacts, HeaderFacts
  <2>2. F[p] = F[Instr!Follow(p)]
    BY <1>3, <2>1
  <2>3. p \in DOMAIN stream /\ Instr!HeaderAt(p) = stream[p]
    BY <2>1, HeaderFacts
  <2>4. ~Instr!IsToBeTested(stream[p])
    BY <2>1, <2>3
  <2>5. Good(Instr!Follow(p))
    BY <1>5, <2>1
  <2>6. F[p] # Instr!NotFound => NoneIsSkipped(p, F[p])
    BY <2>2, <2>3, <2>4, <2>5, NoneIsSkippedBefore
  <2> QED  BY <2>2, <2>5, <2>6
<1> HIDE DEF stops, Q
<1>6. Nat \subseteq Q
  BY <1>2, <1>4, <1>5, WalkInduction
<1>7. Good(0)
  BY <1>6 DEF Q
<1> QED  BY <1>7 DEF F, Instr!FirstHeader
\* The buffer in which a block of n bytes ends is the one its last byte is in.
LEMMA LastBufferOfABlock ==
  ASSUME NEW D \in Nat \ {0}, NEW n \in Nat, NEW k \in Nat, k * D < n, n <= k * D + D
  PROVE  ((n - 1) \div D) * D = k * D
<1> DEFINE q == (n - 1) \div D
           r == (n - 1) % D
<1>1. n - 1 \in Nat /\ q \in Nat /\ r \in 0..(D - 1) /\ n - 1 = q * D + r
  <2>1. k * D \in Nat
    OBVIOUS
  <2>2. n - 1 \in Nat
    BY <2>1
  <2> QED  BY <2>2, QuotientAndRemainder
<1> HIDE DEF q, r
<1>2. q * D \in Nat /\ k * D \in Nat
  BY <1>1
<1>3. ~(q < k)
  <2>1. ASSUME q < k PROVE FALSE
    <3>1. PICK m \in Nat : k = q + 1 + m
      <4>1. k - q - 1 \in Nat /\ k = q + 1 + (k - q - 1)
        BY <1>1, <2>1
      <4> QED  BY <4>1
    <3>2. k * D = q * D + D + m * D /\ m * D \in Nat
      BY <1>1, <3>1
    <3> QED  BY <1>1, <1>2, <3>2
  <2> QED  BY <2>1
<1>4. ~(k < q)
  <2>1. ASSUME k < q PROVE FALSE
    <3>1. PICK m \in Nat : q = k + 1 + m
      <4>1. q - k - 1 \in Nat /\ q = k + 1 + (q - k - 1)
        BY <1>1, <2>1
      <4> QED  BY <4>1
    <3>2. q * D = k * D + D + m * D /\ m * D \in Nat
      BY <1>1, <3>1
    <3> QED  BY <1>1, <1>2, <3>2
  <2> QED  BY <2>1
<1>5. q = k
  BY <1>1, <1>3, <1>4
<1> QED  BY <1>5 DEF q

\* A block that is not to be tested but is in instruction memory has no bytes.
LEMMA SkippedIsEmpty ==
  ASSUME stream \in Streams, NEW i \in Instr!Tested, ~Instr!IsToBeTested(stream[i])
  PROVE  Instr!Bytes(stream[i], 0, stream[i].count) = {}
<1>1. i \in DOMAIN stream /\ stream[i].region = "a" /\ stream[i].count \in Nat
  BY StreamFacts DEF Instr!Tested, Instr!Block
<1>2. stream[i].count = 0
  BY <1>1 DEF Instr!IsToBeTested, Instr!IsAddrLocatedInInstrctnMmry
<1> QED  BY <1>2 DEF Instr!Bytes

\* Where RunTest reads next, in terms of the faults there were when the loop began.
LEMMA ReadsAtAPlaceToRead ==
  ASSUME InstrInv, Instr!Compare
  PROVE  /\ PlaceToRead(oldFaults', Instr!ReadHeader, Instr!ReadOffset)
         /\ oldFaults' \subseteq faulty
<1>1. stream \in Streams
  BY DEF InstrInv
<1>2. CASE Instr!NewLoop
  <2> DEFINE h == Instr!FirstHeader
  <2>1. Instr!ReadHeader = h /\ Instr!ReadOffset = 0 /\ oldFaults' = faulty
        /\ h # Instr!NotFound
    BY <1>2 DEF Instr!Compare, Instr!CanRead, Instr!ReadHeader, Instr!ReadOffset
  <2>2. h \in DOMAIN stream /\ Instr!IsToBeTested(stream[h]) /\ NoneIsSkipped(0, h)
    BY <1>1, <2>1, StartFinds
  <2> HIDE DEF h
  <2>3. 0 \in Nat /\ 0 = 0 * DMA_BFR_SZ /\ 0 < stream[h].count
    BY <1>1, <2>2, StreamFacts DEF Instr!IsToBeTested
  <2>4. ASSUME NEW i \in Instr!Tested, i < h
        PROVE  Instr!Bytes(stream[i], 0, stream[i].count) = {}
    <3>1. i \in DOMAIN stream /\ 0 <= i
      BY <1>1, StreamFacts DEF Instr!Tested
    <3>2. ~Instr!IsToBeTested(stream[i])
      BY <2>2, <2>4, <3>1 DEF NoneIsSkipped
    <3> QED  BY <1>1, <3>2, SkippedIsEmpty
  <2>5. Instr!Bytes(stream[h], 0, 0) = {}
    BY DEF Instr!Bytes
  <2>6. IntactUpTo(faulty, h, 0)
    BY <2>4, <2>5 DEF IntactUpTo
  <2> QED  BY <2>1, <2>2, <2>3, <2>6 DEF PlaceToRead
<1>3. CASE ~Instr!NewLoop
  <2>1. Instr!ReadHeader = header /\ Instr!ReadOffset = bfrOffset /\ oldFaults' = oldFaults
    BY <1>3 DEF Instr!Compare, Instr!ReadHeader, Instr!ReadOffset
  <2>2. instrTestState = "TEST_IN_PROGRESS"
    BY <1>3 DEF InstrInv, Instr!NewLoop, Instr!Compare, Instr!CanRead, Instr!Halted
  <2> QED  BY <2>1, <2>2 DEF InstrInv
<1> QED  BY <1>2, <1>3

\* What a place to read is about, with its numbers.
LEMMA PlaceFacts ==
  ASSUME stream \in Streams, NEW faults, NEW h, NEW n, PlaceToRead(faults, h, n)
  PROVE  /\ h \in Nat /\ h \in DOMAIN stream /\ Instr!HeaderAt(h) = stream[h]
         /\ n \in Nat /\ stream[h].count \in Nat /\ n < stream[h].count
         /\ Instr!Follow(h) \in Nat /\ Instr!Follow(h) > h
         /\ DMA_BFR_SZ \in Nat \ {0}
<1>1. h \in DOMAIN stream /\ n < stream[h].count /\ \E k \in Nat : n = k * DMA_BFR_SZ
  BY DEF PlaceToRead
<1>2. h \in Nat /\ stream[h].count \in Nat /\ DMA_BFR_SZ \in Nat \ {0}
  BY <1>1, StreamFacts DEF Instr!Block
<1>3. n \in Nat
  BY <1>1, <1>2
<1> QED  BY <1>1, <1>2, <1>3, HeaderFacts

\* What is compared and found to match extends what is known to be intact.
LEMMA ComparedIsIntact ==
  ASSUME stream \in Streams, NEW faults, faults \subseteq faulty,
         PlaceToRead(faults, Instr!ReadHeader, Instr!ReadOffset), Instr!Matches
  PROVE  IntactUpTo(faults, Instr!ReadHeader, Instr!ReadOffset + Instr!NmbrOfBytesInBuffer)
<1> DEFINE h == Instr!ReadHeader
           o == Instr!ReadOffset
           m == Instr!NmbrOfBytesInBuffer
           b == stream[h]
<1>1. Instr!ReadBlock = b /\ o \in Nat /\ b.count \in Nat /\ o < b.count
      /\ DMA_BFR_SZ \in Nat \ {0}
  BY PlaceFacts DEF Instr!ReadBlock
<1>2. m \in Nat /\ m <= DMA_BFR_SZ
  BY <1>1 DEF Instr!NmbrOfBytesInBuffer, Instr!IsPartialRead
<1>3. faults \cap Instr!Bytes(b, o, m) = {}
  <2>1. Instr!Bytes(b, o, m) \subseteq Instr!Bytes(b, o, DMA_BFR_SZ)
    <3>1. \A i \in o..(o + m - 1) : i \in o..(o + DMA_BFR_SZ - 1)
      BY <1>1, <1>2
    <3> QED  BY <3>1 DEF Instr!Bytes
  <2>2. Instr!Compared = Instr!Bytes(b, o, DMA_BFR_SZ) \cap Instr!Bytes(b, o, m)
    BY <1>1 DEF Instr!Compared, Instr!DmaXferMDMA0
  <2> QED  BY <2>1, <2>2 DEF Instr!Matches
<1>4. faults \cap Instr!Bytes(b, 0, o) = {} /\ \A i \in Instr!Tested : i < h =>
        faults \cap Instr!Bytes(stream[i], 0, stream[i].count) = {}
  BY DEF PlaceToRead, IntactUpTo
<1> HIDE DEF h, o, m, b
<1>5. Instr!Bytes(b, 0, o + m) \subseteq Instr!Bytes(b, 0, o) \cup Instr!Bytes(b, o, m)
  <2>1. \A i \in 0..(o + m - 1) : i \in 0..(0 + o - 1) \/ i \in o..(o + m - 1)
    BY <1>1, <1>2
  <2>2. 0 + (o + m) - 1 = o + m - 1
    BY <1>1, <1>2
  <2> QED  BY <2>1, <2>2 DEF Instr!Bytes
<1>6. faults \cap Instr!Bytes(b, 0, o + m) = {}
  BY <1>3, <1>4, <1>5
<1> QED  BY <1>4, <1>6 DEF IntactUpTo, h, o, m, b

\* Behind a block that is read to its end, the next one to test is a place to read.
LEMMA NextBlockIsAPlaceToRead ==
  ASSUME stream \in Streams, NEW faults, NEW h \in DOMAIN stream, NEW e, e = Instr!NextHeader(h),
         Instr!HeaderAt(e).signed, ~Instr!HeaderAt(e).final,
         IntactUpTo(faults, h, stream[h].count)
  PROVE  PlaceToRead(faults, e, 0)
<1>1. h \in Nat /\ Instr!Follow(h) \in Nat
  BY StreamFacts, HeaderFacts
<1>2. e \in Nat /\ NoneIsSkipped(Instr!Follow(h), e) /\ Instr!IsToBeTested(Instr!HeaderAt(e))
  BY <1>1, EnumerateFinds DEF Instr!NextHeader
<1>3. e \in DOMAIN stream /\ Instr!IsToBeTested(stream[e])
  BY <1>2, HeaderFacts
<1>4. 0 \in Nat /\ 0 = 0 * DMA_BFR_SZ /\ 0 < stream[e].count
  BY <1>3, StreamFacts DEF Instr!IsToBeTested, Instr!Block
<1>5. ASSUME NEW i \in Instr!Tested, i < e
      PROVE  faults \cap Instr!Bytes(stream[i], 0, stream[i].count) = {}
  <2>1. i \in DOMAIN stream /\ i \in Nat
    BY StreamFacts DEF Instr!Tested
  <2>2. CASE i < h
    BY <2>2 DEF IntactUpTo
  <2>3. CASE i = h
    BY <2>3 DEF IntactUpTo
  <2>4. CASE h < i
    <3>1. Instr!Follow(h) <= i
      BY <2>1, <2>4, HeadersFollow
    <3>2. ~Instr!IsToBeTested(stream[i])
      BY <1>2, <1>5, <2>1, <3>1 DEF NoneIsSkipped
    <3> QED  BY <3>2, SkippedIsEmpty
  <2> QED  BY <1>1, <2>1, <2>2, <2>3, <2>4
<1>6. Instr!Bytes(stream[e], 0, 0) = {}
  BY DEF Instr!Bytes
<1>7. IntactUpTo(faults, e, 0)
  BY <1>5, <1>6 DEF IntactUpTo
<1> QED  BY <1>3, <1>4, <1>7 DEF PlaceToRead

\* When the next header is the final one, all that was to be tested is known to be intact,
\* but for the last buffer.
LEMMA NothingIsLeftOver ==
  ASSUME stream \in Streams, NEW faults, NEW h, NEW o, PlaceToRead(faults, h, o),
         stream[h].count <= o + DMA_BFR_SZ,
         Instr!HeaderAt(Instr!NextHeader(h)).signed, Instr!HeaderAt(Instr!NextHeader(h)).final
  PROVE  faults \cap (Instr!BytesTested \ Instr!LastBuffer) = {}
<1> DEFINE e == Instr!NextHeader(h)
           b == stream[h]
<1>1. h \in Nat /\ h \in DOMAIN stream /\ o \in Nat /\ b.count \in Nat /\ o < b.count
      /\ Instr!Follow(h) \in Nat /\ DMA_BFR_SZ \in Nat \ {0}
  BY PlaceFacts
<1>2. e \in Nat /\ NoneIsSkipped(Instr!Follow(h), e)
  BY <1>1, EnumerateFinds DEF Instr!NextHeader
<1>3. e \in DOMAIN stream /\ stream[e].final
  BY <1>2, HeaderFacts
<1> HIDE DEF e
\* No block with bytes to test comes behind the one just read.
<1>4. ASSUME NEW i \in Instr!Tested, stream[i].count > 0
      PROVE  i \in Nat /\ i <= h
  <2>1. i \in DOMAIN stream /\ i \in Nat /\ stream[i].region = "a" /\ ~stream[i].final
    BY StreamFacts DEF Instr!Tested
  <2>2. i < e
    <3>1. i # e
      BY <1>3, <2>1
    <3>2. ~(e < i)
      BY <1>3, <2>1, HeadersFollow
    <3> QED  BY <1>2, <2>1, <3>1, <3>2
  <2>3. Instr!IsToBeTested(stream[i])
    BY <1>4, <2>1 DEF Instr!IsToBeTested, Instr!IsAddrLocatedInInstrctnMmry
  <2>4. ~(Instr!Follow(h) <= i)
    BY <1>2, <2>1, <2>2, <2>3 DEF NoneIsSkipped
  <2>5. ~(h < i)
    BY <1>1, <2>1, <2>4, HeadersFollow
  <2> QED  BY <1>1, <2>1, <2>5
<1>5. SUFFICES ASSUME NEW i \in Instr!Tested,
                      NEW a \in Instr!Bytes(stream[i], 0, stream[i].count), a \in faults
               PROVE  a \in Instr!LastBuffer
  BY DEF Instr!BytesTested
<1>6. stream[i].count > 0 /\ stream[i].count \in Nat
  <2>1. stream[i].count \in Nat
    BY StreamFacts DEF Instr!Tested, Instr!Block
  <2>2. stream[i].count # 0
    BY DEF Instr!Bytes
  <2> QED  BY <2>1, <2>2
<1>7. i = h
  <2>1. ~(i < h)
    BY <1>5 DEF PlaceToRead, IntactUpTo
  <2> QED  BY <1>1, <1>4, <1>6, <2>1
<1>8. a \in Instr!Bytes(b, o, DMA_BFR_SZ)
  <2>1. PICK j \in 0..(0 + b.count - 1) : a = <<b.region, b.base + j>>
    BY <1>7 DEF Instr!Bytes
  <2>2. ~(j \in 0..(0 + o - 1))
    BY <1>5, <2>1 DEF PlaceToRead, IntactUpTo, Instr!Bytes
  <2>3. j \in o..(o + DMA_BFR_SZ - 1)
    BY <1>1, <2>1, <2>2
  <2> QED  BY <2>1, <2>3 DEF Instr!Bytes
<1>9. ((b.count - 1) \div DMA_BFR_SZ) * DMA_BFR_SZ = o
  <2>1. PICK k \in Nat : o = k * DMA_BFR_SZ
    BY DEF PlaceToRead
  <2> HIDE DEF b
  <2> QED  BY <1>1, <2>1, LastBufferOfABlock DEF b
<1>10. h \in {j \in Instr!Tested : /\ stream[j].count > 0
                                   /\ \A k \in Instr!Tested : stream[k].count > 0 => k <= j}
  BY <1>4, <1>6, <1>7
<1> QED  BY <1>8, <1>9, <1>10 DEF Instr!LastBuffer

LEMMA InstrInvIsInductive ==
  ASSUME InstrInv, [Instr!Next]_Instr!vars
  PROVE  InstrInv'
<1> DEFINE h == Instr!ReadHeader
           o == Instr!ReadOffset
           TypeOK == instrTestState' \in {"TEST_IDLE", "TEST_IN_PROGRESS",
                                          "TEST_LOOP_COMPLETE", "TEST_FAILURE"}
<1>1. stream \in Streams
  BY DEF InstrInv
<1>2. CASE Instr!CannotStart
  BY <1>2 DEF Instr!CannotStart, Instr!history, InstrInv, NoFaultOutlivesALoop,
              Instr!NoFaultOutlivesALoop
<1>3. ASSUME Instr!Compare
      PROVE  /\ stream' = stream /\ oldFaults' \subseteq faulty /\ faulty' = faulty
             /\ PlaceToRead(oldFaults', h, o)
             /\ h \in DOMAIN stream /\ Instr!ReadBlock = stream[h]
             /\ o \in Nat /\ stream[h].count \in Nat /\ DMA_BFR_SZ \in Nat \ {0}
  BY <1>1, <1>3, ReadsAtAPlaceToRead, PlaceFacts DEF Instr!Compare, Instr!ReadBlock
\* A place to read stays one while the stream does.
<1>4. ASSUME stream' = stream, PlaceToRead(oldFaults', header', bfrOffset')
      PROVE  PlaceToRead(oldFaults, header, bfrOffset)'
  BY <1>4 DEF PlaceToRead, IntactUpTo, Instr!Tested, Instr!IsToBeTested, Instr!Bytes,
              Instr!IsAddrLocatedInInstrctnMmry
<1>5. CASE Instr!ReadBuffer
  <2>1. Instr!Compare /\ ~Instr!IsPartialRead /\ header' = h
        /\ bfrOffset' = o + DMA_BFR_SZ
        /\ instrTestState' = IF Instr!Matches THEN "TEST_IN_PROGRESS" ELSE "TEST_FAILURE"
    BY <1>5 DEF Instr!ReadBuffer, Instr!Judge, Instr!NextBuffer
  <2>2. CASE Instr!Matches
    <3>1. Instr!NmbrOfBytesInBuffer = DMA_BFR_SZ /\ o + DMA_BFR_SZ < stream[h].count
      BY <1>3, <2>1 DEF Instr!NmbrOfBytesInBuffer, Instr!IsPartialRead
    <3>2. IntactUpTo(oldFaults', h, o + DMA_BFR_SZ)
      BY <1>1, <1>3, <2>1, <2>2, <3>1, ComparedIsIntact
    <3>3. \E k \in Nat : o + DMA_BFR_SZ = k * DMA_BFR_SZ
      <4>1. PICK k \in Nat : o = k * DMA_BFR_SZ
        BY <1>3, <2>1 DEF PlaceToRead
      <4>2. k + 1 \in Nat /\ (k + 1) * DMA_BFR_SZ = o + DMA_BFR_SZ
        BY <1>3, <2>1, <4>1
      <4> QED  BY <4>2
    <3>4. PlaceToRead(oldFaults', h, o + DMA_BFR_SZ)
      BY <1>3, <2>1, <3>1, <3>2, <3>3 DEF PlaceToRead
    <3>5. PlaceToRead(oldFaults, header, bfrOffset)'
      BY <1>3, <1>4, <2>1, <3>4
    <3> QED
      BY <1>3, <2>1, <2>2, <3>5 DEF InstrInv, NoFaultOutlivesALoop, Instr!NoFaultOutlivesALoop
  <2>3. CASE ~Instr!Matches
    BY <1>3, <2>1, <2>3 DEF InstrInv, NoFaultOutlivesALoop, Instr!NoFaultOutlivesALoop
  <2> QED  BY <2>2, <2>3
<1>6. CASE Instr!ReadLastBuffer
  <2>1. Instr!Compare /\ Instr!IsPartialRead /\ header' = Instr!NextHeader(h)
        /\ bfrOffset' = 0
        /\ instrTestState' = IF Instr!Matches THEN "TEST_IN_PROGRESS" ELSE "TEST_FAILURE"
    BY <1>6 DEF Instr!ReadLastBuffer, Instr!EndBlock, Instr!Judge, Instr!FirstOffset
  <2>2. CASE Instr!Matches
    <3>1. o + Instr!NmbrOfBytesInBuffer = stream[h].count
      BY <1>3, <2>1 DEF Instr!NmbrOfBytesInBuffer
    <3>2. IntactUpTo(oldFaults', h, stream[h].count)
      BY <1>1, <1>3, <2>1, <2>2, <3>1, ComparedIsIntact
    <3>3. Instr!HeaderAt(header').signed /\ ~Instr!HeaderAt(header').final
      BY <1>3, <1>6, <2>1 DEF Instr!ReadLastBuffer
    <3>4. PlaceToRead(oldFaults', header', 0)
      BY <1>1, <1>3, <2>1, <3>2, <3>3, NextBlockIsAPlaceToRead
    <3>5. PlaceToRead(oldFaults, header, bfrOffset)'
      BY <1>3, <1>4, <2>1, <3>4
    <3> QED
      BY <1>3, <2>1, <2>2, <3>5 DEF InstrInv, NoFaultOutlivesALoop, Instr!NoFaultOutlivesALoop
  <2>3. CASE ~Instr!Matches
    BY <1>3, <2>1, <2>3 DEF InstrInv, NoFaultOutlivesALoop, Instr!NoFaultOutlivesALoop
  <2> QED  BY <2>2, <2>3
<1>7. CASE Instr!CompleteLoop
  <2>1. Instr!Compare /\ Instr!IsPartialRead /\ header' = Instr!NextHeader(h)
        /\ instrTestState' = "TEST_LOOP_COMPLETE"
    BY <1>7 DEF Instr!CompleteLoop, Instr!EndBlock
  <2>2. Instr!HeaderAt(header').signed /\ Instr!HeaderAt(header').final
    BY <1>7 DEF Instr!CompleteLoop
  <2>3. stream[h].count <= o + DMA_BFR_SZ
    BY <1>3, <2>1 DEF Instr!IsPartialRead
  <2>4. oldFaults' \cap (Instr!BytesTested \ Instr!LastBuffer) = {}
    BY <1>1, <1>3, <2>1, <2>2, <2>3, NothingIsLeftOver
  <2>5. Instr!BytesTested' = Instr!BytesTested /\ Instr!LastBuffer' = Instr!LastBuffer
    BY <1>3, <2>1 DEF Instr!BytesTested, Instr!LastBuffer, Instr!Tested, Instr!Bytes
  <2> QED
    BY <1>3, <2>1, <2>4, <2>5 DEF InstrInv, NoFaultOutlivesALoop, Instr!NoFaultOutlivesALoop
<1>8. CASE Instr!FindBadBootStream
  <2>1. Instr!Compare /\ instrTestState' = "TEST_FAILURE"
    BY <1>8 DEF Instr!FindBadBootStream, Instr!EndBlock
  <2> QED
    BY <1>3, <2>1 DEF InstrInv, NoFaultOutlivesALoop, Instr!NoFaultOutlivesALoop
<1>9. ASSUME UNCHANGED <<stream, instrTestState, header, bfrOffset, oldFaults>>,
             faulty \subseteq faulty'
      PROVE  InstrInv'
  <2>1. Instr!BytesTested' = Instr!BytesTested /\ Instr!LastBuffer' = Instr!LastBuffer
    BY <1>9 DEF Instr!BytesTested, Instr!LastBuffer, Instr!Tested, Instr!Bytes
  <2>2. PlaceToRead(oldFaults, header, bfrOffset) => PlaceToRead(oldFaults, header, bfrOffset)'
    BY <1>4, <1>9
  <2> QED
    BY <1>9, <2>1, <2>2 DEF InstrInv, NoFaultOutlivesALoop, Instr!NoFaultOutlivesALoop
<1>10. ASSUME NEW a, Instr!RamFails(a) PROVE InstrInv'
  BY <1>9, <1>10 DEF Instr!RamFails, Instr!params, Instr!history
<1>11. CASE UNCHANGED Instr!vars
  BY <1>9, <1>11 DEF Instr!vars
<1> QED
  BY <1>2, <1>5, <1>6, <1>7, <1>8, <1>10, <1>11 DEF Instr!Next, Instr!RunTest

\* No loop of the test of the instruction RAM completes over a byte that was faulty when
\* it began, but for those of its last buffer.
THEOREM NoFaultIsMissed == Instr!Spec => []NoFaultOutlivesALoop
<1>1. Instr!Init => InstrInv
  BY DEF Instr!Init, InstrInv, NoFaultOutlivesALoop, Instr!NoFaultOutlivesALoop
<1>2. InstrInv /\ [Instr!Next]_Instr!vars => InstrInv'
  BY InstrInvIsInductive
<1>3. InstrInv => NoFaultOutlivesALoop
  BY DEF InstrInv
<1> QED  BY <1>1, <1>2, <1>3, PTL DEF Instr!Spec
=============================================================================
