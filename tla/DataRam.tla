------------------------------- MODULE DataRam -------------------------------
(***************************************************************************)
(* The test of the data RAM (BlackfinDiagDataRam.cpp and                   *)
(* BlackfinDataRamTestByte.s).  A call of RunTest tests some bytes of one  *)
(* bank, one after the other: with interrupts off it saves the byte,       *)
(* writes every pattern to it and reads it back, and restores it.  The     *)
(* program goes on using all of this RAM: whatever interrupts the test     *)
(* between two bytes, or runs between two calls, reads and writes it.      *)
(*                                                                         *)
(* A byte that fails is stuck at a value.  The address of a byte is its    *)
(* bank and its offset from the start of the bank.                         *)
(***************************************************************************)
EXTENDS Naturals, Sequences

CONSTANTS
  BankSizes,                   \* m_NmbrContiguousBytesToTest of the banks A, B, C
  NmbrBytesToTestPerIteration,
  Values,                      \* values of a byte
  TestPatterns                 \* m_pTestPatternsRAM

\* No value of a byte.
None == "none"

\* The sizes BlackfinDiagRuntime gives the banks are multiples of the iteration's, and
\* its patterns are not all the same.
ASSUME DataRamAssumption ==
  /\ NmbrBytesToTestPerIteration \in Nat \ {0}
  /\ BankSizes \in Seq(Nat)
  /\ \A k \in DOMAIN BankSizes :
       BankSizes[k] > 0 /\ BankSizes[k] % NmbrBytesToTestPerIteration = 0
  /\ TestPatterns \in Seq(Values)
  /\ \E i, j \in DOMAIN TestPatterns : TestPatterns[i] # TestPatterns[j]
  /\ None \notin Values

Banks     == DOMAIN BankSizes
Addresses == UNION {{k} \X (0..(BankSizes[k] - 1)) : k \in Banks}

VARIABLES
  ram,           \* the content of the data RAM
  stuck,         \* the bytes that fail: what they are stuck at
  app,           \* history: what the program has last written to every byte
  testState,     \* m_CurrentTestState; OS_Assert halts the program
  bytesTested,   \* m_NmbrBytesTested of every bank
  completed,     \* m_TestCompleted of every bank
  bank,          \* the bank RunRamTest is called for, 0 outside of RunTest
  thisIteration, \* nmbrBytesTestedThisIteration
  interrupts,    \* interrupts are enabled
  saved,         \* r1: the content of the byte under test
  patternNo,     \* r3: the patterns read back right
  errorInfo,     \* the bank, offset and pattern in rErrorCode
  oldStuck       \* history: the bytes that failed already when this loop started

ramVars  == <<ram, stuck, app>>
testVars == <<testState, bytesTested, completed>>
vars == <<ram, stuck, app, testState, bytesTested, completed, bank, thisIteration,
          interrupts, saved, patternNo, errorInfo, oldStuck>>

Init ==
  /\ \E v \in Values : ram = [a \in Addresses |-> v]
  /\ stuck = [a \in Addresses |-> None]
  /\ app = ram
  /\ testState = "TEST_IDLE"
  /\ bytesTested = [k \in Banks |-> 0] /\ completed = [k \in Banks |-> FALSE]
  /\ bank = 0 /\ thisIteration = 0
  /\ interrupts = TRUE
  /\ saved = None /\ patternNo = 0
  /\ errorInfo = [bank |-> 0, offset |-> 0, pattern |-> None]
  /\ oldStuck = {}

Halted == testState = "OS_Assert"

\* What a write of v leaves in the byte at a.
Stored(a, v) == IF stuck[a] = None THEN v ELSE stuck[a]

(***************************************************************************)
(* The program around the test, and the hardware.                          *)
(***************************************************************************)
AppWrites(a, v) ==
  /\ ~Halted /\ interrupts
  /\ ram' = [ram EXCEPT ![a] = Stored(a, v)]
  /\ app' = [app EXCEPT ![a] = v]
  /\ UNCHANGED <<stuck, testVars, bank, thisIteration, interrupts, saved, patternNo,
                 errorInfo, oldStuck>>

\* One byte at most fails.
ByteFails(a, v) ==
  /\ ~Halted /\ \A b \in Addresses : stuck[b] = None
  /\ stuck' = [stuck EXCEPT ![a] = v]
  /\ ram' = [ram EXCEPT ![a] = v]
  /\ UNCHANGED <<app, testVars, bank, thisIteration, interrupts, saved, patternNo,
                 errorInfo, oldStuck>>

(***************************************************************************)
(* RunTest.                                                                *)
(***************************************************************************)
NewLoop == testState \in {"TEST_IDLE", "TEST_LOOP_COMPLETE"}

\* ConfigureForNextTestCycle.
BanksReset(f, start) == IF NewLoop THEN [k \in Banks |-> start] ELSE f

BeginRunTest ==
  /\ ~Halted /\ bank = 0
  /\ bytesTested' = BanksReset(bytesTested, 0)
  /\ completed' = BanksReset(completed, FALSE)
  /\ oldStuck' = IF NewLoop THEN {a \in Addresses : stuck[a] # None} ELSE oldStuck
  /\ UNCHANGED <<ramVars, interrupts, saved, patternNo, errorInfo>>

\* RunTest takes the first bank that is not completed, and enters RunRamTest.
EnterBank ==
  /\ BeginRunTest
  /\ \E k \in Banks : ~completed'[k] /\ (\A j \in 1..(k - 1) : completed'[j]) /\ bank' = k
  /\ thisIteration' = 0
  /\ testState' = "TEST_IN_PROGRESS"

\* All banks are completed.
CompleteLoop ==
  /\ BeginRunTest
  /\ \A k \in Banks : completed'[k]
  /\ testState' = "TEST_LOOP_COMPLETE"
  /\ UNCHANGED <<bank, thisIteration>>

\* pCrrntRAMAddr.
Current == <<bank, bytesTested[bank] + thisIteration>>

\* Mutant: interrupts stay enabled.
InterruptsStay == interrupts

InterruptsOff == FALSE

\* TestAByte disables interrupts and TestAByteOfRam saves the byte.
BeginByte ==
  /\ ~Halted /\ bank # 0 /\ saved = None
  /\ thisIteration < NmbrBytesToTestPerIteration
  /\ interrupts' = InterruptsOff
  /\ saved' = ram[Current]
  /\ patternNo' = 0
  /\ UNCHANGED <<ramVars, testVars, bank, thisIteration, errorInfo, oldStuck>>

\* The next pattern is written and read back right.
PatternPasses ==
  /\ saved # None /\ patternNo < Len(TestPatterns)
  /\ ram' = [ram EXCEPT ![Current] = Stored(Current, TestPatterns[patternNo + 1])]
  /\ ram'[Current] = TestPatterns[patternNo + 1]
  /\ patternNo' = patternNo + 1
  /\ UNCHANGED <<stuck, app, testVars, bank, thisIteration, interrupts, saved, errorInfo,
                 oldStuck>>

Restored == Stored(Current, saved)

\* Every pattern has passed: the byte is restored and interrupts are as before.
EndByte ==
  /\ saved # None /\ patternNo = Len(TestPatterns)
  /\ ram' = [ram EXCEPT ![Current] = Restored]
  /\ saved' = None
  /\ interrupts' = TRUE
  /\ thisIteration' = thisIteration + 1
  /\ UNCHANGED <<stuck, app, testVars, bank, patternNo, errorInfo, oldStuck>>

\* rOffsetFromBankStart = pCrrntRAMAddr - pTestStartAddr.
OffsetFromStart == thisIteration

\* A pattern does not: the byte is restored and RunTest asserts.
PatternFails ==
  /\ saved # None /\ patternNo < Len(TestPatterns)
  /\ Stored(Current, TestPatterns[patternNo + 1]) # TestPatterns[patternNo + 1]
  /\ ram' = [ram EXCEPT ![Current] = Stored(Current, saved)]
  /\ saved' = None
  /\ interrupts' = TRUE
  /\ errorInfo' = [bank |-> bank, offset |-> OffsetFromStart,
                   pattern |-> TestPatterns[patternNo + 1]]
  /\ testState' = "OS_Assert"
  /\ UNCHANGED <<stuck, app, bytesTested, completed, bank, thisIteration, patternNo, oldStuck>>

\* m_NmbrBytesTested += nmbrBytesTestedThisIteration.
NmbrBytesTested(k) == bytesTested[k] + thisIteration

\* Mutant: a bank is completed one iteration early.
IsTestedButOne(n, k) == n + NmbrBytesToTestPerIteration >= BankSizes[k]

IsTested(n, k) == n >= BankSizes[k]

\* The iteration's bytes are tested, perhaps the last ones of the bank.
LeaveBank ==
  /\ ~Halted /\ bank # 0 /\ saved = None
  /\ thisIteration = NmbrBytesToTestPerIteration
  /\ bytesTested' = [bytesTested EXCEPT ![bank] = NmbrBytesTested(bank)]
  /\ completed' = [completed EXCEPT ![bank] = IsTested(bytesTested'[bank], bank)]
  /\ bank' = 0
  /\ UNCHANGED <<ramVars, testState, thisIteration, interrupts, saved, patternNo, errorInfo,
                 oldStuck>>

Test ==
  \/ EnterBank \/ CompleteLoop \/ BeginByte \/ PatternPasses \/ PatternFails
  \/ EndByte \/ LeaveBank

Next ==
  \/ Test
  \/ \E a \in Addresses, v \in Values : AppWrites(a, v) \/ ByteFails(a, v)

Spec == Init /\ [][Next]_vars

\* The scheduler runs every test again and again until one fails.
FairSpec == Spec /\ WF_vars(Test)

-----------------------------------------------------------------------------
\* The test is invisible to the program: whenever anything but the test can look,
\* every byte that works holds what the program has last written to it.
ProgramKeepsItsData ==
  interrupts => \A a \in Addresses : stuck[a] = None => ram[a] = app[a]

\* A loop completes only when every byte of every bank worked when it started.
NoStuckByteOutlivesALoop == testState = "TEST_LOOP_COMPLETE" => oldStuck = {}

\* Every loop ends.
EveryLoopEnds == testState = "TEST_IN_PROGRESS" ~> testState # "TEST_IN_PROGRESS"
=============================================================================
