------------------------------- MODULE CpuTests -------------------------------
(***************************************************************************)
(* BlackfinDiagRegistersTest.cpp with BlackfinDiagRegister.s, and          *)
(* BlackfinDiagInstructionsTest.cpp with BlackfinDiagInstruction.s: the    *)
(* tests of the processor itself.  What a register holds is the set of its *)
(* bits that are one.  A register may have a bit that is stuck.            *)
(*                                                                         *)
(* A call is one step: the registers are the processor's own, and whoever  *)
(* interrupts the test saves and restores them.                            *)
(***************************************************************************)
EXTENDS Integers, Sequences

CONSTANTS Bits,         \* the bits of a register
          ProgramValue  \* what the program has in its registers

CpuAssumption == ProgramValue \subseteq Bits /\ Bits # {}

VARIABLES
  regs,           \* [register -> what it holds]
  stuck,          \* the bit that is stuck, or Sound
  sanityTestRan,  \* m_SanityTestRan
  testState,      \* the state of the registers test
  stuckAtStart,   \* what was stuck when the loop of the registers test began
  error           \* OS_Assert was called

vars == <<regs, stuck, sanityTestRan, testState, stuckAtStart, error>>

\* The registers by the routine that tests them; BlackfinDiagRegTestPattern in
\* the order of its comparisons.
SanityRegs == <<"R0", "R1", "R2", "P0">>
PatternRegs ==
  <<"R7", "R6", "R5", "R4", "R3">> \o <<"P1", "P2", "P3", "P4", "P5">> \o
  <<"M0", "M1", "M2", "M3", "L0", "L1", "L2", "L3">> \o
  <<"I0", "I1", "I2", "I3", "B0", "B1", "B2", "B3">> \o <<"A0", "A1">>
Regs == {SanityRegs[i] : i \in DOMAIN SanityRegs} \cup {PatternRegs[i] : i \in DOMAIN PatternRegs}

\* The register a value is moved to, for the comparison with R0.
MovedTo(r) ==
  CASE r \in {"M0", "L0", "I0", "B0", "P1", "A0", "A1"} -> "R3"
    [] r \in {"M1", "L1", "I1", "B1", "P2"} -> "R4"
    [] r \in {"M2", "L2", "I2", "B2", "P3"} -> "R5"
    [] r \in {"M3", "L3", "I3", "B3", "P4"} -> "R6"
    [] r = "P5" -> "R7"
    [] OTHER -> r

Sound == [reg |-> "none", bit |-> 0, at |-> 0]
Faults == [reg : Regs, bit : Bits, at : {0, 1}]

\* What register r holds when v was written to it, with the fault f.
Holds(f, r, v) ==
  IF r # f.reg THEN v ELSE IF f.at = 1 THEN v \cup {f.bit} ELSE v \ {f.bit}
Stored(r, v) == Holds(stuck, r, v)

Init ==
  /\ regs = [r \in Regs |-> ProgramValue]
  /\ stuck = Sound /\ stuckAtStart = Sound
  /\ sanityTestRan = FALSE /\ testState = "TEST_IDLE" /\ error = FALSE

RegisterFails ==
  /\ stuck = Sound /\ ~error
  /\ stuck' \in Faults
  /\ regs' = [r \in Regs |-> Holds(stuck', r, regs[r])]
  /\ UNCHANGED <<sanityTestRan, testState, stuckAtStart, error>>

\* _BlackfinSanityChkPattern: a register does not hold what was copied to it.
SanityChkPatternFails(pattern) ==
  LET r0 == Stored("R0", pattern)
      r1 == Stored("R1", r0)
      r2 == Stored("R2", r0)
  IN r0 # r1 \/ r0 # r2 \/ r1 # r2 \/ r0 # Stored("R1", Stored("P0", r0))

\* A register does not show what R0 holds, when R0 was copied to it and it is
\* moved to where it is compared.
IsWrong(r, r0) == Stored(MovedTo(r), Stored(r, r0)) # r0

\* Mutant: the last register of the list is not compared.
RegTestPatternFailsButLast(pattern) ==
  \E i \in DOMAIN PatternRegs \ {Len(PatternRegs)} : IsWrong(PatternRegs[i], Stored("R0", pattern))

\* _BlackfinDiagRegTestPattern: a register is wrong, or R1, which the low bytes of
\* the accumulators are compared with.
RegTestPatternFails(pattern) ==
  \/ \E i \in DOMAIN PatternRegs : IsWrong(PatternRegs[i], Stored("R0", pattern))
  \/ Stored("R1", Stored("R0", pattern)) # Stored("R0", pattern)

\* _BlackfinDiagRegSanityChk and _BlackfinDiagRegChk: all ones, and then, if the
\* zero returned in R0 equals the zero in R1, all zeros.  The caller takes R0 for
\* an error if it is not zero.
ReturnsError(failsOnes, failsZeros) ==
  LET zero == Stored("R0", {})
  IN failsOnes \/ zero # {} \/ (zero = Stored("R1", {}) /\ failsZeros)

\* Registers a test has left its own values in; _BlackfinDiagRegChk pushes all it
\* writes but these, and pops them in the reverse order.
Clobbered(used) == [r \in Regs |-> IF r \in used THEN Stored(r, {}) ELSE regs[r]]

StartsLoop == testState \in {"TEST_LOOP_COMPLETE", "TEST_IDLE"}

\* RunTest of the registers test, first iteration of a loop.
SanityIteration ==
  /\ ~error
  /\ StartsLoop \/ ~sanityTestRan
  /\ stuckAtStart' = IF StartsLoop THEN stuck ELSE stuckAtStart
  /\ sanityTestRan' = TRUE
  /\ error' = ReturnsError(SanityChkPatternFails(Bits), SanityChkPatternFails({}))
  /\ testState' = IF error' THEN testState ELSE "TEST_IN_PROGRESS"
  /\ regs' = Clobbered({"R0", "R1", "R2", "P0"})
  /\ UNCHANGED stuck

\* The second one, which completes the loop.
RegisterIteration ==
  /\ ~error
  /\ ~StartsLoop /\ sanityTestRan
  /\ error' = ReturnsError(RegTestPatternFails(Bits), RegTestPatternFails({}))
  /\ testState' = IF error' THEN testState ELSE "TEST_LOOP_COMPLETE"
  /\ regs' = Clobbered({"R0", "R1", "R2"})
  /\ UNCHANGED <<stuck, sanityTestRan, stuckAtStart>>

\* RunTest of the instructions test, for instructions that work: the routine
\* leaves values of its own in the registers it computes with.
InstructionsTest ==
  /\ ~error
  /\ regs' = Clobbered({"R0", "R1", "R2", "R3", "R4", "P1"})
  /\ UNCHANGED <<stuck, sanityTestRan, testState, stuckAtStart, error>>

Next == RegisterFails \/ SanityIteration \/ RegisterIteration \/ InstructionsTest

Spec == Init /\ [][Next]_vars

-----------------------------------------------------------------------------
\* The two faults no loop finds.  R0 carries the pattern, so that a bit it lacks
\* is expected of no other register; a bit R1 always has makes the routines
\* return, without an error, before they try all zeros.
IsHidden(f) == (f.reg = "R0" /\ f.at = 0) \/ (f.reg = "R1" /\ f.at = 1)

\* A loop of the registers test never completes with a bit stuck, in any register
\* it is for, that was stuck when the loop began: the purpose of both routines.
StuckBitOutlivesNoLoop ==
  (testState = "TEST_LOOP_COMPLETE" /\ ~error) => stuckAtStart = Sound \/ IsHidden(stuckAtStart)

=============================================================================
