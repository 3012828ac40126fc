---------------------------- MODULE InstructionRam ----------------------------
(***************************************************************************)
(* The test of the instruction RAM (BlackfinDiagInstructionRam.cpp).  Each *)
(* call of RunTest reads one buffer of instruction memory by DMA and       *)
(* compares it with what the boot stream says was loaded there.  A loop    *)
(* walks over the headers of the boot stream and, buffer by buffer, over   *)
(* the blocks that go to instruction memory.                               *)
(*                                                                         *)
(* An address is a byte of a region, where a region is the third hex digit *)
(* of an address in L1 memory: 0xFFA..... is instruction memory.  The      *)
(* sizes are scaled down.  What is in flash where no header is lacks the   *)
(* signature of a header.  DMA always delivers: its time-out is left out.  *)
(***************************************************************************)
EXTENDS Integers, FiniteSets

CONSTANTS
  Streams,     \* the boot streams that may be in flash: functions from the offset of a
               \* header to what the header says
  WordSize,    \* sizeof(UDINT)
  HeaderSize,  \* sizeof(ADI_BOOT_HEADER)
  DMA_BFR_SZ,
  MaxFaults    \* a bound: bytes of memory that fail

Regions == {"8", "9", "a", "b"}

Block ==
  [signed : BOOLEAN, final : BOOLEAN, fill : BOOLEAN, region : Regions, base : Nat,
   count : Nat]

InstructionRamAssumption ==
  /\ \A s \in Streams : s \in [DOMAIN s -> Block] /\ DOMAIN s \subseteq Nat
  \* What the loader makes: one header after the data of the other, the final one last.
  /\ \A s \in Streams :
       /\ \E last \in DOMAIN s : \A o \in DOMAIN s : o <= last
       /\ \A o, p \in DOMAIN s : o < p =>
            ~s[o].final /\ o + HeaderSize + (IF s[o].fill THEN 0 ELSE s[o].count) <= p
  /\ WordSize \in Nat \ {0} /\ HeaderSize \in Nat \ {0} /\ DMA_BFR_SZ \in Nat \ {0}
  /\ MaxFaults \in Nat

VARIABLES
  stream,     \* what m_pBootStreamStartAddr points to
  faulty,     \* bytes of memory that differ from what was loaded
  testState,  \* m_CurrentTestState; after "TEST_FAILURE" or OS_Assert the scheduler
              \* halts the program
  header,     \* m_HeaderOffset
  bfrOffset,  \* m_CurrentBfrOffset
  errorCode,  \* the kind and the address in rErrorCode
  oldFaults   \* history: faulty when this loop started

params  == <<header, bfrOffset>>
history == <<oldFaults>>
vars    == <<stream, faulty, testState, header, bfrOffset, errorCode, oldFaults>>

NoError == <<"none">>
NoBlock == [signed |-> FALSE, final |-> FALSE, fill |-> FALSE, region |-> "8",
            base |-> 0, count |-> 0]

\* The header at an offset of the stream.
HeaderAt(o) == IF o \in DOMAIN stream THEN stream[o] ELSE NoBlock

\* The n bytes of block b from o on.
Bytes(b, o, n) == {<<b.region, b.base + i>> : i \in o..(o + n - 1)}

Init ==
  /\ stream \in Streams
  /\ faulty = {}
  /\ testState = "TEST_IDLE"
  /\ header = 0 /\ bfrOffset = 0
  /\ errorCode = NoError
  /\ oldFaults = {}

\* A byte of memory fails or is overwritten.
RamFails(a) ==
  /\ a \notin faulty /\ Cardinality(faulty) < MaxFaults
  /\ faulty' = faulty \cup {a}
  /\ UNCHANGED <<stream, testState, params, errorCode, history>>

\* The address masked by 0xffa00000 equals the mask.
IsAddrLocatedInInstrctnMmry(b) == b.region \in {"a", "b"}

IsToBeTested(b) == IsAddrLocatedInInstrctnMmry(b) /\ b.count > 0

(***************************************************************************)
(* The two walks over the headers, as the code's loops.                    *)
(***************************************************************************)
\* Mutant: a fill block is taken to have data of its own.
FollowPastFill(o) == o + HeaderSize + HeaderAt(o).count

\* The next header: the data of a block follow its header, unless the block is
\* filled with one word.
Follow(o) == o + HeaderSize + IF HeaderAt(o).fill THEN 0 ELSE HeaderAt(o).count

NotFound == -1

\* The loop of StartEnumeratingInstructionBootStreamHeaders.
StartAt[o \in Nat] ==
  IF o % WordSize # 0 \/ ~HeaderAt(o).signed THEN NotFound
  ELSE IF IsToBeTested(HeaderAt(o)) THEN o
  ELSE IF HeaderAt(o).final THEN NotFound
  ELSE StartAt[Follow(o)]

FirstHeader == StartAt[0]

\* The loop of EnumerateNextInstructionBootStreamHeader.
EnumerateAt[o \in Nat] ==
  IF ~HeaderAt(o).signed \/ HeaderAt(o).final \/ IsToBeTested(HeaderAt(o)) THEN o
  ELSE EnumerateAt[Follow(o)]

NextHeader(o) == EnumerateAt[Follow(o)]

(***************************************************************************)
(* RunTest.                                                                *)
(***************************************************************************)
Halted == testState = "TEST_FAILURE"

NewLoop == testState \in {"TEST_IDLE", "TEST_LOOP_COMPLETE"}

\* ConfigureForNextTestCycle finds nothing to test and asserts.
CannotStart ==
  /\ NewLoop /\ FirstHeader = NotFound
  /\ testState' = "TEST_FAILURE"
  /\ errorCode' = <<"UNABLE_TO_START_ERR">>
  /\ header' = 0 /\ bfrOffset' = 0
  /\ UNCHANGED <<stream, faulty, history>>

\* RunTest reads at the first block of a new loop, or where it left off.
CanRead    == ~Halted /\ ~(NewLoop /\ FirstHeader = NotFound)
ReadHeader == IF NewLoop THEN FirstHeader ELSE header
ReadOffset == IF NewLoop THEN 0 ELSE bfrOffset
ReadBlock  == HeaderAt(ReadHeader)

IsPartialRead == ReadBlock.count <= ReadOffset + DMA_BFR_SZ

NmbrOfBytesInBuffer == IF IsPartialRead THEN ReadBlock.count - ReadOffset ELSE DMA_BFR_SZ

\* The transfer, which always fills the buffer: what lies behind a block is read too.
DmaXferMDMA0 == Bytes(ReadBlock, ReadOffset, DMA_BFR_SZ)

\* CompareInstructMemToBootStream looks at m_NmbrOfBytesInBuffer of it.
Compared == DmaXferMDMA0 \cap Bytes(ReadBlock, ReadOffset, NmbrOfBytesInBuffer)

Matches == Compared \cap faulty = {}

\* m_pReadFromAddr, to which the error code adds m_CurrentBfrOffset once more.
ReadFromAddr == ReadBlock.base + ReadOffset

Mismatch == <<"MISMATCH_ERR", ReadBlock.region, ReadFromAddr + ReadOffset>>

\* What every iteration has in common.
Compare ==
  /\ CanRead
  /\ oldFaults' = IF NewLoop THEN faulty ELSE oldFaults
  /\ UNCHANGED <<stream, faulty>>

Judge ==
  /\ testState' = IF Matches THEN "TEST_IN_PROGRESS" ELSE "TEST_FAILURE"
  /\ errorCode' = IF Matches THEN errorCode ELSE Mismatch

\* Mutant: the place in the block stands still.
SameBuffer == ReadOffset

\* m_CurrentBfrOffset += DMA_BFR_SZ.
NextBuffer == ReadOffset + DMA_BFR_SZ

\* There is more of the block to read.
ReadBuffer ==
  /\ Compare /\ ~IsPartialRead
  /\ Judge
  /\ header' = ReadHeader
  /\ bfrOffset' = NextBuffer

\* m_CurrentBfrOffset = 0.
FirstOffset == 0

\* The block is read to its end, and the walk goes on to another header:
EndBlock ==
  /\ Compare /\ IsPartialRead
  /\ header' = NextHeader(ReadHeader)
  /\ bfrOffset' = FirstOffset

\* that of another block to test,
ReadLastBuffer ==
  /\ EndBlock
  /\ HeaderAt(header').signed /\ ~HeaderAt(header').final
  /\ Judge

\* the final one of the stream, which overrules the comparison,
CompleteLoop ==
  /\ EndBlock
  /\ HeaderAt(header').signed /\ HeaderAt(header').final
  /\ testState' = "TEST_LOOP_COMPLETE"
  /\ errorCode' = IF Matches THEN errorCode ELSE Mismatch

\* or something that is not a header, which overrules it too.
FindBadBootStream ==
  /\ EndBlock
  /\ ~HeaderAt(header').signed
  /\ testState' = "TEST_FAILURE"
  /\ errorCode' = <<"BAD_BOOTSTREAM_ERR">>

RunTest ==
  CannotStart \/ ReadBuffer \/ ReadLastBuffer \/ CompleteLoop \/ FindBadBootStream

Next ==
  \/ RunTest
  \/ \E i \in DOMAIN stream : \E a \in Bytes(stream[i], 0, stream[i].count) : RamFails(a)

Spec == Init /\ [][Next]_vars

\* The scheduler runs every test again and again until one fails.
FairSpec == Spec /\ WF_vars(RunTest)

-----------------------------------------------------------------------------
\* The blocks a loop is to test: those in instruction memory, before the final
\* block.
Tested ==
  {i \in DOMAIN stream : stream[i].region = "a" /\ ~stream[i].final}

BytesTested == UNION {Bytes(stream[i], 0, stream[i].count) : i \in Tested}

\* The bytes of the last buffer a loop compares: a loop forgets what it found
\* there.
LastBuffer ==
  UNION {LET b == stream[i]
         IN Bytes(b, ((b.count - 1) \div DMA_BFR_SZ) * DMA_BFR_SZ, DMA_BFR_SZ)
           : i \in {j \in Tested : /\ stream[j].count > 0
                                   /\ \A k \in Tested : stream[k].count > 0 => k <= j}}

\* A loop completes only if every byte that a block before the final one loaded was
\* intact when it started, whatever the sizes of the blocks and the order of those
\* that are skipped; but for what it finds in its last buffer.
NoFaultOutlivesALoop ==
  testState = "TEST_LOOP_COMPLETE" => oldFaults \cap (BytesTested \ LastBuffer) = {}

\* The error code is made from m_pReadFromAddr, the "Address instruction RAM start
\* for Current DMA buffer": a buffer with a fault in it starts at the address.
ErrorCodeNamesAFault ==
  Halted /\ errorCode[1] = "MISMATCH_ERR" =>
    \E i \in 0..(DMA_BFR_SZ - 1) : <<errorCode[2], errorCode[3] + i>> \in faulty

\* Every loop ends, though blocks are skipped and buffers cut short.
EveryLoopEnds == testState = "TEST_IN_PROGRESS" ~> testState # "TEST_IN_PROGRESS"
=============================================================================
