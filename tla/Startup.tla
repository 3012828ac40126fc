-------------------------------- MODULE Startup --------------------------------
(***************************************************************************)
(* The start of the system and its end: main with os_InitData, OS_Assert   *)
(* and OS_WatchdogIsr (Os_iotk.c), Apex_Init and Apex_Boot with the tests  *)
(* of the ASIC (Apex.c), User_Init and the head of User_NullProcess        *)
(* (User.c).  The start stops at the first thing that is wrong, and hands  *)
(* over to the interrupts only at its end.                                 *)
(*                                                                         *)
(* A byte or a register is the set of its bits that are 1.  What is wrong  *)
(* with the ASIC is in board, for good; it may lock the bus at any time,   *)
(* and then whoever reads it hangs until the watchdog of the processor     *)
(* expires.  The ASIC, the flash, the heap and the objects User_Init       *)
(* initialises are external.                                               *)
(***************************************************************************)
EXTENDS Naturals

CONSTANTS
  Boards,       \* the boards the program may find itself on
  HeapSizes,    \* words of the heap of the operating system
  QueueSizes,   \* QueueSizes[q]: MSG_Q_SIZE, INPUT_Q_SIZE
  StackSpaces,  \* words of stack space
  TaskStacks,   \* TaskStacks[t]: NULL_STACK_SIZE, MSG_STACK_SIZE, INPUT_STACK_SIZE
  RamSize,      \* APEX_RAM_SIZE
  Width,        \* bits of a USINT
  BootPolls     \* APEX_BOOT_TIME / 100000

Bits      == 0..(Width - 1)
Addresses == 0..(RamSize - 1)

\* What may be wrong with a register or with the memory of the ASIC: a bit, two bits,
\* or a cell that is selected as another one.
Faults ==
  {f \in [kind : {"none", "stuck at 0", "stuck at 1", "bridged", "aliased"},
          bit : Bits, other : Bits, cell : Addresses, to : Addresses] :
     f.kind = "aliased" => f.cell # f.to}

ASSUME StartupAssumption ==
  /\ \A b \in Boards : b.register \in Faults /\ b.memory \in Faults
                      /\ b.acksAfter \in Nat /\ b.faultsAfter \in Nat
  /\ HeapSizes \subseteq Nat /\ StackSpaces \subseteq Nat
  /\ QueueSizes \in [{"message", "input"} -> Nat]
  /\ TaskStacks \in [{"null", "message", "input"} -> Nat]
  /\ RamSize \in Nat \ {0} /\ Width \in Nat \ {0} /\ BootPolls \in Nat \ {0}

VARIABLES
  stage,         \* what the program does next
  board,         \* what it runs on
  releaseBuild,  \* RELEASE_BUILD
  heap,          \* words left on the heap, 0 if heap_lookup finds none
  queueBodies,   \* the queues with a q_body
  emptySize,     \* stack.empty_size
  tasks,         \* the tasks that were created
  handlers,      \* register_handler_ex was called
  vectors,       \* the tables of the ASIC's vectors are set
  currentProc,   \* current_proc is set
  imask,         \* the events enabled in the core
  sicImask,      \* the interrupts of port G let through to the core
  latched,       \* the events that wait to be served
  cells,         \* apex_MemoryTest: the cells of the ASIC's memory
  lastValue,
  nextValue,
  polls,         \* Apex_Boot: i
  watchdogRuns,  \* the watchdog of the processor
  busLocked,     \* the ASIC locks the bus
  dspErrorNum,   \* header.dsp_error_num
  crashLog       \* the errors in the crash log

setup   == <<heap, queueBodies, emptySize, tasks, handlers, vectors, currentProc>>
ram     == <<cells, lastValue, nextValue>>
fixed   == <<board, releaseBuild>>
crash   == <<dspErrorNum, crashLog>>
events  == <<imask, sicImask, latched>>
vars    == <<stage, fixed, setup, events, ram, polls, watchdogRuns, busLocked, crash>>

OS_INTERRUPTS == {"reschedule", "cba", "cbb"}

Cleared == [c \in Addresses |-> {}]

Init ==
  /\ stage = "main"
  /\ board \in Boards /\ releaseBuild \in BOOLEAN
  /\ heap \in HeapSizes /\ emptySize \in StackSpaces
  /\ queueBodies = {} /\ tasks = {}
  /\ handlers = FALSE /\ vectors = FALSE /\ currentProc = FALSE
  /\ imask = {} /\ sicImask \in {{}, {"cba", "cbb"}} /\ latched = {}
  /\ cells = Cleared /\ lastValue = {} /\ nextValue = {0}
  /\ polls = 0
  /\ watchdogRuns = FALSE /\ busLocked = FALSE
  /\ dspErrorNum = "none" /\ crashLog = {}

(***************************************************************************)
(* What a step does next: go on, assert, or hang on the bus of the ASIC.   *)
(***************************************************************************)
At(s) == stage = s

ReachesApex == ~busLocked

GoOn(s) == stage' = s /\ UNCHANGED <<dspErrorNum, imask>>

OS_Assert(error) ==
  /\ stage' = "assert"
  /\ dspErrorNum' = error
  /\ imask' = {}

GoOnIf(ok, s, error) == IF ok THEN GoOn(s) ELSE OS_Assert(error)

(***************************************************************************)
(* os_InitData, OS_CreateQueue and OS_CreateTask.                          *)
(***************************************************************************)
InitData ==
  /\ At("main")
  /\ handlers' = (heap > 0)
  /\ sicImask' = IF heap > 0 THEN {} ELSE sicImask
  /\ GoOnIf(heap > 0, "message queue", "INITDATA")
  /\ UNCHANGED <<fixed, heap, queueBodies, emptySize, tasks, vectors, currentProc, latched,
                 ram, polls, watchdogRuns, busLocked, crashLog>>

HasMemory(q) == QueueSizes[q] <= heap

CreateQueue(q) ==
  /\ queueBodies' = IF HasMemory(q) THEN queueBodies \cup {q} ELSE queueBodies
  /\ heap' = IF HasMemory(q) THEN heap - QueueSizes[q] ELSE heap

\* What OS_CreateQueue returns is dropped.
CreateMessageQueue ==
  /\ At("message queue")
  /\ CreateQueue("message")
  /\ GoOn("null task")
  /\ UNCHANGED <<fixed, emptySize, tasks, handlers, vectors, currentProc, sicImask, latched,
                 ram, polls, watchdogRuns, busLocked, crashLog>>

HasStack(t) == TaskStacks[t] <= emptySize

CreateTask(t) ==
  /\ tasks' = IF HasStack(t) THEN tasks \cup {t} ELSE tasks
  /\ emptySize' = IF HasStack(t) THEN emptySize - TaskStacks[t] ELSE emptySize

\* Mutant: the list of processes is left with interrupts enabled.
EnabledAfterInsertion == OS_INTERRUPTS

\* sti(Critical)
EnabledAgain == imask

\* The second is created though the first could not be; either error stops the start.
CreateNullTask ==
  /\ At("null task")
  /\ CreateTask("null")
  /\ stage' = "message task"
  /\ imask' = IF HasStack("null") THEN EnabledAgain ELSE imask
  /\ UNCHANGED <<fixed, heap, queueBodies, handlers, vectors, currentProc, sicImask, latched,
                 ram, polls, watchdogRuns, busLocked, crash>>

CreateMessageTask ==
  /\ At("message task")
  /\ CreateTask("message")
  /\ IF "null" \in tasks /\ HasStack("message")
     THEN stage' = "reset apex" /\ imask' = EnabledAgain /\ UNCHANGED dspErrorNum
     ELSE OS_Assert("INITDATA")
  /\ UNCHANGED <<fixed, heap, queueBodies, handlers, vectors, currentProc, sicImask, latched,
                 ram, polls, watchdogRuns, busLocked, crashLog>>

(***************************************************************************)
(* Apex_Init.                                                              *)
(***************************************************************************)
ResetApex ==
  /\ At("reset apex") /\ ReachesApex
  /\ GoOnIf(board.resetPullsFault /\ ~board.faulted, "register test", "APEXINIT")
  /\ UNCHANGED <<fixed, setup, sicImask, latched, ram, polls, watchdogRuns, busLocked, crashLog>>

\* What is read of a cell or a register of the ASIC that holds v.
Seen(fault, v) ==
  CASE fault.kind = "stuck at 1" -> v \cup {fault.bit}
    [] fault.kind = "stuck at 0" -> v \ {fault.bit}
    [] fault.kind = "bridged" /\ {fault.bit, fault.other} \cap v # {} ->
         v \cup {fault.bit, fault.other}
    [] OTHER -> v

\* 0x5555, 0xAAAA and 0.
RegisterPatterns == {{b \in Bits : b % 2 = 0}, {b \in Bits : b % 2 = 1}, {}}

\* apex_PreTest looks at the revision, then apex_RegisterTest writes and reads a register.
TestRegister ==
  /\ At("register test") /\ ReachesApex
  /\ GoOnIf(board.revision /\ \A v \in RegisterPatterns : Seen(board.register, v) = v,
            "memory test", "APEXINIT")
  /\ cells' = Cleared /\ lastValue' = {} /\ nextValue' = {0}
  /\ UNCHANGED <<fixed, setup, sicImask, latched, polls, watchdogRuns, busLocked, crashLog>>

\* The cell an address selects.
CellOf(a) == IF board.memory.kind = "aliased" /\ a = board.memory.cell THEN board.memory.to ELSE a

\* What the walk reads of a cell.
ReadCell(c, v) == IF c = board.memory.cell THEN Seen(board.memory, v) ELSE v

\* Mutant: the walk stops at the last address, before it looks there.
TestedButLast == RamSize - 1

\* size--
Tested == RamSize

\* What the cell of an address holds when the walk gets there: nextValue, if an address
\* before it selects the same cell.
Held(a) ==
  IF \E b \in 0..(a - 1) : CellOf(b) = CellOf(a) THEN nextValue ELSE cells[CellOf(a)]

\* Every address the walk gets to is read as lastValue ...
WalkIsOk == \A a \in 0..(Tested - 1) : ReadCell(CellOf(a), Held(a)) = lastValue

\* ... and written with nextValue.
Walked ==
  [c \in Addresses |-> IF \E a \in 0..(Tested - 1) : CellOf(a) = c THEN nextValue ELSE cells[c]]

\* nextValue << 1
Shifted(v) == {b + 1 : b \in v} \cap Bits

\* apex_MemoryTest, one round of the do loop: ones enter at the bottom until the top
\* bit is reached, then zeros, until the byte is empty again.
TestMemory ==
  /\ At("memory test") /\ ReachesApex
  /\ cells' = Walked
  /\ lastValue' = nextValue
  /\ nextValue' = IF Width - 1 \in nextValue THEN Shifted(nextValue)
                  ELSE Shifted(nextValue) \cup {0}
  /\ GoOnIf(WalkIsOk, IF nextValue = {} THEN "interrupt test" ELSE "memory test", "APEXINIT")
  /\ UNCHANGED <<fixed, setup, sicImask, latched, polls, watchdogRuns, busLocked, crashLog>>

\* apex_InterruptTest: no response, one on A, none, one on B, none.  Then the memory is
\* cleared and the vectors are set.
TestInterrupts ==
  /\ At("interrupt test") /\ ReachesApex
  /\ LET ok == \A responses \in {{}, {"cba"}, {"cbb"}} : board.lines[responses] = responses
     IN /\ GoOnIf(ok, "start watchdog", "APEXINIT")
        /\ vectors' = ok
  /\ cells' = Cleared /\ UNCHANGED <<lastValue, nextValue>>
  /\ UNCHANGED <<fixed, heap, queueBodies, emptySize, tasks, handlers, currentProc, sicImask,
                 latched, polls, watchdogRuns, busLocked, crashLog>>

(***************************************************************************)
(* Apex_WatchdogInit, the fault latch and User_Init.                       *)
(***************************************************************************)
StartWatchdog ==
  /\ At("start watchdog") /\ (releaseBuild => ReachesApex)
  /\ watchdogRuns' = releaseBuild
  /\ GoOn("user init")
  /\ UNCHANGED <<fixed, setup, sicImask, latched, ram, polls, busLocked, crashLog>>

\* The queue and the task of the application, and its objects, which may put messages
\* to queues: a reschedule is raised then.
UserInit ==
  /\ At("user init") /\ ReachesApex
  /\ CreateQueue("input") /\ CreateTask("input")
  /\ \E objectsOk \in BOOLEAN :
       GoOnIf(HasMemory("input") /\ HasStack("input") /\ objectsOk, "boot", "USERINIT")
  /\ latched' \in {latched, latched \cup {"reschedule"}}
  /\ UNCHANGED <<fixed, handlers, vectors, currentProc, sicImask, ram, polls, watchdogRuns,
                 busLocked, crashLog>>

(***************************************************************************)
(* Apex_Boot.                                                              *)
(***************************************************************************)
\* The code is copied and the ASIC is told.
BootApex ==
  /\ At("boot") /\ ReachesApex
  /\ polls' = BootPolls
  /\ GoOn("wait for apex")
  /\ UNCHANGED <<fixed, setup, sicImask, latched, ram, watchdogRuns, busLocked, crashLog>>

\* What the ASIC does takes it so many delays.
HasHappened(delays) == delays <= BootPolls - polls + 1

\* --i
PollsLeft == polls - 1

\* One round of the do loop: delay, kick, look for a fault, then for the ack.
WaitForApex ==
  /\ At("wait for apex") /\ ReachesApex
  /\ \/ /\ HasHappened(board.faultsAfter)
        /\ OS_Assert("APEXBOOT") /\ UNCHANGED polls
     \/ /\ ~HasHappened(board.faultsAfter) /\ HasHappened(board.acksAfter)
        /\ GoOn("post test") /\ UNCHANGED polls
     \/ /\ ~HasHappened(board.faultsAfter) /\ ~HasHappened(board.acksAfter)
        /\ polls' = PollsLeft
        /\ GoOnIf(PollsLeft > 0, "wait for apex", "APEXBOOT")
  /\ UNCHANGED <<fixed, setup, sicImask, latched, ram, watchdogRuns, busLocked, crashLog>>

\* apex_PostTest; then the channels of the ASIC are enabled.
PostTest ==
  /\ At("post test") /\ ReachesApex
  /\ GoOnIf(board.firmware, "kick watchdog", "APEXBOOT")
  /\ UNCHANGED <<fixed, setup, sicImask, latched, ram, polls, watchdogRuns, busLocked, crashLog>>

(***************************************************************************)
(* The end of main, and User_NullProcess up to its loop.                   *)
(***************************************************************************)
\* Apex_WatchdogKick: the fault line is looked at if the watchdog is enabled.
KickWatchdog(s) ==
  /\ ReachesApex
  /\ GoOn(s) \/ (watchdogRuns /\ OS_Assert("APEXFAULT"))
  /\ UNCHANGED <<fixed, setup, sicImask, latched, ram, polls, watchdogRuns, busLocked, crashLog>>

FirstKick == At("kick watchdog") /\ KickWatchdog("enable port G")

EnablePortG ==
  /\ At("enable port G")
  /\ sicImask' = {"cba", "cbb"}
  /\ currentProc' = TRUE
  /\ GoOn("null process")
  /\ UNCHANGED <<fixed, heap, queueBodies, emptySize, tasks, handlers, vectors, latched, ram,
                 polls, watchdogRuns, busLocked, crashLog>>

\* sti(OS_INTERRUPTS) and RESCHEDULE.
EnableInterrupts ==
  /\ At("null process")
  /\ imask' = OS_INTERRUPTS
  /\ latched' = latched \cup {"reschedule"}
  /\ stage' = "arm watchdog"
  /\ UNCHANGED <<fixed, setup, sicImask, ram, polls, watchdogRuns, busLocked, crash>>

ArmWatchdog == At("arm watchdog") /\ KickWatchdog("null loop")

\* An event is let through to its handler.
IsServed(e) == e \in imask /\ (e \in {"cba", "cbb"} => e \in sicImask)

Serve(e) ==
  /\ e \in latched /\ IsServed(e)
  /\ latched' = latched \ {e}
  /\ UNCHANGED <<stage, fixed, setup, imask, sicImask, ram, polls, watchdogRuns, busLocked, crash>>

(***************************************************************************)
(* The end: _OS_Assert and OS_WatchdogIsr.                                 *)
(***************************************************************************)
\* Mutant: the parameters of the ASIC are read after every error.
AllErrors == {"INITDATA", "APEXINIT", "USERINIT", "APEXBOOT", "APEXFAULT", "WDOG"}

\* error_num != OS_ASSERT_WDOG
ErrorsThatReadApex == {"INITDATA", "APEXINIT", "USERINIT", "APEXBOOT", "APEXFAULT"}

\* The crash info is collected and written to flash.
WriteCrashLog ==
  /\ At("assert")
  /\ dspErrorNum \in ErrorsThatReadApex => ReachesApex
  /\ crashLog' = crashLog \cup {dspErrorNum}
  /\ stage' = "fault"
  /\ UNCHANGED <<fixed, setup, events, ram, polls, watchdogRuns, busLocked, dspErrorNum>>

\* FAULT, the manual reset of a release build, and the loop without end.
Stop ==
  /\ At("fault")
  /\ stage' = "stopped"
  /\ UNCHANGED <<fixed, setup, events, ram, polls, watchdogRuns, busLocked, crash>>

\* The program is at a step that reads the ASIC, which does not answer.
Hangs ==
  /\ busLocked
  /\ stage \notin {"main", "message queue", "null task", "message task", "enable port G",
                   "null process", "fault", "stopped"}
  /\ At("start watchdog") => releaseBuild
  /\ At("assert") => dspErrorNum \in ErrorsThatReadApex

\* The processor is reset, which stops its watchdog, and the reset vector leads to
\* OS_WatchdogIsr.
WatchdogExpires ==
  /\ Hangs /\ watchdogRuns
  /\ watchdogRuns' = FALSE
  /\ OS_Assert("WDOG")
  /\ UNCHANGED <<fixed, setup, sicImask, latched, ram, polls, busLocked, crashLog>>

(***************************************************************************)
(* The ASIC.                                                               *)
(***************************************************************************)
LockBus ==
  /\ ~busLocked /\ stage # "stopped"
  /\ busLocked' = TRUE
  /\ UNCHANGED <<stage, fixed, setup, events, ram, polls, watchdogRuns, crash>>

\* It toggles its lines when it is reset, and responds when it runs.
RaiseInterrupt(e) ==
  /\ stage \in {"register test", "wait for apex", "null loop"}
  /\ latched' = latched \cup {e}
  /\ UNCHANGED <<stage, fixed, setup, imask, sicImask, ram, polls, watchdogRuns, busLocked, crash>>

Program ==
  \/ InitData \/ CreateMessageQueue \/ CreateNullTask \/ CreateMessageTask
  \/ ResetApex \/ TestRegister \/ TestMemory \/ TestInterrupts
  \/ StartWatchdog \/ UserInit \/ BootApex \/ WaitForApex \/ PostTest
  \/ FirstKick \/ EnablePortG \/ EnableInterrupts \/ ArmWatchdog
  \/ WriteCrashLog \/ Stop

Next ==
  \/ Program \/ WatchdogExpires \/ LockBus
  \/ \E e \in OS_INTERRUPTS : Serve(e)
  \/ \E e \in {"cba", "cbb"} : RaiseInterrupt(e)

Spec == Init /\ [][Next]_vars

\* The program gets on, and a watchdog nobody kicks expires.
FairSpec == Spec /\ WF_vars(Program) /\ WF_vars(WatchdogExpires)

-----------------------------------------------------------------------------
IsSound(fault) == \A v \in SUBSET Bits : Seen(fault, v) = v

\* Two bits of a register that both patterns set or clear together.
IsHiddenBridge(fault) == fault.kind = "bridged" /\ fault.bit % 2 = fault.other % 2

\* The background task is reached only on a board whose ASIC is of the right revision,
\* stores every byte at an address of its own, has its interrupts on the right lines,
\* and runs the right firmware in time; and with every task created.  A bridge between
\* bits of the same parity in the tested register is all that stays hidden.
StartedSystemIsSound ==
  stage \in {"null process", "arm watchdog", "null loop"} =>
    /\ board.revision /\ board.firmware
    /\ board.memory.kind # "aliased" /\ IsSound(board.memory)
    /\ IsSound(board.register) \/ IsHiddenBridge(board.register)
    /\ \A responses \in {{}, {"cba"}, {"cbb"}} : board.lines[responses] = responses
    /\ board.acksAfter <= BootPolls /\ board.acksAfter < board.faultsAfter
    /\ tasks = DOMAIN TaskStacks

\* Nothing is let through to a handler before the handlers, the vectors and a current
\* process for the scheduler are there, whatever main's callees do with interrupts.
NothingIsServedUnprepared ==
  \A e \in OS_INTERRUPTS : IsServed(e) => handlers /\ vectors /\ currentProc

\* "One reason for watchdog is Apex bus lockup so don't try to access Apex memory or we
\* might lockup again": every assertion gets into the crash log, or the watchdog's
\* does if the ASIC locks the bus meanwhile.
EveryCrashIsLogged ==
  stage = "assert" ~> crashLog # {} \/ (Hangs /\ ~watchdogRuns /\ dspErrorNum # "WDOG")

\* "Initialize message queue": a system that starts has its queues.
StartedSystemHasItsQueues ==
  stage \in {"null process", "arm watchdog", "null loop"} => queueBodies = DOMAIN QueueSizes
=============================================================================
