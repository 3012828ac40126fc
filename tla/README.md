# Verification of the IF8I diagnostics and host firmware

This directory holds a TLA+ model of the firmware in this repository: the
run-time diagnostics of a Blackfin processor (scheduler and tests), the small
operating system they run on, the host's side of the interface to the Apex ASIC,
and the background task. TLC checks the models on small instances, TLAPS proves
all of the safety properties for every value of the constants.

`PROJECT.json` is the machine-readable side of this text: the lines of the source
every definition stands for, the properties every run checks, for every property
a mutation of the model that breaks it, and the hazards the properties are for.

## 1. Inventory

| Component | Source | State | Operations | Correct when |
|---|---|---|---|---|
| Diagnostic scheduler | `DiagnosticScheduler.*` | scheduler state, enumeration pointer, time stamps, cycle count | `RunScheduled` | every test runs its quota in every cycle and never more; no stale decision; watchdog kicked in time; an incomplete cycle stops the system |
| Test base class | `DiagnosticTesting.*` | execution data of a test | accessors, `ConfigForAnyNewDiagCycle` | counts and periods stay consistent with the loop a test is in |
| Runtime | `BlackfinDiagRuntime.*` | the static tests and scheduler | `RunDiagnostics`, time stamp, crash hook | configuration is schedulable, elapsed times right across 32 bits |
| Instruction RAM test | `BlackfinDiagInstructionRam.*` | header and buffer offset | `RunTest` by DMA buffer | a loop compares every loaded byte; the error code names the place |
| Data RAM test | `BlackfinDiagDataRam.*`, `BlackfinDataRamTestByte.s` | bytes tested of three banks | `RunTest`, `TestAByteOfRam` | invisible to the program; a loop visits every byte |
| Timer test | `BlackfinDiagTimerTest.*` | start values of two clocks | `RunTest` | accurate clocks pass, clocks that disagree do not |
| Registers test | `BlackfinDiagRegister*` | which of two iterations is next | `RunTest`, two assembler routines | a stuck bit does not outlive a loop |
| Instructions test | `BlackfinDiagInstruction*` | none | `RunTest` | straight-line code |
| OS: tasks | `Os_iotk.c` | process list, tables, stack space | `OS_CreateTask` | list in order of priority, stacks apart |
| OS: queues, scheduling | `Os_iotk.c` | process states, circular buffers, current process | `OS_GetQueue`, `OS_PutQueue`, `OS_Scheduler` | first-in first-out, no lost wakeup, first ready process runs |
| OS: start, assertion, watchdog interrupt | `Os_iotk.c` | heap, masks of events, crash log | `main`, `os_InitData`, `_OS_Assert`, `OS_WatchdogIsr` | nothing is served unprepared, every crash is logged |
| Apex: messages, host Cbs | `Apex.c` | registers, message queue, table of host Cbs | `apex_cbb_resp`, `Apex_MessageProcess`, `Apex_SendResp`, `Apex_SendRqst`, `Apex_GetHostCb` | no Cb lost, doubled or overwritten; every request answered |
| Apex: lock | `Apex.c` | two flags and a turn in shared memory | `Apex_Lock`, `Apex_TryLock`, `Apex_Unlock` | mutual exclusion, no starvation |
| Apex: time | `Apex.c` | two cached high words | `Apex_GetTime`, `Apex_UpdateTime` | exact around rollovers |
| Apex: alarms | `Apex.c` | sorted list, one comparator | `Apex_AlarmSet`, `Reset`, `Cancel`, `Trip`, `apex_Alarm` | list in order, no alarm missed |
| Apex: watchdog | `Apex.c` | counter and echo | `Apex_WatchdogKick` | resets when the ASIC stops, not before |
| Apex: port A | `Apex.c` | two registers, mask of events | `Apex_SendCons`, `Apex_SendProd`, `Apex_CbaIsr`, `apex_cba_resp` | who waits is not rescheduled, nothing stays masked |
| Apex: start | `Apex.c` | memory and registers of the ASIC | `Apex_Init`, `Apex_Boot` and their tests | the system runs on a sound board only |
| Background task | `User.c` | pending write, erase flag, success reports, locks of channels | `User_Init`, `User_NullProcess` | every calibration stored, reports shown for a second, a channel over its current is turned off |
| Electronic keys | `User.c` | | `User_ValidateKey` | a later revision accepts what the earlier one did |

How they interact. The background task has the lowest priority: it kicks the watchdog and
does the delayed flash writes; the diagnostics are meant to be called from it
(`BlackfinDiagRuntime.hpp:57`, although no call is in this repository).
`RunScheduled` calls the tests through the base class and the watchdog, time stamp
and crash through function pointers. Interrupts of the ASIC put control blocks
("Cbs") on the OS queue of the message task; `RESCHEDULE` raises the lowest
interrupt, whose handler picks the first ready process of the list. Host and ASIC
share registers, parameters and locks in memory.

What is hard: interrupts and tasks that interleave between critical sections
(queues, host Cbs, registers, flash flag), decisions by time stamps that are
older than the moment they are used, counters that span thousands of calls,
rollovers of a 32-bit time, and an ASIC that answers late or not at all.

## 2. Modules

| Module | Models | Notes |
|---|---|---|
| `DiagnosticScheduler` | the scheduler and the base class | one action per way through `RunScheduled` up to its first `RunTest`; one per `RunTest` with its bookkeeping |
| `DiagCycle` | abstract: the diagnostic cycle | tests finish one at a time, a new cycle starts when all have, a stop is final |
| `DiagnosticSchedulerProofs` | theorems on the scheduler | |
| `OsTasks` | `OS_CreateTask`, the process list, the stacks | |
| `OsKernel` | queues, blocking, rescheduling | code between `cli` and `sti` is one step |
| `MessageQueues` | abstract: bounded first-in first-out queues | |
| `OsTasksProofs`, `OsKernelProofs` | theorems on the creation of tasks and on the kernel | |
| `ApexMessaging` | port B, the message task, host Cbs | its queue is the abstract one |
| `ApexLock` | the shared lock | every access to shared memory is a step |
| `ApexTime`, `ApexAlarm`, `ApexWatchdog` | time, alarms, watchdog | |
| `ApexSharedProofs` | theorems on lock, time, alarms and watchdog | |
| `ApexPortA` | port A, who waits for it, and the mask of events | code between `cli` and `sti` is one step |
| `ApexPortsProofs` | theorems on both ports | |
| `InstructionRam`, `DataRam` | the two memory tests | |
| `TimerTest`, `CpuTests` | the tests of the clocks, of the registers and of the instructions | |
| `DiagTestsProofs` | theorems on the five tests | |
| `Startup` | `main` from its first call to the background task, assertions, the watchdog interrupt | |
| `NullProcess` | the delayed write of the calibration, the report of its success | |
| `OverCurrent` | the check for over current | |
| `ElectronicKey` | `User_ValidateKey` | |
| `StartupProofs` | theorems on the start and on what the background task does | |
| `Iteration` | lemmas: induction on numbers, functions defined by walks | used by the proofs about lists and boot streams |
| `MC*` | instances for TLC; `MCOsKernel`, `MCApexShared`, `MCApexPorts`, `MCDiagTests` and `MCStartup` compose | |

### State and actions against the code

* `DiagnosticScheduler`. The variables are the members of the class and, in
  `testData`, the `ExecuteTestData` of every test. `now` is the cycle counter in
  the unit of the periods. `control` says whether the program is outside of
  `RunScheduled` ("background"), in the loop of `DoMoreDiagnosticTesting`
  ("testing") or in `OS_Assert`. Time passes only outside of a call and while a
  test runs; the code between is taken to be instantaneous against the unit of
  milliseconds. A test is the number of iterations of its loop, and the period it
  sets for itself while in it (the timer test does).
* `OsTasks`. The nodes of `proc_table` are named by their ids, pointers are ids.
  The write past the tables for the id `MAX_PROCS` is undefined: the model stops there.
* `OsKernel`. `raised` is IVG14 waiting to run `OS_Scheduler`; `owes` is a process
  between the `sti` of `OS_PutQueue` and its `RESCHEDULE`, where interrupts can come;
  `reading` is a process inside `OS_GetQueue`. Starting over after a block is the loop
  of `OS_GetQueue`. A message is one of a small set.
* `ApexMessaging`. Registers keep their names. A wait in `Apex_SendResp` or
  `Apex_SendRqst` is a context with a timeout that counts delays; the look and the
  write are one step since both are between `cli` and `sti`. The interrupt's own send
  is a context too, during which no task runs. `Apex_GetHostCb` is two steps, the
  search and the assignment, because interrupts stay enabled. The search itself is one
  step: it is not split by entry.
* `ApexLock`. Each of the two processors is at a place in its call; the order of
  accesses is the program's (volatile, with `ssync`).
* `ApexTime`. `now` is the 64-bit time; the two registers are its words. The two reads
  of `Apex_UpdateTime` are two steps. `GetTime` is a function of the state, evaluated at
  every state: a caller may interrupt `Apex_UpdateTime` between its reads.
* `ApexAlarm`. The circular list is a sequence without its fixed head. Critical
  sections are split only where time matters: between reading the time and programming
  the comparator. A record of the list is taken off and put back in two steps by
  `Apex_AlarmReset`.
* `ApexWatchdog`. A call is one step; the counter wraps.
* `InstructionRam`. A boot stream maps offsets to headers; where none is, the signature
  is missing. Addresses are a byte of a region, the third hex digit of an address, so
  that the mask of `IsAddrLocatedInInstrctnMmry` is what it is in the code. The two loops
  over headers are recursive functions.
* `DataRam`. Each pattern's write and read back is a step, so that an interrupt could
  come between any two if it were enabled.
* `NullProcess`. Places between the statements that other tasks can see. An error of the
  flash asserts.
* `TimerTest`. The two clocks are functions of one time, each at a rate of its own. A tick
  may come between the two reads of an iteration, between the beginning of a pass
  and the test, and between passes; the scheduler's decision is the one
  `DiagnosticScheduler` makes for a single test.
* `CpuTests`. A register holds a set of bits and may have one that is stuck. Every
  comparison of the two routines is there, with the register it moves a value to. The
  instructions test has only its effect on the registers.
* `ApexPortA`. `imask` is what the last `sti` has set; a call keeps the two parts of the mask it
  has saved (`imask_working`, `imask_reschedule`). A callback of the interrupt sends at
  most one Cb. The event that reschedules has the lowest priority: it is taken when no
  interrupt runs and nothing masks it, and `OS_Scheduler` then picks any task.
* `Startup`. `stage` is the next statement of `main` or of what it calls, in their order. A
  `board` is everything that may be wrong with the hardware; it never changes, but the
  ASIC may lock its bus at any time, and then a step that reads it hangs. The memory walk
  is a function over the addresses. `latched` are interrupts that wait to be let through by
  `imask` and `sicImask`.
* `OverCurrent`. The scan of the channels is a step per channel, so that the input task can
  count between any two. Unlocking a channel is outside of `User.c` and left out, and so
  is the wrap of `rolling`, a counter that must not come back to the same value
  between two rounds of the background loop.
* `ElectronicKey`. A field of a key is a number; the bit `KEY_MUST_MATCH_MASK` of the major
  revision is a field of its own.

## 3. Runs

Seven runs pass and five show a disagreement between the code and what it says of itself.

| Run | Question | Distinct states |
|---|---|---|
| `scheduler_overload` | is every decision right whatever the timing, with late calls, incomplete cycles and failing tests? | 754 000 |
| `scheduler_deadline` | are the tests schedulable when called and run within bounds, and is the watchdog kicked in time? | 78 400 |
| `kernel` | are queues, wakeups, priorities, process list and stacks right? | 644 000 |
| `messaging` | port B: are Cbs conserved and requests answered, with a queue too small and one large enough? Port A: is who waits left alone and who is ready scheduled? | 13 800 |
| `diag_tests` | do the five tests find what they are for, leave the program alone, and end? | 390 000 |
| `startup` | does the start reach the background task only if all is well, and does the background task do its work? | 166 000 |
| `apex_shared` | lock, time, alarms and watchdog | 642 000 |
| `calibration_pending` | finding: second calibration not stored | |
| `twice_per_cycle` | finding: two runs per cycle never complete | |
| `host_cb_owner` | finding: two tasks get one host Cb | |
| `instruction_address` | finding: wrong address in the error code | |
| `message_queue` | finding: a system that starts without its message queue | |

Five runs check several modules at once. The initial state picks
one of them and the others' variables stand still, so the state space is the
disjoint union of theirs: every property speaks of the variables of its own module, and is
checked on all the states that module has alone. In `MCOsKernel` the two modules
are the two phases of the program: tasks are created at startup with interrupts off, then
the kernel runs on a list of the kind `ListIsInOrder` describes. In `MCStartup`
the background task's modules begin where `Startup` ends.

### Bounds

* Scheduler: three tests with loops of different length, one that sets a period of its
  own, one that fails (`overload`); two tests in the tightest cycle period that
  `TestsFitTheCycle` allows (`deadline`: the last iteration of either, `LatestIteration`, comes
  at 12 at the latest, and the period is 13). `ClockWrap` is what `ClockIsWide` asks for: time
  stamps wrap and the differences that are compared do not, which is the
  case of the code: two hours against 2^32 ms. `MaxGap` and `MaxRunTime` bound the
  distance of calls and the run time of a test. With `CyclePeriod` 22 the run
  `twice_per_cycle` leaves a test time for its two runs: without the reset of the count
  the same configuration completes.
* Kernel: three processes, because two that wait for one queue and one that puts are the
  smallest case of a wakeup of several; queues of two places and of one, so that the index
  wraps and the queue is full; ids below, in and above the table, more stack asked for than there is.
* Messaging: the queue of two entries (one usable place) overflows, the queue of four is
  larger than the number of Cbs. `CbTimeout` 2 lets a wait succeed at once, late, or not.
* Port A: two tasks, so that one may be scheduled while the other waits; a caller that gives
  no time at all, which still looks twice, and one that waits for two delays.
* Instruction RAM: every stream of up to two blocks and a final one, sizes of less than,
  exactly and more than one buffer, in or out of instruction memory, filled or not; one fault.
* Data RAM: banks of different size, two bytes per iteration, two values of a byte and
  patterns of both; one stuck byte.
* Timer test: the period is 40 ticks and the margin 4, which gaps and passes just use up;
  rates of a clock inside the margin, and far enough outside that no timing of the reads can
  hide the difference; the clocks wrap within two loops. The rates meet `ClocksArePlausible`.
* Registers: two bits, one the program has set and one it has not; one stuck bit of any
  register.
* Start: every board with at most one thing wrong: each stuck or bridged pair of bits
  of the register and of each of three bytes of memory, each pair of addresses that select
  the same byte, lines that are dead, always up or crossed, an ASIC that answers or faults at
  any poll up to one too late. Heaps and stack spaces fail at every allocation in turn.
* Null process: two channels calibrated twice each, time up to three seconds. Over current: a
  sample more than a channel needs to be locked after the other one. Keys: two revisions
  of a product, and every key that can tell them apart, with wild cards.
* Apex: four rollovers of the low word with updates up to 11 of 64 ticks apart, which is
  just enough for one to fall into the third quarter; two alarms over two wraps of the
  comparator, set up to more than a wrap ahead; the narrowest watchdog counter, and the
  time-out next above gap and echo. The lock has no bound at all.

### Fairness

* Scheduler: the background keeps calling, a test returns, time passes. The null process
  is an endless loop; a test is a finite loop.
* Kernel: IVG14 is taken when it is pending, and a process inside a call executes on when
  it is current. Nothing is assumed of tasks outside of calls or of interrupts.
* Messaging: a pending interrupt is served (weak); tasks get on in spite of interrupts
  that come again and again (strong, because each interrupt disables their steps); the
  ASIC takes what is in its registers and returns host Cbs; handlers answer. The last two
  are external, and without them no request could be answered by anybody. Of port A the ASIC
  is not assumed to take anything: a delay ends, a callback returns.
* Lock: a processor that has called goes on, and one that holds the lock releases it.
* RAM tests: the test is called again; in `DataRam` the program's own writes do not keep
  the background from running for ever. `NullProcess`: the background runs and an erase ends.
  `OverCurrent`: the background runs; nothing is assumed of the samples. `Startup`: the
  program goes on, and a watchdog nobody kicks expires.

### What the properties say beyond the obvious

`RememberedCompletionIsTrue` is about a state remembered between calls;
`NoDueTestLeftBehind` relates the decision at the beginning of a pass to its end;
`EveryCycleMeetsItsDeadline` and `WatchdogKickedInTime` are sums over periods, gaps and run
times; `CompletionsAreCloseEnough` says that two completions are at most two cycle periods and the
lateness of the second cycle apart, whatever the wraps of the clock do to what is monitored; `NoLostWakeup` holds only with the code's wake-all, since a woken process may find
its message taken; `AtMostOneOvertakes` bounds a repeated `Apex_TryLock`; `GetTimeIsExact` holds only if
an update falls into the third quarter of each wrap; `NoAlarmIsMissed` only if the margin
`MIN_APEX_ALARM_TIME` covers the critical section. Both are
assumptions on the constants (the latter is what the code keeps the margin for), and
the runs are at their limit. `AccurateClocksPass` holds because gap and pass together fit
the margin (`TimerAssumption`): what the timer test measures of the scheduler is as large as
what it measures of the clocks. `DisagreementIsFound` is the other direction: how far
clocks must be apart before no timing of the reads can hide it. `StuckBitOutlivesNoLoop` and
`StartedSystemIsSound` name the faults the tests cannot see, and hold for all others.
`EveryCrashIsLogged` allows a system to hang unlogged only where its watchdog does not run
yet. `UpgradeKeepsCompatibleKeys` relates two products, which no single check of a key does.

## 4. Findings

Five, each shown by a run (see `PROJECT.json` for the quotations):

1. `User.c:294`: `waiting_on_erase` is never cleared, so only the first calibration after
   a start is written. (It is a global of the file under "Private Data"; if code outside
   this repository clears it, that code is not what is modelled.)
2. `DiagnosticTesting.cpp:285`: the count of runs is reset at the start of each loop, so
   that a test configured for two runs per cycle never completes.
3. `Apex.c:1533`: `Apex_GetHostCb` checks and assigns with interrupts enabled.
4. `BlackfinDiagInstructionRam.cpp:80`: the offset is added twice to the reported address.
5. `Os_iotk.c:1008`: the result of `OS_CreateQueue` is dropped, so that a system whose heap is too
   small starts without its message queue.

Other disagreements, seen while reading and without a run of their own:

* `BlackfinDiagInstructionRam.cpp:98`: a mismatch in a loop's last buffer is overruled by
  the end of the loop (`NoFaultOutlivesALoop` states the exception). Likewise `:106` by
  `BAD_BOOTSTREAM_ERR`, and data of the final block is never compared.
* `BlackfinDiagInstructionRam.cpp:561`: the mask accepts 0xffb00000 as well.
* `BlackfinDiagDataRam.cpp:149`: the loop is bounded by the bytes of an iteration, not by what is
  left of the bank; `:167` the offset in the error is from the start of the iteration,
  while the header speaks of the start of the bank.
* `BlackfinDiagRuntime.cpp:267`: a comment of four hours beside a value of two.
* `DiagnosticTesting.hpp:115` and `:200`: time stamps of iterations and starts are those of the
  pass, and the start is taken again only after a complete loop.
* `Os_iotk.c:356`: `MAX_PROCS` and 0 are accepted as ids, which the comment above excludes; `:369`
  an id stays taken when its stack does not fit.
* `Apex.c:1799`: an alarm whose new time has passed is off the list after `Apex_AlarmReset`.
* `User.c:304`: a request made between the write and the clear is lost. `:317`: the report of a
  calibration made between the look at its age and the clear is taken back at once
  (`SuccessIsShownForASecond` states the exception).
* `BlackfinDiagRegister.s:94`: the comment speaks of "operational registers to test the rest
  against", but a bit of R0 that is stuck at 0 and one of R1 that is stuck at 1 are seen by
  neither routine (`StuckBitOutlivesNoLoop` states both exceptions). The alternating patterns
  of the comment at `:97` are not in the routine.
* `BlackfinDiagInstruction.s`: R4 is used and not restored.
* `BlackfinDiagTimerTest.cpp:84`: the host's clock is judged first, by the margin alone: if the
  pass is late, it is the host's timer that is blamed.
* `Apex.c:1347`: the walk over the memory writes a pattern that fills up, not "walking 1's". The test
  of the register does not see a bridge of two bits of the same parity
  (`StartedSystemIsSound` states the exception).
* `Os_iotk.c:1196`: an assertion before the watchdog is started reads the ASIC; if that locks the
  bus, the system hangs without a log (`EveryCrashIsLogged` states the exception).

## 5. Proofs

Every safety and action property of the passing runs is a theorem, as are the two
refinements. The proofs are checked by `tlapm` for all values of the constants that meet the named assumptions
of the modules (`SchedulerAssumption`, `KernelAssumption`, `TasksAssumption`,
`MessagingAssumption`, `PortAAssumption`, `TimeAssumption`, `AlarmAssumption`,
`WatchdogAssumption`, `StartupAssumption` and those of the tests), which TLC evaluates on
every run. Bounds like `MaxNow` or `MaxFaults` are constants too: the theorems hold for every
one of them. Four theorems need more, and say so:

| Theorem | Assumes | Because | In the code |
|---|---|---|---|
| `WatchdogIsKicked`, `CompletionsStayClose` | there are tests, and `ClockIsWide` | the interval is that of a pass over tests; differences of time stamps must not wrap | 5 tests; 2 h against 2^32 ms |
| `DeadlinesAreMet` | also `TestsFitTheCycle`: one run per cycle, and the last iteration comes in time even if every one waits its period and a whole interval of the watchdog | tests that do not fit are late | one run each; the longest loops, 256 bytes of instruction memory each 15 s, or two clock readings 30 min apart, against 2 h |
| `NoCbIsLost` | one task calls `Apex_GetHostCb` | two may take the same Cb: that is finding 3 | not assured; `NoRequestIsLost` does not need it |
| `DisagreeingClocksAreFound` | `ClocksArePlausible`: no clock is more than twice too fast, and none laps the other while it counts a period | a clock that laps the other may look right | 30 min against 2^32 ms: rates up to 1 to 2000 |

In the runs that check several modules the theorems are about the module's own specification
or about the composed one; the former is the stronger, since a step of the composition is a step
of one module.

### What the invariants are, and why they are needed

*Scheduler* (`DiagnosticSchedulerProofs`). `RememberedCompletionIsTrue` and the action properties
are not inductive by themselves: that a cycle never starts inside a loop, for one, needs that a
test which is complete is between its loops, which in turn needs that only tests that are not
complete are run. `IInv` is the conjunction of the type, of `RememberedCompletionIsTrue` and
`RunsWithinQuota`, and of three more parts: a pass is under way only in the state "iterations
scheduled" (`TestsRunOnlyWhenScheduled`), a complete test is between loops
(`CompleteTestsAreBetweenLoops`), and what is still incomplete and due lies at or behind the
enumeration pointer (`WalkedOverPartIsDone`). From it follow also `NoLoopSpansCycles`,
`NoDueTestLeftBehind`, and that the scheduler implements `DiagCycle`.

The bounds on times are three invariants on top of it. `TimesInv`: a pass began when the watchdog was
kicked, and the tests behind it took at most their share; outside of a pass no iteration period
was expired at the last call. `CompletionInv`: how long ago each test was completed, by the place
in the cycle. `DeadlineInv`: a test is within the time for as many iterations as it has
done (`LastIterationFits`), a test that was not due when a pass began was not for less than its
period (`WasNotDue`), and one that is due has not been for long (`IsDueInTime`). All speak of
differences of a clock that wraps, so that each step first shows that none of them does.

*Kernel* (`OsKernelProofs`, `OsTasksProofs`). `TypeOK`, `NoLostWakeup` and `FirstReadyRuns` are
inductive, each with the one before. The refinement of `MessageQueues` rests on the arithmetic of the
circular buffer: a pending slot is never the one written next (`SlotBounds`), a write appends
and a read takes the oldest (`WriteAppends`, `RetrieveTakesOldest`). `StacksAreApart` follows
from stacks that lie one below the other above the stack pointer (`StacksDescend`). For
`ListIsInOrder` the invariant is that there is a sequence of all tasks, in order, of which
`next` and `prev` are the links (`IsTheList`). That the walk of the code is along this
sequence, and finds the place of a new task, is an induction over the number of steps.

*Induction* (`Iteration`). The provers cannot use the library's theorem of induction. `Iteration` gets
the principle from the least element of a set of numbers, with the predicate as a set, and proves what the
walks of the code need: that a function defined by its value one step before, or at the next
place of a walk that stops somewhere, exists (`StepsAreAFunction`, `WalksAreFunctions`), and that what
holds at the stops holds all along a walk (`WalkInduction`).

*Lock* (`ApexSharedProofs`). `TypeOK` says besides the types that a flag is up exactly during a call or
with the lock. Mutual exclusion needs `TurnIsHolders`: while a processor holds the lock, the other one, if
it has given the turn away and not left, has given it to the holder. If both held the lock the turn
would be both of them. By `OvertakenHasTheTurn`, who was overtaken once has the turn as soon as the
other one has tried again, so that the other one cannot get by a second time.

*Time, alarms, watchdog* (`ApexSharedProofs`). Time: the high word is behind only since a rollover no
update has seen (`HighIsLateBriefly`), and the word before it is behind only until the third quarter,
which no update steps over (`LastHighFollowsLate`); so each quarter tells which word belongs to it. Alarms: the
list is sorted, and the comparator matches before its first alarm expires, or that alarm lay
`MinAlarmTime` ahead when the code that is about to program it read the time
(`ComparatorIsProgrammed`). Watchdog: while the ASIC works the time since the last kick is that of
one echo and a call (`EchoIsOnTime`); when it has stopped, it has echoed at most the value it
had then (`StopCostsOneKick`).

*Ports* (`ApexPortsProofs`). Port A: that who waits is not rescheduled needs that rescheduling is masked as long as
anybody waits (`MaskFollowsCalls`), which needs what each call will restore
(`CallsRestoreWhatTheyFound`): a task always rescheduling, a callback only if it has interrupted no
task that waits. The same invariant gives `MasksAreRestored`, which no run checks. Port B: a Cb is in
at most one of nine kinds of place, and there once (`IsAtMostOnce`); a step leaves it where it
is or moves it from one to another (`Stays`, `Moves`). The Cbs of the ASIC are always
somewhere; a host Cb is nowhere exactly if its entry of the table is free.

*Tests* (`DiagTestsProofs`). Data RAM, invisible: only the byte under test may differ from what the
program has written, what was saved of it may not, and it is under test only with interrupts
off. Data RAM, sharp: what a loop has passed was not stuck when it began, byte by byte, and bank by
bank. Registers: which of the two routines sees which bit in which register. Instruction RAM
(`InstrInv`): a test in its loop is at a whole number of buffers in a block to test, and what lies
before was intact when the loop began (`PlaceToRead`); the two walks over the headers skip no block
to test (`StartFinds`, `EnumerateFinds`, by `WalkInduction`). It needs of a boot stream only that
its headers lie behind each other's data and the last is the final one. Timer, accurate clocks (`TimerInv`):
the second iteration comes a timing period and at most a gap after the first. Timer, clocks that
disagree (`ClockInv`): by the clock of the host it comes less than a timing period, a gap and a pass
after the first, so that neither clock has lapped, and what both counted gives bounds on the same
time, which contradict each other (`DisagreementShows`).

*Start and background task* (`StartupProofs`). Order: what has been prepared by every stage, and that interrupts
are enabled at the end only. Sound boards: what each stage has found out of the board; inside the
test of the memory, which bits it has been seen to store and what the last walk wrote
(`MemoryTestIsSharp`). Over current: what a scan has passed is collected as configured, and the
ADCs lag behind only in a scan that has locked a channel. Report of a calibration: a channel whose
report is about to be taken back has shown it for a second, or was calibrated again since
(`FoundIsOldOrNew`). Keys: what was returned is what the key and the product say.

### What is only model-checked

Liveness: `EveryTestRunsInEveryCycle`, `FirstProcessIsServed`, `EveryRequestIsAnswered`,
`EveryHostCbIsFreedAgain`, `ReadyTaskIsScheduled`, `LockIsAcquired`, `EveryRamLoopEnds`,
`EveryCrashIsLogged`, `OverCurrentIsLocked`. The provers do not reason about fairness with
ENABLED.

## 6. Not modelled

* What the instructions test compares: the instruction set of the processor.
* The layout of error codes. (A consequence not shown by a run: a test that puts its
  own type into the code before the scheduler does, or an error code of a registers
  test that is cut by `DIAG_ERROR_MASK`, mixes bits of two types.)
* The variants for the emulator of the ASIC, the copy of its firmware, the performance counters,
  the wording of the crash log, the second start of the watchdog at the head of
  `User_NullProcess` beyond its kick.
* The construction of the static objects of the runtime and the conversion of cycles.
* `os_RemoveProcess`, which nobody calls; `OS_TimerIsr`, which only calls the application.
* The IDE's project file and the kept copies (`*.keep`).

The ASIC, the flash, the heap, the hardware watchdog, the message router and the
application's tasks and objects are external: they are modelled from how the code uses them.

## 7. Plan

Done in this order: scheduler with its abstraction and proofs; kernel with queues,
abstraction and proofs; lock; messages; memory tests; time, alarms, watchdog; background
task; task creation; timer and registers tests; port A with proofs; start, assertion and
watchdog interrupt; over current; keys; proofs for data RAM, over current and start.

Next, in order of importance:

1. `ErrorCodes`: the layout of the 32-bit error code as sets of bits, composed with the
   scheduler's `ConfigureErrorCode`.
2. `Apex_GetHostCb` split by entry, with `rotate_cbs` shared between tasks.
3. Port A on `OsKernel`'s priorities, and the message task on its queues, in one model.
4. Proofs: that every run of the message task answers what it has taken, and the steps that the liveness
   properties rest on, each as an action property.
