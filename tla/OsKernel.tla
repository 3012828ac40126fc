------------------------------ MODULE OsKernel ------------------------------
(***************************************************************************)
(* The message queues and the scheduler of the operating system            *)
(* (Os_iotk.c): OS_GetQueue, OS_PutQueue, os_FindReady and OS_Scheduler,   *)
(* on the list of processes that OS_CreateTask has built.                  *)
(*                                                                         *)
(* Code between cli and sti is one step.  RESCHEDULE raises the lowest     *)
(* interrupt, IVG14, whose handler is OS_Scheduler: it is taken before the *)
(* next instruction of a process, but the interrupts of the ASIC, IVG9 and *)
(* IVG12, go first.  They may put messages at any time that is not between *)
(* cli and sti, in particular between the sti of OS_PutQueue and its       *)
(* RESCHEDULE.                                                             *)
(***************************************************************************)
EXTENDS Naturals, Sequences

CONSTANTS
  Processes,   \* the tasks created at startup
  ProcList,    \* the linked list from proc_head on: a sequence of all tasks
  NullProcess, \* User_NullProcess, the last of the list, which never blocks
  Queues,      \* the queues created
  QueueSize,   \* q_size of each queue
  Messages     \* messages, one of them the content of a cleared q_body entry

ASSUME KernelAssumption ==
  /\ ProcList \in Seq(Processes)
  /\ NullProcess \in Processes
  /\ \A p \in Processes : \E i \in DOMAIN ProcList : ProcList[i] = p
  /\ QueueSize \in [Queues -> Nat \ {0}]
  /\ Messages # {}

VARIABLES
  state,        \* proc->state of every process
  qId,          \* proc->q_id
  qBody,        \* queues[q].q_body
  qHead,        \* queues[q].q_head
  qTail,        \* queues[q].q_tail
  currentProc,  \* current_proc
  raised,       \* IVG14 is raised and OS_Scheduler has not run yet
  reading,      \* the queue a process is in OS_GetQueue for
  owes,         \* the process comes to a RESCHEDULE: in OS_PutQueue, after its sti
  msg           \* the message a process last retrieved

queueVars == <<qBody, qHead, qTail>>
vars == <<state, qId, qBody, qHead, qTail, currentProc, raised, reading, owes, msg>>

NoQueue == "NO_QUEUE"
Slots(q) == 0..(QueueSize[q] - 1)

(***************************************************************************)
(* os_InitData and the tasks' creation are over: main has made the null    *)
(* process the current one, which has enabled interrupts and comes to the  *)
(* RESCHEDULE by which it lets the other tasks run for the first time.     *)
(***************************************************************************)
Init ==
  /\ state = [p \in Processes |-> "READY_TO_RUN"]
  /\ qId = [p \in Processes |-> NoQueue]
  /\ \E cleared \in Messages : /\ qBody = [q \in Queues |-> [i \in Slots(q) |-> cleared]]
                               /\ msg = [p \in Processes |-> cleared]
  /\ qHead = [q \in Queues |-> 0]
  /\ qTail = [q \in Queues |-> 0]
  /\ currentProc = NullProcess
  /\ raised = FALSE
  /\ reading = [p \in Processes |-> NoQueue]
  /\ owes = [p \in Processes |-> p = NullProcess]

\* The slot after the given one of the circular buffer.
NextSlot(q, index) == IF index + 1 > QueueSize[q] - 1 THEN 0 ELSE index + 1

IsEmpty(q) == qTail[q] = qHead[q]

\* Mutant: the slot that tells a full queue from an empty one is given away.
AllSlots(q) ==
  IF qHead[q] <= qTail[q] THEN QueueSize[q] - (qTail[q] - qHead[q]) ELSE qHead[q] - qTail[q]

\* data_available: the free space, one slot of which is never used.
DataAvailable(q) ==
  IF qHead[q] <= qTail[q]
  THEN QueueSize[q] - (qTail[q] - qHead[q]) - 1
  ELSE (qHead[q] - qTail[q]) - 1

IsBlockedOn(p, q) == state[p] = "READ_BLOCKED_ON_QUEUE" /\ qId[p] = q

\* A process executes: it is the current one and IVG14 is not waiting.
Runs(p) == currentProc = p /\ ~raised /\ ~owes[p]

(***************************************************************************)
(* OS_GetQueue.  A process that blocked starts over when it runs again: a  *)
(* process of higher priority may have taken the message that woke it.     *)
(***************************************************************************)
CallsGetQueue(p, q) ==
  /\ Runs(p)
  /\ p # NullProcess
  /\ reading[p] \in {NoQueue, q}

BlockOnEmptyQueue(p, q) ==
  /\ CallsGetQueue(p, q)
  /\ IsEmpty(q)
  /\ reading' = [reading EXCEPT ![p] = q]
  /\ qId' = [qId EXCEPT ![p] = q]
  /\ state' = [state EXCEPT ![p] = "READ_BLOCKED_ON_QUEUE"]
  /\ raised' = TRUE
  /\ UNCHANGED <<queueVars, currentProc, owes, msg>>

RetrieveMessage(p, q) ==
  /\ CallsGetQueue(p, q)
  /\ ~IsEmpty(q)
  /\ reading' = [reading EXCEPT ![p] = NoQueue]
  /\ msg' = [msg EXCEPT ![p] = qBody[q][qHead[q]]]
  /\ qHead' = [qHead EXCEPT ![q] = NextSlot(q, @)]
  /\ UNCHANGED <<state, qId, qBody, qTail, currentProc, raised, owes>>

(***************************************************************************)
(* OS_PutQueue.  A full queue is an error to the caller and changes nothing.*)
(***************************************************************************)
\* Mutant: only the last blocked process the walk over the list finds is woken.
WakesLastFound(p, q) ==
  /\ IsBlockedOn(p, q)
  /\ \E i \in DOMAIN ProcList :
       ProcList[i] = p /\ \A j \in (i + 1)..Len(ProcList) : ~IsBlockedOn(ProcList[j], q)

\* Every process blocked on the queue is made ready.
Wakes(p, q) == IsBlockedOn(p, q)

\* The part between cli and sti, when there is room.
WriteMessage(q, m) ==
  /\ DataAvailable(q) # 0
  /\ qBody' = [qBody EXCEPT ![q][qTail[q]] = m]
  /\ qTail' = [qTail EXCEPT ![q] = NextSlot(q, @)]
  /\ qId' = [p \in Processes |-> IF Wakes(p, q) THEN NoQueue ELSE qId[p]]
  /\ state' = [p \in Processes |-> IF Wakes(p, q) THEN "READY_TO_RUN" ELSE state[p]]

GotOne(q) == \E p \in Processes : Wakes(p, q)

\* A process writes, and still has to reschedule if somebody was waiting ...
PutByProcess(p, q, m) ==
  /\ Runs(p)
  /\ reading[p] = NoQueue
  /\ WriteMessage(q, m)
  /\ owes' = [owes EXCEPT ![p] = GotOne(q)]
  /\ UNCHANGED <<qHead, currentProc, raised, reading, msg>>

\* Mutant: the process goes on without a reschedule.
NoReschedule(p) == raised' = raised

Reschedule(p) == raised' = TRUE

\* ... and does so when it runs.
ProcessReschedules(p) ==
  /\ currentProc = p /\ ~raised /\ owes[p]
  /\ Reschedule(p)
  /\ owes' = [owes EXCEPT ![p] = FALSE]
  /\ UNCHANGED <<state, qId, queueVars, currentProc, reading, msg>>

\* apex_cbb_resp, in IVG12: nothing of a lower level runs before it returns.
PutByInterrupt(q, m) ==
  /\ WriteMessage(q, m)
  /\ raised' = (raised \/ GotOne(q))
  /\ UNCHANGED <<qHead, currentProc, reading, owes, msg>>

\* OS_PutQueue answers QUEUE_OVERRUN_ERROR to its caller.
QueueOverrun(q) ==
  /\ DataAvailable(q) = 0
  /\ UNCHANGED vars

(***************************************************************************)
(* OS_Scheduler: the first process of the list that is ready.              *)
(***************************************************************************)
IsFirstReady(p) ==
  \E i \in DOMAIN ProcList :
    /\ ProcList[i] = p
    /\ state[p] = "READY_TO_RUN"
    /\ \A j \in 1..(i - 1) : state[ProcList[j]] # "READY_TO_RUN"

OS_Scheduler ==
  /\ raised
  /\ \E p \in Processes : IsFirstReady(p) /\ currentProc' = p
  /\ raised' = FALSE
  /\ UNCHANGED <<state, qId, queueVars, reading, owes, msg>>

ProcessStep(p) ==
  \/ \E q \in Queues : BlockOnEmptyQueue(p, q) \/ RetrieveMessage(p, q)
  \/ \E q \in Queues, m \in Messages : PutByProcess(p, q, m)
  \/ ProcessReschedules(p)

Next ==
  \/ \E p \in Processes : ProcessStep(p)
  \/ \E q \in Queues, m \in Messages : PutByInterrupt(q, m)
  \/ \E q \in Queues : QueueOverrun(q)
  \/ OS_Scheduler

Spec == Init /\ [][Next]_vars

GetQueueGoesOn(p, q) ==
  reading[p] = q /\ (BlockOnEmptyQueue(p, q) \/ RetrieveMessage(p, q))

\* A pending IVG14 is taken, and a process that is inside OS_GetQueue or
\* OS_PutQueue executes on when it is the current one.
Fairness ==
  /\ WF_vars(OS_Scheduler)
  /\ \A p \in Processes :
       /\ WF_vars(ProcessReschedules(p))
       /\ \A q \in Queues : WF_vars(GetQueueGoesOn(p, q))

FairSpec == Spec /\ Fairness

-----------------------------------------------------------------------------
\* Every variable has its type; in particular both indices stay in the buffer.
TypeOK ==
  /\ state \in [Processes -> {"READY_TO_RUN", "READ_BLOCKED_ON_QUEUE"}]
  /\ qId \in [Processes -> Queues \cup {NoQueue}]
  /\ qBody = [q \in Queues |-> qBody[q]]
  /\ qHead \in [Queues -> Nat]
  /\ qTail \in [Queues -> Nat]
  /\ \A q \in Queues : /\ qBody[q] \in [Slots(q) -> Messages]
                       /\ qHead[q] \in Slots(q)
                       /\ qTail[q] \in Slots(q)
  /\ currentProc \in Processes
  /\ raised \in BOOLEAN
  /\ reading \in [Processes -> Queues \cup {NoQueue}]
  /\ owes \in [Processes -> BOOLEAN]
  /\ msg \in [Processes -> Messages]

\* No wake-up is lost: while a process is blocked on a queue the queue is
\* empty, whenever interrupts and other processes put messages on it.
NoLostWakeup ==
  \A p \in Processes, q \in Queues : IsBlockedOn(p, q) => IsEmpty(q)

\* Scheduling is by priority: the current process is the first ready one of
\* the list, except while a reschedule is raised or still owed by the
\* process that is running.
FirstReadyRuns ==
  raised \/ owes[currentProc] \/ IsFirstReady(currentProc)

\* How many messages queue q holds, and the slot of the i-th of them.
Pending(q) ==
  IF qHead[q] <= qTail[q] THEN qTail[q] - qHead[q] ELSE qTail[q] + QueueSize[q] - qHead[q]
SlotOf(q, i) ==
  IF qHead[q] + i - 1 < QueueSize[q] THEN qHead[q] + i - 1 ELSE qHead[q] + i - 1 - QueueSize[q]

\* What is on queue q, oldest first.
Contents(q) == [i \in 1..Pending(q) |-> qBody[q][SlotOf(q, i)]]

QueueContents == [q \in Queues |-> Contents(q)]
QueueCapacity == [q \in Queues |-> QueueSize[q] - 1]
Fifo == INSTANCE MessageQueues
          WITH messages <- QueueContents, got <- msg, Capacity <- QueueCapacity

\* The circular buffers implement first-in first-out queues of q_size - 1
\* messages, each of which is delivered to one process.
ImplementsQueues == Fifo!Spec

\* A process in OS_GetQueue on a queue that has a message is not forgotten:
\* if it is the first of the list, it gets one.
FirstProcessIsServed ==
  \A q \in Queues :
    reading[ProcList[1]] = q /\ ~IsEmpty(q) ~> reading[ProcList[1]] = NoQueue
=============================================================================
