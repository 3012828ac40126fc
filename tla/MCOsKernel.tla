------------------------------ MODULE MCOsKernel ------------------------------
(***************************************************************************)
(* The operating system for TLC: its message queues and scheduler, with a  *)
(* null process and two tasks that may read the same queues, listed by     *)
(* descending priority; and the creation of tasks, for which MAX_PROCS is  *)
(* 4.  Tasks are created before the first of them runs: a behaviour is     *)
(* about the one or about the other, as "phase" says.                      *)
(***************************************************************************)
EXTENDS OsKernel, Integers

CONSTANTS
  input, message, null, q1, q2,
  Ids, Priorities, StackSizes, StackSpace, MAX_PROCS   \* of OsTasks

VARIABLES
  procIdIndex, procHead, numProcs, priority, next, prev,
  empty, emptySize, procStart, procSize, beyond, created, result,
  phase

ThreeProcesses == {input, message, null}
TwoQueues      == {q1, q2}
Sizes          == [q \in TwoQueues |-> IF q = q1 THEN 3 ELSE 2]
ByPriority     == <<message, input, null>>

\* The process ids: those out of range on both sides, and the one just past the
\* table's end.
AllIds == {-1, 0, 1, 2, 3, 4, 5}

Tasks == INSTANCE OsTasks

ASSUME OsAssumption == Tasks!TasksAssumption

taskVars == <<procIdIndex, procHead, numProcs, priority, next, prev, empty, emptySize,
              procStart, procSize, beyond, created, result>>
osVars   == <<vars, taskVars, phase>>

OsInit == Init /\ Tasks!Init /\ phase \in {"startup", "running"}

AtStartup(A) == phase = "startup" /\ A /\ UNCHANGED <<vars, phase>>
Running(A)   == phase = "running" /\ A /\ UNCHANGED <<taskVars, phase>>

StartupNext ==
  \E id \in Ids :
    \/ AtStartup(Tasks!RefuseId(id))
    \/ AtStartup(Tasks!CreateBeyond(id))
    \/ \E prio \in Priorities, size \in StackSizes :
         \/ AtStartup(Tasks!CreateTask(id, prio, size))
         \/ AtStartup(Tasks!RefuseStack(id, prio, size))

RunningNext ==
  \/ \E q \in Queues :
       \/ \E p \in Processes :
            \/ Running(BlockOnEmptyQueue(p, q))
            \/ Running(RetrieveMessage(p, q))
            \/ \E m \in Messages : Running(PutByProcess(p, q, m))
       \/ \E m \in Messages : Running(PutByInterrupt(q, m))
       \/ Running(QueueOverrun(q))
  \/ \E p \in Processes : Running(ProcessReschedules(p))
  \/ Running(OS_Scheduler)

OsNext == StartupNext \/ RunningNext

\* The fairness of OsKernel; the properties of the creation need none.
OsSpec ==
  /\ OsInit /\ [][OsNext]_osVars
  /\ WF_osVars(Running(OS_Scheduler))
  /\ \A p \in Processes :
       /\ WF_osVars(Running(ProcessReschedules(p)))
       /\ \A q \in Queues : WF_osVars(Running(GetQueueGoesOn(p, q)))

-----------------------------------------------------------------------------
\* The list OS_CreateTask builds is ordered by priority and age, in both
\* directions, and holds exactly the tasks it returned OK for.
ListIsInOrder == Tasks!ListIsInOrder

\* OS_CreateTask gives no word of stack to two tasks, nor one it does not have.
StacksAreApart == Tasks!StacksAreApart
===============================================================================
