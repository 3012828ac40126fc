------------------------------- MODULE OsTasks -------------------------------
(***************************************************************************)
(* The creation of tasks (Os_iotk.c): OS_CreateTask with os_FindProcess    *)
(* and os_InsertProcess, which keep a circular, doubly linked list of the  *)
(* processes, and with the allocation of the stacks, from one space that   *)
(* grows downwards.  OsKernel starts from the list this module builds.     *)
(*                                                                         *)
(* Tasks are created at startup, one after the other and with interrupts   *)
(* off.  No task is ever deleted, so no gap in the stack space is ever     *)
(* found.  Addresses in the stack space are counted in words from its end. *)
(***************************************************************************)
EXTENDS Integers, FiniteSets, Sequences

CONSTANTS
  Ids,         \* the process ids asked for
  Priorities,
  StackSizes,  \* sizes of stack asked for
  StackSpace,  \* words of stack space
  MAX_PROCS

\* What the constants are; assumed where they get their values.
TasksAssumption ==
  /\ Ids \subseteq Int
  /\ Priorities \subseteq Nat
  /\ StackSizes \subseteq Nat
  /\ StackSpace \in Nat
  /\ MAX_PROCS \in Nat \ {0}

VARIABLES
  procIdIndex,  \* the ids with an entry in proc_id_index
  procHead,     \* proc_head, an id for the node
  numProcs,     \* num_procs
  priority,     \* the fields of the nodes in proc_table
  next,
  prev,
  empty,        \* stack.empty
  emptySize,    \* stack.empty_size
  procStart,    \* stack.proc_start
  procSize,     \* stack.proc_size
  beyond,       \* an entry past the end of a table was written
  created,      \* history: the tasks OS_CreateTask returned OK for, in that order
  result        \* what OS_CreateTask returned last

listVars  == <<procHead, numProcs, priority, next, prev>>
stackVars == <<empty, emptySize, procStart, procSize>>
vars == <<procIdIndex, procHead, numProcs, priority, next, prev, empty, emptySize,
          procStart, procSize, beyond, created, result>>

TableIds == 0..(MAX_PROCS - 1)
NULL     == -1

Init ==
  /\ procIdIndex = {}
  /\ procHead = NULL /\ numProcs = 0
  /\ priority = [id \in TableIds |-> 0]
  /\ next = [id \in TableIds |-> NULL] /\ prev = [id \in TableIds |-> NULL]
  /\ empty = StackSpace /\ emptySize = StackSpace
  /\ procStart = [id \in TableIds |-> NULL] /\ procSize = [id \in TableIds |-> 0]
  /\ beyond = FALSE
  /\ created = <<>>
  /\ result = "none"

\* What OS_CreateTask refuses.
IsInvalid(id) == id > MAX_PROCS \/ id < 0 \/ id \in procIdIndex

RefuseId(id) ==
  /\ ~beyond
  /\ IsInvalid(id)
  /\ result' = "ERROR"
  /\ UNCHANGED <<procIdIndex, listVars, stackVars, beyond, created>>

\* The id is one too large: the entry past the end of proc_id_index decides.
CreateBeyond(id) ==
  /\ ~beyond
  /\ ~IsInvalid(id) /\ id = MAX_PROCS
  /\ \/ result' = "ERROR" /\ beyond' = FALSE
     \/ result' = "none" /\ beyond' = TRUE
  /\ UNCHANGED <<procIdIndex, listVars, stackVars, created>>

\* Mutant: the node is placed before those of its own priority.
IsBelowOrEqual(p, q) == priority[p] <= q

IsBelow(p, q) == priority[p] < q

\* The i-th node of the list from its head on.
Node(i) ==
  LET walk[j \in Nat] == IF j = 0 THEN procHead ELSE next[walk[j - 1]] IN walk[i]

\* os_FindProcess: whether a node of lower priority is found, and the first such
\* node, or the head when the walk has come round to it.
FindProcess(prio) ==
  LET below == {i \in 0..(numProcs - 1) : IsBelow(Node(i), prio)}
  IN IF below = {} THEN [found |-> FALSE, proc |-> procHead]
     ELSE [found |-> TRUE, proc |-> Node(CHOOSE i \in below : \A j \in below : i <= j)]

\* The pointers to and from a node inserted before proc.
LinkedBefore(id, proc) == [next EXCEPT ![id] = proc, ![prev[proc]] = id]

InsertProcess(id, prio) ==
  LET place == FindProcess(prio)
  IN /\ numProcs' = numProcs + 1
     /\ priority' = [priority EXCEPT ![id] = prio]
     /\ IF place.proc = NULL
        THEN /\ procHead' = id
             /\ next' = [next EXCEPT ![id] = id] /\ prev' = [prev EXCEPT ![id] = id]
        ELSE /\ procHead' = IF place.proc = procHead /\ place.found THEN id ELSE procHead
             /\ next' = LinkedBefore(id, place.proc)
             /\ prev' = [prev EXCEPT ![id] = prev[place.proc], ![place.proc] = id]

\* Mutant: the stack pointer is not moved.
StackStays(size) == empty

\* stack.empty -= stack_size.
StackTaken(size) == empty - size

CreateTask(id, prio, size) ==
  /\ ~beyond
  /\ ~IsInvalid(id) /\ id # MAX_PROCS
  /\ size <= emptySize
  /\ procIdIndex' = procIdIndex \cup {id}
  /\ emptySize' = emptySize - size
  /\ procStart' = [procStart EXCEPT ![id] = empty]
  /\ procSize' = [procSize EXCEPT ![id] = size]
  /\ empty' = StackTaken(size)
  /\ InsertProcess(id, prio)
  /\ created' = Append(created, id)
  /\ result' = "OK"
  /\ UNCHANGED beyond

\* The stack does not fit.  The entry in the table of ids is left behind.
RefuseStack(id, prio, size) ==
  /\ ~beyond
  /\ ~IsInvalid(id) /\ id # MAX_PROCS
  /\ size > emptySize
  /\ procIdIndex' = procIdIndex \cup {id}
  /\ priority' = [priority EXCEPT ![id] = prio]
  /\ result' = "STACK_ERROR"
  /\ UNCHANGED <<procHead, numProcs, next, prev, stackVars, beyond, created>>

Next ==
  \E id \in Ids :
    \/ RefuseId(id) \/ CreateBeyond(id)
    \/ \E prio \in Priorities, size \in StackSizes :
         CreateTask(id, prio, size) \/ RefuseStack(id, prio, size)

Spec == Init /\ [][Next]_vars

-----------------------------------------------------------------------------
Tasks == {created[i] : i \in DOMAIN created}

Age(id) == CHOOSE i \in DOMAIN created : created[i] = id

\* p goes before q in the list: higher priority, "oldest first in case of priority
\* ties".
GoesBefore(p, q) ==
  priority[p] > priority[q] \/ (priority[p] = priority[q] /\ Age(p) < Age(q))

\* The list runs from its head over every task created, in descending priority
\* and the oldest first, back to its head, forwards and backwards.
ListIsInOrder ==
  \A i \in 1..numProcs :
    /\ prev[Node(i)] = Node(i - 1)
    /\ IF i = numProcs THEN Node(i) = procHead /\ {Node(j) : j \in 1..i} = Tasks
       ELSE GoesBefore(Node(i - 1), Node(i))

\* The words of the stack of a task.
Stack(id) == (procStart[id] - procSize[id])..(procStart[id] - 1)

\* The stacks lie within the stack space and none overlaps another one.
StacksAreApart ==
  /\ \A p \in Tasks : Stack(p) \subseteq 0..(StackSpace - 1)
  /\ \A p, q \in Tasks : p # q => Stack(p) \cap Stack(q) = {}
=============================================================================
