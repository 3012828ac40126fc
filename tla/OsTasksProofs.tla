---------------------------- MODULE OsTasksProofs ----------------------------
(***************************************************************************)
(* The creation of tasks, for any ids, priorities and sizes of stack, any  *)
(* stack space and any number of processes: no word of stack is given to   *)
(* two tasks, and the list of processes is in order and linked in both     *)
(* directions.                                                             *)
(***************************************************************************)
EXTENDS MCOsKernel, Iteration

(***************************************************************************)
(* The stacks.                                                             *)
(***************************************************************************)
StackTypeOK ==
  /\ created \in Seq(Tasks!TableIds)
  /\ Tasks!Tasks \subseteq procIdIndex
  /\ empty \in Nat /\ emptySize = empty
  /\ procStart \in [Tasks!TableIds -> Int]
  /\ procSize \in [Tasks!TableIds -> Nat]

\* The stacks given out lie above the stack pointer, one below the other.
StacksDescend ==
  /\ empty <= StackSpace
  /\ \A p \in Tasks!Tasks : empty <= procStart[p] - procSize[p] /\ procStart[p] <= StackSpace
  /\ \A p, q \in Tasks!Tasks :
       p # q => procStart[p] <= procStart[q] - procSize[q] \/ procStart[q] <= procStart[p] - procSize[p]

StacksInv == StackTypeOK /\ StacksDescend

\* An id that OS_CreateTask accepts is one of the table's, and no task has it.
LEMMA AcceptedIdIsNew ==
  ASSUME StacksInv, NEW id \in Ids, ~Tasks!IsInvalid(id), id # MAX_PROCS
  PROVE  id \in Tasks!TableIds /\ id \notin Tasks!Tasks
<1>1. id \in Int /\ MAX_PROCS \in Nat
  BY OsAssumption DEF Tasks!TasksAssumption
<1>2. id \in Tasks!TableIds
  BY <1>1 DEF Tasks!IsInvalid, Tasks!TableIds
<1> QED  BY <1>2 DEF Tasks!IsInvalid, StacksInv, StackTypeOK

\* The task that is created is added to those there are.
LEMMA CreatedTaskIsAdded ==
  ASSUME NEW S, NEW id \in S, created \in Seq(S), created' = Append(created, id)
  PROVE  created' \in Seq(S) /\ Tasks!Tasks' = Tasks!Tasks \cup {id}
<1>1. /\ created' \in Seq(S)
      /\ DOMAIN created = 1..Len(created) /\ DOMAIN created' = 1..(Len(created) + 1)
      /\ Len(created) \in Nat /\ created'[Len(created) + 1] = id
      /\ \A i \in 1..Len(created) : created'[i] = created[i]
  OBVIOUS
<1>2. DOMAIN created' = DOMAIN created \cup {Len(created) + 1}
  BY <1>1
<1> QED  BY <1>1, <1>2 DEF Tasks!Tasks

\* Every step of the creation keeps the stacks apart.
LEMMA StacksInvIsInductive ==
  ASSUME StacksInv, [OsNext]_osVars
  PROVE  StacksInv'
<1> USE DEF StacksInv
<1>1. ASSUME UNCHANGED <<created, empty, emptySize, procStart, procSize>>,
             procIdIndex \subseteq procIdIndex'
      PROVE  StacksInv'
  BY <1>1 DEF StackTypeOK, StacksDescend, Tasks!Tasks
<1>2. ASSUME NEW id \in Ids, NEW prio \in Priorities, NEW size \in StackSizes,
             Tasks!CreateTask(id, prio, size)
      PROVE  StacksInv'
  <2>1. /\ id \in Tasks!TableIds /\ id \notin Tasks!Tasks
        /\ size \in Nat /\ StackSpace \in Nat
    BY <1>2, AcceptedIdIsNew, OsAssumption DEF Tasks!CreateTask, Tasks!TasksAssumption
  <2>2. created' \in Seq(Tasks!TableIds) /\ Tasks!Tasks' = Tasks!Tasks \cup {id}
    BY <1>2, <2>1, CreatedTaskIsAdded DEF Tasks!CreateTask, StackTypeOK
  <2>3. /\ procIdIndex' = procIdIndex \cup {id}
        /\ empty \in Nat /\ size <= empty /\ emptySize' = empty - size /\ empty' = empty - size
        /\ procStart' \in [Tasks!TableIds -> Int] /\ procSize' \in [Tasks!TableIds -> Nat]
        /\ procStart'[id] = empty /\ procSize'[id] = size
        /\ \A p \in Tasks!TableIds \ {id} : procStart'[p] = procStart[p] /\ procSize'[p] = procSize[p]
    BY <1>2, <2>1 DEF Tasks!CreateTask, Tasks!StackTaken, StackTypeOK
  <2>4. Tasks!Tasks \subseteq Tasks!TableIds \ {id}
    BY <2>1 DEF StackTypeOK, Tasks!Tasks
  <2>5. StackTypeOK'
    BY <2>1, <2>2, <2>3 DEF StackTypeOK
  <2>6. \A p \in Tasks!Tasks : /\ procStart[p] \in Int /\ procSize[p] \in Nat
                               /\ procStart'[p] = procStart[p] /\ procSize'[p] = procSize[p]
    BY <2>3, <2>4 DEF StackTypeOK
  <2>7. StacksDescend'
    BY <2>1, <2>2, <2>3, <2>6 DEF StacksDescend
  <2> QED  BY <2>5, <2>7
<1>3. CASE RunningNext
  <2>1. UNCHANGED taskVars
    BY <1>3 DEF RunningNext, Running
  <2> QED  BY <1>1, <2>1 DEF taskVars
<1>4. CASE UNCHANGED osVars
  BY <1>1, <1>4 DEF osVars, taskVars
<1>5. ASSUME NEW id \in Ids,
             \/ Tasks!RefuseId(id) \/ Tasks!CreateBeyond(id)
             \/ \E prio \in Priorities, size \in StackSizes : Tasks!RefuseStack(id, prio, size)
      PROVE  StacksInv'
  BY <1>1, <1>5 DEF Tasks!RefuseId, Tasks!CreateBeyond, Tasks!RefuseStack, Tasks!stackVars
<1> QED
  BY <1>2, <1>3, <1>4, <1>5 DEF OsNext, StartupNext, AtStartup

\* Whatever tasks are asked for, in any order, no two stacks overlap and none leaves the
\* stack space.
THEOREM StacksDoNotOverlap == OsSpec => []StacksAreApart
<1>1. OsInit => StacksInv
  <2> SUFFICES ASSUME Tasks!Init PROVE StacksInv
    BY DEF OsInit
  <2>1. created = <<>> /\ Tasks!Tasks = {}
    BY DEF Tasks!Init, Tasks!Tasks
  <2> QED
    BY <2>1, OsAssumption
    DEF Tasks!Init, StacksInv, StackTypeOK, StacksDescend, Tasks!TasksAssumption, Tasks!NULL
<1>2. StacksInv /\ [OsNext]_osVars => StacksInv'
  BY StacksInvIsInductive
<1>3. StacksInv => StacksAreApart
  <2> SUFFICES ASSUME StacksInv PROVE StacksAreApart
    OBVIOUS
  <2>1. \A p \in Tasks!Tasks : procStart[p] \in Int /\ procSize[p] \in Nat
    BY DEF StacksInv, StackTypeOK, Tasks!Tasks
  <2>2. StackSpace \in Nat /\ empty \in Nat
    BY OsAssumption DEF Tasks!TasksAssumption, StacksInv, StackTypeOK
  <2>3. ASSUME NEW p \in Tasks!Tasks PROVE Tasks!Stack(p) \subseteq 0..(StackSpace - 1)
    BY <2>1, <2>2 DEF StacksInv, StacksDescend, Tasks!Stack
  <2>4. ASSUME NEW p \in Tasks!Tasks, NEW q \in Tasks!Tasks, p # q
        PROVE  Tasks!Stack(p) \cap Tasks!Stack(q) = {}
    BY <2>1, <2>4 DEF StacksInv, StacksDescend, Tasks!Stack
  <2> QED  BY <2>3, <2>4 DEF StacksAreApart, Tasks!StacksAreApart
<1> QED  BY <1>1, <1>2, <1>3, PTL DEF OsSpec

(***************************************************************************)
(* The list of processes.                                                  *)
(***************************************************************************)
ListTypeOK ==
  /\ numProcs = Len(created)
  /\ \A i, j \in DOMAIN created : created[i] = created[j] => i = j
  /\ priority \in [Tasks!TableIds -> Int]
  /\ next = [id \in Tasks!TableIds |-> next[id]]
  /\ prev = [id \in Tasks!TableIds |-> prev[id]]

\* The places before and after a place of the list, which is circular.
After(i)  == IF i = numProcs - 1 THEN 0 ELSE i + 1
Before(i) == IF i = 0 THEN numProcs - 1 ELSE i - 1

\* The list from the head on: every task once, linked in both directions, in order.
IsTheList(list) ==
  /\ list \in [0..(numProcs - 1) -> Tasks!TableIds]
  /\ procHead = IF numProcs = 0 THEN Tasks!NULL ELSE list[0]
  /\ \A i \in 0..(numProcs - 1) : next[list[i]] = list[After(i)] /\ prev[list[i]] = list[Before(i)]
  /\ \A i, j \in 0..(numProcs - 1) : list[i] = list[j] => i = j
  /\ \A id : id \in Tasks!Tasks <=> \E i \in 0..(numProcs - 1) : list[i] = id
  /\ \A i \in 1..(numProcs - 1) : Tasks!GoesBefore(list[i - 1], list[i])

ListInv == ListTypeOK /\ \E list : IsTheList(list)

\* The nodes are those that following next from the head comes to.
LEMMA NodesFollowNext ==
  Tasks!Node(0) = procHead /\ \A i \in Nat : Tasks!Node(i + 1) = next[Tasks!Node(i)]
<1> DEFINE walk == CHOOSE w : w = [j \in Nat |-> IF j = 0 THEN procHead ELSE next[w[j - 1]]]
<1>1. walk = [j \in Nat |-> IF j = 0 THEN procHead ELSE next[walk[j - 1]]]
  BY StepsAreAFunction
<1>2. \A i : Tasks!Node(i) = walk[i]
  BY DEF Tasks!Node
<1> HIDE DEF walk
<1>3. walk[0] = procHead
  BY <1>1
<1>4. ASSUME NEW i \in Nat PROVE walk[i + 1] = next[walk[i]]
  <2>1. i + 1 \in Nat /\ i + 1 # 0 /\ (i + 1) - 1 = i
    OBVIOUS
  <2> QED  BY <1>1, <2>1
<1> QED  BY <1>2, <1>3, <1>4

\* They run over the list and come round to its head.
LEMMA NodesAreTheList ==
  ASSUME NEW list, IsTheList(list), numProcs \in Nat \ {0}
  PROVE  /\ \A i \in 0..(numProcs - 1) : Tasks!Node(i) = list[i]
         /\ Tasks!Node(numProcs) = procHead /\ procHead = list[0]
<1> DEFINE S == {i \in Nat : i <= numProcs - 1 => Tasks!Node(i) = list[i]}
<1>1. 0 \in S
  BY NodesFollowNext DEF IsTheList
<1>2. ASSUME NEW i \in Nat, i \in S PROVE i + 1 \in S
  <2>1. ASSUME i + 1 <= numProcs - 1 PROVE Tasks!Node(i + 1) = list[i + 1]
    <3>1. i \in 0..(numProcs - 1) /\ After(i) = i + 1 /\ Tasks!Node(i) = list[i]
      BY <1>2, <2>1 DEF After
    <3>2. next[list[i]] = list[i + 1]
      BY <3>1 DEF IsTheList
    <3>3. Tasks!Node(i + 1) = next[Tasks!Node(i)]
      BY NodesFollowNext
    <3> QED  BY <3>1, <3>2, <3>3
  <2> QED  BY <2>1
<1> HIDE DEF S
<1>3. Nat \subseteq S
  BY <1>1, <1>2, Induction
<1>4. \A i \in 0..(numProcs - 1) : Tasks!Node(i) = list[i]
  BY <1>3 DEF S
<1>5. Tasks!Node(numProcs) = procHead /\ procHead = list[0]
  <2>1. numProcs - 1 \in 0..(numProcs - 1) /\ numProcs - 1 \in Nat /\ After(numProcs - 1) = 0
        /\ (numProcs - 1) + 1 = numProcs
    BY DEF After
  <2>2. next[list[numProcs - 1]] = list[0] /\ procHead = list[0]
    BY <2>1 DEF IsTheList
  <2>3. Tasks!Node((numProcs - 1) + 1) = next[Tasks!Node(numProcs - 1)]
    BY <2>1, NodesFollowNext
  <2>4. Tasks!Node(numProcs - 1) = list[numProcs - 1]
    BY <1>4, <2>1
  <2> QED  BY <2>1, <2>2, <2>3, <2>4
<1> QED  BY <1>4, <1>5

\* The place os_FindProcess finds: the first whose node is of lower priority, or, when
\* there is none, the one after the last.
IsPlace(list, k, prio) ==
  /\ k \in 0..numProcs
  /\ \A i \in 0..(numProcs - 1) : i < k => ~Tasks!IsBelow(list[i], prio)
  /\ k < numProcs => Tasks!IsBelow(list[k], prio)
  /\ (Tasks!FindProcess(prio).found <=> k < numProcs)
  /\ Tasks!FindProcess(prio).proc = IF k < numProcs THEN list[k] ELSE procHead

\* os_FindProcess finds that place.
LEMMA PlaceIsFound ==
  ASSUME NEW list, IsTheList(list), numProcs \in Nat, NEW prio
  PROVE  \E k : IsPlace(list, k, prio)
<1> DEFINE below == {i \in 0..(numProcs - 1) : Tasks!IsBelow(Tasks!Node(i), prio)}
<1>1. Tasks!FindProcess(prio) =
        IF below = {} THEN [found |-> FALSE, proc |-> procHead]
        ELSE [found |-> TRUE, proc |-> Tasks!Node(CHOOSE i \in below : \A j \in below : i <= j)]
  BY DEF Tasks!FindProcess
<1>2. \A i \in 0..(numProcs - 1) : Tasks!Node(i) = list[i]
  BY NodesAreTheList
<1>3. CASE below = {}
  <2>1. \A i \in 0..(numProcs - 1) : ~Tasks!IsBelow(list[i], prio)
    BY <1>2, <1>3
  <2>2. Tasks!FindProcess(prio).found = FALSE /\ Tasks!FindProcess(prio).proc = procHead
    BY <1>1, <1>3
  <2>3. IsPlace(list, numProcs, prio)
    BY <2>1, <2>2 DEF IsPlace
  <2> QED  BY <2>3
<1>4. CASE below # {}
  <2> DEFINE k == CHOOSE i \in below : \A j \in below : i <= j
  <2>1. below \subseteq Nat
    OBVIOUS
  <2>2. \E i \in below : \A j \in below : i <= j
    <3> HIDE DEF below
    <3> QED  BY <1>4, <2>1, LeastNumber
  <2>3. k \in below /\ \A j \in below : k <= j
    BY <2>2
  <2>4. Tasks!FindProcess(prio).found = TRUE /\ Tasks!FindProcess(prio).proc = Tasks!Node(k)
    BY <1>1, <1>4
  <2> HIDE DEF k
  <2>5. k \in 0..(numProcs - 1) /\ Tasks!IsBelow(list[k], prio)
    BY <1>2, <2>3
  <2>6. \A i \in 0..(numProcs - 1) : i < k => ~Tasks!IsBelow(list[i], prio)
    BY <1>2, <2>3, <2>5
  <2>7. IsPlace(list, k, prio)
    BY <1>2, <2>4, <2>5, <2>6 DEF IsPlace
  <2> QED  BY <2>7
<1> QED  BY <1>3, <1>4

\* A task is as old as its place among those created says.
LEMMA AgesOfTasks ==
  ASSUME created \in Seq(Tasks!TableIds), ListTypeOK
  PROVE  /\ numProcs \in Nat /\ DOMAIN created = 1..numProcs
         /\ \A i \in DOMAIN created : Tasks!Age(created[i]) = i
         /\ \A p \in Tasks!Tasks : Tasks!Age(p) \in 1..numProcs /\ created[Tasks!Age(p)] = p
<1>1. numProcs \in Nat /\ DOMAIN created = 1..numProcs
  BY DEF ListTypeOK
<1>2. \A i \in DOMAIN created : Tasks!Age(created[i]) = i
  BY DEF ListTypeOK, Tasks!Age
<1> QED  BY <1>1, <1>2 DEF Tasks!Tasks

\* A task that is created is the youngest, and the order of the others does not change.
LEMMA CreatedTaskIsYoungest ==
  ASSUME StacksInv, ListTypeOK, NEW id \in Ids, NEW prio \in Priorities, NEW size \in StackSizes,
         Tasks!CreateTask(id, prio, size)
  PROVE  /\ id \in Tasks!TableIds /\ id \notin Tasks!Tasks /\ Tasks!Tasks' = Tasks!Tasks \cup {id}
         /\ numProcs \in Nat /\ numProcs' = numProcs + 1
         /\ prio \in Nat /\ priority' = [priority EXCEPT ![id] = prio]
         /\ ListTypeOK'
         /\ \A p, q \in Tasks!Tasks : Tasks!GoesBefore(p, q)' <=> Tasks!GoesBefore(p, q)
         /\ \A p \in Tasks!Tasks :
              /\ Tasks!IsBelow(p, prio) => Tasks!GoesBefore(id, p)'
              /\ ~Tasks!IsBelow(p, prio) => Tasks!GoesBefore(p, id)'
<1>1. /\ id \in Tasks!TableIds /\ id \notin Tasks!Tasks /\ created \in Seq(Tasks!TableIds)
      /\ created' = Append(created, id)
  BY AcceptedIdIsNew DEF Tasks!CreateTask, StacksInv, StackTypeOK
<1>2. created' \in Seq(Tasks!TableIds) /\ Tasks!Tasks' = Tasks!Tasks \cup {id}
  BY <1>1, CreatedTaskIsAdded
<1>3. /\ numProcs \in Nat /\ numProcs' = numProcs + 1 /\ prio \in Nat
      /\ priority' = [priority EXCEPT ![id] = prio]
  BY <1>1, OsAssumption DEF Tasks!CreateTask, Tasks!InsertProcess, ListTypeOK, Tasks!TasksAssumption
<1>4. /\ DOMAIN created = 1..numProcs /\ DOMAIN created' = 1..(numProcs + 1)
      /\ Len(created') = numProcs + 1 /\ created'[numProcs + 1] = id
      /\ \A i \in 1..numProcs : created'[i] = created[i]
  BY <1>1 DEF ListTypeOK
<1>5. \A i, j \in DOMAIN created' : created'[i] = created'[j] => i = j
  <2>1. \A i \in 1..numProcs : created'[i] \in Tasks!Tasks
    BY <1>4 DEF Tasks!Tasks
  <2>2. \A i \in 1..(numProcs + 1) : i \in 1..numProcs \/ i = numProcs + 1
    BY <1>3
  <2> QED  BY <1>1, <1>4, <2>1, <2>2 DEF ListTypeOK
<1>6. priority' \in [Tasks!TableIds -> Int]
  BY <1>1, <1>3 DEF ListTypeOK
<1>7. /\ next' = [t \in Tasks!TableIds |-> next'[t]]
      /\ prev' = [t \in Tasks!TableIds |-> prev'[t]]
  BY DEF Tasks!CreateTask, Tasks!InsertProcess, Tasks!LinkedBefore, ListTypeOK
<1>8. ListTypeOK'
  BY <1>3, <1>4, <1>5, <1>6, <1>7 DEF ListTypeOK
<1>9. /\ \A p \in Tasks!Tasks : Tasks!Age(p)' = Tasks!Age(p) /\ Tasks!Age(p) \in 1..numProcs
      /\ Tasks!Age(id)' = numProcs + 1
  <2>1. \A i \in DOMAIN created' : \A p : created'[i] = p => Tasks!Age(p)' = i
    BY <1>5 DEF Tasks!Age
  <2>2. \A p \in Tasks!Tasks : Tasks!Age(p) \in 1..numProcs /\ created[Tasks!Age(p)] = p
    BY <1>1, AgesOfTasks
  <2>3. numProcs + 1 \in DOMAIN created' /\ 1..numProcs \subseteq DOMAIN created'
    BY <1>3, <1>4
  <2>4. Tasks!Age(id)' = numProcs + 1
    BY <1>4, <2>1, <2>3
  <2>5. ASSUME NEW p \in Tasks!Tasks PROVE Tasks!Age(p)' = Tasks!Age(p)
    <3>1. PICK a \in 1..numProcs : a = Tasks!Age(p) /\ created[a] = p
      BY <2>2
    <3>2. created'[a] = p /\ a \in DOMAIN created'
      BY <1>4, <2>3, <3>1
    <3>3. Tasks!Age(p)' = a
      BY <2>1, <3>2
    <3> QED  BY <3>1, <3>3
  <2> QED  BY <2>2, <2>4, <2>5
<1>10. \A p \in Tasks!Tasks : /\ priority'[p] = priority[p] /\ priority[p] \in Int
                              /\ p \in Tasks!TableIds
  BY <1>1, <1>3 DEF Tasks!Tasks, ListTypeOK
<1>11. priority'[id] = prio
  BY <1>1, <1>3 DEF ListTypeOK
<1>12. \A p, q \in Tasks!Tasks : Tasks!GoesBefore(p, q)' <=> Tasks!GoesBefore(p, q)
  BY <1>9, <1>10 DEF Tasks!GoesBefore
<1>13. ASSUME NEW p \in Tasks!Tasks
       PROVE  /\ Tasks!IsBelow(p, prio) => Tasks!GoesBefore(id, p)'
              /\ ~Tasks!IsBelow(p, prio) => Tasks!GoesBefore(p, id)'
  BY <1>3, <1>9, <1>10, <1>11 DEF Tasks!GoesBefore, Tasks!IsBelow
<1> QED  BY <1>1, <1>2, <1>3, <1>8, <1>12, <1>13

\* The list with a task put at place k.
Inserted(list, k, id) ==
  [i \in 0..numProcs |-> IF i < k THEN list[i] ELSE IF i = k THEN id ELSE list[i - 1]]

\* os_InsertProcess puts the task at the place that was found: the pointers to it, from
\* it and past it, and the head, are those of the longer list.
LEMMA LinksAreThoseOfTheList ==
  ASSUME StacksInv, ListTypeOK, NEW list, IsTheList(list), NEW k,
         NEW id \in Ids, NEW prio \in Priorities, NEW size \in StackSizes,
         Tasks!CreateTask(id, prio, size), IsPlace(list, k, prio)
  PROVE  \E longer : IsTheList(longer)'
<1> DEFINE n == numProcs
<1>0. PICK longer : longer = Inserted(list, k, id)
  OBVIOUS
<1>1. /\ id \in Tasks!TableIds /\ id \notin Tasks!Tasks /\ Tasks!Tasks' = Tasks!Tasks \cup {id}
      /\ n \in Nat /\ numProcs' = n + 1 /\ k \in 0..n
  BY CreatedTaskIsYoungest DEF IsPlace
<1>2. /\ \A i \in 0..n : /\ i < k => longer[i] = list[i] /\ i \in 0..(n - 1)
                         /\ i = k => longer[i] = id
                         /\ i > k => longer[i] = list[i - 1] /\ i - 1 \in 0..(n - 1)
      /\ longer \in [0..n -> Tasks!TableIds]
  BY <1>0, <1>1 DEF Inserted, IsTheList
<1>3. \A i \in 0..(n - 1) : list[i] \in Tasks!Tasks /\ list[i] # id /\ list[i] \in Tasks!TableIds
  BY <1>1 DEF IsTheList
\* The nodes around the place.
<1> DEFINE last == IF k = 0 \/ k = n THEN n - 1 ELSE k - 1
           at   == IF k = n THEN 0 ELSE k
<1>4. CASE n = 0
  <2>1. procHead = Tasks!NULL /\ k = 0
    BY <1>1, <1>4 DEF IsTheList
  <2>2. Tasks!FindProcess(prio).proc = Tasks!NULL
    BY <1>4, <2>1 DEF IsPlace
  <2>3. /\ procHead' = id /\ next'[id] = id /\ prev'[id] = id
    BY <1>1, <2>2 DEF Tasks!CreateTask, Tasks!InsertProcess, ListTypeOK
  <2>4. longer[0] = id /\ 0..(numProcs' - 1) = {0} /\ 0..n = {0} /\ 1..(numProcs' - 1) = {}
    BY <1>1, <1>2, <1>4, <2>1
  <2>5. Tasks!Tasks = {}
    BY <1>4 DEF IsTheList
  <2>6. \A i \in 0..(numProcs' - 1) : After(i)' = 0 /\ Before(i)' = 0
    BY <1>1, <1>4 DEF After, Before
  <2>7. IsTheList(longer)'
    BY <1>1, <1>2, <1>4, <2>3, <2>4, <2>5, <2>6 DEF IsTheList
  <2> QED  BY <2>7
<1>5. CASE n # 0
  <2>1. /\ last \in 0..(n - 1) /\ at \in 0..(n - 1) /\ last = Before(at)
        /\ procHead = list[0] /\ procHead # Tasks!NULL /\ 0 \in 0..(n - 1)
    BY <1>1, <1>5 DEF IsTheList, Before, Tasks!TableIds, Tasks!NULL
  <2>2. /\ Tasks!FindProcess(prio).proc = list[at] /\ list[at] # Tasks!NULL
        /\ Tasks!FindProcess(prio).found <=> k < n
        /\ prev[list[at]] = list[last]
    <3>1. prev[list[at]] = list[last] /\ list[at] \in Tasks!TableIds
      BY <1>3, <2>1 DEF IsTheList
    <3>2. list[at] # Tasks!NULL
      BY <3>1 DEF Tasks!TableIds, Tasks!NULL
    <3>3. list[at] = IF k < n THEN list[k] ELSE procHead
      BY <1>1, <2>1
    <3> QED  BY <3>1, <3>2, <3>3 DEF IsPlace
  <2>3. /\ next' = [next EXCEPT ![id] = list[at], ![list[last]] = id]
        /\ prev' = [prev EXCEPT ![id] = list[last], ![list[at]] = id]
        /\ procHead' = IF list[at] = list[0] /\ k < n THEN id ELSE list[0]
    BY <2>1, <2>2 DEF Tasks!CreateTask, Tasks!InsertProcess, Tasks!LinkedBefore
  <2>4. /\ next'[id] = list[at] /\ next'[list[last]] = id
        /\ prev'[id] = list[last] /\ prev'[list[at]] = id
        /\ \A i \in 0..(n - 1) : i # last => next'[list[i]] = list[After(i)]
        /\ \A i \in 0..(n - 1) : i # at => prev'[list[i]] = list[Before(i)]
    <3>1. \A i \in 0..(n - 1) : /\ i # last => list[i] # list[last]
                              /\ i # at => list[i] # list[at]
      BY <2>1 DEF IsTheList
    <3> QED  BY <1>1, <1>3, <2>1, <2>3, <3>1 DEF IsTheList, ListTypeOK
  <2>5. procHead' = longer[0]
    <3>1. list[at] = list[0] <=> at = 0
      BY <2>1 DEF IsTheList
    <3> QED  BY <1>1, <1>2, <1>5, <2>3, <3>1
  <2> HIDE DEF last, at
  <2>6. ASSUME NEW i \in 0..n PROVE next'[longer[i]] = longer[IF i = n THEN 0 ELSE i + 1]
    <3>1. CASE i = k
      <4>1. longer[i] = id /\ list[at] = longer[IF i = n THEN 0 ELSE i + 1]
        BY <1>1, <1>2, <1>5, <3>1 DEF at
      <4> QED  BY <2>4, <4>1
    <3>2. CASE i < k
      <4>1. longer[i] = list[i] /\ i \in 0..(n - 1) /\ i # n /\ i + 1 \in 0..n
        BY <1>1, <1>2, <3>2
      <4>2. CASE i + 1 = k
        <5>1. i = last /\ longer[i + 1] = id
          BY <1>1, <1>2, <4>1, <4>2 DEF last
        <5> QED  BY <2>4, <4>1, <5>1
      <4>3. CASE i + 1 # k
        <5>1. i # last /\ longer[i + 1] = list[i + 1] /\ After(i) = i + 1
          BY <1>1, <1>2, <3>2, <4>1, <4>3 DEF last, After
        <5>2. next'[list[i]] = list[After(i)]
          BY <2>4, <4>1, <5>1
        <5> QED  BY <4>1, <5>1, <5>2
      <4> QED  BY <4>2, <4>3
    <3>3. CASE i > k
      <4>1. longer[i] = list[i - 1] /\ i - 1 \in 0..(n - 1) /\ i - 1 >= k /\ k < n
        BY <1>1, <1>2, <3>3
      <4>2. CASE i = n /\ k = 0
        <5>1. i - 1 = last /\ longer[0] = id
          BY <1>1, <1>2, <4>1, <4>2 DEF last
        <5> QED  BY <2>4, <4>1, <4>2, <5>1
      <4>3. CASE i = n /\ k # 0
        <5>1. i - 1 # last /\ longer[0] = list[0] /\ After(i - 1) = 0
          BY <1>1, <1>2, <4>1, <4>3 DEF last, After
        <5>2. next'[list[i - 1]] = list[After(i - 1)]
          BY <2>4, <4>1, <5>1
        <5> QED  BY <4>1, <4>3, <5>1, <5>2
      <4>4. CASE i # n
        <5>1. i - 1 # last /\ longer[i + 1] = list[i] /\ After(i - 1) = i
          BY <1>1, <1>2, <4>1, <4>4 DEF last, After
        <5>2. next'[list[i - 1]] = list[After(i - 1)]
          BY <2>4, <4>1, <5>1
        <5> QED  BY <4>1, <4>4, <5>1, <5>2
      <4> QED  BY <4>2, <4>3, <4>4
    <3> QED  BY <1>1, <3>1, <3>2, <3>3
  <2>7. ASSUME NEW i \in 0..n PROVE prev'[longer[i]] = longer[IF i = 0 THEN n ELSE i - 1]
    <3>1. CASE i = k
      <4>1. longer[i] = id /\ list[last] = longer[IF i = 0 THEN n ELSE i - 1]
        BY <1>1, <1>2, <1>5, <3>1 DEF last
      <4> QED  BY <2>4, <4>1
    <3>2. CASE i < k
      <4>1. longer[i] = list[i] /\ i \in 0..(n - 1) /\ i # n
        BY <1>1, <1>2, <3>2
      <4>2. CASE i = 0 /\ k = n
        <5>1. i = at /\ longer[n] = id
          BY <1>1, <1>2, <4>1, <4>2 DEF at
        <5> QED  BY <2>4, <4>1, <4>2, <5>1
      <4>3. CASE i = 0 /\ k # n
        <5>1. i # at /\ longer[n] = list[n - 1] /\ Before(i) = n - 1
          BY <1>1, <1>2, <3>2, <4>1, <4>3 DEF at, Before
        <5>2. prev'[list[i]] = list[Before(i)]
          BY <2>4, <4>1, <5>1
        <5> QED  BY <4>1, <4>3, <5>1, <5>2
      <4>4. CASE i # 0
        <5>1. i # at /\ longer[i - 1] = list[i - 1] /\ Before(i) = i - 1
          BY <1>1, <1>2, <3>2, <4>1, <4>4 DEF at, Before
        <5>2. prev'[list[i]] = list[Before(i)]
          BY <2>4, <4>1, <5>1
        <5> QED  BY <4>1, <4>4, <5>1, <5>2
      <4> QED  BY <4>2, <4>3, <4>4
    <3>3. CASE i > k
      <4>1. longer[i] = list[i - 1] /\ i - 1 \in 0..(n - 1) /\ i # 0 /\ k < n
        BY <1>1, <1>2, <3>3
      <4>2. CASE i - 1 = k
        <5>1. i - 1 = at /\ longer[i - 1] = id
          BY <1>1, <1>2, <4>1, <4>2 DEF at
        <5> QED  BY <2>4, <4>1, <5>1
      <4>3. CASE i - 1 # k
        <5>1. i - 1 # at /\ longer[i - 1] = list[i - 2] /\ Before(i - 1) = i - 2
          <6>1. i - 1 > k /\ i - 1 \in 0..n /\ (i - 1) - 1 = i - 2 /\ i - 1 # 0
            BY <1>1, <3>3, <4>1, <4>3
          <6> QED  BY <1>2, <4>1, <4>3, <6>1 DEF at, Before
        <5>2. prev'[list[i - 1]] = list[Before(i - 1)]
          BY <2>4, <4>1, <5>1
        <5> QED  BY <3>3, <4>1, <5>1, <5>2
      <4> QED  BY <4>2, <4>3
    <3> QED  BY <1>1, <3>1, <3>2, <3>3
  <2>8. \A i, j \in 0..n : longer[i] = longer[j] => i = j
    <3> SUFFICES ASSUME NEW i \in 0..n, NEW j \in 0..n, longer[i] = longer[j] PROVE i = j
      OBVIOUS
    <3>1. \A a, b \in 0..(n - 1) : list[a] = list[b] => a = b
      BY DEF IsTheList
    <3> QED  BY <1>1, <1>2, <1>3, <3>1
  <2>9. \A t : t \in Tasks!Tasks' <=> \E i \in 0..n : longer[i] = t
    <3>1. \A t \in Tasks!Tasks : \E i \in 0..(n - 1) : list[i] = t
      BY DEF IsTheList
    <3>2. ASSUME NEW i \in 0..(n - 1) PROVE \E j \in 0..n : longer[j] = list[i]
      <4>1. CASE i < k
        BY <1>1, <1>2, <4>1
      <4>2. CASE i >= k
        <5>1. i + 1 \in 0..n /\ i + 1 > k /\ (i + 1) - 1 = i
          BY <1>1, <4>2
        <5> QED  BY <1>2, <5>1
      <4> QED  BY <1>1, <4>1, <4>2
    <3>3. longer[k] = id
      BY <1>1, <1>2
    <3>4. ASSUME NEW i \in 0..n PROVE longer[i] \in Tasks!Tasks \cup {id}
      BY <1>1, <1>2, <1>3
    <3> QED  BY <1>1, <3>1, <3>2, <3>3, <3>4
  <2>10. ASSUME NEW i \in 1..n PROVE Tasks!GoesBefore(longer[i - 1], longer[i])'
    <3>1. /\ \A p, q \in Tasks!Tasks : Tasks!GoesBefore(p, q)' <=> Tasks!GoesBefore(p, q)
          /\ \A p \in Tasks!Tasks :
              /\ Tasks!IsBelow(p, prio) => Tasks!GoesBefore(id, p)'
              /\ ~Tasks!IsBelow(p, prio) => Tasks!GoesBefore(p, id)'
      BY CreatedTaskIsYoungest
    <3>2. PICK p, q : p = longer[i - 1] /\ q = longer[i]
      OBVIOUS
    <3>3. i \in 0..n /\ i - 1 \in 0..n
      BY <1>1
    <3>4. CASE i = k
      <4>1. q = id /\ p = list[k - 1] /\ k - 1 \in 0..(n - 1) /\ k - 1 < k
        BY <1>1, <1>2, <3>2, <3>3, <3>4
      <4>2. ~Tasks!IsBelow(p, prio) /\ p \in Tasks!Tasks
        BY <1>3, <4>1 DEF IsPlace
      <4> QED  BY <3>1, <3>2, <4>1, <4>2
    <3>5. CASE i - 1 = k
      <4>1. p = id /\ q = list[k] /\ k \in 0..(n - 1) /\ k < n
        BY <1>1, <1>2, <3>2, <3>3, <3>5
      <4>2. Tasks!IsBelow(q, prio) /\ q \in Tasks!Tasks
        BY <1>3, <4>1 DEF IsPlace
      <4> QED  BY <3>1, <3>2, <4>1, <4>2
    <3>6. CASE i # k /\ i - 1 # k
      <4>1. \E j \in 1..(n - 1) : p = list[j - 1] /\ q = list[j]
        <5>1. CASE i < k
          <6>1. i \in 1..(n - 1) /\ p = list[i - 1] /\ q = list[i]
            BY <1>1, <1>2, <3>2, <3>3, <5>1
          <6> QED  BY <6>1
        <5>2. CASE i > k
          <6>1. i - 1 \in 1..(n - 1) /\ p = list[(i - 1) - 1] /\ q = list[i - 1]
            BY <1>1, <1>2, <3>2, <3>3, <3>6, <5>2
          <6> QED  BY <6>1
        <5> QED  BY <1>1, <3>6, <5>1, <5>2
      <4>2. PICK j \in 1..(n - 1) : p = list[j - 1] /\ q = list[j]
        BY <4>1
      <4>3. Tasks!GoesBefore(p, q) /\ p \in Tasks!Tasks /\ q \in Tasks!Tasks
        <5>1. j \in 0..(n - 1) /\ j - 1 \in 0..(n - 1)
          BY <1>1
        <5> QED  BY <1>3, <4>2, <5>1 DEF IsTheList
      <4> QED  BY <3>1, <3>2, <4>3
    <3> QED  BY <3>4, <3>5, <3>6
  <2>11. /\ 0..(numProcs' - 1) = 0..n /\ 1..(numProcs' - 1) = 1..n /\ numProcs' # 0
         /\ \A i \in 0..n : /\ After(i)' = IF i = n THEN 0 ELSE i + 1
                           /\ Before(i)' = IF i = 0 THEN n ELSE i - 1
    BY <1>1 DEF After, Before
  <2>12. /\ longer \in [0..(numProcs' - 1) -> Tasks!TableIds]
         /\ procHead' = IF numProcs' = 0 THEN Tasks!NULL ELSE longer[0]
    BY <1>2, <2>5, <2>11
  <2>13. \A i \in 0..(numProcs' - 1) : /\ next'[longer[i]] = longer[After(i)']
                                     /\ prev'[longer[i]] = longer[Before(i)']
    BY <2>6, <2>7, <2>11
  <2>14. \A i, j \in 0..(numProcs' - 1) : longer[i] = longer[j] => i = j
    BY <2>8, <2>11
  <2>15. \A t : t \in Tasks!Tasks' <=> \E i \in 0..(numProcs' - 1) : longer[i] = t
    BY <2>9, <2>11
  <2>16. \A i \in 1..(numProcs' - 1) : Tasks!GoesBefore(longer[i - 1], longer[i])'
    BY <2>10, <2>11
  <2>17. IsTheList(longer)'
    BY <2>12, <2>13, <2>14, <2>15, <2>16 DEF IsTheList
  <2> QED  BY <2>17
<1> QED  BY <1>4, <1>5

\* Every step of the creation keeps the list.
LEMMA ListInvIsInductive ==
  ASSUME StacksInv, ListInv, [OsNext]_osVars
  PROVE  ListInv'
<1>1. ASSUME UNCHANGED <<procHead, numProcs, next, prev, created>>,
             priority' \in [Tasks!TableIds -> Int],
             \A p \in Tasks!Tasks : priority'[p] = priority[p]
      PROVE  ListInv'
  <2>1. ListTypeOK'
    BY <1>1 DEF ListInv, ListTypeOK
  <2>2. PICK list : IsTheList(list)
    BY DEF ListInv
  <2>3. \A p, q \in Tasks!Tasks : Tasks!GoesBefore(p, q)' <=> Tasks!GoesBefore(p, q)
    BY <1>1 DEF Tasks!GoesBefore, Tasks!Age
  <2>4. /\ Tasks!Tasks' = Tasks!Tasks
        /\ \A i : After(i)' = After(i) /\ Before(i)' = Before(i)
    BY <1>1 DEF Tasks!Tasks, After, Before
  <2>5. numProcs \in Nat
    BY DEF StacksInv, StackTypeOK, ListInv, ListTypeOK
  <2>6. ASSUME NEW i \in 1..(numProcs - 1) PROVE Tasks!GoesBefore(list[i - 1], list[i])'
    <3>1. i \in 0..(numProcs - 1) /\ i - 1 \in 0..(numProcs - 1)
      BY <2>5
    <3>2. PICK p, q : p = list[i - 1] /\ q = list[i]
      OBVIOUS
    <3>3. p \in Tasks!Tasks /\ q \in Tasks!Tasks /\ Tasks!GoesBefore(p, q)
      BY <2>2, <3>1, <3>2 DEF IsTheList
    <3> QED  BY <2>3, <3>2, <3>3
  <2>7. IsTheList(list)'
    BY <1>1, <2>2, <2>4, <2>6 DEF IsTheList
  <2> QED  BY <2>1, <2>7 DEF ListInv
<1>2. ASSUME NEW id \in Ids, NEW prio \in Priorities, NEW size \in StackSizes,
             Tasks!CreateTask(id, prio, size)
      PROVE  ListInv'
  <2>1. PICK list : IsTheList(list)
    BY DEF ListInv
  <2>2. ListTypeOK /\ numProcs \in Nat
    BY DEF StacksInv, StackTypeOK, ListInv, ListTypeOK
  <2>3. PICK k : IsPlace(list, k, prio)
    BY <2>1, <2>2, PlaceIsFound
  <2>4. \E longer : IsTheList(longer)'
    BY <1>2, <2>1, <2>2, <2>3, LinksAreThoseOfTheList
  <2>5. ListTypeOK'
    BY <1>2, <2>2, CreatedTaskIsYoungest
  <2> QED  BY <2>4, <2>5 DEF ListInv
<1>3. ASSUME UNCHANGED <<procHead, numProcs, priority, next, prev, created>>
      PROVE  ListInv'
  BY <1>1, <1>3 DEF ListInv, ListTypeOK
<1>4. ASSUME NEW id \in Ids, NEW prio \in Priorities, NEW size \in StackSizes,
             Tasks!RefuseStack(id, prio, size)
      PROVE  ListInv'
  <2>1. id \in Tasks!TableIds /\ id \notin Tasks!Tasks
    BY <1>4, AcceptedIdIsNew DEF Tasks!RefuseStack
  <2>2. prio \in Nat /\ priority' = [priority EXCEPT ![id] = prio]
    BY <1>4, OsAssumption DEF Tasks!RefuseStack, Tasks!TasksAssumption
  <2>3. /\ priority' \in [Tasks!TableIds -> Int]
        /\ \A p \in Tasks!Tasks : priority'[p] = priority[p]
    BY <2>1, <2>2 DEF ListInv, ListTypeOK
  <2> QED  BY <1>1, <1>4, <2>3 DEF Tasks!RefuseStack
<1>5. CASE RunningNext
  <2>1. UNCHANGED taskVars
    BY <1>5 DEF RunningNext, Running
  <2> QED  BY <1>3, <2>1 DEF taskVars
<1>6. CASE UNCHANGED osVars
  BY <1>3, <1>6 DEF osVars, taskVars
<1>7. ASSUME NEW id \in Ids, Tasks!RefuseId(id) \/ Tasks!CreateBeyond(id)
      PROVE  ListInv'
  BY <1>3, <1>7 DEF Tasks!RefuseId, Tasks!CreateBeyond, Tasks!listVars
<1> QED
  BY <1>2, <1>4, <1>5, <1>6, <1>7 DEF OsNext, StartupNext, AtStartup

\* A list with its links is in order.
LEMMA TheListIsInOrder ==
  ASSUME NEW list, IsTheList(list), numProcs \in Nat
  PROVE  ListIsInOrder
<1> SUFFICES ASSUME NEW i \in 1..numProcs
             PROVE  /\ prev[Tasks!Node(i)] = Tasks!Node(i - 1)
                    /\ i = numProcs => /\ Tasks!Node(i) = procHead
                                       /\ {Tasks!Node(j) : j \in 1..i} = Tasks!Tasks
                    /\ i # numProcs => Tasks!GoesBefore(Tasks!Node(i - 1), Tasks!Node(i))
  BY DEF ListIsInOrder, Tasks!ListIsInOrder
<1>1. numProcs # 0 /\ 0 \in 0..(numProcs - 1) /\ numProcs - 1 \in 0..(numProcs - 1)
  OBVIOUS
<1>2. /\ \A j \in 0..(numProcs - 1) : Tasks!Node(j) = list[j]
      /\ Tasks!Node(numProcs) = list[0] /\ procHead = list[0]
  BY <1>1, NodesAreTheList
<1>3. Tasks!Node(i - 1) = list[i - 1] /\ i - 1 \in 0..(numProcs - 1)
  BY <1>1, <1>2
<1>4. CASE i = numProcs
  <2>1. prev[list[0]] = list[numProcs - 1]
    <3>1. Before(0) = numProcs - 1
      BY DEF Before
    <3> QED  BY <1>1, <3>1 DEF IsTheList
  <2>2. ASSUME NEW t \in Tasks!Tasks PROVE \E j \in 1..i : Tasks!Node(j) = t
    <3>1. PICK a \in 0..(numProcs - 1) : list[a] = t
      BY DEF IsTheList
    <3>2. CASE a = 0
      BY <1>2, <1>4, <3>1, <3>2
    <3>3. CASE a # 0
      <4>1. a \in 1..i
        BY <1>4, <3>3
      <4> QED  BY <1>2, <3>1, <4>1
    <3> QED  BY <3>2, <3>3
  <2>3. ASSUME NEW j \in 1..i PROVE Tasks!Node(j) \in Tasks!Tasks
    <3>1. CASE j = numProcs
      BY <1>1, <1>2, <3>1 DEF IsTheList
    <3>2. CASE j # numProcs
      <4>1. j \in 0..(numProcs - 1)
        BY <1>4, <3>2
      <4> QED  BY <1>2, <4>1 DEF IsTheList
    <3> QED  BY <3>1, <3>2
  <2>4. {Tasks!Node(j) : j \in 1..i} = Tasks!Tasks
    BY <2>2, <2>3
  <2>5. prev[Tasks!Node(i)] = Tasks!Node(i - 1) /\ Tasks!Node(i) = procHead
    BY <1>2, <1>3, <1>4, <2>1
  <2> QED  BY <1>4, <2>4, <2>5
<1>5. CASE i # numProcs
  <2>1. i \in 1..(numProcs - 1) /\ i \in 0..(numProcs - 1) /\ Before(i) = i - 1
    BY <1>5 DEF Before
  <2>2. prev[list[i]] = list[i - 1] /\ Tasks!GoesBefore(list[i - 1], list[i])
    BY <2>1 DEF IsTheList
  <2>3. Tasks!Node(i) = list[i]
    BY <1>2, <2>1
  <2> QED  BY <1>3, <1>5, <2>2, <2>3
<1> QED  BY <1>4, <1>5

\* Whatever tasks are created, in any order, the list the scheduler walks holds each of
\* them once, by descending priority and the oldest first, in both directions.
THEOREM ListStaysInOrder == OsSpec => []ListIsInOrder
<1>1. OsInit => StacksInv /\ ListInv
  <2> SUFFICES ASSUME Tasks!Init PROVE StacksInv /\ ListInv
    BY DEF OsInit
  <2>1. created = <<>> /\ Tasks!Tasks = {} /\ numProcs = 0
    BY DEF Tasks!Init, Tasks!Tasks
  <2>2. StacksInv
    BY <2>1, OsAssumption
    DEF Tasks!Init, StacksInv, StackTypeOK, StacksDescend, Tasks!TasksAssumption, Tasks!NULL
  <2>3. ListTypeOK
    BY <2>1 DEF Tasks!Init, ListTypeOK
  <2>4. PICK list : list = [i \in 0..(numProcs - 1) |-> 0]
    OBVIOUS
  <2>5. 0..(numProcs - 1) = {} /\ 1..(numProcs - 1) = {}
    BY <2>1
  <2>6. IsTheList(list)
    BY <2>1, <2>4, <2>5 DEF IsTheList, Tasks!Init
  <2> QED  BY <2>2, <2>3, <2>6 DEF ListInv
<1>2. StacksInv /\ ListInv /\ [OsNext]_osVars => StacksInv' /\ ListInv'
  BY StacksInvIsInductive, ListInvIsInductive
<1>3. StacksInv /\ ListInv => ListIsInOrder
  <2> SUFFICES ASSUME StacksInv, ListInv PROVE ListIsInOrder
    OBVIOUS
  <2>1. numProcs \in Nat
    BY DEF StacksInv, StackTypeOK, ListInv, ListTypeOK
  <2> QED  BY <2>1, TheListIsInOrder DEF ListInv
<1> QED  BY <1>1, <1>2, <1>3, PTL DEF OsSpec
=============================================================================
