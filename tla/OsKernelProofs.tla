--------------------------- MODULE OsKernelProofs ---------------------------
(***************************************************************************)
(* Proofs about the queues and the scheduler, for any processes, queues,   *)
(* buffer size and messages.  TypeOK, NoLostWakeup and FirstReadyRuns are  *)
(* inductive one after the other; the refinement needs TypeOK only.        *)
(***************************************************************************)
EXTENDS OsKernel, SequenceTheorems, TLAPS

\* The slots of a buffer are an interval of the natural numbers, and the
\* slot after a slot is one of them.
LEMMA SlotsInterval ==
  \A q \in Queues : /\ QueueSize[q] \in Nat /\ 0 < QueueSize[q]
                    /\ \A i : i \in Slots(q) <=> i \in Nat /\ i < QueueSize[q]
                    /\ 0 \in Slots(q)
  BY KernelAssumption DEF Slots

\* The slot after a slot of a buffer is a slot of that buffer (NextSlot wraps).
LEMMA NextSlotType ==
  \A q \in Queues : \A i \in Slots(q) : NextSlot(q, i) \in Slots(q) /\ NextSlot(q, i) \in Nat
  BY SlotsInterval DEF NextSlot

\* Every variable keeps its type.
LEMMA TypeInduction ==
  /\ Init => TypeOK
  /\ TypeOK /\ [Next]_vars => TypeOK'
<1>1. Init => TypeOK
  <2>1. SUFFICES ASSUME Init
                 PROVE  TypeOK
    OBVIOUS
  <2>2. /\ qBody = [q \in Queues |-> qBody[q]]
        /\ \A q \in Queues : qBody[q] \in [Slots(q) -> Messages]
        /\ msg \in [Processes -> Messages]
    <3>1. PICK cleared \in Messages :
            /\ qBody = [q \in Queues |-> [i \in Slots(q) |-> cleared]]
            /\ msg = [p \in Processes |-> cleared]
      BY <2>1 DEF Init
    <3>2. QED
      BY <3>1
  <2>3. /\ qHead \in [Queues -> Nat] /\ qTail \in [Queues -> Nat]
        /\ \A q \in Queues : qHead[q] \in Slots(q) /\ qTail[q] \in Slots(q)
        /\ currentProc \in Processes
        /\ owes \in [Processes -> BOOLEAN]
    BY <2>1, SlotsInterval, KernelAssumption DEF Init
  <2>4. QED
    BY <2>1, <2>2, <2>3 DEF Init, TypeOK
<1>2. ASSUME TypeOK, [Next]_vars
      PROVE  TypeOK'
  <2> USE <1>2, NextSlotType DEF TypeOK
  <2>1. ASSUME NEW p \in Processes, NEW q \in Queues, BlockOnEmptyQueue(p, q)
        PROVE  TypeOK'
    BY <2>1 DEF BlockOnEmptyQueue, queueVars
  <2>2. ASSUME NEW p \in Processes, NEW q \in Queues, RetrieveMessage(p, q)
        PROVE  TypeOK'
    <3>1. NextSlot(q, qHead[q]) \in Slots(q) /\ NextSlot(q, qHead[q]) \in Nat
      OBVIOUS
    <3>2. qHead' = [qHead EXCEPT ![q] = NextSlot(q, qHead[q])]
      BY <2>2 DEF RetrieveMessage
    <3>3. qHead' \in [Queues -> Nat] /\ \A k \in Queues : qHead'[k] \in Slots(k)
      BY <3>1, <3>2
    <3>4. qBody[q][qHead[q]] \in Messages
      OBVIOUS
    <3>5. QED
      BY <2>2, <3>3, <3>4 DEF RetrieveMessage
  <2>3. ASSUME NEW q \in Queues, NEW m \in Messages, WriteMessage(q, m)
        PROVE  /\ qBody' = [k \in Queues |-> qBody'[k]]
               /\ qTail' \in [Queues -> Nat]
               /\ \A k \in Queues : /\ qBody'[k] \in [Slots(k) -> Messages]
                                    /\ qTail'[k] \in Slots(k)
               /\ qId' \in [Processes -> Queues \cup {NoQueue}]
               /\ state' \in [Processes -> {"READY_TO_RUN", "READ_BLOCKED_ON_QUEUE"}]
    <3>1. NextSlot(q, qTail[q]) \in Slots(q) /\ NextSlot(q, qTail[q]) \in Nat
      OBVIOUS
    <3>2. qTail' = [qTail EXCEPT ![q] = NextSlot(q, qTail[q])]
      BY <2>3 DEF WriteMessage
    <3>3. qTail' \in [Queues -> Nat] /\ \A k \in Queues : qTail'[k] \in Slots(k)
      BY <3>1, <3>2
    <3>4. qBody' = [qBody EXCEPT ![q][qTail[q]] = m]
      BY <2>3 DEF WriteMessage
    <3>5. \A k \in Queues : qBody'[k] \in [Slots(k) -> Messages]
      BY <3>4
    <3>6. qBody' = [k \in Queues |-> qBody'[k]]
      BY <3>4
    <3>7. QED
      BY <2>3, <3>3, <3>5, <3>6 DEF WriteMessage
  <2>4. ASSUME NEW p \in Processes, NEW q \in Queues, NEW m \in Messages, PutByProcess(p, q, m)
        PROVE  TypeOK'
    <3>1. GotOne(q) \in BOOLEAN
      BY DEF GotOne
    <3>2. QED
      BY <2>3, <2>4, <3>1 DEF PutByProcess
  <2>5. ASSUME NEW p \in Processes, ProcessReschedules(p)
        PROVE  TypeOK'
    BY <2>5 DEF ProcessReschedules, Reschedule, queueVars
  <2>6. ASSUME NEW q \in Queues, NEW m \in Messages, PutByInterrupt(q, m)
        PROVE  TypeOK'
    BY <2>3, <2>6 DEF PutByInterrupt
  <2>7. ASSUME OS_Scheduler
        PROVE  TypeOK'
    BY <2>7 DEF OS_Scheduler, queueVars
  <2>8. ASSUME UNCHANGED vars
        PROVE  TypeOK'
    BY <2>8 DEF vars
  <2>9. QED
    BY <2>1, <2>2, <2>4, <2>5, <2>6, <2>7, <2>8 DEF Next, ProcessStep, QueueOverrun
<1>3. QED
  BY <1>1, <1>2

\* Every variable has its type in every state; both indices of a queue stay
\* in its buffer.
THEOREM KernelTypeCorrect == Spec => []TypeOK
  BY TypeInduction, PTL DEF Spec

\* A process blocked on a queue implies that the queue is empty: OS_PutQueue
\* wakes every such process in the section in which it writes.
THEOREM KernelLosesNoWakeup == Spec => []NoLostWakeup
<1>1. Init => NoLostWakeup
  BY DEF Init, NoLostWakeup, IsBlockedOn
<1>2. ASSUME TypeOK, NoLostWakeup, [Next]_vars
      PROVE  NoLostWakeup'
  <2>1. SUFFICES ASSUME NEW r \in Processes, NEW k \in Queues, IsBlockedOn(r, k)'
                 PROVE  IsEmpty(k)'
    BY DEF NoLostWakeup
  <2> USE <1>2, <2>1 DEF TypeOK, IsBlockedOn
  <2>2. ASSUME NEW p \in Processes, NEW q \in Queues, BlockOnEmptyQueue(p, q)
        PROVE  IsEmpty(k)'
    BY <2>2 DEF BlockOnEmptyQueue, queueVars, NoLostWakeup, IsEmpty
  <2>3. ASSUME NEW p \in Processes, NEW q \in Queues, RetrieveMessage(p, q)
        PROVE  IsEmpty(k)'
    BY <2>3 DEF RetrieveMessage, NoLostWakeup, IsEmpty
  <2>4. ASSUME NEW q \in Queues, NEW m \in Messages, WriteMessage(q, m), qHead' = qHead
        PROVE  IsEmpty(k)'
    <3>1. ~Wakes(r, q) /\ IsBlockedOn(r, k)
      BY <2>4 DEF WriteMessage
    <3>2. k # q
      BY <3>1 DEF Wakes
    <3>3. QED
      BY <2>4, <3>1, <3>2 DEF WriteMessage, NoLostWakeup, IsEmpty
  <2>5. ASSUME NEW p \in Processes, ProcessReschedules(p)
        PROVE  IsEmpty(k)'
    BY <2>5 DEF ProcessReschedules, queueVars, NoLostWakeup, IsEmpty
  <2>6. ASSUME OS_Scheduler \/ UNCHANGED vars
        PROVE  IsEmpty(k)'
    BY <2>6 DEF OS_Scheduler, queueVars, vars, NoLostWakeup, IsEmpty
  <2>7. QED
    BY <2>2, <2>3, <2>4, <2>5, <2>6
    DEF Next, ProcessStep, PutByProcess, PutByInterrupt, QueueOverrun
<1>3. QED
  BY <1>1, <1>2, TypeInduction, PTL DEF Spec

\* The first ready process of the list is the current one, unless IVG14 is
\* raised or the current process comes to its RESCHEDULE.
THEOREM KernelSchedulesByPriority == Spec => []FirstReadyRuns
<1>1. Init => FirstReadyRuns
  BY KernelAssumption DEF Init, FirstReadyRuns
<1>2. ASSUME TypeOK, FirstReadyRuns, [Next]_vars
      PROVE  FirstReadyRuns'
  <2> USE <1>2 DEF TypeOK, FirstReadyRuns
  <2>1. ASSUME NEW p \in Processes, NEW q \in Queues, BlockOnEmptyQueue(p, q)
        PROVE  FirstReadyRuns'
    BY <2>1 DEF BlockOnEmptyQueue
  <2>2. ASSUME NEW p \in Processes, NEW q \in Queues, RetrieveMessage(p, q)
        PROVE  FirstReadyRuns'
    BY <2>2 DEF RetrieveMessage, IsFirstReady
  <2>3. ASSUME NEW q \in Queues, NEW m \in Messages, WriteMessage(q, m), ~GotOne(q)
        PROVE  state' = state
    BY <2>3 DEF WriteMessage, GotOne
  <2>4. ASSUME NEW p \in Processes, NEW q \in Queues, NEW m \in Messages, PutByProcess(p, q, m)
        PROVE  FirstReadyRuns'
    <3>1. CASE GotOne(q)
      BY <2>4, <3>1 DEF PutByProcess, Runs
    <3>2. CASE ~GotOne(q)
      BY <2>3, <2>4, <3>2 DEF PutByProcess, Runs, IsFirstReady
    <3>3. QED
      BY <3>1, <3>2
  <2>5. ASSUME NEW p \in Processes, ProcessReschedules(p)
        PROVE  FirstReadyRuns'
    BY <2>5 DEF ProcessReschedules, Reschedule
  <2>6. ASSUME NEW q \in Queues, NEW m \in Messages, PutByInterrupt(q, m)
        PROVE  FirstReadyRuns'
    <3>1. CASE GotOne(q)
      BY <2>6, <3>1 DEF PutByInterrupt
    <3>2. CASE ~GotOne(q)
      BY <2>3, <2>6, <3>2 DEF PutByInterrupt, IsFirstReady
    <3>3. QED
      BY <3>1, <3>2
  <2>7. ASSUME OS_Scheduler
        PROVE  FirstReadyRuns'
    BY <2>7 DEF OS_Scheduler, IsFirstReady
  <2>8. ASSUME UNCHANGED vars
        PROVE  FirstReadyRuns'
    BY <2>8 DEF vars, IsFirstReady
  <2>9. QED
    BY <2>1, <2>2, <2>4, <2>5, <2>6, <2>7, <2>8 DEF Next, ProcessStep, QueueOverrun
<1>3. QED
  BY <1>1, <1>2, TypeInduction, PTL DEF Spec
-----------------------------------------------------------------------------
(***************************************************************************)
(* The refinement: what the slots from qHead to qTail hold is a first-in   *)
(* first-out queue.                                                        *)
(***************************************************************************)
\* A queue never holds more than q_size - 1 messages, and DataAvailable is
\* the room that is left.
LEMMA PendingBounds ==
  ASSUME TypeOK, NEW q \in Queues
  PROVE  /\ Pending(q) \in Nat
         /\ Pending(q) <= QueueSize[q] - 1
         /\ DataAvailable(q) = QueueSize[q] - 1 - Pending(q)
         /\ IsEmpty(q) <=> Pending(q) = 0
<1>1. /\ qHead[q] \in Nat /\ qHead[q] < QueueSize[q]
      /\ qTail[q] \in Nat /\ qTail[q] < QueueSize[q]
      /\ QueueSize[q] \in Nat
  BY SlotsInterval DEF TypeOK
<1>2. CASE qHead[q] <= qTail[q]
  BY <1>1, <1>2 DEF Pending, DataAvailable, IsEmpty
<1>3. CASE ~(qHead[q] <= qTail[q])
  BY <1>1, <1>3 DEF Pending, DataAvailable, IsEmpty
<1>4. QED
  BY <1>2, <1>3

\* The messages of a queue lie in its buffer, one per slot, and none in the
\* slot that is written next.
LEMMA SlotBounds ==
  ASSUME TypeOK, NEW q \in Queues, NEW i \in 1..Pending(q)
  PROVE  SlotOf(q, i) \in Slots(q) /\ SlotOf(q, i) # qTail[q]
<1>1. /\ qHead[q] \in Nat /\ qHead[q] < QueueSize[q]
      /\ qTail[q] \in Nat /\ qTail[q] < QueueSize[q]
      /\ QueueSize[q] \in Nat /\ i \in Nat /\ 1 <= i /\ i <= Pending(q)
  BY PendingBounds, SlotsInterval DEF TypeOK
<1>2. /\ SlotOf(q, i) \in Nat /\ SlotOf(q, i) < QueueSize[q]
      /\ SlotOf(q, i) # qTail[q]
  BY <1>1 DEF Pending, SlotOf
<1>3. QED
  BY <1>2, SlotsInterval

\* The abstract content of a queue is a sequence of messages.
HasPending(q) ==
  /\ Contents(q) \in Seq(Messages)
  /\ Len(Contents(q)) = Pending(q)
  /\ \A i \in 1..Pending(q) : Contents(q)[i] = qBody[q][SlotOf(q, i)]

\* The contents of a queue are a sequence as long as what it has pending, read
\* off the slots of its buffer.
LEMMA ContentsType == TypeOK => \A q \in Queues : HasPending(q)
<1>1. SUFFICES ASSUME TypeOK, NEW q \in Queues
               PROVE  HasPending(q)
  OBVIOUS
<1>2. Pending(q) \in Nat
  BY <1>1, PendingBounds
<1>3. \A i \in 1..Pending(q) : qBody[q][SlotOf(q, i)] \in Messages
  BY <1>1, SlotBounds DEF TypeOK
<1>4. Contents(q) \in [1..Pending(q) -> Messages]
  BY <1>3 DEF Contents
<1>5. Contents(q) \in Seq(Messages)
  BY <1>2, <1>4, SeqDef
<1>6. Len(Contents(q)) = Pending(q)
  BY <1>2, <1>4, <1>5, LenProperties
<1>7. QED
  BY <1>5, <1>6 DEF Contents, HasPending

\* The same of the contents after a step.
LEMMA ContentsTypeNext == (TypeOK => \A q \in Queues : HasPending(q))'
  BY ContentsType, PTL

\* Writing a message appends it to its queue and leaves the others alone.
LEMMA WriteAppends ==
  ASSUME TypeOK, TypeOK', NEW q \in Queues, NEW m \in Messages,
         WriteMessage(q, m), qHead' = qHead
  PROVE  /\ Len(QueueContents[q]) < QueueSize[q] - 1
         /\ QueueContents' = [QueueContents EXCEPT ![q] = Append(@, m)]
<1>1. /\ Pending(q) < QueueSize[q] - 1
      /\ Pending(q) \in Nat
      /\ qTail[q] \in Slots(q) /\ qTail'[q] = NextSlot(q, qTail[q])
      /\ qHead[q] \in Slots(q)
  BY PendingBounds, SlotsInterval DEF WriteMessage, TypeOK
<1>2. Pending(q)' = Pending(q) + 1
  BY <1>1, SlotsInterval DEF Pending, NextSlot
<1>3. \A i \in 1..(Pending(q) + 1) : SlotOf(q, i)' = SlotOf(q, i)
  BY DEF SlotOf
<1>4. SlotOf(q, Pending(q) + 1) = qTail[q]
  BY <1>1, SlotsInterval DEF SlotOf, Pending
<1>5. /\ qBody'[q][qTail[q]] = m
      /\ \A s \in Slots(q) : s # qTail[q] => qBody'[q][s] = qBody[q][s]
  BY <1>1 DEF WriteMessage, TypeOK
<1>6. \A i \in 1..(Pending(q) + 1) :
        Contents(q)'[i] = IF i <= Pending(q) THEN Contents(q)[i] ELSE m
  <2>1. TAKE i \in 1..(Pending(q) + 1)
  <2>2. Contents(q)'[i] = qBody'[q][SlotOf(q, i)]
    BY <1>2, <1>3 DEF Contents
  <2>3. CASE i <= Pending(q)
    <3>1. i \in 1..Pending(q)
      BY <1>1, <2>3
    <3>2. SlotOf(q, i) \in Slots(q) /\ SlotOf(q, i) # qTail[q]
      BY <3>1, SlotBounds
    <3>3. QED
      BY <1>5, <2>2, <2>3, <3>1, <3>2, ContentsType DEF HasPending
  <2>4. CASE ~(i <= Pending(q))
    <3>1. i = Pending(q) + 1
      BY <1>1, <2>4
    <3>2. QED
      BY <1>4, <1>5, <2>2, <2>4, <3>1
  <2>5. QED
    BY <2>3, <2>4
<1>7. /\ Contents(q) \in Seq(Messages) /\ Len(Contents(q)) = Pending(q)
      /\ Contents(q)' \in Seq(Messages) /\ Len(Contents(q)') = Pending(q) + 1
  BY <1>2, ContentsType, ContentsTypeNext DEF HasPending
<1>8. Contents(q)' = Append(Contents(q), m)
  <2>1. /\ Append(Contents(q), m) \in Seq(Messages)
        /\ Len(Append(Contents(q), m)) = Pending(q) + 1
        /\ \A i \in 1..(Pending(q) + 1) :
             Append(Contents(q), m)[i] = IF i <= Pending(q) THEN Contents(q)[i] ELSE m
    BY <1>7, AppendProperties
  <2>2. QED
    BY <1>6, <1>7, <2>1, SeqEqual
<1>9. \A k \in Queues : k # q => Contents(k)' = Contents(k)
  <2>1. \A k \in Queues : k # q => qBody'[k] = qBody[k] /\ qTail'[k] = qTail[k]
    BY DEF WriteMessage, TypeOK
  <2>2. QED
    BY <2>1 DEF Contents, Pending, SlotOf
<1>10. QED
  BY <1>1, <1>7, <1>8, <1>9 DEF QueueContents

\* Retrieving a message takes the oldest one of its queue.
LEMMA RetrieveTakesOldest ==
  ASSUME TypeOK, TypeOK', NEW p \in Processes, NEW q \in Queues, RetrieveMessage(p, q)
  PROVE  /\ QueueContents[q] # <<>>
         /\ msg' = [msg EXCEPT ![p] = Head(QueueContents[q])]
         /\ QueueContents' = [QueueContents EXCEPT ![q] = Tail(@)]
<1>1. /\ Pending(q) \in Nat /\ Pending(q) # 0
      /\ qTail[q] \in Slots(q) /\ qTail' = qTail /\ qBody' = qBody
      /\ qHead[q] \in Slots(q) /\ qHead'[q] = NextSlot(q, qHead[q])
  BY PendingBounds DEF RetrieveMessage, TypeOK
<1>2. Pending(q)' = Pending(q) - 1
  BY <1>1, SlotsInterval DEF Pending, NextSlot
<1>3. \A i \in 1..(Pending(q) - 1) : SlotOf(q, i)' = SlotOf(q, i + 1)
  <2>1. TAKE i \in 1..(Pending(q) - 1)
  <2>2. /\ qHead[q] \in Nat /\ qHead[q] < QueueSize[q] /\ QueueSize[q] \in Nat
        /\ i \in Nat /\ 1 <= i /\ i < QueueSize[q]
    BY <1>1, PendingBounds, SlotsInterval
  <2>3. SlotOf(q, i)' = IF NextSlot(q, qHead[q]) + i - 1 < QueueSize[q]
                        THEN NextSlot(q, qHead[q]) + i - 1
                        ELSE NextSlot(q, qHead[q]) + i - 1 - QueueSize[q]
    BY <1>1 DEF SlotOf
  <2>4. QED
    BY <2>2, <2>3 DEF SlotOf, NextSlot
<1>4. SlotOf(q, 1) = qHead[q]
  BY <1>1, SlotsInterval DEF SlotOf
<1>5. /\ Contents(q) \in Seq(Messages) /\ Len(Contents(q)) = Pending(q)
      /\ Contents(q)' \in Seq(Messages) /\ Len(Contents(q)') = Pending(q) - 1
  BY <1>2, ContentsType, ContentsTypeNext DEF HasPending
<1>6. Contents(q) # <<>> /\ Head(Contents(q)) = qBody[q][qHead[q]]
  <2>1. 1 \in 1..Pending(q)
    BY <1>1
  <2>2. Contents(q)[1] = qBody[q][qHead[q]]
    BY <1>4, <2>1, ContentsType DEF HasPending
  <2>3. Contents(q) # <<>>
    BY <1>1, <1>5
  <2>4. QED
    BY <1>5, <2>2, <2>3, HeadTailProperties
<1>7. \A i \in 1..(Pending(q) - 1) : Contents(q)'[i] = Contents(q)[i + 1]
  <2>1. TAKE i \in 1..(Pending(q) - 1)
  <2>2. Contents(q)'[i] = qBody[q][SlotOf(q, i + 1)]
    BY <1>1, <1>2, <1>3 DEF Contents
  <2>3. i + 1 \in 1..Pending(q)
    BY <1>1
  <2>4. QED
    BY <2>2, <2>3, ContentsType DEF HasPending
<1>8. Contents(q)' = Tail(Contents(q))
  <2>1. /\ Tail(Contents(q)) \in Seq(Messages)
        /\ Len(Tail(Contents(q))) = Pending(q) - 1
        /\ \A i \in 1..(Pending(q) - 1) : Tail(Contents(q))[i] = Contents(q)[i + 1]
    BY <1>5, <1>6, HeadTailProperties
  <2>2. QED
    BY <1>5, <1>7, <2>1, SeqEqual
<1>9. \A k \in Queues : k # q => Contents(k)' = Contents(k)
  <2>1. \A k \in Queues : k # q => qHead'[k] = qHead[k]
    BY DEF RetrieveMessage, TypeOK
  <2>2. QED
    BY <1>1, <2>1 DEF Contents, Pending, SlotOf
<1>10. QED
  BY <1>6, <1>8, <1>9 DEF QueueContents, RetrieveMessage

\* The circular buffers, the blocking and the scheduling implement bounded
\* first-in first-out queues: nothing is lost, doubled or overtaken.
THEOREM KernelImplementsQueues == Spec => ImplementsQueues
<1>1. Init => Fifo!Init
  <2>1. SUFFICES ASSUME Init
                 PROVE  Fifo!Init
    OBVIOUS
  <2>2. \A q \in Queues : Contents(q) = <<>>
    <3>1. TAKE q \in Queues
    <3>2. TypeOK /\ Pending(q) = 0
      BY <2>1, TypeInduction DEF Init, Pending
    <3>3. Contents(q) \in Seq(Messages) /\ Len(Contents(q)) = 0
      BY <3>2, ContentsType DEF HasPending
    <3>4. QED
      BY <3>3, EmptySeq
  <2>3. msg \in [Processes -> Messages]
    BY <2>1, TypeInduction DEF TypeOK
  <2>4. QED
    BY <2>2, <2>3 DEF Fifo!Init, QueueContents
<1>2. ASSUME TypeOK, TypeOK', [Next]_vars
      PROVE  [Fifo!Next]_(Fifo!vars)
  <2>1. ASSUME NEW q \in Queues, NEW m \in Messages, WriteMessage(q, m), qHead' = qHead, msg' = msg
        PROVE  Fifo!Next
    BY <1>2, <2>1, WriteAppends DEF Fifo!Next, Fifo!Put, QueueCapacity
  <2>2. ASSUME NEW p \in Processes, NEW q \in Queues, RetrieveMessage(p, q)
        PROVE  Fifo!Next
    BY <1>2, <2>2, RetrieveTakesOldest DEF Fifo!Next, Fifo!Get
  <2>3. ASSUME UNCHANGED <<queueVars, msg>>
        PROVE  UNCHANGED Fifo!vars
    BY <2>3 DEF queueVars, Fifo!vars, QueueContents, Contents, Pending, SlotOf
  <2>4. QED
    BY <1>2, <2>1, <2>2, <2>3
    DEF Next, ProcessStep, BlockOnEmptyQueue, PutByProcess, PutByInterrupt,
        ProcessReschedules, QueueOverrun, OS_Scheduler, vars, queueVars
<1>3. QED
  BY <1>1, <1>2, KernelTypeCorrect, PTL DEF Spec, ImplementsQueues, Fifo!Spec
=============================================================================
