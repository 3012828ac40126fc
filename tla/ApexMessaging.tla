---------------------------- MODULE ApexMessaging ----------------------------
(***************************************************************************)
(* Messages between the host and the ASIC on channel B (Apex.c): the       *)
(* interrupt apex_cbb_resp, the message task Apex_MessageProcess, the host *)
(* Cbs of Apex_GetHostCb, and Apex_SendResp and Apex_SendRqst, which wait  *)
(* for a register to become free before they write it.                     *)
(*                                                                         *)
(* The ASIC hands a Cb over in pResponseCbB.  The interrupt puts it on the *)
(* message queue, or rejects it when the queue is full.  The message task  *)
(* routes a request to its handler, which answers in its own time, or      *)
(* calls the routine that waits for a response.  The message queue is the  *)
(* one of MessageQueues, which OsKernel implements with MSG_Q_SIZE - 1     *)
(* places.  The ASIC, the message router and the handlers are external.    *)
(***************************************************************************)
EXTENDS Naturals, Sequences, FiniteSets

CONSTANTS
  ApexCbs,        \* Cbs of the ASIC: requests to the host
  HostTable,      \* the table host_cbs, as the sequence of its Cbs
  Workers,        \* tasks that send requests and answer routed ones
  MsgQueueSizes,  \* the values of MSG_Q_SIZE a build may have
  CbTimeout       \* APEX_CB_TIMEOUT/1000, the delays of one wait

HostCbs == {HostTable[i] : i \in DOMAIN HostTable}
NULL    == "NULL"

ASSUME MessagingAssumption ==
  /\ HostTable \in Seq(HostCbs)
  /\ ApexCbs \cap HostCbs = {} /\ NULL \notin ApexCbs \cup HostCbs
  /\ Workers \cap {NULL, "isr", "message"} = {}
  /\ MsgQueueSizes \subseteq Nat \ {0} /\ MsgQueueSizes # {}
  /\ CbTimeout \in Nat \ {0}

Cbs      == ApexCbs \cup HostCbs
Contexts == Workers \cup {"isr", "message"}

VARIABLES
  withApex,      \* the Cbs the ASIC holds
  pResponseCbB,  \* register: from the ASIC
  pCommRespCbB,  \* register: a response to the ASIC
  pCommRqstCbB,  \* register: a request to the ASIC
  command,       \* theCb->command
  msgQueue,      \* the queue MSG_Q_ID
  MSG_Q_SIZE,    \* the size of its buffer, which never changes
  msgCb,         \* the Cb Apex_MessageProcess deals with
  called,        \* the response routine was called and is not cleared yet
  routed,        \* requests whose handler has not answered yet
  rxRspRoutine,  \* host_cbs[i].rx_rsp_routine: who waits for the response
  rotateCbs,     \* rotate_cbs: the place in the table looked at last
  found,         \* the free host Cb a worker has found in Apex_GetHostCb
  hasCb,         \* the host Cb Apex_GetHostCb returned to a worker
  sending,       \* Apex_SendResp or Apex_SendRqst of a context: [to, cb, timeout]
  halted         \* OS_Assert

sendVars == <<pCommRespCbB, pCommRqstCbB, withApex>>
hostVars == <<rxRspRoutine, rotateCbs, found, hasCb>>
vars == <<withApex, pResponseCbB, pCommRespCbB, pCommRqstCbB, command, msgQueue,
          MSG_Q_SIZE, msgCb, called, routed, rxRspRoutine, rotateCbs, found, hasCb, sending,
          halted>>

NotSending == [to |-> "nobody", cb |-> NULL, timeout |-> 0]

Init ==
  /\ withApex = ApexCbs
  /\ pResponseCbB = NULL /\ pCommRespCbB = NULL /\ pCommRqstCbB = NULL
  /\ command = [cb \in Cbs |-> "none"]
  /\ msgQueue = <<>> /\ MSG_Q_SIZE \in MsgQueueSizes
  /\ msgCb = NULL
  /\ called = FALSE
  /\ routed = {}
  /\ rxRspRoutine = [h \in HostCbs |-> NULL]
  /\ rotateCbs = 1
  /\ found = [w \in Workers |-> NULL]
  /\ hasCb = [w \in Workers |-> NULL]
  /\ sending = [c \in Contexts |-> NotSending]
  /\ halted = FALSE

Idle(c) == sending[c] = NotSending

\* A task executes: nothing is asserted and the interrupt is not being served.
TaskRuns(c) == ~halted /\ Idle("isr") /\ c \in Contexts \ {"isr"}

(***************************************************************************)
(* The ASIC.                                                               *)
(***************************************************************************)
ApexDelivers(cb) ==
  /\ ~halted
  /\ cb \in withApex /\ pResponseCbB = NULL
  /\ withApex' = withApex \ {cb}
  /\ pResponseCbB' = cb
  /\ \E c \in IF cb \in HostCbs THEN {"RX_RSP"} ELSE {"RX_REQ", "unknown"} :
       command' = [command EXCEPT ![cb] = c]
  /\ UNCHANGED <<pCommRespCbB, pCommRqstCbB, msgQueue, MSG_Q_SIZE, msgCb, called, routed,
                 hostVars, sending, halted>>

ApexTakesResponse ==
  /\ ~halted /\ pCommRespCbB # NULL
  /\ withApex' = withApex \cup {pCommRespCbB}
  /\ pCommRespCbB' = NULL
  /\ UNCHANGED <<pResponseCbB, pCommRqstCbB, command, msgQueue, MSG_Q_SIZE, msgCb, called,
                 routed, hostVars, sending, halted>>

ApexTakesRequest ==
  /\ ~halted /\ pCommRqstCbB # NULL
  /\ withApex' = withApex \cup {pCommRqstCbB}
  /\ pCommRqstCbB' = NULL
  /\ UNCHANGED <<pResponseCbB, pCommRespCbB, command, msgQueue, MSG_Q_SIZE, msgCb, called,
                 routed, hostVars, sending, halted>>

(***************************************************************************)
(* Apex_SendResp and Apex_SendRqst, in the context of a task or of the     *)
(* interrupt: check and write with interrupts off, delay with them on.     *)
(***************************************************************************)
Begin(c, to, cb) ==
  sending' = [sending EXCEPT ![c] = [to |-> to, cb |-> cb, timeout |-> CbTimeout]]

\* Mutant: the register is written without a look.
MayAlwaysWrite(register) == TRUE

\* Has Apex processed the last Cb?
MayWrite(register) == register = NULL

WriteRegister(c) ==
  /\ \/ /\ sending[c].to = "resp" /\ MayWrite(pCommRespCbB)
        /\ pCommRespCbB' = sending[c].cb
        /\ UNCHANGED pCommRqstCbB
     \/ /\ sending[c].to = "rqst" /\ MayWrite(pCommRqstCbB)
        /\ pCommRqstCbB' = sending[c].cb
        /\ UNCHANGED pCommRespCbB
  /\ sending' = [sending EXCEPT ![c] = NotSending]
  /\ UNCHANGED halted

IsBusy(c) ==
  IF sending[c].to = "resp" THEN ~MayWrite(pCommRespCbB) ELSE ~MayWrite(pCommRqstCbB)

DelayOrAssert(c) ==
  /\ ~Idle(c) /\ IsBusy(c)
  /\ halted' = (sending[c].timeout = 0)
  /\ sending' = [sending EXCEPT ![c].timeout = IF @ = 0 THEN 0 ELSE @ - 1]
  /\ UNCHANGED <<pCommRespCbB, pCommRqstCbB>>

Send(c) == WriteRegister(c) \/ DelayOrAssert(c)

TaskSends(c) ==
  /\ TaskRuns(c)
  /\ Send(c)
  /\ UNCHANGED <<withApex, pResponseCbB, command, msgQueue, MSG_Q_SIZE, msgCb, called,
                 routed, hostVars>>

(***************************************************************************)
(* apex_cbb_resp.  The register is acknowledged when the Cb is on the      *)
(* queue, or when its rejection is on its way.                             *)
(***************************************************************************)
\* OS_PutQueue accepts the message.
HasRoom == Len(msgQueue) < MSG_Q_SIZE - 1

\* Apex_CbbIsr: a fault of the ASIC pulls the interrupt too, and the vector may be none
\* of the table's.
InterruptAsserts ==
  /\ ~halted /\ Idle("isr")
  /\ halted' = TRUE
  /\ UNCHANGED <<sendVars, pResponseCbB, command, msgQueue, MSG_Q_SIZE, msgCb, called,
                 routed, hostVars, sending>>

ForwardCb ==
  /\ ~halted /\ Idle("isr") /\ pResponseCbB # NULL /\ HasRoom
  /\ msgQueue' = Append(msgQueue, pResponseCbB)
  /\ pResponseCbB' = NULL
  /\ UNCHANGED <<MSG_Q_SIZE, sendVars, command, msgCb, called, routed, hostVars, sending,
                 halted>>

RejectCb ==
  /\ ~halted /\ Idle("isr") /\ pResponseCbB # NULL /\ ~HasRoom
  /\ command' = [command EXCEPT ![pResponseCbB] = "TX_RSP"]
  /\ Begin("isr", "resp", pResponseCbB)
  /\ UNCHANGED <<sendVars, pResponseCbB, msgQueue, MSG_Q_SIZE, msgCb, called, routed,
                 hostVars, halted>>

\* pHI_ApexReg->pResponseCbB = NULL.
Acknowledge == IF Idle("isr")' THEN NULL ELSE pResponseCbB

InterruptSends ==
  /\ ~halted
  /\ Send("isr")
  /\ pResponseCbB' = Acknowledge
  /\ UNCHANGED <<withApex, command, msgQueue, MSG_Q_SIZE, msgCb, called, routed, hostVars>>

(***************************************************************************)
(* Apex_MessageProcess.                                                    *)
(***************************************************************************)
TakeMessage ==
  /\ TaskRuns("message") /\ Idle("message")
  /\ msgCb = NULL /\ msgQueue # <<>>
  /\ msgCb' = Head(msgQueue)
  /\ msgQueue' = Tail(msgQueue)
  /\ UNCHANGED <<MSG_Q_SIZE, sendVars, pResponseCbB, command, called, routed, hostVars,
                 sending, halted>>

DealsWith(cmd) == TaskRuns("message") /\ msgCb # NULL /\ command[msgCb] = cmd

\* The router finds a handler, which will answer.
RouteRequest ==
  /\ DealsWith("RX_REQ")
  /\ routed' = routed \cup {msgCb}
  /\ msgCb' = NULL
  /\ UNCHANGED <<sendVars, pResponseCbB, command, msgQueue, MSG_Q_SIZE, called, hostVars,
                 sending, halted>>

\* Mutant: the error response is forgotten.
NoErrorResponse == UNCHANGED sending

\* MR_Response or the default case, which call Apex_SendResp.
ErrorResponse == Begin("message", "resp", msgCb)

\* No route, or an unknown command: an error response.
RefuseRequest ==
  /\ DealsWith("RX_REQ") \/ DealsWith("unknown")
  /\ ErrorResponse
  /\ command' = [command EXCEPT ![msgCb] = "TX_RSP"]
  /\ msgCb' = NULL
  /\ UNCHANGED <<sendVars, pResponseCbB, msgQueue, MSG_Q_SIZE, called, routed, hostVars,
                 halted>>

\* A response: the routine is called ...
CallResponseRoutine ==
  /\ DealsWith("RX_RSP") /\ ~called
  /\ rxRspRoutine[msgCb] # NULL
  /\ called' = TRUE
  /\ UNCHANGED <<sendVars, pResponseCbB, command, msgQueue, MSG_Q_SIZE, msgCb, routed,
                 hostVars, sending, halted>>

\* Mutant: the response routine is not cleared.
RoutineStays == rxRspRoutine

RoutineCleared == [rxRspRoutine EXCEPT ![msgCb] = NULL]

\* ... and then cleared, which frees the host Cb.  A response nobody waits for
\* is dropped.
EndResponse ==
  /\ DealsWith("RX_RSP")
  /\ called \/ rxRspRoutine[msgCb] = NULL
  /\ rxRspRoutine' = RoutineCleared
  /\ called' = FALSE
  /\ msgCb' = NULL
  /\ UNCHANGED <<sendVars, pResponseCbB, command, msgQueue, MSG_Q_SIZE, routed, rotateCbs,
                 found, hasCb, sending, halted>>

(***************************************************************************)
(* The workers.                                                            *)
(***************************************************************************)
\* A handler answers a request that was routed to it.
AnswerRequest(w, cb) ==
  /\ TaskRuns(w) /\ Idle(w)
  /\ cb \in routed
  /\ routed' = routed \ {cb}
  /\ command' = [command EXCEPT ![cb] = "TX_RSP"]
  /\ Begin(w, "resp", cb)
  /\ UNCHANGED <<sendVars, pResponseCbB, msgQueue, MSG_Q_SIZE, msgCb, called, hostVars,
                 halted>>

\* A host Cb is free when it has no response routine.
IsFree(i) == rxRspRoutine[HostTable[i]] = NULL

\* The place in the table k steps after the one looked at last.
Rotated(k) == ((rotateCbs - 1 + k) % Len(HostTable)) + 1

\* Apex_GetHostCb finds the next free host Cb.  Interrupts stay enabled ...
FindFreeHostCb(w) ==
  /\ TaskRuns(w) /\ Idle(w)
  /\ found[w] = NULL /\ hasCb[w] = NULL
  /\ \E k \in DOMAIN HostTable :
       /\ IsFree(Rotated(k)) /\ \A j \in 1..(k - 1) : ~IsFree(Rotated(j))
       /\ rotateCbs' = Rotated(k)
       /\ found' = [found EXCEPT ![w] = HostTable[Rotated(k)]]
  /\ UNCHANGED <<sendVars, pResponseCbB, command, msgQueue, MSG_Q_SIZE, msgCb, called,
                 routed, rxRspRoutine, hasCb, sending, halted>>

\* ... until it assigns the routine and returns the Cb.
AssignResponseRoutine(w) ==
  /\ TaskRuns(w) /\ found[w] # NULL
  /\ rxRspRoutine' = [rxRspRoutine EXCEPT ![found[w]] = w]
  /\ hasCb' = [hasCb EXCEPT ![w] = found[w]]
  /\ found' = [found EXCEPT ![w] = NULL]
  /\ UNCHANGED <<sendVars, pResponseCbB, command, msgQueue, MSG_Q_SIZE, msgCb, called,
                 routed, rotateCbs, sending, halted>>

\* The worker sends its request in the Cb.
SendRequest(w) ==
  /\ TaskRuns(w) /\ Idle(w) /\ hasCb[w] # NULL
  /\ command' = [command EXCEPT ![hasCb[w]] = "TX_REQ"]
  /\ Begin(w, "rqst", hasCb[w])
  /\ hasCb' = [hasCb EXCEPT ![w] = NULL]
  /\ UNCHANGED <<sendVars, pResponseCbB, msgQueue, MSG_Q_SIZE, msgCb, called, routed,
                 rxRspRoutine, rotateCbs, found, halted>>

MessageTask ==
  \/ TakeMessage \/ RouteRequest \/ RefuseRequest
  \/ CallResponseRoutine \/ EndResponse
  \/ TaskSends("message")

Worker(w) ==
  \/ \E cb \in Cbs : AnswerRequest(w, cb)
  \/ FindFreeHostCb(w)
  \/ AssignResponseRoutine(w)
  \/ SendRequest(w)
  \/ TaskSends(w)

Interrupt == ForwardCb \/ RejectCb \/ InterruptSends

Next ==
  \/ \E cb \in Cbs : ApexDelivers(cb)
  \/ ApexTakesResponse \/ ApexTakesRequest
  \/ Interrupt \/ InterruptAsserts
  \/ MessageTask
  \/ \E w \in Workers : Worker(w)

Spec == Init /\ [][Next]_vars

\* The processor serves the interrupt; it is fast enough that every task gets
\* on between interrupts and tasks of higher priority; handlers answer what is
\* routed to them; and the ASIC works.
Fairness ==
  /\ WF_vars(Interrupt)
  /\ SF_vars(MessageTask)
  /\ \A w \in Workers :
       /\ \A cb \in ApexCbs : SF_vars(AnswerRequest(w, cb))
       /\ SF_vars(AssignResponseRoutine(w))
       /\ SF_vars(SendRequest(w))
       /\ SF_vars(TaskSends(w))
  /\ WF_vars(ApexTakesResponse) /\ WF_vars(ApexTakesRequest)
  /\ \A cb \in HostCbs : SF_vars(ApexDelivers(cb))

FairSpec == Spec /\ Fairness

-----------------------------------------------------------------------------
\* Where a Cb can be.  One that is being rejected still stands in pResponseCbB.
Holders(cb) ==
  {<<x>> : x \in {y \in {"apex", "response", "resp", "rqst", "task", "routed"} :
     \/ y = "apex" /\ cb \in withApex
     \/ y = "response" /\ cb = pResponseCbB /\ Idle("isr")
     \/ y = "resp" /\ cb = pCommRespCbB
     \/ y = "rqst" /\ cb = pCommRqstCbB
     \/ y = "task" /\ cb = msgCb
     \/ y = "routed" /\ cb \in routed}}
  \cup {<<"queue", i>> : i \in {j \in DOMAIN msgQueue : msgQueue[j] = cb}}
  \cup {<<"sent by", c>> : c \in {d \in Contexts : sending[d].cb = cb}}
  \cup {<<"of", w>> : w \in {v \in Workers : hasCb[v] = cb}}

\* A Cb of the ASIC is in exactly one place, whatever the interrupt, the
\* message task and the handlers do with it: none is lost, none is answered
\* twice.  A host Cb is in one place at most, and in none only when it is free,
\* even when a full queue has it rejected as if it were a request.
EveryCbIsInOnePlace ==
  /\ \A cb \in ApexCbs : Cardinality(Holders(cb)) = 1
  /\ \A h \in HostCbs : Cardinality(Holders(h)) = IF rxRspRoutine[h] = NULL THEN 0 ELSE 1

\* "Find a free Host Cb (has no response routine defined)": the Cb that
\* Apex_GetHostCb has given to a worker is the worker's own, and the response
\* will go to the routine the worker passed.
HolderGetsTheResponse ==
  \A w \in Workers : hasCb[w] # NULL => rxRspRoutine[hasCb[w]] = w

\* Every request of the ASIC is answered: its Cb goes back, unless the host
\* asserts first.
EveryRequestIsAnswered ==
  \A cb \in ApexCbs : cb \notin withApex ~> cb \in withApex \/ halted

\* With MSG_Q_SIZE greater than the number of Cbs, no Cb is rejected.
QueueIsLarge == MSG_Q_SIZE > Cardinality(Cbs)

\* Every request of a worker gets its response, unless the queue overflows:
\* the routine is called and the host Cb becomes free again.
EveryHostCbIsFreedAgain ==
  \A h \in HostCbs :
    QueueIsLarge /\ rxRspRoutine[h] # NULL ~> rxRspRoutine[h] = NULL \/ halted
=============================================================================
