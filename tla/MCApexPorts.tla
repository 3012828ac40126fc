------------------------------ MODULE MCApexPorts ------------------------------
(***************************************************************************)
(* The two ports of the ASIC.  They have no state in common: "port" says   *)
(* which of them a behaviour is about.                                     *)
(***************************************************************************)
EXTENDS MCApexMessaging

CONSTANTS Tasks, Timeouts                                         \* of ApexPortA

VARIABLES
  register, pResponseCbA, imask, sendingA, isr, running, reschedulePending, assertPortA,
  port

portAVars == <<register, pResponseCbA, imask, sendingA, isr, running, reschedulePending,
               assertPortA>>
portsVars == <<vars, portAVars, port>>

A == INSTANCE ApexPortA WITH sending <- sendingA

ASSUME PortsAssumption == A!PortAAssumption

\* What stands still has one value.
PortsInit ==
  /\ port \in {"A", "B"}
  /\ Init /\ A!Init
  /\ port = "A" => MSG_Q_SIZE = CHOOSE n \in MsgQueueSizes : TRUE
  /\ port = "B" => running = CHOOSE t \in Tasks : TRUE

OfA(Action) == port = "A" /\ Action /\ UNCHANGED <<vars, port>>
OfB(Action) == port = "B" /\ Action /\ UNCHANGED <<portAVars, port>>

ANext ==
  \/ \E c \in A!Contexts, r \in A!Registers, t \in Timeouts : OfA(A!Send(c, r, t))
  \/ \E c \in A!Contexts : OfA(A!LookAgain(c))
  \/ OfA(A!InterruptAsserts)
  \/ OfA(A!PerformCallback)
  \/ OfA(A!NoCallback)
  \/ OfA(A!Acknowledge)
  \/ \E r \in A!Registers : OfA(A!ApexTakes(r))
  \/ OfA(A!ApexHandsOver)
  \/ OfA(A!Reschedule)

BNext ==
  \/ \E cb \in Cbs : OfB(ApexDelivers(cb))
  \/ OfB(ApexTakesResponse)
  \/ OfB(ApexTakesRequest)
  \/ OfB(InterruptAsserts)
  \/ OfB(ForwardCb)
  \/ OfB(RejectCb)
  \/ OfB(InterruptSends)
  \/ OfB(TakeMessage)
  \/ OfB(RouteRequest)
  \/ OfB(RefuseRequest)
  \/ OfB(CallResponseRoutine)
  \/ OfB(EndResponse)
  \/ OfB(TaskSends("message"))
  \/ \E w \in Workers :
       \/ \E cb \in Cbs : OfB(AnswerRequest(w, cb))
       \/ OfB(FindFreeHostCb(w))
       \/ OfB(AssignResponseRoutine(w))
       \/ OfB(SendRequest(w))
       \/ OfB(TaskSends(w))

\* The fairness of ApexMessaging and of ApexPortA.
PortsFairness ==
  /\ WF_portsVars(OfB(Interrupt))
  /\ SF_portsVars(OfB(MessageTask))
  /\ \A w \in Workers :
       /\ \A cb \in ApexCbs : SF_portsVars(OfB(AnswerRequest(w, cb)))
       /\ SF_portsVars(OfB(AssignResponseRoutine(w)))
       /\ SF_portsVars(OfB(SendRequest(w)))
       /\ SF_portsVars(OfB(TaskSends(w)))
  /\ WF_portsVars(OfB(ApexTakesResponse)) /\ WF_portsVars(OfB(ApexTakesRequest))
  /\ \A cb \in HostCbs : SF_portsVars(OfB(ApexDelivers(cb)))
  /\ \A t \in Tasks : SF_portsVars(OfA(A!LookAgain(t)))
  /\ WF_portsVars(OfA(A!LookAgain("isr"))) /\ WF_portsVars(OfA(A!Acknowledge))
  /\ SF_portsVars(OfA(A!Reschedule))

PortsSpec == PortsInit /\ [][ANext \/ BNext]_portsVars /\ PortsFairness

-----------------------------------------------------------------------------
\* A sender that waits for port A is never rescheduled, though the callbacks of
\* interrupts send as well.
NoSenderIsSuspended == A!NoSenderIsSuspended

\* A task that is made ready while a sender waits is scheduled in the end, even if the
\* ASIC never takes a Cb again.
ReadyTaskIsScheduled == A!ReadyTaskIsScheduled
=============================================================================
