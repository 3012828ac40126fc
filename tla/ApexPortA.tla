------------------------------- MODULE ApexPortA -------------------------------
(***************************************************************************)
(* Port A of the ASIC (Apex.c): Apex_SendCons and Apex_SendProd, which     *)
(* tasks and the callbacks of the interrupt use to hand a Cb over, and     *)
(* the interrupt Apex_CbaIsr.  A sender looks at its register with         *)
(* interrupts off; while the ASIC has not taken the last Cb it delays with *)
(* interrupts on, but for the one the operating system reschedules by.     *)
(*                                                                         *)
(* What stands between cli and sti is one step; imask is what the last sti *)
(* has set.  Every context sends a Cb of its own.  The ASIC, the callbacks *)
(* and what makes a task ready are external.                               *)
(***************************************************************************)
EXTENDS Integers

CONSTANTS
  Tasks,
  Timeouts  \* the time-outs callers pass, in delays

PortAAssumption == Timeouts \subseteq Int /\ "isr" \notin Tasks

Registers  == {"pCommConsCbA", "pCommProdCbA"}
Contexts   == Tasks \cup {"isr"}
Events     == {"reschedule", "apex"}
NULL       == "NULL"

VARIABLES
  register,       \* register[r]: the context whose Cb stands in it, or NULL
  pResponseCbA,   \* the Cb the ASIC hands over: has it a response routine?
  imask,          \* the events that are enabled
  sending,        \* sending[c]: the call a context is in
  isr,            \* what apex_cba_resp is at
  running,        \* the task that was dispatched last
  reschedulePending,
  assertPortA     \* OS_Assert

vars == <<register, pResponseCbA, imask, sending, isr, running, reschedulePending, assertPortA>>

NotSending == [register |-> NULL, timeout |-> 0, imask_working |-> {}, imask_reschedule |-> {}]

Init ==
  /\ register = [r \in Registers |-> NULL]
  /\ pResponseCbA = NULL
  /\ imask = Events
  /\ sending = [c \in Contexts |-> NotSending]
  /\ isr = "idle"
  /\ running \in Tasks
  /\ reschedulePending = FALSE
  /\ assertPortA = FALSE

Idle(c) == sending[c] = NotSending

\* The event that reschedules is taken as soon as nothing masks it.
RescheduleIsTaken == reschedulePending /\ "reschedule" \in imask

Runs(c) ==
  /\ ~assertPortA
  /\ IF c = "isr" THEN isr # "idle" ELSE isr = "idle" /\ running = c /\ ~RescheduleIsTaken

(***************************************************************************)
(* Apex_SendCons and Apex_SendProd.                                        *)
(***************************************************************************)
\* Make sure we check at least once.
AtLeastOnce(timeout) == IF timeout <= 0 THEN 1 ELSE timeout

\* imask_working & ~OS_RESCHEDULE_EVT
WithoutReschedule(mask) == mask \ {"reschedule"}

\* Mutant: the sender enables all events, whatever was enabled before.
AllEvents(call) == Events

\* imask_working | imask_reschedule
Restored(call) == call.imask_working \cup call.imask_reschedule

\* Mutant: the sender waits for ever.
Undiminished(call) == call.timeout

Remaining(call) == call.timeout - 1

Returns(c, call) ==
  /\ imask' = Restored(call)
  /\ sending' = [sending EXCEPT ![c] = NotSending]

\* The last Cb was processed: send this one.
Hand(c, call) ==
  /\ register[call.register] = NULL
  /\ register' = [register EXCEPT ![call.register] = c]
  /\ Returns(c, call)

TimeOut(c, call) ==
  /\ register[call.register] # NULL /\ call.timeout = 0
  /\ Returns(c, call)
  /\ UNCHANGED register

Delay(c, call) ==
  /\ register[call.register] # NULL /\ call.timeout # 0
  /\ imask' = call.imask_working
  /\ sending' = [sending EXCEPT ![c] = [call EXCEPT !.timeout = Remaining(call)]]
  /\ UNCHANGED register

Look(c, call) ==
  /\ Hand(c, call) \/ TimeOut(c, call) \/ Delay(c, call)
  /\ UNCHANGED <<pResponseCbA, running, reschedulePending, assertPortA>>

\* A callback sends at most one Cb.
MaySend(c) == Runs(c) /\ Idle(c) /\ (c = "isr" => isr = "callback")

Send(c, r, timeout) ==
  /\ MaySend(c)
  /\ Look(c, [register |-> r, timeout |-> AtLeastOnce(timeout),
              imask_working |-> WithoutReschedule(imask),
              imask_reschedule |-> imask \cap {"reschedule"}])
  /\ isr' = IF c = "isr" THEN "sent" ELSE isr

\* The delay is over.
LookAgain(c) ==
  /\ Runs(c) /\ ~Idle(c)
  /\ Look(c, [sending[c] EXCEPT !.imask_working = imask])
  /\ UNCHANGED isr

(***************************************************************************)
(* Apex_CbaIsr and apex_cba_resp.                                          *)
(***************************************************************************)
Interrupted == ~assertPortA /\ isr = "idle" /\ "apex" \in imask

\* A fault of the ASIC pulls the interrupt, or the vector is not one of the table's.
InterruptAsserts ==
  /\ Interrupted
  /\ assertPortA' = TRUE
  /\ UNCHANGED <<register, pResponseCbA, imask, sending, isr, running, reschedulePending>>

\* The callback may make tasks ready.
PerformCallback ==
  /\ Interrupted /\ pResponseCbA = "with routine"
  /\ isr' = "callback"
  /\ reschedulePending' \in {reschedulePending, TRUE}
  /\ UNCHANGED <<register, pResponseCbA, imask, sending, running, assertPortA>>

NoCallback ==
  /\ Interrupted /\ pResponseCbA = "without routine"
  /\ assertPortA' = TRUE
  /\ UNCHANGED <<register, pResponseCbA, imask, sending, isr, running, reschedulePending>>

\* The callback returns: acknowledge.
Acknowledge ==
  /\ Runs("isr") /\ Idle("isr")
  /\ pResponseCbA' = NULL
  /\ isr' = "idle"
  /\ UNCHANGED <<register, imask, sending, running, reschedulePending, assertPortA>>

(***************************************************************************)
(* The ASIC and the scheduler.                                             *)
(***************************************************************************)
ApexTakes(r) ==
  /\ register[r] # NULL
  /\ register' = [register EXCEPT ![r] = NULL]
  /\ UNCHANGED <<pResponseCbA, imask, sending, isr, running, reschedulePending, assertPortA>>

ApexHandsOver ==
  /\ pResponseCbA = NULL
  /\ pResponseCbA' \in {"with routine", "without routine"}
  /\ UNCHANGED <<register, imask, sending, isr, running, reschedulePending, assertPortA>>

\* OS_Scheduler, which runs in the event of lowest priority.
Reschedule ==
  /\ ~assertPortA /\ isr = "idle" /\ RescheduleIsTaken
  /\ running' \in Tasks
  /\ reschedulePending' = FALSE
  /\ UNCHANGED <<register, pResponseCbA, imask, sending, isr, assertPortA>>

Next ==
  \/ \E c \in Contexts, r \in Registers, t \in Timeouts : Send(c, r, t)
  \/ \E c \in Contexts : LookAgain(c)
  \/ InterruptAsserts \/ PerformCallback \/ NoCallback \/ Acknowledge
  \/ \E r \in Registers : ApexTakes(r)
  \/ ApexHandsOver \/ Reschedule

Spec == Init /\ [][Next]_vars

\* Delays end, callbacks return, and interrupts leave the tasks time.
Fairness ==
  /\ \A t \in Tasks : SF_vars(LookAgain(t))
  /\ WF_vars(LookAgain("isr")) /\ WF_vars(Acknowledge)
  /\ SF_vars(Reschedule)

FairSpec == Spec /\ Fairness

-----------------------------------------------------------------------------
\* A sender that waits is never rescheduled, though interrupts go on and their
\* callbacks send as well: the task that runs is the only one inside a call.
NoSenderIsSuspended == \A t \in Tasks : ~Idle(t) => t = running

\* However calls of a task and of callbacks nest and time out, no event is left
\* masked: outside a call everything is enabled.
NoEventStaysMasked == (\A c \in Contexts : Idle(c)) => imask = Events

\* "imask_reschedule": a task that is made ready while a sender waits is scheduled
\* in the end, even if the ASIC never takes a Cb again.
ReadyTaskIsScheduled == reschedulePending ~> ~reschedulePending \/ assertPortA
=============================================================================
