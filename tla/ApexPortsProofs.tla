---------------------------- MODULE ApexPortsProofs ----------------------------
(***************************************************************************)
(* The two ports of the ASIC, for any number of tasks, workers and Cbs, any*)
(* time-outs and any size of the message queue.  Port A: who waits is not  *)
(* rescheduled, and no event stays masked when the last call has returned. *)
(* Port B: no request of the ASIC is lost or answered twice.               *)
(***************************************************************************)
EXTENDS MCApexPorts, Integers, FiniteSetTheorems, TLAPS

(***************************************************************************)
(* Port A: Apex_SendCons and Apex_SendProd save the events they mask and   *)
(* restore them, in a task and in the callbacks that interrupt it.         *)
(***************************************************************************)
\* No task is inside a call.
TasksAreIdle == \A t \in Tasks : A!Idle(t)

AllAreIdle == TasksAreIdle /\ A!Idle("isr")

CallType ==
  [register : A!Registers, timeout : Int, imask_working : SUBSET A!Events,
   imask_reschedule : SUBSET A!Events]

TypeOK ==
  /\ sendingA \in [A!Contexts -> CallType \cup {A!NotSending}]
  /\ isr \in {"idle", "callback", "sent"}

\* While anybody waits, the event that reschedules is masked and nothing else is.
MaskFollowsCalls == imask = IF AllAreIdle THEN A!Events ELSE {"apex"}

\* A task has entered its call with everything enabled, and what a callback restores
\* depends on whether it has interrupted a task that waits.
CallsRestoreWhatTheyFound ==
  /\ \A t \in Tasks : ~A!Idle(t) => sendingA[t].imask_reschedule = {"reschedule"}
  /\ ~A!Idle("isr") =>
       /\ isr = "sent"
       /\ sendingA["isr"].imask_reschedule = IF TasksAreIdle THEN {"reschedule"} ELSE {}

IInv ==
  /\ TypeOK
  /\ A!NoSenderIsSuspended
  /\ MaskFollowsCalls
  /\ CallsRestoreWhatTheyFound

\* A call is never mistaken for no call.
LEMMA CallIsNotIdle ==
  ASSUME NEW call \in CallType
  PROVE  call # A!NotSending
BY DEF CallType, A!NotSending, A!Registers, A!NULL

\* What a look at the register leaves: the context has returned and restored the mask,
\* or it waits with the mask of its call, which is otherwise as it was.
LEMMA LookReturnsOrDelays ==
  ASSUME NEW c \in A!Contexts, NEW call \in CallType, TypeOK, A!Look(c, call)
  PROVE  \/ /\ imask' = A!Restored(call)
            /\ sendingA' = [sendingA EXCEPT ![c] = A!NotSending]
         \/ /\ imask' = call.imask_working
            /\ \E waits \in CallType :
                 /\ waits.imask_reschedule = call.imask_reschedule
                 /\ sendingA' = [sendingA EXCEPT ![c] = waits]
<1>1. CASE A!Hand(c, call) \/ A!TimeOut(c, call)
  BY <1>1 DEF A!Hand, A!TimeOut, A!Returns
<1>2. CASE A!Delay(c, call)
  <2> DEFINE waits == [call EXCEPT !.timeout = A!Remaining(call)]
  <2>1. waits \in CallType /\ waits.imask_reschedule = call.imask_reschedule
    BY DEF CallType, A!Remaining
  <2> QED BY <1>2, <2>1 DEF A!Delay
<1> QED BY <1>1, <1>2 DEF A!Look

\* A look of a task: nobody else waits, and it has found everything enabled.
LEMMA TaskLookPreserves ==
  ASSUME A!PortAAssumption, IInv, NEW c \in Tasks, NEW call \in CallType, A!Look(c, call),
         c = running, isr = "idle", isr' = isr,
         call.imask_working = {"apex"}, call.imask_reschedule = {"reschedule"}
  PROVE  IInv'
<1> USE DEF IInv, A!Idle
<1>1. c \in A!Contexts /\ c # "isr" /\ "isr" \in A!Contexts /\ Tasks \subseteq A!Contexts
  BY DEF A!PortAAssumption, A!Contexts
<1>2. A!Idle("isr") /\ (\A t \in Tasks \ {c} : A!Idle(t)) /\ running' = running
  BY DEF CallsRestoreWhatTheyFound, A!NoSenderIsSuspended, A!Look
<1>3. CASE imask' = A!Restored(call) /\ sendingA' = [sendingA EXCEPT ![c] = A!NotSending]
  <2>1. TypeOK' /\ \A d \in A!Contexts : A!Idle(d)'
    BY <1>1, <1>2, <1>3 DEF TypeOK, A!Contexts
  <2>2. imask' = A!Events
    BY <1>3 DEF A!Restored, A!Events
  <2> QED
    BY <2>1, <2>2, <1>1
    DEF A!NoSenderIsSuspended, MaskFollowsCalls, CallsRestoreWhatTheyFound, AllAreIdle, TasksAreIdle
<1>4. ASSUME imask' = call.imask_working, NEW waits \in CallType,
             waits.imask_reschedule = call.imask_reschedule,
             sendingA' = [sendingA EXCEPT ![c] = waits]
      PROVE  IInv'
  <2>1. TypeOK' /\ sendingA'[c] = waits /\ ~A!Idle(c)' /\ A!Idle("isr")'
        /\ \A t \in Tasks \ {c} : A!Idle(t)'
    BY <1>1, <1>2, <1>4, CallIsNotIdle DEF TypeOK
  <2>2. A!NoSenderIsSuspended' /\ MaskFollowsCalls'
    BY <2>1, <1>2, <1>4 DEF A!NoSenderIsSuspended, MaskFollowsCalls, AllAreIdle, TasksAreIdle
  <2>3. CallsRestoreWhatTheyFound'
    BY <2>1, <1>4 DEF CallsRestoreWhatTheyFound
  <2> QED BY <2>1, <2>2, <2>3
<1> QED
  <2>1. \/ imask' = A!Restored(call) /\ sendingA' = [sendingA EXCEPT ![c] = A!NotSending]
        \/ /\ imask' = call.imask_working
           /\ \E waits \in CallType :
                /\ waits.imask_reschedule = call.imask_reschedule
                /\ sendingA' = [sendingA EXCEPT ![c] = waits]
    BY <1>1, LookReturnsOrDelays
  <2> QED BY <2>1, <1>3, <1>4

\* A look of the interrupt, which restores rescheduling only if no task waits.
LEMMA CallbackLookPreserves ==
  ASSUME A!PortAAssumption, IInv, NEW call \in CallType, A!Look("isr", call), isr' = "sent",
         call.imask_working = {"apex"},
         call.imask_reschedule = IF TasksAreIdle THEN {"reschedule"} ELSE {}
  PROVE  IInv'
<1> USE DEF IInv, A!Idle
<1>1. "isr" \in A!Contexts /\ "isr" \notin Tasks /\ Tasks \subseteq A!Contexts
  BY DEF A!PortAAssumption, A!Contexts
<1>2. running' = running
  BY DEF A!Look
<1>3. CASE imask' = A!Restored(call) /\ sendingA' = [sendingA EXCEPT !["isr"] = A!NotSending]
  <2>1. TypeOK' /\ A!Idle("isr")' /\ \A t \in Tasks : sendingA'[t] = sendingA[t]
    BY <1>1, <1>3 DEF TypeOK
  <2>2. imask' = IF TasksAreIdle THEN A!Events ELSE {"apex"}
    BY <1>3 DEF A!Restored, A!Events
  <2>3. TasksAreIdle' <=> TasksAreIdle
    BY <2>1 DEF TasksAreIdle
  <2> QED
    BY <2>1, <2>2, <2>3, <1>2
    DEF A!NoSenderIsSuspended, MaskFollowsCalls, CallsRestoreWhatTheyFound, AllAreIdle
<1>4. ASSUME imask' = call.imask_working, NEW waits \in CallType,
             waits.imask_reschedule = call.imask_reschedule,
             sendingA' = [sendingA EXCEPT !["isr"] = waits]
      PROVE  IInv'
  <2>1. TypeOK' /\ sendingA'["isr"] = waits /\ ~A!Idle("isr")'
        /\ \A t \in Tasks : sendingA'[t] = sendingA[t]
    BY <1>1, <1>4, CallIsNotIdle DEF TypeOK
  <2>2. TasksAreIdle' <=> TasksAreIdle
    BY <2>1 DEF TasksAreIdle
  <2>3. A!NoSenderIsSuspended' /\ MaskFollowsCalls'
    BY <2>1, <1>2, <1>4 DEF A!NoSenderIsSuspended, MaskFollowsCalls, AllAreIdle
  <2>4. CallsRestoreWhatTheyFound'
    BY <2>1, <2>2, <1>4 DEF CallsRestoreWhatTheyFound
  <2> QED BY <2>1, <2>3, <2>4
<1> QED
  <2>1. \/ imask' = A!Restored(call) /\ sendingA' = [sendingA EXCEPT !["isr"] = A!NotSending]
        \/ /\ imask' = call.imask_working
           /\ \E waits \in CallType :
                /\ waits.imask_reschedule = call.imask_reschedule
                /\ sendingA' = [sendingA EXCEPT !["isr"] = waits]
    BY <1>1, LookReturnsOrDelays
  <2> QED BY <2>1, <1>3, <1>4

\* A call begins: it saves whether rescheduling is enabled, and masks it.
LEMMA SendPreserves ==
  ASSUME A!PortAAssumption, IInv, NEW c \in A!Contexts, NEW r \in A!Registers, NEW t \in Timeouts,
         A!Send(c, r, t)
  PROVE  IInv'
<1> DEFINE call == [register |-> r, timeout |-> A!AtLeastOnce(t),
                    imask_working |-> A!WithoutReschedule(imask),
                    imask_reschedule |-> imask \cap {"reschedule"}]
<1>1. A!Look(c, call) /\ A!MaySend(c) /\ isr' = (IF c = "isr" THEN "sent" ELSE isr)
  BY DEF A!Send
<1>2. imask = (IF TasksAreIdle THEN A!Events ELSE {"apex"})
  <2>1. A!Idle("isr")
    BY <1>1 DEF A!MaySend, A!Runs, IInv, CallsRestoreWhatTheyFound
  <2> QED BY <2>1 DEF IInv, MaskFollowsCalls, AllAreIdle
<1>3. /\ call \in CallType
      /\ call.imask_working = {"apex"}
      /\ call.imask_reschedule = IF TasksAreIdle THEN {"reschedule"} ELSE {}
  BY <1>2 DEF CallType, A!AtLeastOnce, A!WithoutReschedule, A!Events, A!PortAAssumption
<1>4. CASE c = "isr"
  BY <1>1, <1>3, <1>4, CallbackLookPreserves
<1>5. CASE c # "isr"
  <2>1. c \in Tasks /\ c = running /\ isr = "idle" /\ isr' = isr
    BY <1>1, <1>5 DEF A!Contexts, A!MaySend, A!Runs
  <2>2. TasksAreIdle
    BY <1>1, <2>1 DEF TasksAreIdle, A!MaySend, IInv, A!NoSenderIsSuspended
  <2>3. call.imask_reschedule = {"reschedule"}
    BY <1>3, <2>2
  <2> HIDE DEF call
  <2> QED BY <1>1, <1>3, <2>1, <2>3, TaskLookPreserves
<1> QED BY <1>4, <1>5

\* A delay is over: the call goes on with the mask it has found.
LEMMA LookAgainPreserves ==
  ASSUME A!PortAAssumption, IInv, NEW c \in A!Contexts, A!LookAgain(c)
  PROVE  IInv'
<1> DEFINE call == [sendingA[c] EXCEPT !.imask_working = imask]
<1>1. A!Look(c, call) /\ A!Runs(c) /\ ~A!Idle(c) /\ isr' = isr
  BY DEF A!LookAgain
<1>2. imask = {"apex"}
  BY <1>1 DEF A!Contexts, IInv, MaskFollowsCalls, AllAreIdle, TasksAreIdle
<1>3. sendingA[c] \in CallType
  BY <1>1 DEF IInv, TypeOK, A!Idle
<1>4. /\ call \in CallType
      /\ call.imask_working = {"apex"}
      /\ call.imask_reschedule = sendingA[c].imask_reschedule
  BY <1>2, <1>3 DEF CallType, A!Events
<1>5. CASE c = "isr"
  <2>1. /\ isr' = "sent"
        /\ call.imask_reschedule = IF TasksAreIdle THEN {"reschedule"} ELSE {}
    BY <1>1, <1>4, <1>5 DEF IInv, CallsRestoreWhatTheyFound
  <2> HIDE DEF call
  <2> QED BY <1>1, <1>4, <1>5, <2>1, CallbackLookPreserves
<1>6. CASE c # "isr"
  <2>1. c \in Tasks /\ c = running /\ isr = "idle"
    BY <1>1, <1>6 DEF A!Contexts, A!Runs
  <2>2. call.imask_reschedule = {"reschedule"}
    BY <1>1, <1>4, <2>1 DEF IInv, CallsRestoreWhatTheyFound
  <2> HIDE DEF call
  <2> QED BY <1>1, <1>4, <2>1, <2>2, TaskLookPreserves
<1> QED BY <1>5, <1>6

\* Every step of port A keeps the invariant: a task is rescheduled only when nobody
\* waits, and the callback that has sent returns only when it does not wait any more.
LEMMA IInvIsInductive ==
  ASSUME IInv, [ANext \/ BNext]_portsVars
  PROVE  IInv'
<1> USE PortsAssumption DEF OfA, OfB
<1>1. CASE \E c \in A!Contexts, r \in A!Registers, t \in Timeouts : OfA(A!Send(c, r, t))
  BY <1>1, SendPreserves
<1>2. CASE \E c \in A!Contexts : OfA(A!LookAgain(c))
  BY <1>2, LookAgainPreserves
<1>3. ASSUME sendingA' = sendingA, running' = running, imask' = imask,
             isr' = isr \/ (isr' \in {"idle", "callback"} /\ A!Idle("isr"))
      PROVE  IInv'
  BY <1>3
  DEF IInv, A!Idle, TypeOK, A!NoSenderIsSuspended, MaskFollowsCalls,
      CallsRestoreWhatTheyFound, AllAreIdle, TasksAreIdle
<1>4. CASE OfA(A!InterruptAsserts) \/ OfA(A!NoCallback) \/ OfA(A!ApexHandsOver)
  BY <1>3, <1>4 DEF A!InterruptAsserts, A!NoCallback, A!ApexHandsOver
<1>5. CASE OfA(A!PerformCallback)
  <2>1. A!Idle("isr")
    BY <1>5 DEF A!PerformCallback, A!Interrupted, IInv, CallsRestoreWhatTheyFound
  <2> QED  BY <1>3, <1>5, <2>1 DEF A!PerformCallback
<1>6. CASE OfA(A!Acknowledge)
  BY <1>3, <1>6 DEF A!Acknowledge
<1>7. CASE \E r \in A!Registers : OfA(A!ApexTakes(r))
  BY <1>3, <1>7 DEF A!ApexTakes
<1>8. CASE OfA(A!Reschedule)
  <2>1. TasksAreIdle
    BY <1>8 DEF A!Reschedule, A!RescheduleIsTaken, IInv, MaskFollowsCalls, AllAreIdle, A!Events
  <2> QED
    BY <1>8, <2>1
    DEF A!Reschedule, IInv, A!Idle, TypeOK, A!NoSenderIsSuspended, MaskFollowsCalls,
        CallsRestoreWhatTheyFound, AllAreIdle, TasksAreIdle
<1>9. CASE UNCHANGED portsVars \/ BNext
  <2>1. UNCHANGED portAVars
    BY <1>9 DEF BNext, portsVars
  <2> QED  BY <1>3, <2>1 DEF portAVars
<1> QED
  BY <1>1, <1>2, <1>4, <1>5, <1>6, <1>7, <1>8, <1>9 DEF ANext

\* The invariant of every behaviour.
LEMMA IInvHolds == PortsSpec => []IInv
<1>1. PortsInit => IInv
  <2> SUFFICES ASSUME A!Init PROVE IInv
    BY DEF PortsInit
  <2>1. \A c \in A!Contexts : A!Idle(c)
    BY DEF A!Init, A!Idle
  <2>2. "isr" \in A!Contexts /\ Tasks \subseteq A!Contexts
    BY DEF A!Contexts
  <2> QED
    BY <2>1, <2>2
    DEF A!Init, IInv, TypeOK, A!NoSenderIsSuspended, MaskFollowsCalls,
        CallsRestoreWhatTheyFound, AllAreIdle, TasksAreIdle
<1>2. IInv /\ [ANext \/ BNext]_portsVars => IInv'
  BY IInvIsInductive
<1> QED BY <1>1, <1>2, PTL DEF PortsSpec

\* Whatever the number of tasks and the time-outs, a task that waits for the ASIC is not
\* rescheduled, although the callbacks of interrupts send while it waits.
THEOREM WaitingSendersKeepRunning == PortsSpec => []NoSenderIsSuspended
<1>1. IInv => NoSenderIsSuspended
  BY DEF IInv, NoSenderIsSuspended
<1> QED BY <1>1, IInvHolds, PTL

\* When the last call has returned every event is enabled again, however the calls of
\* tasks and callbacks were nested and whether they sent or timed out.
THEOREM MasksAreRestored == PortsSpec => []A!NoEventStaysMasked
<1>1. IInv => A!NoEventStaysMasked
  <2>1. "isr" \in A!Contexts /\ Tasks \subseteq A!Contexts
    BY DEF A!Contexts
  <2> QED
    BY <2>1 DEF IInv, MaskFollowsCalls, A!NoEventStaysMasked, AllAreIdle, TasksAreIdle
<1> QED BY <1>1, IInvHolds, PTL

(***************************************************************************)
(* Port B: every Cb is in one place.                                       *)
(***************************************************************************)
Commands == {"none", "RX_RSP", "RX_REQ", "unknown", "TX_RSP", "TX_REQ"}

SendCall == [to : {"resp", "rqst"}, cb : Cbs, timeout : Nat]

MessagingTypeOK ==
  /\ withApex \subseteq Cbs /\ routed \subseteq Cbs
  /\ pResponseCbB \in Cbs \cup {NULL} /\ msgCb \in Cbs \cup {NULL}
  /\ pCommRespCbB \in Cbs \cup {NULL} /\ pCommRqstCbB \in Cbs \cup {NULL}
  /\ command \in [Cbs -> Commands]
  /\ msgQueue \in Seq(Cbs)
  /\ sending \in [Contexts -> SendCall \cup {NotSending}]
  /\ rxRspRoutine \in [HostCbs -> Workers \cup {NULL}]
  /\ rotateCbs \in Nat
  /\ found \in [Workers -> HostCbs \cup {NULL}]
  /\ hasCb \in [Workers -> HostCbs \cup {NULL}]

\* A rejected Cb stands in the register until the rejection is sent, the message task
\* deals with a Cb only when it sends nothing, and a worker looks for a host Cb only
\* when it has none.
OneThingAtATime ==
  /\ ~Idle("isr") => pResponseCbB # NULL
  /\ msgCb # NULL => Idle("message")
  /\ \A w \in Workers : found[w] # NULL => hasCb[w] = NULL

Queued(cb) == \E i \in DOMAIN msgQueue : msgQueue[i] = cb
Sent(cb)   == \E c \in Contexts : sending[c].cb = cb
Owned(cb)  == \E w \in Workers : hasCb[w] = cb

Places == {"apex", "response", "resp", "rqst", "task", "routed", "queue", "sent", "owned"}

\* The kinds of places of Holders.
IsAt(place, cb) ==
  \/ place = "apex" /\ cb \in withApex
  \/ place = "response" /\ cb = pResponseCbB /\ Idle("isr")
  \/ place = "resp" /\ cb = pCommRespCbB
  \/ place = "rqst" /\ cb = pCommRqstCbB
  \/ place = "task" /\ cb = msgCb
  \/ place = "routed" /\ cb \in routed
  \/ place = "queue" /\ Queued(cb)
  \/ place = "sent" /\ Sent(cb)
  \/ place = "owned" /\ Owned(cb)

IsNowhere(cb) == \A p \in Places : ~IsAt(p, cb)

\* The Cb is in one kind of place, and there once.
QueuedOnce(cb) ==
  \A i, j \in DOMAIN msgQueue : msgQueue[i] = cb /\ msgQueue[j] = cb => i = j
SentOnce(cb) ==
  \A c, d \in Contexts : sending[c].cb = cb /\ sending[d].cb = cb => c = d
OwnedOnce(cb) ==
  \A v, w \in Workers : hasCb[v] = cb /\ hasCb[w] = cb => v = w
IsAtMostOnce(cb) ==
  /\ QueuedOnce(cb) /\ SentOnce(cb) /\ OwnedOnce(cb)
  /\ \A p, q \in Places : IsAt(p, cb) /\ IsAt(q, cb) => p = q

\* What the host is handed is a response if and only if the Cb is its own.
CommandFits(cb) ==
  (\E p \in {"response", "queue", "task"} : IsAt(p, cb)) =>
    (command[cb] = "RX_RSP" <=> cb \in HostCbs)

MessagingInv == MessagingTypeOK /\ OneThingAtATime

CbInv(cb) == IsAtMostOnce(cb) /\ CommandFits(cb)

\* Nothing is called NULL, and the contexts are different ones.
LEMMA MessagingConstants ==
  /\ NULL \notin Cbs /\ NULL \notin HostCbs /\ NULL \notin Workers /\ HostCbs \subseteq Cbs
  /\ "isr" \in Contexts /\ "message" \in Contexts /\ Workers \subseteq Contexts
  /\ "isr" \notin Workers /\ "message" \notin Workers
  /\ CbTimeout \in Nat
  /\ NotSending.cb = NULL /\ NotSending.to \notin {"resp", "rqst"}
BY MessagingAssumption DEF Cbs, Contexts, NotSending

\* A context that is not idle sends a Cb.
LEMMA SendingIsOfACb ==
  ASSUME MessagingTypeOK, NEW c \in Contexts
  PROVE  /\ Idle(c) => sending[c].cb = NULL
         /\ ~Idle(c) => sending[c] \in SendCall /\ sending[c].cb \in Cbs
         /\ sending[c].to \in {"resp", "rqst"} => ~Idle(c)
BY MessagingConstants DEF MessagingTypeOK, Idle, SendCall

\* A call begins: its Cb is being sent, by that context.
LEMMA CbIsSent ==
  ASSUME MessagingTypeOK, NEW c \in Contexts, NEW m \in Cbs, NEW to \in {"resp", "rqst"},
         Idle(c), Begin(c, to, m), NEW cb \in Cbs
  PROVE  /\ sending' \in [Contexts -> SendCall \cup {NotSending}]
         /\ \A d \in Contexts : Idle(d)' <=> Idle(d) /\ d # c
         /\ Sent(cb)' <=> Sent(cb) \/ cb = m
         /\ SentOnce(cb) /\ ~(cb = m /\ Sent(cb)) => SentOnce(cb)'
<1> DEFINE call == [to |-> to, cb |-> m, timeout |-> CbTimeout]
<1>1. call \in SendCall /\ call # NotSending /\ call.cb = m
  BY MessagingConstants DEF SendCall, NotSending
<1>2. sending' = [sending EXCEPT ![c] = call]
  BY DEF Begin
<1>3. sending[c].cb # cb
  BY SendingIsOfACb, MessagingConstants
<1> HIDE DEF call
<1>4. /\ sending' \in [Contexts -> SendCall \cup {NotSending}]
      /\ sending'[c] = call /\ \A d \in Contexts \ {c} : sending'[d] = sending[d]
  BY <1>1, <1>2 DEF MessagingTypeOK
<1>5. \A d \in Contexts : Idle(d)' <=> Idle(d) /\ d # c
  BY <1>1, <1>4 DEF Idle
<1>6. Sent(cb)' <=> Sent(cb) \/ cb = m
  BY <1>1, <1>3, <1>4 DEF Sent
<1>7. SentOnce(cb) /\ ~(cb = m /\ Sent(cb)) => SentOnce(cb)'
  BY <1>1, <1>3, <1>4 DEF Sent, SentOnce
<1> QED  BY <1>4, <1>5, <1>6, <1>7

\* A look at the register: its Cb is written to the free register, or the context waits.
LEMMA SendMovesOrWaits ==
  ASSUME MessagingTypeOK, NEW c \in Contexts, Send(c)
  PROVE  \/ /\ ~Idle(c) /\ sending' = [sending EXCEPT ![c] = NotSending]
            /\ \/ /\ pCommRespCbB = NULL /\ pCommRespCbB' = sending[c].cb
                  /\ pCommRqstCbB' = pCommRqstCbB
               \/ /\ pCommRqstCbB = NULL /\ pCommRqstCbB' = sending[c].cb
                  /\ pCommRespCbB' = pCommRespCbB
         \/ /\ ~Idle(c) /\ UNCHANGED <<pCommRespCbB, pCommRqstCbB>>
            /\ sending' \in [Contexts -> SendCall \cup {NotSending}]
            /\ \A d \in Contexts : sending'[d].cb = sending[d].cb /\ (Idle(d)' <=> Idle(d))
<1>1. CASE WriteRegister(c)
  BY <1>1, SendingIsOfACb DEF WriteRegister, MayWrite
<1>2. CASE DelayOrAssert(c)
  <2> DEFINE waits == [sending[c] EXCEPT !.timeout = IF @ = 0 THEN 0 ELSE @ - 1]
  <2>1. ~Idle(c) /\ sending[c] \in SendCall
    BY <1>2, SendingIsOfACb DEF DelayOrAssert
  <2>2. waits \in SendCall /\ waits.cb = sending[c].cb /\ waits # NotSending
    BY <2>1 DEF SendCall, NotSending
  <2>3. sending' = [sending EXCEPT ![c] = waits]
    BY <1>2 DEF DelayOrAssert
  <2> HIDE DEF waits
  <2>4. /\ sending' \in [Contexts -> SendCall \cup {NotSending}]
        /\ sending'[c] = waits /\ \A d \in Contexts \ {c} : sending'[d] = sending[d]
    BY <2>2, <2>3 DEF MessagingTypeOK
  <2> QED  BY <1>2, <2>1, <2>2, <2>4 DEF DelayOrAssert, Idle
<1> QED  BY <1>1, <1>2 DEF Send

\* What has been written is not being sent any more.
LEMMA CbIsWritten ==
  ASSUME MessagingTypeOK, NEW c \in Contexts, ~Idle(c),
         sending' = [sending EXCEPT ![c] = NotSending], NEW cb \in Cbs
  PROVE  /\ sending' \in [Contexts -> SendCall \cup {NotSending}]
         /\ \A d \in Contexts : Idle(d)' <=> Idle(d) \/ d = c
         /\ cb # sending[c].cb => (Sent(cb)' <=> Sent(cb))
         /\ cb = sending[c].cb /\ SentOnce(cb) => Sent(cb) /\ ~Sent(cb)'
         /\ SentOnce(cb) => SentOnce(cb)'
<1>1. NotSending.cb # cb
  BY MessagingConstants
<1>2. /\ sending' \in [Contexts -> SendCall \cup {NotSending}]
      /\ sending'[c] = NotSending /\ \A d \in Contexts \ {c} : sending'[d] = sending[d]
  BY DEF MessagingTypeOK
<1> QED  BY <1>1, <1>2 DEF Idle, Sent, SentOnce

\* A Cb is put at the end of the queue ...
LEMMA CbIsQueued ==
  ASSUME MessagingTypeOK, NEW m \in Cbs, msgQueue' = Append(msgQueue, m), NEW cb \in Cbs
  PROVE  /\ msgQueue' \in Seq(Cbs)
         /\ Queued(cb)' <=> Queued(cb) \/ cb = m
         /\ QueuedOnce(cb) /\ ~(cb = m /\ Queued(cb)) => QueuedOnce(cb)'
<1>1. /\ msgQueue' \in Seq(Cbs) /\ Len(msgQueue') = Len(msgQueue) + 1 /\ Len(msgQueue) \in Nat
      /\ msgQueue'[Len(msgQueue) + 1] = m
      /\ \A i \in 1..Len(msgQueue) : msgQueue'[i] = msgQueue[i]
      /\ DOMAIN msgQueue = 1..Len(msgQueue) /\ DOMAIN msgQueue' = 1..(Len(msgQueue) + 1)
  BY DEF MessagingTypeOK
<1> HIDE DEF MessagingTypeOK
<1>2. DOMAIN msgQueue' = DOMAIN msgQueue \cup {Len(msgQueue) + 1}
  BY <1>1
<1>3. Len(msgQueue) + 1 \notin DOMAIN msgQueue
  BY <1>1
<1> QED  BY <1>1, <1>2, <1>3 DEF Queued, QueuedOnce

\* ... and taken from its head.
LEMMA CbIsTaken ==
  ASSUME MessagingTypeOK, msgQueue # <<>>, msgQueue' = Tail(msgQueue), NEW cb \in Cbs
  PROVE  /\ cb # Head(msgQueue) => (Queued(cb)' <=> Queued(cb))
         /\ cb = Head(msgQueue) /\ QueuedOnce(cb) => Queued(cb) /\ ~Queued(cb)'
         /\ QueuedOnce(cb) => QueuedOnce(cb)'
<1>1. /\ Len(msgQueue) \in Nat \ {0} /\ Head(msgQueue) = msgQueue[1]
      /\ \A i \in 1..(Len(msgQueue) - 1) : msgQueue'[i] = msgQueue[i + 1]
      /\ DOMAIN msgQueue = 1..Len(msgQueue) /\ DOMAIN msgQueue' = 1..(Len(msgQueue) - 1)
  BY DEF MessagingTypeOK
<1>3. \A i \in DOMAIN msgQueue : i = 1 \/ (i - 1 \in DOMAIN msgQueue' /\ msgQueue'[i - 1] = msgQueue[i])
  BY <1>1
<1>4. \A i \in DOMAIN msgQueue' : /\ i + 1 \in DOMAIN msgQueue /\ i + 1 # 1 /\ i \in Nat
                                  /\ msgQueue[i + 1] = msgQueue'[i]
  BY <1>1
<1>5. 1 \in DOMAIN msgQueue
  BY <1>1
<1>6. cb # Head(msgQueue) => (Queued(cb)' <=> Queued(cb))
  BY <1>1, <1>3, <1>4 DEF Queued
<1>7. cb = Head(msgQueue) /\ QueuedOnce(cb) => Queued(cb) /\ ~Queued(cb)'
  BY <1>1, <1>4, <1>5 DEF Queued, QueuedOnce
<1>8. ASSUME QueuedOnce(cb) PROVE QueuedOnce(cb)'
  <2> SUFFICES ASSUME NEW i \in DOMAIN msgQueue', NEW j \in DOMAIN msgQueue',
                      msgQueue'[i] = cb, msgQueue'[j] = cb
               PROVE  i = j
    BY DEF QueuedOnce
  <2>1. i + 1 = j + 1
    BY <1>4, <1>8 DEF QueuedOnce
  <2> QED  BY <1>4, <2>1
<1> QED  BY <1>6, <1>7, <1>8

\* Types, and who does one thing at a time, in every step of port B.
LEMMA MessagingInvIsInductive ==
  ASSUME MessagingInv, BNext
  PROVE  MessagingInv'
<1> USE MessagingConstants DEF MessagingInv, OfB, sendVars, hostVars
<1>1. ASSUME NEW cb \in Cbs, ApexDelivers(cb) PROVE MessagingInv'
  BY <1>1 DEF ApexDelivers, MessagingTypeOK, OneThingAtATime, Idle, Commands
<1>2. CASE ApexTakesResponse \/ ApexTakesRequest \/ InterruptAsserts
  BY <1>2
  DEF ApexTakesResponse, ApexTakesRequest, InterruptAsserts, MessagingTypeOK, OneThingAtATime, Idle
<1>3. CASE ForwardCb
  <2>1. pResponseCbB \in Cbs /\ msgQueue' = Append(msgQueue, pResponseCbB)
    BY <1>3 DEF ForwardCb, MessagingTypeOK
  <2>2. msgQueue' \in Seq(Cbs)
    BY <2>1, CbIsQueued
  <2> QED  BY <1>3, <2>2 DEF ForwardCb, MessagingTypeOK, OneThingAtATime, Idle
<1>4. CASE RejectCb
  <2>1. pResponseCbB \in Cbs /\ Idle("isr") /\ Begin("isr", "resp", pResponseCbB)
    BY <1>4 DEF RejectCb, MessagingTypeOK
  <2>2. /\ sending' \in [Contexts -> SendCall \cup {NotSending}]
        /\ Idle("message")' <=> Idle("message")
    BY <2>1, CbIsSent
  <2> QED  BY <1>4, <2>1, <2>2 DEF RejectCb, MessagingTypeOK, OneThingAtATime, Commands
<1>5. ASSUME NEW c \in Contexts, Send(c)
      PROVE  /\ sending' \in [Contexts -> SendCall \cup {NotSending}]
             /\ pCommRespCbB' \in Cbs \cup {NULL} /\ pCommRqstCbB' \in Cbs \cup {NULL}
             /\ \A d \in Contexts : /\ Idle(d) => Idle(d)'
                                    /\ d # c => (Idle(d)' <=> Idle(d))
  BY <1>5, SendMovesOrWaits, SendingIsOfACb, CbIsWritten DEF MessagingTypeOK
<1>6. CASE InterruptSends
  <2>1. pResponseCbB' = IF Idle("isr")' THEN NULL ELSE pResponseCbB
    BY <1>6 DEF InterruptSends, Acknowledge
  <2>2. ~Idle("isr")' => pResponseCbB' # NULL
    BY <1>5, <1>6, <2>1 DEF InterruptSends, OneThingAtATime
  <2> QED  BY <1>5, <1>6, <2>1, <2>2 DEF InterruptSends, MessagingTypeOK, OneThingAtATime
<1>7. ASSUME NEW c \in Contexts, TaskSends(c) PROVE MessagingInv'
  <2>1. c # "isr" /\ Send(c)
    BY <1>7 DEF TaskSends, TaskRuns
  <2> QED  BY <1>5, <1>7, <2>1 DEF TaskSends, MessagingTypeOK, OneThingAtATime
<1>8. CASE TakeMessage
  <2>1. msgQueue # <<>> /\ msgQueue' = Tail(msgQueue) /\ msgCb' = Head(msgQueue)
    BY <1>8 DEF TakeMessage
  <2>2. msgQueue' \in Seq(Cbs) /\ msgCb' \in Cbs
    BY <2>1 DEF MessagingTypeOK
  <2> QED  BY <1>8, <2>2 DEF TakeMessage, MessagingTypeOK, OneThingAtATime, Idle
<1>9. CASE RouteRequest \/ CallResponseRoutine
  BY <1>9
  DEF RouteRequest, CallResponseRoutine, DealsWith, MessagingTypeOK, OneThingAtATime, Idle
<1>10. CASE RefuseRequest
  <2>1. msgCb \in Cbs /\ Idle("message") /\ Begin("message", "resp", msgCb)
    BY <1>10 DEF RefuseRequest, ErrorResponse, DealsWith, MessagingTypeOK, OneThingAtATime
  <2>2. /\ sending' \in [Contexts -> SendCall \cup {NotSending}]
        /\ Idle("isr")' <=> Idle("isr")
    BY <2>1, CbIsSent
  <2> QED  BY <1>10, <2>1, <2>2 DEF RefuseRequest, MessagingTypeOK, OneThingAtATime, Commands
<1>11. CASE EndResponse
  <2>1. rxRspRoutine' \in [HostCbs -> Workers \cup {NULL}]
    BY <1>11 DEF EndResponse, RoutineCleared, MessagingTypeOK
  <2> QED  BY <1>11, <2>1 DEF EndResponse, MessagingTypeOK, OneThingAtATime, Idle
<1>12. ASSUME NEW w \in Workers, NEW cb \in Cbs, AnswerRequest(w, cb) PROVE MessagingInv'
  <2>1. Idle(w) /\ Begin(w, "resp", cb)
    BY <1>12 DEF AnswerRequest
  <2>2. /\ sending' \in [Contexts -> SendCall \cup {NotSending}]
        /\ Idle("isr")' <=> Idle("isr")
        /\ Idle("message")' <=> Idle("message")
    BY <2>1, CbIsSent
  <2> QED  BY <1>12, <2>1, <2>2 DEF AnswerRequest, MessagingTypeOK, OneThingAtATime, Commands
<1>13. ASSUME NEW w \in Workers, FindFreeHostCb(w) PROVE MessagingInv'
  <2>1. PICK k \in DOMAIN HostTable :
          /\ rotateCbs' = Rotated(k)
          /\ found' = [found EXCEPT ![w] = HostTable[Rotated(k)]]
    BY <1>13 DEF FindFreeHostCb
  <2>2. /\ Len(HostTable) \in Nat /\ k \in 1..Len(HostTable) /\ rotateCbs \in Nat
        /\ DOMAIN HostTable = 1..Len(HostTable)
    BY MessagingAssumption DEF MessagingTypeOK
  <2>3. \A n \in Nat, r \in Nat : \A i \in 1..n : ((r - 1 + i) % n) + 1 \in 1..n
    OBVIOUS
  <2>4. Rotated(k) \in DOMAIN HostTable /\ Rotated(k) \in Nat
    BY <2>2, <2>3 DEF Rotated
  <2>5. HostTable[Rotated(k)] \in HostCbs
    BY <2>4 DEF HostCbs
  <2>6. found[w] = NULL /\ hasCb[w] = NULL
    BY <1>13 DEF FindFreeHostCb
  <2> QED  BY <1>13, <2>1, <2>4, <2>5, <2>6 DEF FindFreeHostCb, MessagingTypeOK, OneThingAtATime, Idle
<1>14. ASSUME NEW w \in Workers, AssignResponseRoutine(w) PROVE MessagingInv'
  <2>1. found[w] \in HostCbs
    BY <1>14 DEF AssignResponseRoutine, MessagingTypeOK
  <2> QED  BY <1>14, <2>1 DEF AssignResponseRoutine, MessagingTypeOK, OneThingAtATime, Idle
<1>15. ASSUME NEW w \in Workers, SendRequest(w) PROVE MessagingInv'
  <2>1. Idle(w) /\ hasCb[w] \in Cbs /\ Begin(w, "rqst", hasCb[w])
    BY <1>15 DEF SendRequest, MessagingTypeOK
  <2>2. /\ sending' \in [Contexts -> SendCall \cup {NotSending}]
        /\ Idle("isr")' <=> Idle("isr")
        /\ Idle("message")' <=> Idle("message")
    BY <2>1, CbIsSent
  <2> QED  BY <1>15, <2>1, <2>2 DEF SendRequest, MessagingTypeOK, OneThingAtATime, Commands
<1> QED
  BY <1>1, <1>2, <1>3, <1>4, <1>6, <1>7, <1>8, <1>9, <1>10, <1>11, <1>12, <1>13, <1>14, <1>15
  DEF BNext

(***************************************************************************)
(* One Cb, in a step: it stays where it is, or it moves.                   *)
(***************************************************************************)
Stays(cb) == \A p \in Places : IsAt(p, cb)' <=> IsAt(p, cb)

Moves(cb, from, to) ==
  /\ IsAt(from, cb)
  /\ \A p \in Places : IsAt(p, cb)' <=> p = to \/ (IsAt(p, cb) /\ p # from)

\* The invariant of the Cb is kept, and it is somewhere if and only if it was.
Kept(cb) == CbInv(cb)' /\ (IsNowhere(cb)' <=> IsNowhere(cb))

\* A Cb that stays in its place ...
LEMMA StayingCbIsKept ==
  ASSUME NEW cb \in Cbs, CbInv(cb), Stays(cb), command'[cb] = command[cb],
         QueuedOnce(cb)', SentOnce(cb)', OwnedOnce(cb)'
  PROVE  Kept(cb)
<1>1. {"response", "queue", "task"} \subseteq Places
  BY DEF Places
<1>2. CommandFits(cb)'
  BY <1>1 DEF CbInv, CommandFits, Stays
<1>3. IsAtMostOnce(cb)'
  BY DEF CbInv, IsAtMostOnce, Stays
<1>4. IsNowhere(cb)' <=> IsNowhere(cb)
  BY DEF IsNowhere, Stays
<1> QED  BY <1>2, <1>3, <1>4 DEF Kept, CbInv

\* ... and one that leaves the only place it is in for another.
LEMMA MovingCbIsKept ==
  ASSUME NEW cb \in Cbs, NEW from \in Places, NEW to \in Places, CbInv(cb),
         Moves(cb, from, to), QueuedOnce(cb)', SentOnce(cb)', OwnedOnce(cb)',
         to \in {"response", "queue", "task"} => (command'[cb] = "RX_RSP" <=> cb \in HostCbs)
  PROVE  Kept(cb)
<1>1. {"response", "queue", "task"} \subseteq Places
  BY DEF Places
<1>2. \A p \in Places : IsAt(p, cb)' <=> p = to
  BY DEF CbInv, IsAtMostOnce, Moves
<1>3. CommandFits(cb)'
  BY <1>1, <1>2 DEF CommandFits
<1>4. IsAtMostOnce(cb)'
  BY <1>2 DEF IsAtMostOnce
<1>5. ~IsNowhere(cb)' /\ ~IsNowhere(cb)
  BY <1>2 DEF IsNowhere, Moves
<1> QED  BY <1>3, <1>4, <1>5 DEF Kept, CbInv

\* A Cb that is in one kind of place is in no other.
LEMMA CbIsNotElsewhere ==
  ASSUME NEW cb \in Cbs, NEW p \in Places, CbInv(cb), IsAt(p, cb)
  PROVE  /\ p # "queue" => ~Queued(cb)
         /\ p # "sent" => ~Sent(cb)
         /\ p # "owned" => ~Owned(cb)
<1>1. {"queue", "sent", "owned"} \subseteq Places
  BY DEF Places
<1> QED  BY <1>1 DEF CbInv, IsAtMostOnce, IsAt

\* What a Cb that is handled by the message task or lies in the register is.
LEMMA CommandOfCb ==
  ASSUME NEW cb \in Cbs, CbInv(cb),
         cb = msgCb \/ (cb = pResponseCbB /\ Idle("isr")) \/ Queued(cb)
  PROVE  command[cb] = "RX_RSP" <=> cb \in HostCbs
BY DEF CbInv, CommandFits, IsAt

\* The ASIC hands a Cb over and takes Cbs back.
LEMMA ApexKeepsCb ==
  ASSUME MessagingInv, NEW cb \in Cbs, CbInv(cb),
         \/ \E m \in Cbs : ApexDelivers(m)
         \/ ApexTakesResponse \/ ApexTakesRequest
  PROVE  Kept(cb)
<1> USE MessagingConstants
<1>1. UNCHANGED <<msgQueue, sending, hasCb>>
  BY DEF ApexDelivers, ApexTakesResponse, ApexTakesRequest, hostVars
<1>2. /\ QueuedOnce(cb)' /\ SentOnce(cb)' /\ OwnedOnce(cb)'
      /\ (Queued(cb)' <=> Queued(cb)) /\ (Sent(cb)' <=> Sent(cb)) /\ (Owned(cb)' <=> Owned(cb))
      /\ (Idle("isr")' <=> Idle("isr"))
  BY <1>1 DEF CbInv, IsAtMostOnce, QueuedOnce, SentOnce, OwnedOnce, Queued, Sent, Owned, Idle
<1>3. ASSUME NEW m \in Cbs, ApexDelivers(m) PROVE Kept(cb)
  <2>1. Idle("isr") /\ pResponseCbB = NULL
    BY <1>3 DEF ApexDelivers, MessagingInv, OneThingAtATime
  <2>2. CASE cb = m
    <3>1. Moves(cb, "apex", "response")
      BY <1>2, <1>3, <2>1, <2>2 DEF ApexDelivers, Moves, IsAt, Places, hostVars
    <3>2. command'[cb] = "RX_RSP" <=> cb \in HostCbs
      BY <1>3, <2>2 DEF ApexDelivers, MessagingInv, MessagingTypeOK
    <3> QED  BY <1>2, <3>1, <3>2, MovingCbIsKept DEF Places
  <2>3. CASE cb # m
    <3>1. Stays(cb)
      BY <1>2, <1>3, <2>1, <2>3 DEF ApexDelivers, Stays, IsAt, Places, hostVars
    <3>2. command'[cb] = command[cb]
      BY <1>3, <2>3 DEF ApexDelivers, MessagingInv, MessagingTypeOK
    <3> QED  BY <1>2, <3>1, <3>2, StayingCbIsKept
  <2> QED  BY <2>2, <2>3
<1>4. CASE ApexTakesResponse
  <2>1. CASE cb = pCommRespCbB
    <3>1. Moves(cb, "resp", "apex")
      BY <1>2, <1>4, <2>1 DEF ApexTakesResponse, Moves, IsAt, Places, hostVars
    <3> QED  BY <1>2, <3>1, MovingCbIsKept DEF Places
  <2>2. CASE cb # pCommRespCbB
    <3>1. Stays(cb) /\ command' = command
      BY <1>2, <1>4, <2>2 DEF ApexTakesResponse, Stays, IsAt, Places, hostVars
    <3> QED  BY <1>2, <3>1, StayingCbIsKept
  <2> QED  BY <2>1, <2>2
<1>5. CASE ApexTakesRequest
  <2>1. CASE cb = pCommRqstCbB
    <3>1. Moves(cb, "rqst", "apex")
      BY <1>2, <1>5, <2>1 DEF ApexTakesRequest, Moves, IsAt, Places, hostVars
    <3> QED  BY <1>2, <3>1, MovingCbIsKept DEF Places
  <2>2. CASE cb # pCommRqstCbB
    <3>1. Stays(cb) /\ command' = command
      BY <1>2, <1>5, <2>2 DEF ApexTakesRequest, Stays, IsAt, Places, hostVars
    <3> QED  BY <1>2, <3>1, StayingCbIsKept
  <2> QED  BY <2>1, <2>2
<1> QED  BY <1>3, <1>4, <1>5

\* A look at the register, of a task or of the interrupt: the Cb is written, or it stays
\* with who sends it.
LEMMA SendKeepsCb ==
  ASSUME MessagingInv, NEW cb \in Cbs, CbInv(cb), InterruptSends \/ \E c \in Contexts : TaskSends(c)
  PROVE  Kept(cb)
<1> USE MessagingConstants
<1>1. UNCHANGED <<withApex, command, msgQueue, msgCb, routed, hasCb>>
  BY DEF InterruptSends, TaskSends, hostVars
<1>2. /\ QueuedOnce(cb)' /\ OwnedOnce(cb)'
      /\ (Queued(cb)' <=> Queued(cb)) /\ (Owned(cb)' <=> Owned(cb))
  BY <1>1 DEF CbInv, IsAtMostOnce, QueuedOnce, OwnedOnce, Queued, Owned
<1>3. PICK c \in Contexts : Send(c) /\ (c = "isr" => InterruptSends) /\ (c # "isr" => TaskSends(c))
  BY DEF InterruptSends, TaskSends, TaskRuns
\* The register the ASIC has written is acknowledged only when nothing is rejected any more.
<1>4. ASSUME ~Idle(c), Idle("isr")' <=> Idle("isr") \/ (c = "isr" /\ Idle("isr")')
      PROVE  (cb = pResponseCbB /\ Idle("isr"))' <=> (cb = pResponseCbB /\ Idle("isr"))
  BY <1>3, <1>4 DEF InterruptSends, Acknowledge, TaskSends
<1>5. CASE /\ ~Idle(c) /\ sending' = [sending EXCEPT ![c] = NotSending]
           /\ \/ /\ pCommRespCbB = NULL /\ pCommRespCbB' = sending[c].cb
                 /\ pCommRqstCbB' = pCommRqstCbB
              \/ /\ pCommRqstCbB = NULL /\ pCommRqstCbB' = sending[c].cb
                 /\ pCommRespCbB' = pCommRespCbB
  <2>1. /\ \A d \in Contexts : Idle(d)' <=> Idle(d) \/ d = c
        /\ cb # sending[c].cb => (Sent(cb)' <=> Sent(cb))
        /\ cb = sending[c].cb /\ SentOnce(cb) => Sent(cb) /\ ~Sent(cb)'
        /\ SentOnce(cb) => SentOnce(cb)'
    BY <1>5, CbIsWritten DEF MessagingInv
  <2>2. SentOnce(cb) /\ SentOnce(cb)'
    BY <2>1 DEF CbInv, IsAtMostOnce
  <2>3. (cb = pResponseCbB /\ Idle("isr"))' <=> (cb = pResponseCbB /\ Idle("isr"))
    BY <1>4, <1>5, <2>1
  <2>4. CASE cb = sending[c].cb
    <3>1. CASE pCommRespCbB = NULL /\ pCommRespCbB' = cb /\ pCommRqstCbB' = pCommRqstCbB
      <4>1. Moves(cb, "sent", "resp")
        BY <1>1, <1>2, <2>1, <2>2, <2>3, <2>4, <3>1 DEF Moves, IsAt, Places
      <4> QED  BY <1>2, <2>2, <4>1, MovingCbIsKept DEF Places
    <3>2. CASE pCommRqstCbB = NULL /\ pCommRqstCbB' = cb /\ pCommRespCbB' = pCommRespCbB
      <4>1. Moves(cb, "sent", "rqst")
        BY <1>1, <1>2, <2>1, <2>2, <2>3, <2>4, <3>2 DEF Moves, IsAt, Places
      <4> QED  BY <1>2, <2>2, <4>1, MovingCbIsKept DEF Places
    <3> QED  BY <1>5, <2>4, <3>1, <3>2
  <2>5. CASE cb # sending[c].cb
    <3>1. Stays(cb)
      BY <1>1, <1>2, <1>5, <2>1, <2>3, <2>5 DEF Stays, IsAt, Places
    <3> QED  BY <1>1, <1>2, <2>2, <3>1, StayingCbIsKept
  <2> QED  BY <2>4, <2>5
<1>6. CASE /\ ~Idle(c) /\ UNCHANGED <<pCommRespCbB, pCommRqstCbB>>
           /\ \A d \in Contexts : sending'[d].cb = sending[d].cb /\ (Idle(d)' <=> Idle(d))
  <2>1. (Sent(cb)' <=> Sent(cb)) /\ SentOnce(cb)'
    BY <1>6 DEF CbInv, IsAtMostOnce, Sent, SentOnce
  <2>2. (cb = pResponseCbB /\ Idle("isr"))' <=> (cb = pResponseCbB /\ Idle("isr"))
    BY <1>4, <1>6
  <2>3. Stays(cb)
    BY <1>1, <1>2, <1>6, <2>1, <2>2 DEF Stays, IsAt, Places
  <2> QED  BY <1>1, <1>2, <2>1, <2>3, StayingCbIsKept
<1> QED  BY <1>3, <1>5, <1>6, SendMovesOrWaits DEF MessagingInv

\* The interrupt forwards a Cb or begins to reject it.
LEMMA InterruptKeepsCb ==
  ASSUME MessagingInv, NEW cb \in Cbs, CbInv(cb), ForwardCb \/ RejectCb
  PROVE  Kept(cb)
<1> USE MessagingConstants
<1> DEFINE m == pResponseCbB
<1>1. m \in Cbs /\ Idle("isr")
  BY DEF ForwardCb, RejectCb, MessagingInv, MessagingTypeOK
<1>2. hasCb' = hasCb
  BY DEF ForwardCb, RejectCb, hostVars
<1>3. OwnedOnce(cb)' /\ (Owned(cb)' <=> Owned(cb))
  BY <1>2 DEF CbInv, IsAtMostOnce, OwnedOnce, Owned
<1>4. cb = m => ~Queued(cb) /\ ~Sent(cb)
  <2>1. cb = m => IsAt("response", cb)
    BY <1>1 DEF IsAt
  <2> QED  BY <2>1, CbIsNotElsewhere DEF Places
<1>5. CASE ForwardCb
  <2>1. (Sent(cb)' <=> Sent(cb)) /\ SentOnce(cb)' /\ (Idle("isr")' <=> Idle("isr"))
    BY <1>5 DEF ForwardCb, CbInv, IsAtMostOnce, Sent, SentOnce, Idle
  <2>2. (Queued(cb)' <=> Queued(cb) \/ cb = m) /\ QueuedOnce(cb)'
    BY <1>1, <1>4, <1>5, CbIsQueued DEF ForwardCb, MessagingInv, CbInv, IsAtMostOnce
  <2>3. CASE cb = m
    <3>1. Moves(cb, "response", "queue")
      BY <1>1, <1>3, <1>5, <2>1, <2>2, <2>3 DEF ForwardCb, Moves, IsAt, Places, sendVars, hostVars
    <3>2. command'[cb] = "RX_RSP" <=> cb \in HostCbs
      BY <1>1, <1>5, <2>3, CommandOfCb DEF ForwardCb
    <3> QED  BY <1>3, <2>1, <2>2, <3>1, <3>2, MovingCbIsKept DEF Places
  <2>4. CASE cb # m
    <3>1. Stays(cb) /\ command' = command
      BY <1>3, <1>5, <2>1, <2>2, <2>4 DEF ForwardCb, Stays, IsAt, Places, sendVars, hostVars
    <3> QED  BY <1>3, <2>1, <2>2, <3>1, StayingCbIsKept
  <2> QED  BY <2>3, <2>4
<1>6. CASE RejectCb
  <2>1. (Queued(cb)' <=> Queued(cb)) /\ QueuedOnce(cb)'
    BY <1>6 DEF RejectCb, CbInv, IsAtMostOnce, Queued, QueuedOnce
  <2>2. /\ (Sent(cb)' <=> Sent(cb) \/ cb = m)
        /\ SentOnce(cb)' /\ ~Idle("isr")'
    BY <1>1, <1>4, <1>6, CbIsSent DEF RejectCb, MessagingInv, CbInv, IsAtMostOnce
  <2>3. CASE cb = m
    <3>1. Moves(cb, "response", "sent")
      BY <1>1, <1>3, <1>6, <2>1, <2>2, <2>3 DEF RejectCb, Moves, IsAt, Places, sendVars, hostVars
    <3> QED  BY <1>3, <2>1, <2>2, <3>1, MovingCbIsKept DEF Places
  <2>4. CASE cb # m
    <3>1. Stays(cb)
      BY <1>3, <1>6, <2>1, <2>2, <2>4 DEF RejectCb, Stays, IsAt, Places, sendVars, hostVars
    <3>2. command'[cb] = command[cb]
      BY <1>6, <2>4 DEF RejectCb, MessagingInv, MessagingTypeOK
    <3> QED  BY <1>3, <2>1, <2>2, <3>1, <3>2, StayingCbIsKept
  <2> QED  BY <2>3, <2>4
<1> QED  BY <1>5, <1>6

\* The message task takes a Cb, routes or refuses a request, and calls the routine that
\* waits for a response.
LEMMA MessageTaskKeepsCb ==
  ASSUME MessagingInv, NEW cb \in Cbs, CbInv(cb),
         TakeMessage \/ RouteRequest \/ RefuseRequest \/ CallResponseRoutine
  PROVE  Kept(cb)
<1> USE MessagingConstants
<1>1. hasCb' = hasCb
  BY DEF TakeMessage, RouteRequest, RefuseRequest, CallResponseRoutine, hostVars
<1>2. OwnedOnce(cb)' /\ (Owned(cb)' <=> Owned(cb))
  BY <1>1 DEF CbInv, IsAtMostOnce, OwnedOnce, Owned
<1>3. ASSUME sending' = sending
      PROVE  (Sent(cb)' <=> Sent(cb)) /\ SentOnce(cb)' /\ (Idle("isr")' <=> Idle("isr"))
  BY <1>3 DEF CbInv, IsAtMostOnce, Sent, SentOnce, Idle
<1>4. ASSUME msgQueue' = msgQueue
      PROVE  (Queued(cb)' <=> Queued(cb)) /\ QueuedOnce(cb)'
  BY <1>4 DEF CbInv, IsAtMostOnce, Queued, QueuedOnce
<1>5. CASE TakeMessage
  <2> DEFINE m == Head(msgQueue)
  <2>1. sending' = sending /\ msgCb = NULL /\ msgCb' = m /\ command' = command
    BY <1>5 DEF TakeMessage
  <2>2. /\ cb # m => (Queued(cb)' <=> Queued(cb))
        /\ cb = m => Queued(cb) /\ ~Queued(cb)'
        /\ QueuedOnce(cb)'
    BY <1>5, CbIsTaken DEF TakeMessage, MessagingInv, CbInv, IsAtMostOnce
  <2> HIDE DEF m
  <2>3. CASE cb = m
    <3>1. Moves(cb, "queue", "task")
      BY <1>2, <1>3, <1>5, <2>1, <2>2, <2>3 DEF TakeMessage, Moves, IsAt, Places, sendVars
    <3>2. command'[cb] = "RX_RSP" <=> cb \in HostCbs
      BY <2>1, <2>2, <2>3, CommandOfCb
    <3> QED  BY <1>2, <1>3, <2>1, <2>2, <3>1, <3>2, MovingCbIsKept DEF Places
  <2>4. CASE cb # m
    <3>1. Stays(cb)
      BY <1>2, <1>3, <1>5, <2>1, <2>2, <2>4 DEF TakeMessage, Stays, IsAt, Places, sendVars
    <3> QED  BY <1>2, <1>3, <2>1, <2>2, <3>1, StayingCbIsKept
  <2> QED  BY <2>3, <2>4
<1>6. CASE RouteRequest
  <2>1. sending' = sending /\ msgQueue' = msgQueue /\ msgCb' = NULL /\ command' = command
    BY <1>6 DEF RouteRequest
  <2>2. CASE cb = msgCb
    <3>1. Moves(cb, "task", "routed")
      BY <1>2, <1>3, <1>4, <1>6, <2>1, <2>2 DEF RouteRequest, Moves, IsAt, Places, sendVars
    <3> QED  BY <1>2, <1>3, <1>4, <2>1, <3>1, MovingCbIsKept DEF Places
  <2>3. CASE cb # msgCb
    <3>1. Stays(cb)
      BY <1>2, <1>3, <1>4, <1>6, <2>1, <2>3 DEF RouteRequest, Stays, IsAt, Places, sendVars
    <3> QED  BY <1>2, <1>3, <1>4, <2>1, <3>1, StayingCbIsKept
  <2> QED  BY <2>2, <2>3
<1>7. CASE RefuseRequest
  <2>1. /\ msgQueue' = msgQueue /\ msgCb' = NULL /\ msgCb \in Cbs
        /\ Idle("message") /\ Begin("message", "resp", msgCb)
    BY <1>7
    DEF RefuseRequest, DealsWith, ErrorResponse, MessagingInv, MessagingTypeOK, OneThingAtATime
  <2>2. cb = msgCb => ~Sent(cb)
    <3>1. cb = msgCb => IsAt("task", cb)
      BY DEF IsAt
    <3> QED  BY <3>1, CbIsNotElsewhere DEF Places
  <2>3. (Sent(cb)' <=> Sent(cb) \/ cb = msgCb) /\ SentOnce(cb)' /\ (Idle("isr")' <=> Idle("isr"))
    BY <2>1, <2>2, CbIsSent DEF MessagingInv, CbInv, IsAtMostOnce
  <2>4. CASE cb = msgCb
    <3>1. Moves(cb, "task", "sent")
      BY <1>2, <1>4, <1>7, <2>1, <2>3, <2>4 DEF RefuseRequest, Moves, IsAt, Places, sendVars
    <3> QED  BY <1>2, <1>4, <2>1, <2>3, <3>1, MovingCbIsKept DEF Places
  <2>5. CASE cb # msgCb
    <3>1. Stays(cb)
      BY <1>2, <1>4, <1>7, <2>1, <2>3, <2>5 DEF RefuseRequest, Stays, IsAt, Places, sendVars
    <3>2. command'[cb] = command[cb]
      BY <1>7, <2>5 DEF RefuseRequest, MessagingInv, MessagingTypeOK
    <3> QED  BY <1>2, <1>4, <2>1, <2>3, <3>1, <3>2, StayingCbIsKept
  <2> QED  BY <2>4, <2>5
<1>8. CASE CallResponseRoutine
  <2>1. sending' = sending /\ msgQueue' = msgQueue /\ command' = command
    BY <1>8 DEF CallResponseRoutine
  <2>2. Stays(cb)
    BY <1>2, <1>3, <1>4, <1>8, <2>1 DEF CallResponseRoutine, Stays, IsAt, Places, sendVars
  <2> QED  BY <1>2, <1>3, <1>4, <2>1, <2>2, StayingCbIsKept
<1> QED  BY <1>5, <1>6, <1>7, <1>8

\* The message task ends a response: its Cb, a host Cb, is nowhere.
LEMMA EndedResponseIsNowhere ==
  ASSUME MessagingInv, NEW cb \in Cbs, CbInv(cb), EndResponse
  PROVE  /\ cb # msgCb => Kept(cb)
         /\ cb = msgCb => cb \in HostCbs /\ CbInv(cb)' /\ IsNowhere(cb)'
<1> USE MessagingConstants
<1>1. /\ UNCHANGED <<withApex, pResponseCbB, pCommRespCbB, pCommRqstCbB, routed>>
      /\ UNCHANGED <<msgQueue, sending, hasCb, command>>
      /\ msgCb \in Cbs /\ msgCb' = NULL /\ command[msgCb] = "RX_RSP"
  BY DEF EndResponse, DealsWith, sendVars, MessagingInv, MessagingTypeOK
<1>2. /\ QueuedOnce(cb)' /\ SentOnce(cb)' /\ OwnedOnce(cb)'
      /\ (Queued(cb)' <=> Queued(cb)) /\ (Sent(cb)' <=> Sent(cb)) /\ (Owned(cb)' <=> Owned(cb))
      /\ (Idle("isr")' <=> Idle("isr"))
  BY <1>1 DEF CbInv, IsAtMostOnce, QueuedOnce, SentOnce, OwnedOnce, Queued, Sent, Owned, Idle
<1>3. ASSUME cb # msgCb PROVE Kept(cb)
  <2>1. Stays(cb)
    BY <1>1, <1>2, <1>3 DEF Stays, IsAt, Places
  <2> QED  BY <1>1, <1>2, <2>1, StayingCbIsKept
<1>4. ASSUME cb = msgCb PROVE cb \in HostCbs /\ CbInv(cb)' /\ IsNowhere(cb)'
  <2>1. \A p \in Places : IsAt(p, cb) <=> p = "task"
    BY <1>4 DEF CbInv, IsAtMostOnce, IsAt, Places
  <2>2. \A p \in Places : IsAt(p, cb)' => IsAt(p, cb) /\ p # "task"
    BY <1>1, <1>2 DEF IsAt, Places
  <2>3. \A p \in Places : ~IsAt(p, cb)'
    BY <2>1, <2>2
  <2>4. cb \in HostCbs
    BY <1>1, <1>4, CommandOfCb
  <2>5. CommandFits(cb)'
    BY <2>3 DEF CommandFits, Places
  <2> QED  BY <1>2, <2>3, <2>4, <2>5 DEF CbInv, IsAtMostOnce, IsNowhere
<1> QED  BY <1>3, <1>4

\* A worker answers a request, or sends one in its host Cb.
LEMMA WorkerKeepsCb ==
  ASSUME MessagingInv, NEW cb \in Cbs, CbInv(cb), NEW w \in Workers,
         SendRequest(w) \/ \E m \in Cbs : AnswerRequest(w, m)
  PROVE  Kept(cb)
<1> USE MessagingConstants
<1>1. UNCHANGED <<withApex, pResponseCbB, pCommRespCbB, pCommRqstCbB, msgQueue, msgCb>>
  BY DEF SendRequest, AnswerRequest, sendVars
<1>2. (Queued(cb)' <=> Queued(cb)) /\ QueuedOnce(cb)'
  BY <1>1 DEF CbInv, IsAtMostOnce, Queued, QueuedOnce
<1>3. ASSUME NEW m \in Cbs, AnswerRequest(w, m) PROVE Kept(cb)
  <2>1. hasCb' = hasCb /\ routed' = routed \ {m} /\ m \in routed
        /\ Idle(w) /\ Begin(w, "resp", m) /\ command' = [command EXCEPT ![m] = "TX_RSP"]
    BY <1>3 DEF AnswerRequest, hostVars
  <2>2. OwnedOnce(cb)' /\ (Owned(cb)' <=> Owned(cb))
    BY <2>1 DEF CbInv, IsAtMostOnce, OwnedOnce, Owned
  <2>3. cb = m => ~Sent(cb)
    <3>1. cb = m => IsAt("routed", cb)
      BY <2>1 DEF IsAt
    <3> QED  BY <3>1, CbIsNotElsewhere DEF Places
  <2>4. (Sent(cb)' <=> Sent(cb) \/ cb = m) /\ SentOnce(cb)' /\ (Idle("isr")' <=> Idle("isr"))
    BY <2>1, <2>3, CbIsSent DEF MessagingInv, CbInv, IsAtMostOnce
  <2>5. CASE cb = m
    <3>1. Moves(cb, "routed", "sent")
      BY <1>1, <1>2, <2>1, <2>2, <2>4, <2>5 DEF Moves, IsAt, Places
    <3> QED  BY <1>2, <2>2, <2>4, <3>1, MovingCbIsKept DEF Places
  <2>6. CASE cb # m
    <3>1. Stays(cb)
      BY <1>1, <1>2, <2>1, <2>2, <2>4, <2>6 DEF Stays, IsAt, Places
    <3>2. command'[cb] = command[cb]
      BY <2>1, <2>6 DEF MessagingInv, MessagingTypeOK
    <3> QED  BY <1>2, <2>2, <2>4, <3>1, <3>2, StayingCbIsKept
  <2> QED  BY <2>5, <2>6
<1>4. CASE SendRequest(w)
  <2> DEFINE m == hasCb[w]
  <2>1. routed' = routed /\ m \in Cbs /\ Idle(w) /\ Begin(w, "rqst", m)
        /\ command' = [command EXCEPT ![m] = "TX_REQ"] /\ hasCb' = [hasCb EXCEPT ![w] = NULL]
    BY <1>4 DEF SendRequest, MessagingInv, MessagingTypeOK
  <2>2. /\ hasCb'[w] = NULL /\ \A v \in Workers \ {w} : hasCb'[v] = hasCb[v]
    BY <2>1 DEF MessagingInv, MessagingTypeOK
  <2>3. /\ OwnedOnce(cb)'
        /\ cb = m => Owned(cb) /\ ~Owned(cb)'
        /\ cb # m => (Owned(cb)' <=> Owned(cb))
    BY <2>2 DEF CbInv, IsAtMostOnce, OwnedOnce, Owned
  <2>4. cb = m => ~Sent(cb)
    <3>1. cb = m => IsAt("owned", cb)
      BY <2>3 DEF IsAt
    <3> QED  BY <3>1, CbIsNotElsewhere DEF Places
  <2>5. (Sent(cb)' <=> Sent(cb) \/ cb = m) /\ SentOnce(cb)' /\ (Idle("isr")' <=> Idle("isr"))
    BY <2>1, <2>4, CbIsSent DEF MessagingInv, CbInv, IsAtMostOnce
  <2> HIDE DEF m
  <2>6. CASE cb = m
    <3>1. Moves(cb, "owned", "sent")
      BY <1>1, <1>2, <2>1, <2>3, <2>5, <2>6 DEF Moves, IsAt, Places
    <3> QED  BY <1>2, <2>3, <2>5, <3>1, MovingCbIsKept DEF Places
  <2>7. CASE cb # m
    <3>1. Stays(cb)
      BY <1>1, <1>2, <2>1, <2>3, <2>5, <2>7 DEF Stays, IsAt, Places
    <3>2. command'[cb] = command[cb]
      BY <2>1, <2>7 DEF MessagingInv, MessagingTypeOK
    <3> QED  BY <1>2, <2>3, <2>5, <3>1, <3>2, StayingCbIsKept
  <2> QED  BY <2>6, <2>7
<1> QED  BY <1>3, <1>4

\* A worker finds a host Cb and makes it its own: what it has not found stays, and what
\* it has found is the worker's, if it was nowhere.
LEMMA FoundCbIsOwned ==
  ASSUME MessagingInv, NEW cb \in Cbs, CbInv(cb), NEW w \in Workers,
         FindFreeHostCb(w) \/ AssignResponseRoutine(w)
  PROVE  /\ FindFreeHostCb(w) \/ cb # found[w] => Kept(cb)
         /\ AssignResponseRoutine(w) /\ cb = found[w] /\ IsNowhere(cb)
              => CbInv(cb)' /\ ~IsNowhere(cb)'
<1> USE MessagingConstants
<1>1. /\ UNCHANGED <<withApex, pResponseCbB, pCommRespCbB, pCommRqstCbB, msgCb, routed>>
      /\ UNCHANGED <<msgQueue, sending, command>>
  BY DEF FindFreeHostCb, AssignResponseRoutine, sendVars
<1>2. /\ QueuedOnce(cb)' /\ SentOnce(cb)'
      /\ (Queued(cb)' <=> Queued(cb)) /\ (Sent(cb)' <=> Sent(cb)) /\ (Idle("isr")' <=> Idle("isr"))
  BY <1>1 DEF CbInv, IsAtMostOnce, QueuedOnce, SentOnce, Queued, Sent, Idle
<1>3. ASSUME OwnedOnce(cb)', Owned(cb)' <=> Owned(cb) PROVE Kept(cb)
  <2>1. Stays(cb)
    BY <1>1, <1>2, <1>3 DEF Stays, IsAt, Places
  <2> QED  BY <1>1, <1>2, <1>3, <2>1, StayingCbIsKept
<1>4. CASE FindFreeHostCb(w)
  BY <1>3, <1>4 DEF FindFreeHostCb, CbInv, IsAtMostOnce, OwnedOnce, Owned, AssignResponseRoutine
<1>5. CASE AssignResponseRoutine(w)
  <2>1. /\ hasCb[w] = NULL /\ hasCb'[w] = found[w] /\ found[w] # NULL
        /\ \A v \in Workers \ {w} : hasCb'[v] = hasCb[v]
    BY <1>5 DEF AssignResponseRoutine, MessagingInv, MessagingTypeOK, OneThingAtATime
  <2>2. ASSUME cb # found[w] PROVE Kept(cb)
    BY <1>3, <2>1, <2>2 DEF CbInv, IsAtMostOnce, OwnedOnce, Owned
  <2>3. ASSUME cb = found[w], IsNowhere(cb) PROVE CbInv(cb)' /\ ~IsNowhere(cb)'
    <3>1. \A p \in Places : ~IsAt(p, cb)
      BY <2>3 DEF IsNowhere
    <3>2. ~Owned(cb)
      BY <3>1 DEF IsAt, Places
    <3>3. OwnedOnce(cb)' /\ Owned(cb)'
      BY <2>1, <2>3, <3>2 DEF OwnedOnce, Owned
    <3>4. \A p \in Places : IsAt(p, cb)' <=> IsAt(p, cb) \/ p = "owned"
      BY <1>1, <1>2, <3>3 DEF IsAt, Places
    <3>5. \A p \in Places : IsAt(p, cb)' <=> p = "owned"
      BY <3>1, <3>4
    <3>6. CommandFits(cb)'
      BY <3>5 DEF CommandFits, Places
    <3>7. ~IsNowhere(cb)'
      BY <3>5 DEF IsNowhere, Places
    <3> QED  BY <1>2, <3>3, <3>5, <3>6, <3>7 DEF CbInv, IsAtMostOnce
  <2>4. ~FindFreeHostCb(w)
    BY <2>1 DEF FindFreeHostCb
  <2> QED  BY <2>2, <2>3, <2>4
<1> QED  BY <1>4, <1>5

(***************************************************************************)
(* The behaviours of port B.                                               *)
(***************************************************************************)
\* Steps of port A and stuttering leave every Cb where it is.
LEMMA OtherStepsKeepCbs ==
  ASSUME MessagingInv, UNCHANGED vars
  PROVE  /\ MessagingInv'
         /\ \A cb \in Cbs : CbInv(cb) => Kept(cb)
<1>1. MessagingInv'
  BY DEF vars, MessagingInv, MessagingTypeOK, OneThingAtATime, Idle
<1>2. ASSUME NEW cb \in Cbs, CbInv(cb) PROVE Kept(cb)
  <2>1. Stays(cb)
    BY DEF vars, Stays, IsAt, Queued, Sent, Owned, Idle
  <2>2. QueuedOnce(cb)' /\ SentOnce(cb)' /\ OwnedOnce(cb)'
    BY <1>2 DEF vars, CbInv, IsAtMostOnce, QueuedOnce, SentOnce, OwnedOnce
  <2> QED  BY <1>2, <2>1, <2>2, StayingCbIsKept DEF vars
<1> QED  BY <1>1, <1>2

\* What any step does to a Cb that is neither ended as a response nor assigned.
LEMMA StepKeepsCb ==
  ASSUME MessagingInv, NEW cb \in Cbs, CbInv(cb), BNext,
         EndResponse => cb # msgCb,
         \A w \in Workers : AssignResponseRoutine(w) => cb # found[w]
  PROVE  Kept(cb)
<1> USE DEF OfB
<1>1. CASE \/ \E m \in Cbs : ApexDelivers(m)
           \/ ApexTakesResponse \/ ApexTakesRequest
  BY <1>1, ApexKeepsCb
<1>2. CASE InterruptAsserts
  <2>1. UNCHANGED <<withApex, pResponseCbB, pCommRespCbB, pCommRqstCbB, command, msgQueue,
                    msgCb, routed, hasCb, sending>>
    BY <1>2 DEF InterruptAsserts, sendVars, hostVars
  <2>2. Stays(cb)
    BY <2>1 DEF Stays, IsAt, Queued, Sent, Owned, Idle
  <2>3. QueuedOnce(cb)' /\ SentOnce(cb)' /\ OwnedOnce(cb)'
    BY <2>1 DEF CbInv, IsAtMostOnce, QueuedOnce, SentOnce, OwnedOnce
  <2> QED  BY <2>1, <2>2, <2>3, StayingCbIsKept
<1>3. CASE ForwardCb \/ RejectCb
  BY <1>3, InterruptKeepsCb
<1>4. ASSUME NEW c \in Contexts, TaskSends(c) PROVE Kept(cb)
  BY <1>4, SendKeepsCb
<1>5. CASE InterruptSends
  BY <1>5, SendKeepsCb
<1>6. CASE TakeMessage \/ RouteRequest \/ RefuseRequest \/ CallResponseRoutine
  BY <1>6, MessageTaskKeepsCb
<1>7. CASE EndResponse
  BY <1>7, EndedResponseIsNowhere
<1>8. ASSUME NEW w \in Workers, NEW m \in Cbs, AnswerRequest(w, m) PROVE Kept(cb)
  BY <1>8, WorkerKeepsCb
<1>9. ASSUME NEW w \in Workers, SendRequest(w) PROVE Kept(cb)
  BY <1>9, WorkerKeepsCb
<1>10. ASSUME NEW w \in Workers, FindFreeHostCb(w) \/ AssignResponseRoutine(w) PROVE Kept(cb)
  BY <1>10, FoundCbIsOwned
<1> QED
  BY <1>1, <1>2, <1>3, <1>4, <1>5, <1>6, <1>7, <1>8, <1>9, <1>10, MessagingConstants DEF BNext

\* The requests of the ASIC: each is in one place.
RequestsInv == MessagingInv /\ \A cb \in ApexCbs : CbInv(cb) /\ ~IsNowhere(cb)

\* A host Cb is nowhere if and only if it is free, and one that is found is still free:
\* with one worker, nobody takes it in between.
HostCbInv(h) ==
  /\ CbInv(h)
  /\ IsNowhere(h) <=> rxRspRoutine[h] = NULL
  /\ \A w \in Workers : found[w] = h => rxRspRoutine[h] = NULL

HostCbsInv == \A h \in HostCbs : HostCbInv(h)

\* At the start the ASIC holds its Cbs, and the host Cbs are free.
LEMMA PortsInitIsSound ==
  ASSUME PortsInit
  PROVE  RequestsInv /\ HostCbsInv
<1> USE MessagingConstants
<1>1. MessagingInv
  BY DEF PortsInit, Init, MessagingInv, MessagingTypeOK, OneThingAtATime, Idle, Cbs, Commands
<1>2. ASSUME NEW cb \in Cbs
      PROVE  /\ QueuedOnce(cb) /\ SentOnce(cb) /\ OwnedOnce(cb)
             /\ ~Queued(cb) /\ ~Sent(cb) /\ ~Owned(cb)
             /\ \A p \in Places : IsAt(p, cb) <=> p = "apex" /\ cb \in ApexCbs
             /\ CommandFits(cb)
  <2>1. /\ QueuedOnce(cb) /\ SentOnce(cb) /\ OwnedOnce(cb)
        /\ ~Queued(cb) /\ ~Sent(cb) /\ ~Owned(cb)
    BY DEF PortsInit, Init, QueuedOnce, SentOnce, OwnedOnce, Queued, Sent, Owned
  <2>2. \A p \in Places : IsAt(p, cb) <=> p = "apex" /\ cb \in ApexCbs
    BY <2>1 DEF PortsInit, Init, IsAt, Places
  <2>3. CommandFits(cb)
    BY <2>2 DEF CommandFits, Places
  <2> QED  BY <2>1, <2>2, <2>3
<1>3. \A cb \in Cbs : CbInv(cb) /\ (IsNowhere(cb) <=> cb \notin ApexCbs)
  BY <1>2 DEF CbInv, IsAtMostOnce, IsNowhere, Places
<1>4. RequestsInv
  BY <1>1, <1>3 DEF RequestsInv, Cbs
<1>5. ASSUME NEW h \in HostCbs PROVE HostCbInv(h)
  <2>1. h \in Cbs /\ h \notin ApexCbs
    BY MessagingAssumption
  <2>2. rxRspRoutine[h] = NULL
    BY DEF PortsInit, Init
  <2> QED  BY <1>3, <2>1, <2>2 DEF HostCbInv
<1> QED  BY <1>4, <1>5 DEF HostCbsInv

\* No step loses or doubles a request, for any number of workers.
LEMMA RequestsInvIsInductive ==
  ASSUME RequestsInv, [ANext \/ BNext]_portsVars
  PROVE  RequestsInv'
<1> USE DEF RequestsInv
<1>1. ASSUME UNCHANGED vars PROVE RequestsInv'
  BY <1>1, OtherStepsKeepCbs DEF Kept, Cbs
<1>2. CASE ANext
  <2>1. UNCHANGED vars
    BY <1>2 DEF ANext, OfA
  <2> QED  BY <1>1, <2>1
<1>3. CASE UNCHANGED portsVars
  BY <1>1, <1>3 DEF portsVars
<1>4. CASE BNext
  <2>1. MessagingInv'
    BY <1>4, MessagingInvIsInductive
  <2>2. ASSUME NEW cb \in ApexCbs PROVE CbInv(cb)' /\ ~IsNowhere(cb)'
    <3>1. cb \in Cbs /\ CbInv(cb) /\ ~IsNowhere(cb) /\ cb \notin HostCbs /\ cb # NULL
      BY MessagingAssumption DEF Cbs
    <3>2. EndResponse => cb # msgCb
      BY <3>1, EndedResponseIsNowhere
    <3>3. ASSUME NEW w \in Workers, AssignResponseRoutine(w) PROVE cb # found[w]
      BY <3>1, <3>3 DEF AssignResponseRoutine, MessagingInv, MessagingTypeOK
    <3> QED  BY <1>4, <3>1, <3>2, <3>3, StepKeepsCb DEF Kept
  <2> QED  BY <2>1, <2>2
<1> QED  BY <1>2, <1>3, <1>4

\* With one worker no step loses or doubles a host Cb.
LEMMA HostCbsInvIsInductive ==
  ASSUME \A v, w \in Workers : v = w,
         MessagingInv, HostCbsInv, [ANext \/ BNext]_portsVars
  PROVE  HostCbsInv'
<1> USE MessagingConstants
<1> SUFFICES ASSUME NEW h \in HostCbs PROVE HostCbInv(h)'
  BY DEF HostCbsInv
<1>1. /\ h \in Cbs /\ h # NULL /\ CbInv(h)
      /\ IsNowhere(h) <=> rxRspRoutine[h] = NULL
      /\ \A w \in Workers : found[w] = h => rxRspRoutine[h] = NULL
  BY DEF HostCbsInv, HostCbInv
<1>2. ASSUME Kept(h), rxRspRoutine' = rxRspRoutine,
             \A w \in Workers : found'[w] = h => found[w] = h \/ rxRspRoutine[h] = NULL
      PROVE  HostCbInv(h)'
  BY <1>1, <1>2 DEF Kept, HostCbInv
<1>3. ASSUME UNCHANGED vars PROVE HostCbInv(h)'
  <2>1. Kept(h)
    BY <1>1, <1>3, OtherStepsKeepCbs
  <2> QED  BY <1>2, <1>3, <2>1 DEF vars
<1>4. CASE ANext
  <2>1. UNCHANGED vars
    BY <1>4 DEF ANext, OfA
  <2> QED  BY <1>3, <2>1
<1>5. CASE UNCHANGED portsVars
  BY <1>3, <1>5 DEF portsVars
<1>6. CASE EndResponse
  <2>1. found' = found /\ rxRspRoutine' = [rxRspRoutine EXCEPT ![msgCb] = NULL]
    BY <1>6 DEF EndResponse, RoutineCleared
  <2>2. CASE h = msgCb
    <3>1. CbInv(h)' /\ IsNowhere(h)'
      BY <1>1, <1>6, <2>2, EndedResponseIsNowhere
    <3>2. rxRspRoutine'[h] = NULL
      BY <2>1, <2>2 DEF MessagingInv, MessagingTypeOK
    <3> QED  BY <3>1, <3>2 DEF HostCbInv
  <2>3. CASE h # msgCb
    <3>1. Kept(h)
      BY <1>1, <1>6, <2>3, EndedResponseIsNowhere
    <3>2. rxRspRoutine'[h] = rxRspRoutine[h]
      BY <2>1, <2>3 DEF MessagingInv, MessagingTypeOK
    <3> QED  BY <1>1, <2>1, <3>1, <3>2 DEF HostCbInv, Kept
  <2> QED  BY <2>2, <2>3
<1>7. ASSUME NEW w \in Workers, AssignResponseRoutine(w) PROVE HostCbInv(h)'
  <2>1. /\ found[w] \in HostCbs /\ found'[w] = NULL
        /\ rxRspRoutine' = [rxRspRoutine EXCEPT ![found[w]] = w]
    BY <1>7 DEF AssignResponseRoutine, MessagingInv, MessagingTypeOK
  <2>2. \A v \in Workers : found'[v] # h
    BY <1>1, <2>1
  <2>3. CASE h = found[w]
    <3>1. CbInv(h)' /\ ~IsNowhere(h)'
      BY <1>1, <1>7, <2>3, FoundCbIsOwned
    <3>2. rxRspRoutine'[h] = w /\ w # NULL
      BY <2>1, <2>3 DEF MessagingInv, MessagingTypeOK
    <3> QED  BY <2>2, <3>1, <3>2 DEF HostCbInv
  <2>4. CASE h # found[w]
    <3>1. Kept(h)
      BY <1>1, <1>7, <2>4, FoundCbIsOwned
    <3>2. rxRspRoutine'[h] = rxRspRoutine[h]
      BY <2>1, <2>4 DEF MessagingInv, MessagingTypeOK
    <3> QED  BY <1>1, <2>2, <3>1, <3>2 DEF HostCbInv, Kept
  <2> QED  BY <2>3, <2>4
<1>8. CASE BNext /\ ~EndResponse /\ ~\E w \in Workers : AssignResponseRoutine(w)
  <2>1. Kept(h)
    BY <1>1, <1>8, StepKeepsCb
  <2>2. rxRspRoutine' = rxRspRoutine
    BY <1>8
    DEF BNext, OfB, ApexDelivers, ApexTakesResponse, ApexTakesRequest, InterruptAsserts,
        ForwardCb, RejectCb, InterruptSends, TakeMessage, RouteRequest, RefuseRequest,
        CallResponseRoutine, TaskSends, AnswerRequest, FindFreeHostCb, SendRequest, hostVars
  <2>3. CASE \E w \in Workers : FindFreeHostCb(w)
    <3>1. PICK w \in Workers : FindFreeHostCb(w)
      BY <2>3
    <3>2. PICK k \in DOMAIN HostTable :
            /\ IsFree(Rotated(k))
            /\ found' = [found EXCEPT ![w] = HostTable[Rotated(k)]]
      BY <3>1 DEF FindFreeHostCb
    <3>3. \A v \in Workers : found'[v] = h => found[v] = h \/ rxRspRoutine[h] = NULL
      BY <3>2 DEF IsFree, MessagingInv, MessagingTypeOK
    <3> QED  BY <1>2, <2>1, <2>2, <3>3
  <2>4. CASE ~\E w \in Workers : FindFreeHostCb(w)
    <3>1. found' = found
      BY <1>8, <2>4
      DEF BNext, OfB, ApexDelivers, ApexTakesResponse, ApexTakesRequest, InterruptAsserts,
          ForwardCb, RejectCb, InterruptSends, TakeMessage, RouteRequest, RefuseRequest,
          CallResponseRoutine, TaskSends, AnswerRequest, SendRequest, hostVars
    <3> QED  BY <1>2, <2>1, <2>2, <3>1
  <2> QED  BY <2>3, <2>4
<1> QED  BY <1>4, <1>5, <1>6, <1>7, <1>8

\* A Cb that is in one kind of place, and there once, has one holder.
LEMMA HoldersAreCounted ==
  ASSUME NEW cb \in Cbs, IsAtMostOnce(cb)
  PROVE  Cardinality(Holders(cb)) = IF IsNowhere(cb) THEN 0 ELSE 1
<1> DEFINE At    == {<<x>> : x \in {y \in {"apex", "response", "resp", "rqst", "task", "routed"} :
                                      IsAt(y, cb)}}
           Queue == {<<"queue", i>> : i \in {j \in DOMAIN msgQueue : msgQueue[j] = cb}}
           By    == {<<"sent by", c>> : c \in {d \in Contexts : sending[d].cb = cb}}
           Of    == {<<"of", w>> : w \in {v \in Workers : hasCb[v] = cb}}
<1>1. Holders(cb) = At \cup Queue \cup By \cup Of
  BY DEF Holders, IsAt
<1>2. /\ IsAt("queue", cb) <=> Queued(cb)
      /\ IsAt("sent", cb) <=> Sent(cb)
      /\ IsAt("owned", cb) <=> Owned(cb)
  BY DEF IsAt
<1>3. /\ ~Queued(cb) => Queue = {}
      /\ ~Sent(cb) => By = {}
      /\ ~Owned(cb) => Of = {}
  BY DEF Queued, Sent, Owned
<1>4. CASE IsNowhere(cb)
  <2>1. At = {} /\ Queue = {} /\ By = {} /\ Of = {}
    BY <1>2, <1>3, <1>4 DEF IsNowhere, Places
  <2>2. Holders(cb) = {}
    BY <1>1, <2>1
  <2> QED  BY <1>4, <2>2, FS_EmptySet
<1>5. CASE ~IsNowhere(cb)
  <2>1. PICK p \in Places : IsAt(p, cb) /\ \A q \in Places : IsAt(q, cb) => p = q
    BY <1>5 DEF IsNowhere, IsAtMostOnce
  <2>2. \E x : Holders(cb) = {x}
    <3>1. CASE p = "queue"
      <4>1. PICK i \in DOMAIN msgQueue : msgQueue[i] = cb
        BY <1>2, <2>1, <3>1 DEF Queued
      <4>2. Queue = {<<"queue", i>>}
        BY <4>1 DEF IsAtMostOnce, QueuedOnce
      <4>3. At = {} /\ By = {} /\ Of = {}
        BY <1>2, <1>3, <2>1, <3>1 DEF Places
      <4> QED  BY <1>1, <4>2, <4>3
    <3>2. CASE p = "sent"
      <4>1. PICK c \in Contexts : sending[c].cb = cb
        BY <1>2, <2>1, <3>2 DEF Sent
      <4>2. By = {<<"sent by", c>>}
        BY <4>1 DEF IsAtMostOnce, SentOnce
      <4>3. At = {} /\ Queue = {} /\ Of = {}
        BY <1>2, <1>3, <2>1, <3>2 DEF Places
      <4> QED  BY <1>1, <4>2, <4>3
    <3>3. CASE p = "owned"
      <4>1. PICK w \in Workers : hasCb[w] = cb
        BY <1>2, <2>1, <3>3 DEF Owned
      <4>2. Of = {<<"of", w>>}
        BY <4>1 DEF IsAtMostOnce, OwnedOnce
      <4>3. At = {} /\ Queue = {} /\ By = {}
        BY <1>2, <1>3, <2>1, <3>3 DEF Places
      <4> QED  BY <1>1, <4>2, <4>3
    <3>4. CASE p \in {"apex", "response", "resp", "rqst", "task", "routed"}
      <4>1. At = {<<p>>}
        BY <2>1, <3>4 DEF Places
      <4>2. Queue = {} /\ By = {} /\ Of = {}
        BY <1>2, <1>3, <2>1, <3>4 DEF Places
      <4> QED  BY <1>1, <4>1, <4>2
    <3> QED  BY <2>1, <3>1, <3>2, <3>3, <3>4 DEF Places
  <2> HIDE DEF At, Queue, By, Of
  <2> QED  BY <1>5, <2>2, FS_Singleton
<1> QED  BY <1>4, <1>5

\* Whatever the number of requests, of handlers and of places on the message queue, a
\* request of the ASIC is in one place: it is neither lost nor answered twice.
THEOREM NoRequestIsLost == PortsSpec => []\A cb \in ApexCbs : Cardinality(Holders(cb)) = 1
<1>1. PortsInit => RequestsInv
  BY PortsInitIsSound
<1>2. RequestsInv /\ [ANext \/ BNext]_portsVars => RequestsInv'
  BY RequestsInvIsInductive
<1>3. RequestsInv => \A cb \in ApexCbs : Cardinality(Holders(cb)) = 1
  BY HoldersAreCounted DEF RequestsInv, CbInv, Cbs
<1> QED  BY <1>1, <1>2, <1>3, PTL DEF PortsSpec

\* With one worker, no host Cb is in two places either, and it is in none if and only if
\* it is free: the workers, if there are more, find the same Cb in Apex_GetHostCb.
THEOREM NoCbIsLost ==
  ASSUME \A v, w \in Workers : v = w
  PROVE  PortsSpec => []EveryCbIsInOnePlace
<1>1. PortsInit => RequestsInv /\ HostCbsInv
  BY PortsInitIsSound
<1>2. RequestsInv /\ HostCbsInv /\ [ANext \/ BNext]_portsVars => (RequestsInv /\ HostCbsInv)'
  BY RequestsInvIsInductive, HostCbsInvIsInductive DEF RequestsInv
<1>3. RequestsInv /\ HostCbsInv => EveryCbIsInOnePlace
  BY HoldersAreCounted, MessagingConstants
  DEF RequestsInv, HostCbsInv, HostCbInv, CbInv, Cbs, EveryCbIsInOnePlace
<1> QED  BY <1>1, <1>2, <1>3, PTL DEF PortsSpec
=============================================================================
