----------------------------- MODULE ApexWatchdog -----------------------------
(***************************************************************************)
(* The watchdogs of the two processors (Apex.c: Apex_WatchdogKick).  The   *)
(* host kicks its hardware watchdog only if the ASIC has echoed the value  *)
(* the host wrote last, and then writes the next one.  The background task *)
(* and the diagnostic scheduler call it; each call is one step: the kick   *)
(* is made with interrupts off, and a fault of the ASIC just after the     *)
(* look at its line is as good as one just after the call.                 *)
(*                                                                         *)
(* The ASIC and the hardware watchdog are external.  The ASIC echoes what  *)
(* the host has written within a time, until it stops; it may raise its    *)
(* fault line when it does.                                                *)
(***************************************************************************)
EXTENDS Naturals

CONSTANTS
  CounterWrap,  \* values of watchdog->parts.host
  MaxCallGap,   \* ticks between two calls of Apex_WatchdogKick
  MaxEcho,      \* ticks the ASIC takes to echo
  Timeout       \* APEX_WDOG_TIMEOUT

\* What the constants are; assumed where they get their values.
WatchdogAssumption ==
  /\ CounterWrap \in Nat \ {0, 1}
  /\ MaxCallGap \in Nat /\ MaxEcho \in Nat
  /\ Timeout \in Nat /\ Timeout > MaxCallGap + MaxEcho

\* A bound: sinceStop counts no further.
MaxSinceStop == 2 * (MaxCallGap + Timeout)

VARIABLES
  host,       \* watchdog->parts.host
  asic,       \* watchdog->parts.asic
  apex,       \* the ASIC: "works", "stopped" or, with its fault line up, "faulted"
  sinceWrite, \* ticks the counter waits for its echo
  sinceCall,  \* ticks since the last call
  sinceKick,  \* ticks since the last HW_WatchdogKick
  sinceStop,  \* history: ticks since the ASIC stopped
  state       \* "running", "reset" by the hardware watchdog, or "asserted"

vars == <<host, asic, apex, sinceWrite, sinceCall, sinceKick, sinceStop, state>>

\* The counters are cleared and main has kicked the hardware watchdog.
Init ==
  /\ host = 0 /\ asic = 0
  /\ apex = "works"
  /\ sinceWrite = 0 /\ sinceCall = 0 /\ sinceKick = 0 /\ sinceStop = 0
  /\ state = "running"

\* Did Apex echo watchdog value?
IsEchoed == host = asic

\* Mutant: the counter is not advanced.
SameHost == host

\* Tell Apex we did our part.
NextHost == (host + 1) % CounterWrap

\* Mutant: the counter is written, the hardware is not kicked.
NoKick == sinceKick

\* HW_WatchdogKick: the time-out starts again.
HW_WatchdogKick == 0

\* Apex_WatchdogKick, without a fault of the ASIC.
KickWatchdog ==
  /\ state = "running" /\ apex # "faulted" /\ IsEchoed
  /\ host' = NextHost
  /\ sinceWrite' = 0 /\ sinceCall' = 0 /\ sinceKick' = HW_WatchdogKick
  /\ UNCHANGED <<asic, apex, sinceStop, state>>

\* Not yet: the hardware watchdog runs on.
AwaitEcho ==
  /\ state = "running" /\ apex # "faulted" /\ ~IsEchoed
  /\ sinceCall' = 0
  /\ UNCHANGED <<host, asic, apex, sinceWrite, sinceKick, sinceStop, state>>

\* Apex faulted.
AssertFault ==
  /\ state = "running" /\ apex = "faulted"
  /\ state' = "asserted"
  /\ UNCHANGED <<host, asic, apex, sinceWrite, sinceCall, sinceKick, sinceStop>>

Apex_WatchdogKick == KickWatchdog \/ AwaitEcho \/ AssertFault

(***************************************************************************)
(* The ASIC, and the hardware watchdog.                                    *)
(***************************************************************************)
ApexEchoes ==
  /\ state = "running" /\ apex = "works" /\ asic # host
  /\ asic' = host
  /\ UNCHANGED <<host, apex, sinceWrite, sinceCall, sinceKick, sinceStop, state>>

ApexStops ==
  /\ state = "running" /\ apex = "works"
  /\ apex' \in {"stopped", "faulted"}
  /\ UNCHANGED <<host, asic, sinceWrite, sinceCall, sinceKick, sinceStop, state>>

Expires ==
  /\ state = "running" /\ sinceKick = Timeout
  /\ state' = "reset"
  /\ UNCHANGED <<host, asic, apex, sinceWrite, sinceCall, sinceKick, sinceStop>>

\* Time passes, no longer than the ASIC, the callers and the hardware let it.
Tick ==
  /\ state = "running"
  /\ sinceCall < MaxCallGap /\ sinceKick < Timeout
  /\ apex = "works" /\ asic # host => sinceWrite < MaxEcho
  /\ sinceWrite' = IF asic = host THEN 0 ELSE sinceWrite + 1
  /\ sinceCall' = sinceCall + 1 /\ sinceKick' = sinceKick + 1
  /\ sinceStop' = IF apex = "works" THEN 0
                  ELSE IF sinceStop < MaxSinceStop THEN sinceStop + 1 ELSE sinceStop
  /\ UNCHANGED <<host, asic, apex, state>>

Next == Apex_WatchdogKick \/ ApexEchoes \/ ApexStops \/ Expires \/ Tick

Spec == Init /\ [][Next]_vars

-----------------------------------------------------------------------------
\* While the ASIC works, the hardware watchdog is kicked in time: an echo that
\* just misses a call is seen by the next one.
NoResetWhileApexWorks == apex = "works" => state = "running" /\ sinceKick < Timeout

\* An ASIC that has stopped is noticed within one call and one time-out: its last
\* echo buys the host one more kick, and no more, even as the counter wraps.
StoppedApexIsNoticed == state = "running" => sinceStop <= MaxCallGap + Timeout
=============================================================================
