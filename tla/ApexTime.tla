------------------------------ MODULE ApexTime ------------------------------
(***************************************************************************)
(* The 64-bit Apex time kept from a 32-bit register (Apex.c: Apex_GetTime, *)
(* Apex_UpdateTime).  Apex_UpdateTime runs in the background, reads the    *)
(* high word and the low word one after the other, and keeps two caches of *)
(* the high word; Apex_GetTime reads the low word only and guesses the     *)
(* high word from the caches.  Apex_GetTime runs at the background's level *)
(* or above, so no part of Apex_UpdateTime runs inside it, but it may      *)
(* interrupt Apex_UpdateTime between its two reads.                        *)
(*                                                                         *)
(* The words are scaled down: the low word has Wrap values, the high word  *)
(* HighWrap.                                                               *)
(***************************************************************************)
EXTENDS Integers

CONSTANTS
  Wrap,          \* values of the low word (2^32)
  HighWrap,      \* values of the high word (2^32)
  MaxUpdateGap,  \* ticks between two calls of Apex_UpdateTime
  MaxReadGap     \* ticks between its two reads

ULONG_MAX == Wrap - 1

\* What the constants are; assumed where they get their values.  A call of
\* Apex_UpdateTime has to fall into the third quarter of every wrap: 17 minutes.
TimeAssumption ==
  /\ Wrap \in Nat \ {0} /\ HighWrap \in Nat \ {0}
  /\ MaxUpdateGap \in Nat /\ MaxReadGap \in Nat
  /\ MaxUpdateGap + MaxReadGap < 3 * (ULONG_MAX \div 4) - ULONG_MAX \div 2

VARIABLES
  now,        \* the time the Apex hardware counts
  updating,   \* Apex_UpdateTime has read the high word, not yet the low word
  wait,       \* ticks since Apex_UpdateTime last took a step
  high,       \* apex_time_high_cache
  lastHigh    \* last_apex_time_high_cache

vars == <<now, updating, wait, high, lastHigh>>

SystemTime     == now % Wrap
SystemTimeHigh == now \div Wrap

\* last_apex_time_high_cache starts at ULONG_MAX: the word before the first.
InitialLastHigh == HighWrap - 1

\* The counter starts with the program.
Init ==
  /\ now \in 0..MaxUpdateGap
  /\ updating = FALSE
  /\ wait = 0
  /\ high = 0
  /\ lastHigh = InitialLastHigh

\* Apex_GetTime, called now.
GetTime ==
  LET word == IF SystemTime < ULONG_MAX \div 4 THEN (lastHigh + 1) % HighWrap ELSE high
  IN word * Wrap + SystemTime

\* A microsecond passes; the 64-bit counter is not modelled past its end.
Tick ==
  /\ now + 1 < Wrap * HighWrap
  /\ wait < IF updating THEN MaxReadGap ELSE MaxUpdateGap
  /\ now' = now + 1
  /\ wait' = wait + 1
  /\ UNCHANGED <<updating, high, lastHigh>>

\* Apex_UpdateTime begins: apex_time_high_cache is brought up to date.
ReadHigh ==
  /\ ~updating
  /\ updating' = TRUE
  /\ wait' = 0
  /\ high' = SystemTimeHigh
  /\ UNCHANGED <<now, lastHigh>>

\* Mutant: the previous high word is kept up to date all the time.
AlwaysUpToDate == TRUE

\* No where near a rollover: the third quarter of the low word's range.
AwayFromRollover ==
  SystemTime > ULONG_MAX \div 2 /\ SystemTime < 3 * (ULONG_MAX \div 4)

\* ... and the low word decides whether the previous one follows.
ReadLow ==
  /\ updating
  /\ updating' = FALSE
  /\ wait' = 0
  /\ lastHigh' = IF AwayFromRollover THEN high ELSE lastHigh
  /\ UNCHANGED <<now, high>>

Next == Tick \/ ReadHigh \/ ReadLow

Spec == Init /\ [][Next]_vars

-----------------------------------------------------------------------------
\* Whenever Apex_GetTime is called, from a task or from an interrupt between
\* the two reads of Apex_UpdateTime, before or after a rollover of the low
\* word, it returns the time: neither a rollover early nor one late.
GetTimeIsExact == GetTime = now
=============================================================================
