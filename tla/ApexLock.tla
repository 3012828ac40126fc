------------------------------ MODULE ApexLock ------------------------------
(***************************************************************************)
(* The firmware lock that the host and the Apex processor share in memory  *)
(* (Apex.c: Apex_InitLock, Apex_Lock, Apex_TryLock, Apex_Unlock).  Every   *)
(* access to the shared LOCK structure is a step of its own, so the two    *)
(* processors interleave between any two of them; the accesses of one      *)
(* processor stay in program order (the structure is volatile and ssync    *)
(* drains the writes before the first read).  The Apex firmware is not in  *)
(* the repository; it is taken to run the same protocol with the two flags *)
(* exchanged.                                                              *)
(***************************************************************************)
EXTENDS Integers

HOST_LOCK == 0
APEX_LOCK == 1
Processors == {HOST_LOCK, APEX_LOCK}
Other(p) == 1 - p

VARIABLES
  flag,      \* lock->flag
  turn,      \* lock->turn
  at,        \* where each processor is in its call
  trying,    \* the call is Apex_TryLock
  overtaken  \* how often the other one got the lock while this one waited

vars == <<flag, turn, at, trying, overtaken>>

\* Apex_InitLock, by whichever processor owns the protected structure.
Init ==
  /\ flag = [p \in Processors |-> FALSE]
  /\ turn = 0
  /\ at = [p \in Processors |-> "outside"]
  /\ trying = [p \in Processors |-> FALSE]
  /\ overtaken = [p \in Processors |-> 0]

Go(p, from, to) == at[p] = from /\ at' = [at EXCEPT ![p] = to]

\* Apex_Lock or Apex_TryLock is called: flag[LOCK_MINE] = TRUE.
RaiseFlag(p) ==
  /\ Go(p, "outside", "setTurn")
  /\ flag' = [flag EXCEPT ![p] = TRUE]
  /\ \E try \in BOOLEAN : trying' = [trying EXCEPT ![p] = try]
  /\ UNCHANGED <<turn, overtaken>>

\* Mutant: each processor claims the turn for itself.
TurnIsMine(p) == p

\* turn = LOCK_OTHER.
TurnGivenAway(p) == Other(p)

GiveTurn(p) ==
  /\ Go(p, "setTurn", "readFlag")
  /\ turn' = TurnGivenAway(p)
  /\ overtaken' = [overtaken EXCEPT ![p] = 0]
  /\ UNCHANGED <<flag, trying>>

\* The lock is acquired: the other processor, if it waits, is overtaken.
Acquire(p) ==
  /\ at' = [at EXCEPT ![p] = "inside"]
  /\ overtaken' = [overtaken EXCEPT ![Other(p)] =
                     IF at[Other(p)] \in {"readFlag", "readTurn"} THEN @ + 1 ELSE @]

\* Read flag[LOCK_OTHER]: not raised, the lock is free.
FlagIsDown(p) ==
  /\ at[p] = "readFlag" /\ ~flag[Other(p)]
  /\ Acquire(p)
  /\ UNCHANGED <<flag, turn, trying>>

\* Read flag[LOCK_OTHER]: raised, so the turn decides.
FlagIsUp(p) ==
  /\ flag[Other(p)]
  /\ Go(p, "readFlag", "readTurn")
  /\ UNCHANGED <<flag, turn, trying, overtaken>>

\* Read turn: the other processor gave it away last.
TurnIsNotOthers(p) ==
  /\ at[p] = "readTurn" /\ turn # Other(p)
  /\ Acquire(p)
  /\ UNCHANGED <<flag, turn, trying>>

\* Read turn: it is the other's; Apex_Lock spins, Apex_TryLock gives up.
TurnIsOthers(p) ==
  /\ turn = Other(p)
  /\ Go(p, "readTurn", IF trying[p] THEN "giveUp" ELSE "readFlag")
  /\ UNCHANGED <<flag, turn, trying, overtaken>>

\* Mutant: Apex_TryLock returns false with its flag still raised.
FlagLeftUp(p) == flag

\* flag[LOCK_MINE] = 0.
FlagLowered(p) == [flag EXCEPT ![p] = FALSE]

\* Apex_TryLock withdraws its claim and returns false.
GiveUp(p) ==
  /\ Go(p, "giveUp", "outside")
  /\ flag' = FlagLowered(p)
  /\ UNCHANGED <<turn, trying, overtaken>>

\* Apex_Unlock.
Unlock(p) ==
  /\ Go(p, "inside", "outside")
  /\ flag' = [flag EXCEPT ![p] = FALSE]
  /\ UNCHANGED <<turn, trying, overtaken>>

\* What a processor does once it has called, up to its return.
InCall(p) ==
  \/ GiveTurn(p)
  \/ FlagIsDown(p)
  \/ FlagIsUp(p)
  \/ TurnIsNotOthers(p)
  \/ TurnIsOthers(p)
  \/ GiveUp(p)

Next == \E p \in Processors : RaiseFlag(p) \/ InCall(p) \/ Unlock(p)

Spec == Init /\ [][Next]_vars

\* A processor that has called keeps running, and releases the lock it got.
FairSpec == Spec /\ \A p \in Processors : WF_vars(InCall(p)) /\ WF_vars(Unlock(p))

-----------------------------------------------------------------------------
\* Every variable has its type, and a flag is up exactly while its processor
\* is inside a call or holds the lock.
TypeOK ==
  /\ flag \in [Processors -> BOOLEAN]
  /\ turn \in Processors
  /\ at \in [Processors -> {"outside", "setTurn", "readFlag", "readTurn", "inside", "giveUp"}]
  /\ trying \in [Processors -> BOOLEAN]
  /\ overtaken \in [Processors -> Nat]
  /\ \A p \in Processors : flag[p] <=> at[p] # "outside"

\* The host and Apex never hold the lock at once, whether they came by
\* Apex_Lock or Apex_TryLock.
MutualExclusion == ~(at[HOST_LOCK] = "inside" /\ at[APEX_LOCK] = "inside")

\* While a processor waits in Apex_Lock the other gets the lock at most once,
\* although Apex_TryLock may be repeated without end.
AtMostOneOvertakes == \A p \in Processors : overtaken[p] <= 1

\* Apex_Lock returns with the lock.
LockIsAcquired ==
  \A p \in Processors :
    at[p] = "setTurn" /\ ~trying[p] ~> at[p] = "inside"
=============================================================================
