----------------------------- MODULE DiagCycle -----------------------------
(***************************************************************************)
(* What the diagnostic scheduler promises: in every diagnostic cycle each  *)
(* test completes its runs once, in any order; the next cycle starts only  *)
(* when all have; diagnostics stop only for good.                          *)
(***************************************************************************)
CONSTANT Tests

VARIABLES
  done,     \* the tests that have completed their runs for this cycle
  stopped   \* a failure was reported

Init == done = {} /\ stopped = FALSE

Complete(t) ==
  /\ ~stopped
  /\ t \notin done
  /\ done' = done \cup {t}
  /\ stopped' = stopped

NextCycle ==
  /\ ~stopped
  /\ done = Tests
  /\ done' = {}
  /\ stopped' = stopped

Stop ==
  /\ ~stopped
  /\ stopped' = TRUE
  /\ done' = done

Next == (\E t \in Tests : Complete(t)) \/ NextCycle \/ Stop

Spec == Init /\ [][Next]_<<done, stopped>>
=============================================================================
