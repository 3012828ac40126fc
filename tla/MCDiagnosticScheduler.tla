----------------------- MODULE MCDiagnosticScheduler -----------------------
(***************************************************************************)
(* Small instances of DiagnosticScheduler for TLC.  Test 1 stands for a    *)
(* test of several iterations that configures itself (the RAM tests),      *)
(* test 2 for the timer test, whose period is longer while its loop is     *)
(* open, test 3 for the instructions test, one iteration and no            *)
(* configuration.                                                          *)
(***************************************************************************)
EXTENDS DiagnosticScheduler

Two(a, b) == [t \in 1..2 |-> IF t = 1 THEN a ELSE b]
Three(a, b, c) == [t \in 1..3 |-> IF t = 1 THEN a ELSE IF t = 2 THEN b ELSE c]

Period3       == Three(2, 1, 3)
PeriodInLoop3 == Three(2, 4, 3)
Iterations3   == Three(3, 2, 1)
Once3         == Three(1, 1, 1)
Period2       == Two(1, 1)
PeriodInLoop2 == Two(1, 5)
Iterations2   == Two(3, 2)
Once2         == Two(1, 1)
Twice2        == Two(2, 1)

\* What the bounds on times need of the clock holds in every instance, and the tests
\* fit the cycle in the instance that monitors how far completions are apart.
ASSUME WideAssumption == NumberOfDiagTests # 0 /\ ClockIsWide
ASSUME FitAssumption == MonitorTotalTime => TestsFitTheCycle
=============================================================================
