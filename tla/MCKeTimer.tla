----------------------------- MODULE MCKeTimer -----------------------------
(* KeTimer for TLC.                                                           *)
EXTENDS KeTimer
CONSTANTS x1, x2

(* Each timer once with a relative, an absolute and an absolute time that has *)
(* come, with and without a period.                                           *)
Setting(x, k, abs, p) == [timer |-> x, k |-> k, abs |-> abs, period |-> p]
SomeSettings ==
  {Setting(x1, 1, FALSE, 3), Setting(x1, 3, TRUE, 0), Setting(x1, 0, TRUE, 0),
   Setting(x2, 1, FALSE, 0), Setting(x2, 3, TRUE, 3), Setting(x2, 0, TRUE, 3)}
=============================================================================
