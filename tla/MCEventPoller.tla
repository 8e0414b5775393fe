----------------------------- MODULE MCEventPoller -----------------------------
(* Instances of EventPoller for TLC. *)
EXTENDS EventPoller, TLC

CONSTANTS t1, t2, d1, d2

OneTask == {t1}
TwoTasks == {t1, t2}
OneTimer == {d1}
TwoTimers == {d1, d2}

UserSymmetry == Permutations(Tasks) \cup Permutations(Timers)
================================================================================
