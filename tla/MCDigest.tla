------------------------------ MODULE MCDigest ------------------------------
(* A small instance of Digest: a task on each of two days, the second of  *)
(* them the last of a week, and levels with a milestone between any two.  *)
EXTENDS Digest, TLC

Symmetry == Permutations(Handlers)
FourPorts == {"today_plan", "missed_goal", "streak_reminder", "readiness_milestone"}
OneTaskADay == [t \in Tasks |-> IF t = CHOOSE x \in Tasks : TRUE THEN 1 ELSE 2]
=============================================================================
