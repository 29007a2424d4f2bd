----------------------------- MODULE MCPlanTasks -----------------------------
(* Small instances of PlanTasks: a topic to study and a problem to solve. *)
EXTENDS PlanTasks, TLC

CONSTANTS t1, t2, topic, problem

MCPlanOf ==
  [t \in Planned |->
     IF t = t1 THEN [item |-> topic, kind |-> "study", day |-> 1]
     ELSE [item |-> problem, kind |-> "solve", day |-> 1]]
MCItemType == [i \in Items |-> IF i = topic THEN "topic" ELSE "problem"]
Symmetry == Permutations(Reqs)
=============================================================================
