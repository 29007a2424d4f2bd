------------------------------ MODULE MCRoadmap -----------------------------
(* Small instances of Roadmap: a topic, a problem and a resource, of which  *)
(* the engine plans all of them.                                            *)
EXTENDS Roadmap, TLC

CONSTANTS topic, problem, resource

MCItemType ==
  [i \in Items |-> CASE i = topic -> "topic" [] i = problem -> "problem"
                     [] OTHER -> "resource"]
MCPlans == {Items}
=============================================================================
