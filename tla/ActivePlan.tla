----------------------------- MODULE ActivePlan -----------------------------
(***************************************************************************)
(* What the roadmap module promises about the plan a user follows: there   *)
(* is at most one; it comes to be by one generation, is replaced by        *)
(* another in a single step, and what was replaced never comes back.       *)
(***************************************************************************)
CONSTANT Gens

VARIABLES
  current,   \* the plan the user follows: the empty set or a singleton
  past       \* the plans that were replaced

Init == current = {} /\ past = {}

Start(g) ==
  /\ current = {}
  /\ current' = {g}
  /\ past' = past

Replace(g) ==
  /\ \E old \in Gens : current = {old} /\ old # g
  /\ current' = {g}
  /\ past' = past \cup current

Next == \E g \in Gens \ past : Start(g) \/ Replace(g)

Spec == Init /\ [][Next]_<<current, past>>
=============================================================================
