------------------------------ MODULE Improver ------------------------------
(***************************************************************************)
(* The deterministic analysis of a STAR story (backend/internal/           *)
(* behavioral/improver.go): what to improve, a rewritten result, and a     *)
(* strength score out of 100.                                              *)
(*                                                                         *)
(* A section is known by what the analysis looks for: how many words it    *)
(* has, and whether there is a number, a weak verb or an "I" in them.      *)
(***************************************************************************)
EXTENDS Integers, FiniteSetsExt

CONSTANT None      \* a section that is blank

Sections == {"situation", "task", "action", "result", "metrics"}

Has(text, s) == text[s] # None
HasMetrics(text) == \E s \in {"metrics", "result"} : Has(text, s) /\ text[s].number
Rambling(text) == \E s \in Sections \ {"metrics"} : Has(text, s) /\ text[s].words > 150

Suggestions(text, titled) ==
  LET found ==
        {s \in Sections \ {"metrics"} : ~Has(text, s)}
        \cup (IF HasMetrics(text) THEN {} ELSE {"quantify"})
        \cup (IF Has(text, "action") /\ text["action"].weak THEN {"verbs"} ELSE {})
        \cup (IF Has(text, "action") /\ ~text["action"].mine THEN {"ownership"} ELSE {})
        \cup (IF Rambling(text) THEN {"tighten"} ELSE {})
        \cup (IF titled THEN {} ELSE {"title"})
  IN IF found = {} THEN {"rehearse"} ELSE found

\* What each suggestion not made is worth.
Worth == [situation |-> 15, task |-> 15, action |-> 20, result |-> 20, quantify |-> 15,
          verbs |-> 5, ownership |-> 5, tighten |-> 5]
Strength(text) ==
  MapThenSumSet(LAMBDA s : Worth[s],
    DOMAIN Worth \ (Suggestions(text, TRUE)
                    \cup (IF Has(text, "action") THEN {} ELSE {"verbs", "ownership"})))

\* A rewrite is offered for a result without a number.
Rewritten(text) ==
  IF HasMetrics(text) \/ ~Has(text, "result") THEN {} ELSE {"result", "metrics"}

Analysis(text, titled) ==
  [suggestions |-> Suggestions(text, titled), improved |-> Rewritten(text), score |-> Strength(text)]
=============================================================================
