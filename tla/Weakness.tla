------------------------------ MODULE Weakness ------------------------------
(***************************************************************************)
(* The ranking of the areas in which the findings of mock interviews       *)
(* accumulate (backend/internal/mock/weakness.go Detect).                  *)
(*                                                                         *)
(* found is a function from findings to [area, severity, ...].             *)
(***************************************************************************)
EXTENDS Ranking, Functions

CONSTANTS
  Areas, AreaRank,    \* categories, and [Areas -> Int], their order by name
  Severities          \* a subset of DOMAIN SeverityWeight

SeverityWeight == [info |-> 1, minor |-> 2, major |-> 4, blocker |-> 8]

InArea(found, a) == {f \in DOMAIN found : found[f].area = a}

\* (Bug_Score is a plausible slip: the mean.)
Burden(found) == [f \in DOMAIN found |-> SeverityWeight[found[f].severity]]
Bug_Score(found, a) ==
  SumFunctionOnSet(Burden(found), InArea(found, a)) \div Cardinality(InArea(found, a))
Score(found, a) == SumFunctionOnSet(Burden(found), InArea(found, a))

Count(found, a) == Cardinality(InArea(found, a))
MaxSeverity(found, a) ==
  LET severities == {found[f].severity : f \in InArea(found, a)} IN
  CHOOSE s \in severities : \A other \in severities : SeverityWeight[other] <= SeverityWeight[s]

\* By score, then by number, then by name.
Standing(found, a) == <<-Score(found, a), -Count(found, a), AreaRank[a]>>

\* The areas from the weakest on.
Weaknesses(found) == Ranked([a \in {b \in Areas : InArea(found, b) # {}} |-> Standing(found, a)])
=============================================================================
