------------------------------ MODULE StudyDays ------------------------------
(***************************************************************************)
(* The study streak as days pass and a user studies, possibly booking an   *)
(* earlier day: the service takes its clock before the transaction.        *)
(***************************************************************************)
EXTENDS StreakRun, FiniteSetsExt

CONSTANT LastDay

VARIABLES dates, asOf

studyVars == <<dates, asOf>>

StudyInit == dates = {} /\ asOf = 0
Study == \E d \in 0..asOf : dates' = dates \cup {d} /\ asOf' = asOf
Midnight == asOf < LastDay /\ asOf' = asOf + 1 /\ dates' = dates
StudyNext == Study \/ Midnight

\* n consecutive study days of which the last is d.
RunEndsAt(d, n) == (d - n + 1)..d \subseteq dates
Lengths(d) == {n \in 0..(LastDay + 1) : RunEndsAt(d, n)}

\* The current streak is the longest run of study days that ends today or, if
\* today has none yet, yesterday, and the longest streak is the longest run
\* there is (computeStreakFromDates against docs/02-SRS.md 6.2.5).
StreakIsTheRun ==
  /\ Current(dates, asOf) = Max(Lengths(IF asOf \in dates THEN asOf ELSE asOf - 1))
  /\ Longest(dates) = Max(UNION {Lengths(d) : d \in 0..LastDay})
=============================================================================
