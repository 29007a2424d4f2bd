------------------------------ MODULE StreakRun ------------------------------
(***************************************************************************)
(* The study streak as computeStreakFromDates derives it from the dates of *)
(* a user's streak_days rows (backend/internal/progress/repository.go and, *)
(* line for line, backend/internal/analytics/service.go).  A date is an    *)
(* integer, the next day is its successor.                                 *)
(***************************************************************************)
EXTENDS Integers, Sequences, FiniteSets

\* The rows come ORDER BY date; normalising to day granularity removes
\* duplicates, so the loop runs over a strictly increasing sequence.
Norm(dates) ==
  [i \in 1..Cardinality(dates) |->
     CHOOSE d \in dates : Cardinality({e \in dates : e <= d}) = i]

\* The longest run is only looked at when a run breaks.
Bug_LastRunMissed(norm) ==
  LET scan[i \in 1..Len(norm)] ==
        IF i = 1 THEN [run |-> 1, longest |-> 1]
        ELSE IF norm[i] - norm[i - 1] = 1
             THEN [run |-> scan[i - 1].run + 1, longest |-> scan[i - 1].longest]
             ELSE [run |-> 1,
                   longest |-> IF scan[i - 1].run > scan[i - 1].longest
                               THEN scan[i - 1].run ELSE scan[i - 1].longest]
  IN scan[Len(norm)]

\* The loop that carries the length of the run in progress and the longest.
RunScan(norm) ==
  LET scan[i \in 1..Len(norm)] ==
        IF i = 1 THEN [run |-> 1, longest |-> 1]
        ELSE LET run == IF norm[i] - norm[i - 1] = 1
                        THEN scan[i - 1].run + 1 ELSE 1
             IN [run |-> run,
                 longest |-> IF run > scan[i - 1].longest
                             THEN run ELSE scan[i - 1].longest]
  IN scan[Len(norm)]

Longest(dates) == IF dates = {} THEN 0 ELSE RunScan(Norm(dates)).longest

Bug_TodayOnly(dates, asOf) == {asOf} \cap dates
\* Today if it has a row, else yesterday if it has one, else no anchor.
Anchors(dates, asOf) == IF asOf \in dates THEN {asOf} ELSE {asOf - 1} \cap dates

\* The loop that walks back from the anchor one day at a time.
WalkBack(dates, anchor) ==
  LET run[d \in Int] == IF d \in dates THEN 1 + run[d - 1] ELSE 0
  IN run[anchor]

Current(dates, asOf) ==
  IF Anchors(dates, asOf) = {} THEN 0
  ELSE WalkBack(dates, CHOOSE a \in Anchors(dates, asOf) : TRUE)
=============================================================================
