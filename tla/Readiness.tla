----------------------------- MODULE Readiness -----------------------------
(***************************************************************************)
(* Interview readiness (backend/internal/analytics): how it is computed    *)
(* from a user's progress, revision items and mock scores, and how it      *)
(* moves as the user studies.                                              *)
(*                                                                         *)
(* A completed plan task upserts the progress row and schedules the        *)
(* revision of the item; a problem logged directly (internal/dsaprogress)  *)
(* writes the row alone.  The score of a pillar is exact here, in parts of *)
(* a whole (the code's 100%).  The daily snapshots of it are in Digest.    *)
(***************************************************************************)
EXTENDS Integers, Sequences, FiniteSets, Functions

CONSTANTS
  Topics, Problems,      \* of the track
  Pillars,
  Weights,               \* [Pillars -> Int]: possible weights of a user's pillars
  Intervals,             \* the revision ladder, in days
  Ratings,               \* of an item when it is completed
  Scores,                \* a mock may have
  LastDay, MaxAnswers,   \* bounds on the days and on the recalls
  Whole,                 \* see PillarReadiness; 8000 for pillars of at most two items
  None

VARIABLES
  today,
  item,       \* Topics \cup Problems -> [completed, confidence], its progress row
  revision,   \* Topics \cup Problems -> its revision_items row, or None
  scores,     \* Pillars -> the scores of its mocks
  weight,     \* Pillars -> the weight under the target company
  answers,    \* how many recalls there were (bound)
  pillarOf    \* Topics -> Pillars, as the catalogue has it; problems are "dsa"

readinessVars == <<today, item, revision, scores, weight, answers, pillarOf>>

Items == Topics \cup Problems

ReadinessInit ==
  /\ today = 0
  /\ item = [i \in Items |-> [completed |-> FALSE, confidence |-> None]]
  /\ revision = [i \in Items |-> None]
  /\ scores = [p \in Pillars |-> <<>>]
  /\ weight \in Weights
  /\ answers = 0
  /\ pillarOf \in [Topics -> Pillars]

-----------------------------------------------------------------------------
(***************************************************************************)
(* The score of a pillar (readiness.go), in parts of Whole.  A definition  *)
(* named Bug_... is a plausible slip in the one after it.                  *)
(***************************************************************************)
Larger(a, b) == IF a > b THEN a ELSE b
Lesser(a, b) == IF a < b THEN a ELSE b
Clamp(n) == Larger(0, Lesser(n, Whole))
Total(f) == SumFunctionOnSet(f, DOMAIN f)

\* The mean of values of up to unit
Mean(f, unit) == (Total(f) * Whole) \div (unit * Cardinality(DOMAIN f))

\* Problem coverage folds into the DSA pillar.
InPillar(p) == {t \in Topics : pillarOf[t] = p} \cup (IF p = "dsa" THEN Problems ELSE {})
Completed(p) == {i \in InPillar(p) : item[i].completed}
Rated(p) == {i \in Completed(p) : item[i].confidence # None}

\* The mean 1..5 rating of the completed items that have one.
Confidence(p) ==
  IF Rated(p) = {} THEN 0 ELSE Mean([i \in Rated(p) |-> item[i].confidence - 1], 4)

\* The health of a revision item, in eightieths: its rung and its last answer,
\* less a tenth for every day it is overdue, down to three.
Bug_Overdue(row) == Larger(3, 10 - (row.due - today))
Overdue(row) == IF row.due < today THEN Larger(3, 10 - (today - row.due)) ELSE 10
Health(row) ==
  IF ~row.active THEN 80
  ELSE Overdue(row) * (Lesser(row.stage, 4) + (IF row.last = "correct" THEN 4 ELSE 0))

\* The mean health of the items of a pillar that are scheduled, completed or
\* not, and full health when none is.
Scheduled(p) == {i \in InPillar(p) : revision[i] # None}
RevisionHealth(p) ==
  IF Scheduled(p) = {} THEN Whole
  ELSE Mean([i \in Scheduled(p) |-> Health(revision[i])], 80)

\* Up to 1 a score is a fraction, up to 5 a rating, and above a percentage.
NormalizeScore(sum, n) ==
  IF sum <= 0 THEN 0
  ELSE IF sum <= n THEN (sum * Whole) \div n
  ELSE IF sum <= 5 * n THEN Clamp(((sum - n) * Whole) \div (4 * n))
  ELSE Clamp((sum * Whole) \div (100 * n))
MockScore(p) == NormalizeScore(Total(scores[p]), Len(scores[p]))

PillarInputs(p) ==
  [items |-> Cardinality(InPillar(p)), completed |-> Cardinality(Completed(p)),
   confidence |-> Confidence(p), health |-> RevisionHealth(p),
   mock |-> IF scores[p] = <<>> THEN None ELSE MockScore(p)]

\* ComputePillarReadiness
PillarReadiness(in) ==
  LET blend == (3 * in.confidence + 2 * in.health) \div 5
      own == (in.completed * blend) \div in.items
  IN IF in.mock = None THEN own ELSE (4 * own + in.mock) \div 5

\* ComputeReadiness, times the total weight, which nothing here changes: a pillar
\* without weight counts as one of weight 1.  Only pillars with items in the
\* track count.
Counted == {p \in Pillars : InPillar(p) # {}}
Weight(p) == IF weight[p] <= 0 THEN 1 ELSE weight[p]
Weighted == Total([p \in Counted |-> Weight(p) * PillarReadiness(PillarInputs(p))])

-----------------------------------------------------------------------------
(***************************************************************************)
(* What moves it.                                                          *)
(***************************************************************************)
LastStage == Len(Intervals) - 1
Row(stage, last) ==
  [stage |-> stage, due |-> today + Intervals[stage + 1], active |-> TRUE, last |-> last]

\* A completed task: progress and revision.
Complete(i, rating) ==
  /\ item' = [item EXCEPT ![i] = [completed |-> TRUE, confidence |-> rating]]
  /\ revision' = [revision EXCEPT ![i] = IF @ = None THEN Row(0, None) ELSE @]
  /\ UNCHANGED <<today, scores, weight, answers, pillarOf>>

\* A problem logged directly, solved or not, rated or not.
Log(i, solved, rating) ==
  /\ i \in Problems
  /\ item' = [item EXCEPT ![i] = [completed |-> solved, confidence |-> rating]]
  /\ UNCHANGED <<today, revision, scores, weight, answers, pillarOf>>

Recall(i, answer) ==
  /\ answers < MaxAnswers /\ answers' = answers + 1
  /\ revision[i] # None /\ revision[i].active
  /\ revision' = [revision EXCEPT ![i] =
       IF answer = "incorrect" THEN Row(0, answer)
       ELSE IF @.stage = LastStage THEN [@ EXCEPT !.active = FALSE, !.last = answer, !.due = today]
       ELSE Row(@.stage + 1, answer)]
  /\ UNCHANGED <<today, item, scores, weight, pillarOf>>

Score(p, s) ==
  /\ Len(scores[p]) < 1
  /\ scores' = [scores EXCEPT ![p] = Append(@, s)]
  /\ UNCHANGED <<today, item, revision, weight, answers, pillarOf>>

Midnight ==
  /\ today < LastDay /\ today' = today + 1
  /\ UNCHANGED <<item, revision, scores, weight, answers, pillarOf>>

ReadinessNext ==
  \/ \E i \in Items, r \in Ratings : Complete(i, r)
  \/ \E i \in Problems, solved \in BOOLEAN, r \in Ratings \cup {None} : Log(i, solved, r)
  \/ \E i \in Items, answer \in {"correct", "incorrect"} : Recall(i, answer)
  \/ \E p \in Pillars, s \in Scores : Score(p, s)
  \/ Midnight

-----------------------------------------------------------------------------
\* Readiness is earned: days that pass without study never raise it, as an
\* overdue item counts against it more each day; a correct recall never lowers
\* it, not even the one that retires the item, and an incorrect one never raises
\* it (FR-REV-008, SRS 6.2.1; revisionHealth and the ladder).
Earned ==
  /\ today' # today => Weighted' <= Weighted
  /\ \A i \in Items : answers' # answers /\ revision'[i] # revision[i] =>
       IF revision'[i].last = "correct" THEN Weighted' >= Weighted
       ELSE Weighted' <= Weighted
ReadinessIsEarned == [][Earned]_readinessVars
=============================================================================
