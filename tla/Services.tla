------------------------------ MODULE Services ------------------------------
(***************************************************************************)
(* The services that share no state with one another while they are at     *)
(* work.  A behaviour is one of a single service and v1, v2, ... stand for *)
(* the variables of its module; a property is that of the module, for the  *)
(* behaviours of the service it is about.                                  *)
(***************************************************************************)
EXTENDS Integers, Sequences, FiniteSets

CONSTANTS
  Requests,           \* handlers at work at once
  None, Gone, Nil

VARIABLES service, v1, v2, v3, v4, v5, v6, v7, v8, v9, v10, v11, v12, v13

vars == <<service, v1, v2, v3, v4, v5, v6, v7, v8, v9, v10, v11, v12, v13>>

\* The variables from the nth on, for a service that has fewer, and those unset
from9 == <<v9, v10, v11, v12, v13>>
from8 == <<v8, from9>>
from7 == <<v7, from8>>
from6 == <<v6, from7>>
from5 == <<v5, from6>>
from4 == <<v4, from5>>
from3 == <<v3, from4>>
None9 == v9 = None /\ v10 = None /\ v11 = None /\ v12 = None /\ v13 = None
None8 == v8 = None /\ None9
None7 == v7 = None /\ None8
None6 == v6 = None /\ None7
None5 == v5 = None /\ None6
None4 == v4 = None /\ None5
None3 == v3 = None /\ None4

-----------------------------------------------------------------------------
\* The plan engine, with what is proved of it
CONSTANTS PlanTopics, Track, PlanInputs, HoursPerWeek, TargetWeeks, ActiveDays
Engine == INSTANCE CurriculumProofs WITH
  Topics <- PlanTopics, Pillars <- Track, Inputs <- PlanInputs, Hours <- HoursPerWeek,
  Weeks <- TargetWeeks,
  input <- v1, stage <- v2, tasks <- v3, load <- v4, picked <- v5, round <- v6, turn <- v7,
  cursor <- v8, week <- v9, minutes <- v10, packing <- v11, queue <- v12, day <- v13
EngineAssumption == Engine!CurriculumAssumption

\* The study streak, over every set of study days
CONSTANT StreakDays
Streak == INSTANCE StudyDays WITH dates <- v1, asOf <- v2, LastDay <- StreakDays
StreakAssumption == StreakDays \in Nat

\* What is recorded of problems and, in behaviours of their own, of design problems
CONSTANTS Problems, Designs, Parts, PracticeDays, MaxAttempts
Log == INSTANCE Practice WITH
  Designs <- {}, LastDay <- PracticeDays, today <- v1, problem <- v2, design <- v3
DesignLog == INSTANCE Practice WITH
  Problems <- {}, Parts <- {}, LastDay <- PracticeDays, today <- v1, problem <- v2, design <- v3
PracticeAssumption == None \notin Nat

\* Readiness
CONSTANTS Topics, Pillars, Weights, Intervals, Ratings, Scores, ReadyDays, MaxAnswers, Whole
Ready == INSTANCE Readiness WITH
  LastDay <- ReadyDays,
  today <- v1, item <- v2, revision <- v3, scores <- v4, weight <- v5, answers <- v6,
  pillarOf <- v7
ReadinessAssumption ==
  /\ IsFiniteSet(Topics \cup Problems) /\ IsFiniteSet(Pillars)
  /\ Weights \subseteq [Pillars -> Int] /\ Scores \subseteq Int /\ Whole \in Nat
  /\ Ratings \subseteq Nat \ {0}
  /\ Intervals \in Seq(Nat) \ {<<>>}
  /\ None \notin [stage : Nat, due : Int, active : BOOLEAN, last : {None, "correct", "incorrect"}]

\* Snapshots of the readiness and the day they project
CONSTANTS Recordings, Levels, Grain, Target, TrendWindow, TrendDays
Trend == INSTANCE Snapshots WITH
  Requests <- Recordings, Window <- TrendWindow, LastDay <- TrendDays,
  today <- v1, overall <- v2, snapshot <- v3, recording <- v4
TrendAssumption ==
  /\ Levels \subseteq Nat /\ Grain \in Nat \ {0} /\ Target \in Nat /\ TrendDays \in Nat
  /\ None \notin Int

\* The rate limiter
CONSTANTS Clients, Limit, LimitWindow, MaxDelay, LastTick
Limiter == INSTANCE RateLimit WITH
  Window <- LimitWindow,
  rdb <- v1, now <- v2, reading <- v3, bucket <- v4, lastGC <- v5, admitted <- v6
\* A request gets from its reading of the clock to the counter in a third of a
\* window, of a minute.
LimitAssumption ==
  /\ Limit \in Nat \ {0} /\ LimitWindow \in Nat /\ MaxDelay \in Nat /\ LastTick \in Nat
  /\ MaxDelay < LimitWindow /\ 3 * MaxDelay <= LimitWindow + 3
  /\ None \notin [count : Nat, end : Int]

\* STAR stories
CONSTANTS Stories, Drafts
Story == INSTANCE Stories WITH story <- v1, editing <- v2

\* The resume
CONSTANTS Profiles, Projects, ProfileInputs, ProjectInputs, MaxUploads
Cv == INSTANCE Resume WITH
  profile <- v1, project <- v2, file <- v3, uploads <- v4, serving <- v5

\* Mock interviews
CONSTANTS Mocks, Findings, Tasks, Areas, AreaRank, Types, Outcomes, Severities, MaxPlans
Mock == INSTANCE Mocks WITH
  mock <- v1, finding <- v2, task <- v3, plan <- v4, busy <- v5
RankAssumption ==
  /\ IsFiniteSet(Findings) /\ IsFiniteSet(Areas)
  /\ AreaRank \in [Areas -> Int] /\ \A a, b \in Areas : AreaRank[a] = AreaRank[b] => a = b
  /\ Severities \subseteq DOMAIN Mock!SeverityWeight

\* The AI features
CONSTANTS AskBodies, Data, MaxAsks, MaxChanges
Ai == INSTANCE Assistant WITH
  Bodies <- AskBodies,
  active <- v1, world <- v2, changes <- v3, asking <- v4, asked <- v5, cache <- v6, reply <- v7
Features ==
  {"planner", "coach", "daily_plan", "sd_review", "lld_review", "code_review",
   "story_improve", "resume_review", "weakness_detect"}
AssistAssumption == DOMAIN AskBodies \subseteq Features

\* Code execution
CONSTANTS Runs, Toolchains, Programs
Runner == INSTANCE CodeRun WITH Requests <- Runs, run <- v1, answer <- v2

\* The catalogue
CONSTANTS Ids, Tables, Bodies, SeedBodies
Admin == INSTANCE Catalogue WITH
  table <- v1, rows <- v2, tags <- v3, request <- v4, answer <- v5

\* The intake form and the target company
CONSTANTS Forms, Companies, Known
Profile == INSTANCE Intake WITH profile <- v1, write <- v2, answer <- v3

\* What is proved of a service assumes its part.
ASSUME ServicesAssumption ==
  /\ EngineAssumption /\ StreakAssumption /\ PracticeAssumption /\ ReadinessAssumption
  /\ TrendAssumption /\ LimitAssumption /\ RankAssumption /\ AssistAssumption

-----------------------------------------------------------------------------
ServicesInit ==
  \/ service = "plan engine" /\ Engine!CurriculumInit
  \/ service = "streak" /\ Streak!StudyInit /\ None3
  \/ service = "practice" /\ Log!PracticeInit /\ None4
  \/ service = "design practice" /\ DesignLog!PracticeInit /\ None4
  \/ service = "readiness" /\ Ready!ReadinessInit /\ None8
  \/ service = "snapshots" /\ Trend!SnapshotInit /\ None5
  \/ service = "rate limit" /\ Limiter!LimitInit /\ None7
  \/ service = "stories" /\ Story!StoriesInit /\ None3
  \/ service = "resume" /\ Cv!ResumeInit /\ None6
  \/ service = "mocks" /\ Mock!MocksInit /\ None6
  \/ service = "assistant" /\ Ai!AssistInit /\ None8
  \/ service = "code" /\ Runner!CodeInit /\ None3
  \/ service = "catalogue" /\ Admin!CatalogueInit /\ None6
  \/ service = "intake" /\ Profile!IntakeInit /\ None4

ServicesNext ==
  /\ service' = service
  /\ \/ service = "plan engine" /\ Engine!CurriculumNext
     \/ service = "streak" /\ Streak!StudyNext /\ UNCHANGED from3
     \/ service = "practice" /\ Log!PracticeNext /\ UNCHANGED from4
     \/ service = "design practice" /\ DesignLog!PracticeNext /\ UNCHANGED from4
     \/ service = "readiness" /\ Ready!ReadinessNext /\ UNCHANGED from8
     \/ service = "snapshots" /\ Trend!SnapshotNext /\ UNCHANGED from5
     \/ service = "rate limit" /\ Limiter!LimitNext /\ UNCHANGED from7
     \/ service = "stories" /\ Story!StoriesNext /\ UNCHANGED from3
     \/ service = "resume" /\ Cv!ResumeNext /\ UNCHANGED from6
     \/ service = "mocks" /\ Mock!MocksNext /\ UNCHANGED from6
     \/ service = "assistant" /\ Ai!AssistNext /\ UNCHANGED from8
     \/ service = "code" /\ Runner!CodeNext /\ UNCHANGED from3
     \/ service = "catalogue" /\ Admin!CatalogueNext /\ UNCHANGED from6
     \/ service = "intake" /\ Profile!IntakeNext /\ UNCHANGED from4

ServicesSpec == ServicesInit /\ [][ServicesNext]_vars

-----------------------------------------------------------------------------
\* A week of a plan is over its budget only when one of its topics has room in
\* no other week either (curriculum engine sequenceWeeks).
OverflowOnlyWhenFull == service = "plan engine" => Engine!OverflowOnlyWhenFull

\* The days of a plan hold every task of every picked topic exactly once
\* (curriculum engine Generate, buildWeek, packTasks).
EveryTaskOnce == service = "plan engine" => Engine!EveryTaskOnce

\* The current streak is the longest run of study days that ends today or
\* yesterday, and the longest streak the longest run there is (progress
\* repository computeStreakFromDates).
StreakIsTheRun == service = "streak" => Streak!StreakIsTheRun

\* The estimated ready date is the day on which the pace of the window reaches
\* the target, which it has not passed the day before (analytics
\* EstimatedReadyDate).
EstimateIsReadyDay == service = "snapshots" => Trend!EstimateIsReadyDay

\* No client gets more than three windows' worth of requests through in the length
\* of one window, however late they reach their counters (server ratelimit Allow).
AtMostThrice == service = "rate limit" => Limiter!AtMostThrice

\* Feedback that is stored with a story is on the text stored with it
\* (behavioral service Update, Improve).
FeedbackMatchesStory == service = "stories" => Story!FeedbackMatchesStory

\* The score of a profile was computed from that profile (resume service Score).
ScoreIsItsOwn == service = "resume" => Cv!ScoreIsItsOwn

\* A finding that names a task names one made for its area, and alone (mock
\* service AddFinding, remediation Schedule).
LinkSound == service = "mocks" => Mock!LinkSound

\* A text of the provider answers the prompt made of this request and of what
\* was read for it (ai tryComplete, cacheKey).
AnswersTheQuestion == service = "assistant" => Ai!AnswersTheQuestion

\* What is answered without a message ended by itself (coderun spawn, runCmd).
NoSilentKill == service = "code" => Runner!NoSilentKill

\* The associations of a problem belong to the write of its columns (content
\* UpdateProblem, seed seedProblems).
AssociationsOfOneWrite == service = "catalogue" => Admin!AssociationsOfOneWrite

\* A request that is answered with a profile is shown what it asked for (intake
\* Upsert, company SetTargetCompany).
AnswerShowsTheWrite == service = "intake" => Profile!AnswerShowsTheWrite

\* Readiness is earned: it does not rise by days that pass or by incorrect
\* recalls, and correct ones do not lower it (analytics revisionHealth).
ReadinessIsEarned == [][service = "readiness" => Ready!Earned]_vars

\* One more finding never improves the standing of its area (mock Detect).
FindingCounts == [][service = "mocks" => Mock!Counts]_vars

\* No writer of a progress row takes back what another one recorded
\* (dsaprogress Upsert, progress upsertProgress, designproblems Upsert).
NothingForgotten ==
  [][/\ service = "practice" => Log!Remembers
     /\ service = "design practice" => DesignLog!Remembers]_vars
=============================================================================
