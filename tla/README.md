# Verification of InterviewOS

InterviewOS plans a user's interview preparation: from a profile it generates a
12-week roadmap of daily tasks, tracks what is completed, schedules spaced
repetition, and derives streaks, readiness, notifications and reports. This
directory holds TLA+ models of its server-side state machines and algorithms,
the TLC configurations that check them on small instances, and TLAPS proofs, for
every instance, of every safety property the passing runs check.

## 1. Inventory of the system

The server is one Go process per replica (`backend/cmd/api`), a modular
monolith over one PostgreSQL database and an optional Redis. A module is a
package under `backend/internal`, with a handler (HTTP), a service and a
repository; modules meet through the database and through narrow ports that the
services call synchronously. There are no background workers except the
asynchronous mailer: everything else happens while a request is served, and two
requests interleave at their SQL statements under READ COMMITTED.

| component | state it keeps | operations | meets | modelled in |
|---|---|---|---|---|
| progress | `plan_tasks`, `study_sessions`, `plan_days.completed_minutes`, `streak_days`, `user_topic_progress`, `user_problem_progress` | complete, skip, start, reopen, reschedule a task; today; dashboard; insert a remediation task; streak | revision, notification, analytics (after a completion commits); roadmap (shares `plan_tasks`); mock | `PlanTasks`, `StreakRun`, `StudyDays` |
| revision | `revision_items` (stage, interval, due date, active, counters) | schedule for a completion, list due, recall | progress, analytics | `Revision` |
| roadmap | `roadmaps`, `roadmap_weeks`, `plan_days`, `plan_tasks` | generate, regenerate (archive and carry over), read | curriculum, intake profile, progress rows | `Roadmap` |
| curriculum | none (pure) | `Generate`: tasks of a topic, hours per pillar, selection, weeks, days | roadmap, catalogue | `Curriculum`, `Ranking` |
| notification | `notifications` with a dedup key | generate the digest, mark read, mark all read | progress, revision, analytics (reads) | `Digest` |
| analytics | `readiness_snapshots` | readiness, snapshots, estimate, reports | progress, revision, mock | `Readiness`, `Snapshots`, `Digest` |
| mock | `mock_interviews`, `mock_findings` | CRUD, add a finding and ask for a remediation task, weaknesses | progress, ai | `Mocks`, `Weakness`, `Ranking` |
| auth | `users`, `oauth_accounts`, `refresh_tokens`, `password_reset_tokens` | register, login, OAuth, refresh, logout, forgot and reset password, delete account | every route (middleware), mailer | `AuthSessions` |
| platform/server | rate-limit windows in memory or Redis | admit or reject a request | every route | `RateLimit` |
| ai | cache of the provider's texts | nine features: read, ask the provider, fall back | resume, behavioral, mock, progress, intake | `Assistant` |
| dsaprogress, designproblems | per-problem progress rows, stored solutions | upsert, delete | progress, roadmap, analytics | `Practice` |
| content, lld, designproblems (admin), seed | the catalogue | create, update, delete; idempotent seeding | curriculum, all screens | `Catalogue` |
| intake, company | `user_profiles` | create and update the profile, set the target company | roadmap, auth (deletes it) | `Intake` |
| behavioral | `stories` with stored feedback | CRUD, analysis | ai | `Stories`, `Improver` |
| resume | `resume_profiles`, `resume_projects`, files | CRUD, upload, score | ai | `Resume`, `AtsScorer` |
| coderun | none | run a program under a deadline | - | `CodeRun` |
| frontend | query cache with optimistic updates | screens | the HTTP API | - |

What is hard in this code: handlers that decide from an unlocked read and then
write by primary key; follow-ups that run after a commit and are not repeated
when they fail; several clocks read during one request (the service's, the
revision scheduler's, the generator's, the snapshot's); dates against instants
at midnight; read-modify-write of whole rows; several statements without a
transaction of which one may fail; soft deletion beside unique partial indexes;
retries of requests whose answer was an error or was lost although they took
effect; counters at the edge of a window; a deadline that reaches one process
and not those it has started.

PROJECT.json lists every component with its status and, under `hazards`, each
place in the code that these difficulties bite, with the properties that watch
it.

## 2. Plan

The order followed what a user would miss most: first the tasks they tick off,
then the revisions these lead to, then the plan itself, then what is derived
and the services around it.

| step | modules | state |
|---|---|---|
| task lifecycle and the follow-ups of a completion | `PlanTasks`, abstract `TaskLifecycle` | checked; all of its safety properties are theorems, the refinement among them |
| spaced repetition | `Revision`, abstract `Ladder` | checked; five theorems, the refinement among them |
| roadmap generation | `Roadmap`, abstract `ActivePlan` | checked; four theorems, the refinement among them |
| notifications, composed with completions, snapshots and midnight | `Digest` | checked; four theorems |
| accounts and sessions | `AuthSessions` | checked; four theorems |
| practice log, snapshots, streak, rate limiter | `Practice`, `Snapshots`, `StudyDays`, `RateLimit`, united in `Services` | checked (`services`); a theorem about each |
| plan engine, readiness | `Curriculum`, `Ranking`, `Readiness` | checked (`services`); three theorems |
| stories, resumes, mocks, AI features, code runs, catalogue, profile | `Stories`, `Resume`, `Mocks`, `Assistant`, `CodeRun`, `Catalogue`, `Intake` | checked (`services`); a theorem about each |
| what is left | liveness, which TLAPS cannot prove (section 5) | checked by TLC only |

Modules to prove about take their parameters as CONSTANTS with named
assumptions, have one action per statement or operation, state their inductive
invariant as named conjuncts, and use no RECURSIVE operator.

## 3. The modules and the code

PROJECT.json maps every definition to its lines. In each module a definition
named `Bug_...` stands just before the one it is a slip of; no specification
uses it, it is there to be put in its place, to see which property notices.

### The plan of a user

**`PlanTasks`** (`progress/repository.go`, `service.go`, `handler.go`,
`remediation.go`). One user, their `plan_tasks`, `study_sessions`,
`streak_days`, progress rows and the minutes of their plan-days. A request is a
handler with a program counter. Every operation opens a READ COMMITTED
transaction that reads the task without a lock and then writes by id, the task's
row first: so `Read` (or `Refuse`, the early return) is a step and the commit
with all its writes is another; between them any other request may commit.
`CommitComplete` is the whole of `CompleteTask`'s transaction: task, progress
row, session, plan-day minutes, streak row. After it the handler goes on outside
any transaction: `ScheduleRevision` or `ScheduleFails`, `ComputeStreak`,
`RefreshDigest`, `RecordSnapshot`. `Lose` ends a request anywhere: the client is
gone, a statement failed or the server stopped; what was committed stays.
`NextDay` is midnight: the time of a request is taken once, when it arrives, but
the scheduler, the digest and the snapshot look at the clock themselves. The
model starts from a first roadmap, all of whose tasks are pending.
**`TaskLifecycle`** is the same lifecycle with atomic operations: what the
comments of the `Repository` interface promise. A task that is pending or in
progress is open; only open ones are completed, skipped or moved, only a pending
one is started, and only a completed or skipped one is reopened. The handlers take
up some tasks that are closed, against these comments: `ClosedTakenUp` names
which, and the refinement is that of `TaskLifecycle` but for it.

**`Revision`** (`revision/service.go`, `repository.go`, `ladder.go`). `Recall`
is a read-modify-write without a transaction: `ReadItem`, `ReadClock`,
`UpdateItem` are steps, and the update overwrites every column of the ladder.
`ScheduleForCompletion` reads the clock and inserts with ON CONFLICT DO NOTHING.
Handlers are slots that serve one request after another. **`Ladder`** is the
atomic version of the algorithm in 02-SRS.md 6.1.

**`Roadmap`** (`roadmap/service.go`, `repository.go`). `GenerateRoadmap` checks
for an active roadmap outside the transaction; `CreateGraph` archives, inserts
and carries over, one step per statement, with what READ COMMITTED does spelled
out: a statement sees what was committed when it started; the UPDATE that
archives waits for a row that another open transaction changed and looks at it
again; the INSERT waits for a transaction that holds the same key of
`uq_roadmap_user_active` and fails if that commits. What a transaction has not
committed is in its handler's record. Completions, reopenings and the problem
page change tasks and progress meanwhile. The plan the engine returns is any set
of items in `Plans`. **`ActivePlan`** is what a user sees: a plan that starts
and is replaced. The variable `kept` is a history variable: no guard reads it.

**`Curriculum`** (`curriculum/engine.go`, `roadmap/content_reader.go`). The
engine is deterministic, so a behaviour is one call of `Generate`: `Load`, `Emit`,
`Select`, then one step per topic dealt to a week (`Place`) and per task packed
into a day (`Pack`), over every catalogue in `Inputs`. The reader fills in no order
of problems, though the engine compares it (`LoadProblem`). Floats are exact integers,
and the depth-first `topoSort` is a recursive function. **`Ranking`** says what a
`sort.SliceStable` with a comparison of attributes one after the other returns:
each element at the place that as many others come before. The engine's three
sorts and the ranking of findings use it.

**`Digest`** (`notification/*`, `analytics/service.go`). Each of the six
producers is a read and, if it finds a reason, an upsert under its dedup key;
`Generate` takes the date once. A completion takes its time when it arrives
(`Complete`), and that is the date it writes, be its transaction (`Commit`) before
midnight or after; its digest comes next and its snapshot (`Assess`, `Store`) after
that, each best-effort. Midnight, reopenings, skips and the inbox come between any
two. The field `at` of a task, the date of the commit, is a history variable.

**`StreakRun`** is `computeStreakFromDates` as operators, with the anchor, the
walk back and the scan as in the code; **`StudyDays`** lets days be studied and
pass. **`Practice`** has the three upserts that write progress rows (each one
statement, so one step) and the deletions. **`Readiness`** has the formula
(`PillarReadiness`, of a record of `PillarInputs`), what the queries compute for it,
and the recalls, completions and days that move that; **`Snapshots`**
the recording of a snapshot as read, project, upsert, with the clock read twice.
Levels are whole numbers of a small unit, and a row keeps a level rounded to a
hundredth of a per cent (`Rounded`; `Grain` is the number of units in one). The
projection divides two float64 numbers and rounds up: of a quotient that is whole
the error may lead a day further, so `DaysRemaining` is a set of one or two
numbers.

### Accounts and the API

**`AuthSessions`** (`auth/service.go`, `repository.go`, `handler.go`, `data.go`).
No request of this package runs in a transaction, so each statement is a step: a
refresh is the lookup of the token (`Refresh`), of the account (`CheckUser`), the
insertion of the successor (`Rotate`) and the retirement of the token presented
(`Retire`); a reset is password, link, sessions. `Answer` sets the cookie,
`LoseAnswer` does not, `Fail` ends a request at any statement. The variable
`fate` is a history variable: whether a session's rotations overlapped or lost
an answer, and whether it was ended while no rotation was in hand.

**`RateLimit`** (`platform/server/ratelimit.go`): the limiter in memory and the
one in Redis, with the reading of the clock apart from its use. `admitted` is a
history variable: how many requests with each reading were let through.

### The services around the plan

**`Mocks`** (`mock/*`, with `progress/remediation.go`): a finding is inserted, a
day picked, a task inserted and the link written by separate statements of which
the last three may fail. **`Weakness`** is `Detect`. **`Stories`** and
**`Resume`**: every write is a read and an overwrite of all columns.
**`Improver`** and **`AtsScorer`** are the two rule-based engines as operators.
**`Assistant`** (`ai/*`): a request reads its sources one by one, builds a prompt,
asks the cache or the provider, and else answers from the deterministic engine;
the data changes in between. A prompt has every piece of data that is printed in
it, and in the form that it is printed in: the date of a plan for a day, experience
in whole years, the number and the worst of the findings of an area. **`CodeRun`** (`coderun/*`): the processes of a run,
who holds its pipes, and the deadline. **`Catalogue`** (`content`, `lld`,
`designproblems`, `seed`): an update of a problem is a transaction of three
statements that holds the row from the first. **`Intake`** (`intake`, `company`):
the two writers of the profile and its deletion, as transactions.

**`Services`** unites fourteen services: the plan engine, the streak, the records of
problems and of design problems, readiness, its snapshots, the rate limiter,
stories, resumes, mocks, AI, code runs, the catalogue and the profile. While at
work they share no state, so a behaviour is one of a single service: `service`
says of which, and `v1`, `v2`, ... stand for its variables. Nothing is composed
here; the union only spares a run, and a module of proofs, each. `Services` has the
constants of all of them and what is assumed of these (`ServicesAssumption`),
**`MCServices`** the values that need more than a line. The plan engine is taken
from `CurriculumProofs`, the module of its proofs, so that its theorem comes with
it; the state machine is that of `Curriculum`.

What crosses module borders is kept on both sides: `PlanTasks` has the due date
of a revision and that a second insert changes nothing, `Revision` everything
else about the row; `Roadmap` has pending and completed tasks and the progress
rows, and takes `Complete` and `Reopen` as single steps; `Digest` takes the
commit of a completion as a step and any readiness as possible; `Mocks` has of
the plan that it is generated, `PlanTasks` what becomes of the task.

## 4. The runs

| run | instance | what it shows |
|---|---|---|
| `plan_races` | one topic task, three requests of any kind, two dates of which one has a plan-day, 20 or 30 minutes, a goal of 30 | after any interleaving of completions, reopenings, reschedules, losses and failures: a completed task has its session, the answer counts the day, the goal is marked, a moved task has a clone, and no revision is due the day it was studied |
| `plan_serial` | two tasks, three requests, one at a time per task | the minutes of a plan-day are those of its sessions; the streak rows never hold less than the sessions, and a day with a completion that stands keeps its row; the handlers implement `TaskLifecycle`, but for closed tasks that they take up |
| `plan_live` | one task, two requests, fair handlers | a completed task gets its revision unless its request failed |
| `revision_races` | an item with revisions and one without, two handlers, the 30-day ladder | a row's columns belong to one review, no stage is made up, only a recall takes an item off the due list |
| `revision_serial` | two items, two handlers, a ladder of two rungs | the handlers implement `Ladder` when the client sends one recall per item at a time |
| `roadmap_races` | three requests, a topic, a problem and a resource | `ActivePlan` is implemented, completed work is carried over, a refusal means a plan is there, and every request ends: no transactions wait for each other forever |
| `digest_races` | one task, two requests that generate digests or complete, two days at the end of a week, readiness below and above a milestone | of a goal that was told missed nothing was stored by the end of its day, no milestone is lost although digests run before snapshots, what was read stays read |
| `auth_races` | two browsers, two requests at once, one account, three tokens, one reset link | what was ended stays ended, nobody is signed out by an error, a link is spent only when it has worked |
| `services` | see below | one or two properties of each service |
| `find_...` | the smallest instance that shows it | one statement of the documents that the code does not keep (section 6) |

The instances of `services` (`MCServices` names each; requests and clients are
symmetric):

| service | instance | property |
|---|---|---|
| streak | every set of study days of nine days | `StreakIsTheRun`: the streak is the run of days the SRS defines |
| plan engine | four topics of two pillars, 20, 80 or 180 minutes each, four shapes of prerequisites with a cycle among them, a deleted topic, problems and resources; three weeks of two hours and two days | `OverflowOnlyWhenFull`, `EveryTaskOnce`: a week is over its budget only if there was no room elsewhere, and the days hold each task once |
| practice log | a problem, and a design problem, three days, three attempts | `NothingForgotten`: no writer takes back what another recorded |
| readiness | a topic of either of two pillars and a problem, rated 1 or 5 or not at all, rungs of 1 and 3 days, three days, two recalls | `ReadinessIsEarned`: idle days and wrong answers never raise it, right answers never lower it |
| snapshots | a target of 80.000, and levels of 67.900, 69.000 and 69.004 besides (rows keep two decimals), four days, a window of two | `EstimateIsReadyDay`: the pace of the window reaches the target by the estimate, and had not passed it the day before |
| rate limiter | two clients, one request a window of three ticks, clocks used up to two ticks late, five ticks, either store | `AtMostThrice`: three windows' worth at most in the length of one |
| stories | two stories, two requests, four drafts | `FeedbackMatchesStory`: stored feedback is on the text stored with it |
| resume | two profiles in turn, a project, two requests | `ScoreIsItsOwn`: a score was computed from the profile that carries it |
| mocks | one mock with up to three findings in two areas, minor ones and blockers, by two requests; one task, one plan | `LinkSound`, `FindingCounts`: the remediation link; a finding never helps its area in the ranking |
| AI | two requests of nine kinds, for either of two dates or today, of candidates with 4.4 and 5.5 years, findings that differ in number; one change of what they read | `AnswersTheQuestion`: a text answers the data read for this request |
| code runs | every program, in a language of each kind | `NoSilentKill`: output without a message is that of a program that ended |
| catalogue | two rows, three inputs of which one is refused, the seeder, two requests, each of the four tables | `AssociationsOfOneWrite`: columns and associations are of one write |
| profile | three forms, three companies, two requests, deletion | `AnswerShowsTheWrite`: the answer shows what was asked for |

Bounds, and why they are enough. Races here are between two requests on one row,
and a third to repair or observe; three requests reach complete - reopen -
complete with every overlap, and a third transaction that waits while two others
replace each other. Two dates put midnight between any two steps; a second
plan-day is in the runs where a task moves to it. Twenty and thirty minutes lie
on either side of the goal and are reached by one or two completions. `LastDay`
and `MaxReviews` bound the clock and the counter of `Revision`; the 30-day
ladder has five rungs, and five reviews and one more stale one graduate an item
and take it back. Nothing in `Roadmap` is unbounded. In `Digest` the user opens
the inbox once (`Unopened`): afterwards there are unread and read rows and a
digest in hand for each. In `AuthSessions` three tokens are two sessions of
which one is rotated, or one rotated twice. Nine days hold two runs with a gap
and every anchor of the streak. Four topics fill three weeks past their budget.
Five ticks are two windows of the limiter in Redis,
and in memory a window that is opened late and the two before it; a delay of two
ticks is as long as `LimitAssumption` allows with a window of three, and the
bound of three windows is reached. `MaxUploads`, `MaxAsks`, `MaxChanges`, `MaxPlans`,
`MaxAnswers` and `MaxAttempts` bound what else grows. Deadlock is not an error
where the requests, rows or days of an instance are used up.

Fairness. `FairSpec` of `PlanTasks` and of `Roadmap` gives weak fairness to the
steps of each handler: the goroutine that serves a request is not stopped
forever between two statements, and a lock wait ends when the lock is free.
`CodeSpec` lets the deadline come, processes that do not loop end, and the
server act on a command that has returned; none of it helps a program that
loops. Nothing is assumed about clients, failures or midnight: they may happen
or not.

One request at a time. `DayLedger`, `StreakNeverUndercounts`,
`ImplementsLifecycle`, `ImplementsLadder` and `MilestoneNoted` assume that a
client waits for the answer about a task, an item or a completion before it
sends the next, as the frontend does by disabling the control while a mutation
is pending. Two tabs or two devices break the assumption; the other properties
are without it.

## 5. The proofs

All proofs are checked by TLAPS for every value of the constants under the named
assumptions: sets and types of the constants, finiteness of the requests and
dates where they are summed over, and that `None` is none of the values it
stands beside. Those that say more are about the input: a profile has at least
a week to plan and a day to study (`CurriculumAssumption`; the
defaults at the head of `Generate` see to it); names of areas are ordered, no two of them alike, and the
severities are the four of the code (`RankAssumption`); ratings start at 1, the
ladder has a rung, and pillars and items are finitely many
(`ReadinessAssumption`; weights and mock scores may be any integers); and a request
is late by a third of a window at most (`LimitAssumption`, below). Assumptions
about constants are evaluated by TLC in the runs whose modules declare them;
`MocksAssumption`, `IntakeAssumption` and `CatalogueAssumption`, which are about
`None` and `Nil` alone, are hypotheses of their theorems. No assumption is about
the state.

**`SetLemmas`** is the library of the proofs: induction stated for a set instead
of a predicate, which the provers can apply; sums over finite sets, by a
recursion shown not to depend on the order its `CHOOSE` takes; quotients, which grow
with their numerator; rankings; and walking back over consecutive integers.
Recursive functions and sums are reasoned about this way; RECURSIVE operators are
not. Of a ranking: those that come before an element of a finite set with distinct
keys come before all that it comes before, so their numbers are 0, 1, ... and each
place is taken once (`RankedAt`, `RankedIs`); and an element whose key alone moves
forward does not fall back (`PlaceFalls`).

**`PlanTasksProofs`**. `Inv0` joins the type invariant with what handlers and
rows have in common (`HandlersOK`, `SessionsOK`): a handler at work is about a
row that exists, has passed its early returns, and past its commit has booked
its session. It is inductive, and is needed because nothing else says that a
committing handler's task has a row to update, or that a clone does not
overwrite one. Six safety theorems are each inductive relative to `Inv0`, by
lemmas that say which step may write what: e.g. that a task becomes completed
only by `CommitComplete`, and that the only step that strips sessions also makes
the task pending (`CompletedHasSession`), which is why even stale reopenings are
harmless to it. With one request per task at a time, what a request has read of
its task is still so when it writes (`SnapshotsFresh`) and a task has a standing
session only while it is completed, one, with the minutes it shows
(`BookedOnce`). From these follow, step by step, the refinement of
`TaskLifecycle` but for `ClosedTakenUp`; that a commit moves the sum of a day's sessions by what it adds
to the plan-day or takes off it, so that `GREATEST(..., 0)` never cuts anything
off (`DayLedger`); and that what a reopening takes off the rows of `streak_days`
is no more than its session had put there (`StreakNeverUndercounts`).
No row of `streak_days` is ever deleted, so the day of every session keeps its row
(`BookedDayHasRow`, inductive relative to `Inv0`). `StandingDayHasStreakRow` is what
must be so of that: of sessions that stand. `AnswerCountsTheDay` rests on it too, by
`Counted`: the dates a completion computes its streak from hold its day.

**`RevisionProofs`**. `FieldsAgree` and `StageIsEarned` hold of a row because
they hold of the row a handler has seen, however stale: what it writes is
computed from that alone. The refinement is proved under `OneRecallPerItem`,
from the invariant that what a handler has seen is then still in the table.

**`RoadmapProofs`**. `IInv` says what open transactions hold: the rows they
archived are active for everyone else and no one else's (`RowLocks`); one
transaction at a time has inserted its roadmap and has archived whatever is
active (`KeyLock`); a roadmap's row comes with its request's answer
(`OwnRoadmap`); and how far the carry-over has come (`CarriedSoFar`). At a
commit, then, what is active and what is archived are the same set
(`CommitRows`), from which the refinement follows.

**`AuthSessionsProofs`**. A session belongs to one browser (`OneBrowser`), and
nobody knows the successor of a token before the answer to its rotation
(`UnknownNew`); so a retired token that its browser still holds, in a session
with no overlap and no lost answer, has the answer with its successor on its way
(`CookieLive`), which is `NobodySignedOutByAnError`. A rotation in hand keeps its
session from being ended (`SessionOK`, by the definition of `fate`), so none can
add a live token to one that was: `RevocationIsFinal`. The invariant is needed
because neither theorem says anything of the requests in hand. Each statement is
one of a few kinds of step (a request moves, a token is inserted, families are
revoked), with one lemma each.

**`DigestProofs`**. What a missed-goal key says must hold of the key a request is
about to upsert as well as of the rows; it stays true because its day is over
and a completion that is committed later is stored later. It may be dated on that
day all the same, if it took its time before midnight: of that the property says
nothing. `MilestoneNoted` is proved from `MInv`: a
completion at work has its place in the order of the producers (`InOrder`), and
past the milestone's producer it has served the milestone of the latest snapshot
(`Serves`). So when it stores a snapshot, the one before is accounted for. That
one completion is at work at a time, and that the producer has its port, are
hypotheses of the theorem (`OneAtATime`, `Wired`).

**`CurriculumProofs`**. The invariant follows the topics from their selection to
the days. No two pillars pick the same topic, and none picks one twice
(`PickedOK`); the topics before the cursor of a pillar, and no others, are in some
week, each in one, once (`PlacedOK`), and when packing begins no cursor is short of
its end (`AllPlaced`); the days of a week hold all of its tasks, all but those in
the queue, or none, each on one day, once (`PackedOK`). `EveryTaskOnce` is what is
left of this when the stage is `done`; it is not inductive, since it says nothing of
the stages before. `OverflowOnlyWhenFull` needs nothing but the types: a week that is
given a topic beyond its budget was chosen when no week had room for it, and loads
only grow. The work is in `PickedOK`. What a pillar picks is a fold within a
recursive function: a fold is shown to be a sequence of turns (`InTurnIs`), the
function to exist, by induction on the topics it has not begun, since every call
begins one (`VisitsExist`), and each visit to keep the list free of repetitions and
leave nothing out (`TopoSortIs`), whatever the prerequisites, cycles included. That
is the claim of `topoSort` that cycles "degrade gracefully"; that prerequisites come
first is not claimed.

**`ServicesProofs`**. `StepIs` says that a step of a service is one of its
module; each theorem then has an invariant of its own, which says of the
requests in hand what the property says of the rows:

- stories: the row a request has in hand matches its feedback;
- plan engine: `CurriculumProofs`, of this instance (`EveryTaskOnceHolds`,
  `OverflowOnlyWhenFullHolds`);
- mocks: the task a request is about to link was made for its finding's area and
  nobody has named or is about to link it (`InHand`); and for `FindingCounts`, an
  action property, that what is ranked is found and typed. One more finding raises
  the score of its area and of no other (`OneMore`), so its key moves forward alone;
- readiness: an action property. Days that pass and recalls change the health of
  revision items and nothing else that readiness is computed from
  (`WeightedAfter`). A day raises the health of none, an incorrect recall of none, and
  a correct one lowers it of none. Every step of the computation, the roundings
  included, is monotone in that health: the mean of a pillar (`MeanRises`), its
  blend with coverage, confidence and mocks (`PillarRises`), the weighted sum
  (`WeightedRises`). The invariant types the rows; it is needed for the rungs to
  stay on the ladder;
- the catalogue: a transaction past its UPDATE holds the row, unless the row was
  deleted before (`LocksOK`); so what it deletes of the associations is all there
  is (`SeenOK`), and columns and associations stay together;
- code runs: a process that was killed was so by the deadline;
- profile: the row a transaction has written fits what it was asked for, whatever
  row it had found, and what it reads back is that row, for it holds the lock;
- resume: a score is on its way to the profile it was computed from, and finds
  that or nothing;
- AI: an answer in hand or in the cache is to the prompt it is kept under, and
  once there may be one nothing is read any more;
- practice: an action property, from the type of the counters;
- snapshots: arithmetic. The quotient rounded up, or one more if it is whole, is a
  number of days in which the pace of the window reaches the target while a day
  less does not lead past it, for every pace and whatever the rows round;
- streak: the scan computes what the property defines without it. Sorting puts a
  day at the place that is its rank (`NormIs`, `RankNext`), so its predecessor in the
  sequence is its predecessor in the set, the run the scan carries is the length
  of the walk back from there, and the longest run is the greatest of these;
- rate limiter: the store has forgotten all windows but one, so the invariant is
  about those. In memory (`MemoryOk`), the three windows before ended at least a
  window less the delay apart, and no reading lies beyond the end of its window;
  so of all that is let through with readings after the third, each window has
  its limit, and an interval of a window's length that still gets requests
  begins after it. In Redis (`RedisOk`), a key is counted in once, or again after
  it has expired: it outlives its window by as long as it was used, so the second
  time all readings are within the delay of the end of their window (`Again`). An
  interval meets two windows, and not both of them twice (`RedisBound`). Twice
  the limit is exceeded, as TLC shows on the instance of the run: a request that
  is late by up to the delay finds its window gone and opens another. The
  assumption is that it is late by a third of a window, twenty seconds, at most.

Only model-checked: liveness under fairness (`EventuallyScheduled`,
`GenerateAnswered`), which TLAPS cannot prove. The three statements of the documents
that the code does not keep (section 6) are refuted by TLC. The invariants of the
plan engine, the ranking and readiness are proved of the algorithms as modelled, on
integers; that the code's floats are exact there is not. Of the estimate the floats
are modelled by what they can do to its one rounding; that no quotient but a whole
one is near enough to a whole number to be affected is an estimate of their error,
made outside of TLA+.

## 6. Where the code and its documents disagree

Each of these has a run and an entry under `findings`.

- Reopening a task leaves its item completed, although the interface says it
  reverses the progress row (`ReopenReversesProgress`).
- A regenerate resets completed resources (`RegenerationPreserves`).
- A program that leaves a process behind keeps its request waiting past the
  deadline that "never blocks the request indefinitely" (`RunAnswered`).

Found on the way and not checked by a run. Tasks and revisions:

- a completion that committed is answered with an error if the scheduler or the
  streak query fails, although the comment at `progress/service.go:198` says it
  must not be; the retry is refused as already resolved;
- two racing completions of one task both commit and book two sessions;
- a reopening takes the task off the streak row of its own day, not of the day
  the task was completed, and a day left with no task keeps its row and counts
  as a study day, where 02-SRS.md:879-882 has a study day be one with a completed
  task; reopenings that race on stale reads take minutes off the plan-day and the
  streak row that these no longer hold; a task that was carried over as completed has no session, so
  reopening it rolls back nothing of its own;
- the original of a rescheduled task can still be started, completed, skipped or
  moved again, and a skipped task can be moved, although `progress/repository.go:75`
  and `:77` speak of pending and in-progress tasks and `errors.go:13` of resolved
  ones (the run `plan_serial` shows that there is nothing else: `ClosedTakenUp`);
- a completion that takes its time before midnight and commits after it is dated on
  the day before, for which a digest may have told the user of a missed goal;
- a recall that read an item before another recall graduated it takes it back
  into rotation; completing an item again after it graduated schedules nothing
  (`revision/repository.go:53` against the SRS); two recalls that read the same
  row record one review; a recall is accepted before the item is due, so a retry
  climbs two rungs, and the skip of FR-REV-009 does not exist;
- days are UTC days where the SRS says the user's local day.

Plan and analytics:

- after a regenerate, the plan-day of a date may be that of the archived roadmap
  (`First` on `user_id` and `date`), for Today and for the target of a
  reschedule, and the AI's tasks of a date include archived ones;
- the loser of two racing generations is answered with an internal error, not
  with the conflict the check gives;
- a topic that finds room nowhere after its prerequisite's week is put into an
  earlier one (against `02-SRS.md:318`); a week may exceed its budget because
  the room is scattered over the weeks, a case the comment at `engine.go:512` does not name;
- completing an item can lower readiness, since its new revision counts at once;
- the estimated day may be a day late where the target falls on a day exactly, since
  it is computed in float64 (at 69.0, up from 67.9 the day before, 80 is 11 days away
  where it is 10);
- a recording of a snapshot that is slower than the next overwrites it with
  older numbers, and one over midnight dates yesterday's numbers today.

The rest:

- an OAuth identity outlives the deleted account, and sign-in by it then fails;
  an access token outlives it too, and can create a profile anew;
- re-running the seeder fails once an administrator has deleted a seeded row,
  although the seeder is "safe to re-run" (`seed/seed.go:3`), and overwrites
  their edits; a slug of a deleted row is refused forever (the unique index counts it, the
  check does not); topic slugs are unique per track and checked globally;
- the target company of an intake form is not checked, two first submits at once
  give one an internal error, and a form without a target clears it;
- an AI request whose twin is under way asks the provider again; errors of the
  provider are not recorded;
- the limiter counts fixed windows, where 03-ARCHITECTURE.md:606 speaks of
  sliding ones;
- a compiler stopped by the deadline is reported as "compilation failed", and a
  program that ends just before the deadline may be reported as timed out.

## 7. Not modelled

Left out for good: reading the catalogue, the profile readers, the dashboard and
the reports, which write nothing; server wiring, configuration, logging and
migrations; the Piston client, which `cmd/api` does not configure; the
`ai_invocations` rows, which nothing reads; the audit log and the mailer, which
are output; signatures, hashes and password rules, which are data; the seeding
of companies, weights and resources, which nobody else writes; and the frontend,
whose optimistic updates the next fetch undoes. Within the modelled parts:
titles, notes and paging, which no property tells apart; ownership and
validation where they refuse a request before it reads anything; wording of
prompts and advice; how long anything takes; and failures of the database other
than a statement that returns an error. Replicas share the database, so requests
of several are covered by handlers; the in-memory limiter is per replica.
