------------------------------ MODULE PlanTasks ------------------------------
(***************************************************************************)
(* The task lifecycle of one user's plan (backend/internal/progress): the  *)
(* handlers that complete, skip, start, reopen and reschedule a plan task, *)
(* and the insertion of a remediation task.                                *)
(*                                                                         *)
(* Every handler opens a READ COMMITTED transaction, reads the task        *)
(* without a lock, decides from what it read, and writes with              *)
(* UPDATE ... WHERE id = ?.  So a handler is two steps here: Read takes    *)
(* the snapshot, the commit step applies all its writes at once (the first *)
(* of them locks the task's row until the commit).  CompleteTask goes on   *)
(* after its commit, outside any transaction: it schedules a revision,     *)
(* computes the streak, refreshes the digest and records a snapshot.       *)
(*                                                                         *)
(* A request is used once: Reqs bounds how many there are, and names the   *)
(* rows each of them inserts (the UUIDs of a clone, a remediation task, a  *)
(* study session).                                                         *)
(*                                                                         *)
(* The plan is that of a first roadmap, all of whose tasks are pending; the*)
(* tasks a regenerated roadmap carries over are those of module Roadmap.   *)
(***************************************************************************)
EXTENDS Integers, Functions, StreakRun

CONSTANTS
  Planned,           \* the plan_tasks rows the roadmap generation inserted
  PlanOf,            \* Planned -> [item, kind, day] of each of those rows
  Items,             \* content items a task points at
  ItemType,          \* Items -> the item_type of each
  Reqs,              \* requests, each handled once
  Dates,             \* the calendar dates modelled, an interval of integers
  PlanDates,         \* those that have a plan-day row
  Minutes,           \* the time_spent_minutes a client may send
  DailyGoal,         \* dailyGoalMinutes
  OneRequestPerTask, \* whether a client waits for an answer about a task
                     \* before it sends another request about the same task
  None

Kinds == {"study", "solve", "revise"}
ItemTypes == {"topic", "problem", "design_problem", "resource"}

Tasks == Planned \cup Reqs
Ops == {"complete", "skip", "start", "reopen", "reschedule"}
Statuses == {"pending", "in_progress", "completed", "skipped", "rescheduled"}
Resolved == {"completed", "skipped"}

TaskRow == [item : Items, kind : Kinds, day : PlanDates, status : Statuses,
            minutes : Nat \cup {None}, from : Tasks \cup {None}]
SessionRow == [task : Tasks, day : Dates, minutes : Nat, live : BOOLEAN]
StreakRow == [tasks : Nat, minutes : Nat, goal : BOOLEAN]

ASSUME PlanTasksAssumption ==
  /\ PlanOf \in [Planned -> [item : Items, kind : Kinds, day : PlanDates]]
  /\ ItemType \in [Items -> ItemTypes]
  /\ Planned \cap Reqs = {}
  /\ Dates \subseteq Int /\ PlanDates \subseteq Dates
  /\ IsFiniteSet(Reqs) /\ IsFiniteSet(Dates)
  /\ Minutes \subseteq Nat
  /\ DailyGoal \in Nat
  /\ OneRequestPerTask \in BOOLEAN
  /\ None \notin Tasks \cup Int \cup STRING
  /\ None \notin TaskRow \cup SessionRow \cup StreakRow

VARIABLES
  today,       \* the UTC date the server's clock shows
  task,        \* Tasks -> the plan_tasks row, None before it is inserted
  session,     \* Reqs -> the study_sessions row that request inserted, or None
  planMinutes, \* PlanDates -> plan_days.completed_minutes
  streak,      \* Dates -> the streak_days row, or None
  progress,    \* Items -> the user_topic_progress / user_problem_progress row
  revision,    \* Items -> due_at of the item's revision_items row, or None
  digests,     \* the dates the notification digest was refreshed on
  snapshots,   \* the dates that have a readiness snapshot
  req          \* Reqs -> the state of the handler serving the request

store == <<task, session, planMinutes, streak, progress>>
effects == <<revision, digests, snapshots>>
vars == <<today, store, effects, req>>

-----------------------------------------------------------------------------
ProgressRow == [completed : BOOLEAN, attempts : Nat, minutes : Nat]
\* What an operation is given besides the task: the minutes of a completion,
\* the target date of a reschedule.
Args(op) == CASE op = "complete" -> Minutes
              [] op = "reschedule" -> Dates
              [] OTHER -> {None}
Request == {q \in [op : Ops, task : Tasks, now : Dates,
                   arg : Minutes \cup Dates \cup {None}] : q.arg \in Args(q.op)}
Handler ==
  [pc : {"new", "arrived", "read", "committed", "scheduled", "counted",
         "digested", "done"},
   in : Request \cup {None},            \* what the client asked
   seen : Statuses \cup {None},         \* the status the transaction read
   seenMinutes : Nat \cup {None},       \* and the time_spent_minutes
   days : SUBSET Dates,                 \* the dates its streak is computed from
   reply : {"none", "ok", "already_resolved", "no_plan_day", "error", "lost"}]

TypeOK ==
  /\ today \in Dates
  /\ task \in [Tasks -> TaskRow \cup {None}]
  /\ session \in [Reqs -> SessionRow \cup {None}]
  /\ planMinutes \in [PlanDates -> Nat]
  /\ streak \in [Dates -> StreakRow \cup {None}]
  /\ progress \in [Items -> ProgressRow]
  /\ revision \in [Items -> Int \cup {None}]
  /\ digests \subseteq Dates
  /\ snapshots \subseteq Dates
  /\ req \in [Reqs -> Handler]

Existing == {t \in Tasks : task[t] # None}
Active(r) == req[r].pc \notin {"new", "done"}
LiveSessions == {r \in Reqs : session[r] # None /\ session[r].live}

Row(item, kind, day, from) ==
  [item |-> item, kind |-> kind, day |-> day, status |-> "pending",
   minutes |-> None, from |-> from]

Init ==
  /\ today \in Dates
  /\ task = [t \in Tasks |->
               IF t \in Planned
               THEN Row(PlanOf[t].item, PlanOf[t].kind, PlanOf[t].day, None)
               ELSE None]
  /\ session = [r \in Reqs |-> None]
  /\ planMinutes = [d \in PlanDates |-> 0]
  /\ streak = [d \in Dates |-> None]
  /\ progress = [i \in Items |->
                   [completed |-> FALSE, attempts |-> 0, minutes |-> 0]]
  /\ revision = [i \in Items |-> None]
  /\ digests = {}
  /\ snapshots = {}
  /\ req = [r \in Reqs |->
              [pc |-> "new", in |-> None, seen |-> None,
               seenMinutes |-> None, days |-> {}, reply |-> "none"]]

-----------------------------------------------------------------------------
(***************************************************************************)
(* What the statements of the transactions do.  A definition named         *)
(* Bug_... is a plausible slip in the one that follows it; nothing uses    *)
(* it but the runs that show which property would catch the slip.          *)
(***************************************************************************)
Bug_NoFloor(a, b) == a - b
SubFloor(a, b) == IF a > b THEN a - b ELSE 0     \* GREATEST(a - b, 0)

\* Only topics and problems have a progress table.
Tracked(i) == ItemType[i] \in {"topic", "problem"}

UpsertProgress(i, minutes) ==
  IF ~Tracked(i) THEN progress
  ELSE [progress EXCEPT
          ![i] = [completed |-> TRUE,
                  attempts |-> IF ItemType[i] = "problem"
                               THEN @.attempts + 1 ELSE @.attempts,
                  minutes |-> @.minutes + minutes]]

\* goal_met from the minutes of this completion only, as in the insert.
Bug_GoalOfLastTask(d, minutes) ==
  LET before == IF streak[d] = None
                THEN [tasks |-> 0, minutes |-> 0, goal |-> FALSE]
                ELSE streak[d]
  IN [streak EXCEPT ![d] = [tasks |-> before.tasks + 1,
                            minutes |-> before.minutes + minutes,
                            goal |-> minutes >= DailyGoal]]
\* A second look at the clock, instead of the time the request came in.
Bug_StreakOfClock(d, minutes) ==
  [streak EXCEPT ![today] = IF @ = None
                            THEN [tasks |-> 1, minutes |-> minutes,
                                  goal |-> minutes >= DailyGoal]
                            ELSE [tasks |-> @.tasks + 1,
                                  minutes |-> @.minutes + minutes,
                                  goal |-> @.minutes + minutes >= DailyGoal]]
UpsertStreakDay(d, minutes) ==
  LET before == IF streak[d] = None
                THEN [tasks |-> 0, minutes |-> 0, goal |-> FALSE]
                ELSE streak[d]
  IN [streak EXCEPT
        ![d] = [tasks |-> before.tasks + 1,
                minutes |-> before.minutes + minutes,
                goal |-> before.minutes + minutes >= DailyGoal]]

\* A day whose last task is reopened loses its row.
Bug_EmptyDayDeleted(d, minutes) ==
  IF streak[d] = None THEN streak
  ELSE [streak EXCEPT ![d] = IF @.tasks <= 1 THEN None
                             ELSE [@ EXCEPT !.tasks = @ - 1]]
ReverseStreakDay(d, minutes) ==
  IF streak[d] = None THEN streak
  ELSE [streak EXCEPT
          ![d] = [tasks |-> SubFloor(@.tasks, 1),
                  minutes |-> SubFloor(@.minutes, minutes),
                  goal |-> SubFloor(@.tasks, 1) > 0 /\ @.goal]]

\* Learning kinds on any learnable item, and solving a problem.
Revisable(kind, i) ==
  \/ kind = "study" /\ ItemType[i] \in {"topic", "problem", "design_problem"}
  \/ kind = "solve" /\ ItemType[i] \in {"problem", "design_problem"}

\* The handler answers, and forgets what it read.
Reply(r, answer) ==
  req' = [req EXCEPT ![r] = [pc |-> "done", in |-> @.in, seen |-> None,
                             seenMinutes |-> None, days |-> @.days,
                             reply |-> answer]]

Goto(r, label) == req' = [req EXCEPT ![r].pc = label]

-----------------------------------------------------------------------------
(***************************************************************************)
(* A client sends a request about a task it has seen; the service takes    *)
(* the time before it opens the transaction.                               *)
(***************************************************************************)
Arrive(r) ==
  /\ req[r].pc = "new"
  /\ \E op \in Ops, t \in Existing : \E arg \in Args(op) :
       /\ OneRequestPerTask =>
            \A s \in Reqs : Active(s) => req[s].in.task # t
       /\ req' = [req EXCEPT
                    ![r] = [@ EXCEPT
                              !.pc = "arrived",
                              !.in = [op |-> op, task |-> t, now |-> today,
                                      arg |-> arg]]]
  /\ UNCHANGED <<today, store, effects>>

\* The statuses at which the handler of an operation returns early.
Bug_CompleteTwice(op) ==
  CASE op = "complete" -> {"skipped"}
    [] op \in {"skip", "start"} -> Resolved
    [] op = "reschedule" -> {"completed"}
    [] op = "reopen" -> Statuses \ Resolved
Bug_RescheduleDone(op) ==
  CASE op \in {"complete", "skip", "start"} -> Resolved
    [] op = "reschedule" -> {}
    [] op = "reopen" -> Statuses \ Resolved
Refused(op) ==
  CASE op \in {"complete", "skip", "start"} -> Resolved
    [] op = "reschedule" -> {"completed"}
    [] op = "reopen" -> Statuses \ Resolved

\* The transaction reads the task and has something to do.
Read(r) ==
  /\ req[r].pc = "arrived"
  /\ LET t == task[req[r].in.task]
     IN /\ t.status \notin Refused(req[r].in.op)
        /\ req' = [req EXCEPT
                     ![r] = [@ EXCEPT !.pc = "read", !.seen = t.status,
                                      !.seenMinutes = t.minutes]]
  /\ UNCHANGED <<today, store, effects>>

\* It reads a status it does not act on: an error, except that reopening an
\* open task is a no-op.
Refuse(r) ==
  /\ req[r].pc = "arrived"
  /\ task[req[r].in.task].status \in Refused(req[r].in.op)
  /\ Reply(r, IF req[r].in.op = "reopen" THEN "ok" ELSE "already_resolved")
  /\ UNCHANGED <<today, store, effects>>

-----------------------------------------------------------------------------
\* One session per task, the second completion books none.
Bug_BookOnce(r) ==
  IF \E s \in LiveSessions : session[s].task = req[r].in.task THEN session
  ELSE [session EXCEPT ![r] = [task |-> req[r].in.task, day |-> req[r].in.now,
                               minutes |-> req[r].in.arg, live |-> TRUE]]
Book(r) ==
  [session EXCEPT ![r] = [task |-> req[r].in.task, day |-> req[r].in.now,
                          minutes |-> req[r].in.arg, live |-> TRUE]]

CommitComplete(r) ==
  LET in == req[r].in
      t == task[in.task]
  IN /\ req[r].pc = "read" /\ in.op = "complete"
     /\ task' = [task EXCEPT
                   ![in.task] = [@ EXCEPT !.status = "completed",
                                          !.minutes = in.arg]]
     /\ progress' = UpsertProgress(t.item, in.arg)
     /\ session' = Book(r)
     /\ planMinutes' = [planMinutes EXCEPT ![t.day] = @ + in.arg]
     /\ streak' = UpsertStreakDay(in.now, in.arg)
     /\ Goto(r, "committed")
     /\ UNCHANGED <<today, effects>>

CommitSkip(r) ==
  /\ req[r].pc = "read" /\ req[r].in.op = "skip"
  /\ task' = [task EXCEPT ![req[r].in.task].status = "skipped"]
  /\ Reply(r, "ok")
  /\ UNCHANGED <<today, session, planMinutes, streak, progress, effects>>

\* A task read as already in progress is not written again.
CommitStart(r) ==
  /\ req[r].pc = "read" /\ req[r].in.op = "start"
  /\ task' = IF req[r].seen = "in_progress" THEN task
             ELSE [task EXCEPT ![req[r].in.task].status = "in_progress"]
  /\ Reply(r, "ok")
  /\ UNCHANGED <<today, session, planMinutes, streak, progress, effects>>

\* Only a completion booked something (wasCompleted).
Bug_ReversesSkip(r) == req[r].seen \in Resolved
Reverses(r) == req[r].seen = "completed"

\* What is reversed follows from the status and the minutes that were read;
\* the streak row is that of the day of the reopening.
CommitReopen(r) ==
  LET in == req[r].in
      spent == IF req[r].seenMinutes = None THEN 0 ELSE req[r].seenMinutes
  IN /\ req[r].pc = "read" /\ in.op = "reopen"
     /\ task' = [task EXCEPT
                   ![in.task] = [@ EXCEPT !.status = "pending",
                                          !.minutes = None]]
     /\ IF Reverses(r)
        THEN /\ session' = [s \in Reqs |->
                              IF session[s] # None /\ session[s].task = in.task
                              THEN [session[s] EXCEPT !.live = FALSE]
                              ELSE session[s]]
             /\ planMinutes' = [planMinutes EXCEPT
                                  ![task[in.task].day] = SubFloor(@, spent)]
             /\ streak' = ReverseStreakDay(in.now, spent)
        ELSE UNCHANGED <<session, planMinutes, streak>>
     /\ Reply(r, "ok")
     /\ UNCHANGED <<today, progress, effects>>

\* The original is marked, a pending clone goes to the target day.
CommitReschedule(r) ==
  LET in == req[r].in
      t == task[in.task]
  IN /\ req[r].pc = "read" /\ in.op = "reschedule"
     /\ in.arg \in PlanDates
     /\ task' = [task EXCEPT ![in.task].status = "rescheduled",
                             ![r] = Row(t.item, t.kind, in.arg, in.task)]
     /\ Reply(r, "ok")
     /\ UNCHANGED <<today, session, planMinutes, streak, progress, effects>>

\* The original is marked before the target day is looked up.
Bug_MarkedFirst(r) ==
  /\ req[r].pc = "read" /\ req[r].in.op = "reschedule"
  /\ req[r].in.arg \notin PlanDates
  /\ task' = [task EXCEPT ![req[r].in.task].status = "rescheduled"]
  /\ Reply(r, "no_plan_day")
  /\ UNCHANGED <<today, session, planMinutes, streak, progress, effects>>
NoTargetDay(r) ==
  /\ req[r].pc = "read" /\ req[r].in.op = "reschedule"
  /\ req[r].in.arg \notin PlanDates
  /\ Reply(r, "no_plan_day")
  /\ UNCHANGED <<today, store, effects>>

-----------------------------------------------------------------------------
(***************************************************************************)
(* CompleteTask after its commit.                                          *)
(***************************************************************************)
Bug_OnlySolved(r) ==
  LET t == task[req[r].in.task]
  IN t.kind = "solve" /\ Revisable(t.kind, t.item)
Learns(r) == LET t == task[req[r].in.task] IN Revisable(t.kind, t.item)

\* Due a day after the revision service's own clock.
Bug_DueFromPlan(r) == task[req[r].in.task].day + 1
DueAt(r) == today + 1

\* Create ... ON CONFLICT DO NOTHING: a row there stays as it is.
ScheduleRevision(r) ==
  /\ req[r].pc = "committed"
  /\ revision' = IF Learns(r) /\ revision[task[req[r].in.task].item] = None
                 THEN [revision EXCEPT
                         ![task[req[r].in.task].item] = DueAt(r)]
                 ELSE revision
  /\ Goto(r, "scheduled")
  /\ UNCHANGED <<today, store, digests, snapshots>>

\* The scheduler, or later the streak query, fails: the client is answered
\* with the error.
ScheduleFails(r) ==
  /\ req[r].pc = "committed" /\ Learns(r)
  /\ Reply(r, "error")
  /\ UNCHANGED <<today, store, effects>>

ComputeStreak(r) ==
  /\ req[r].pc = "scheduled"
  /\ \/ req' = [req EXCEPT
                  ![r] = [@ EXCEPT !.pc = "counted",
                                   !.days = {d \in Dates : streak[d] # None}]]
     \/ Reply(r, "error")
  /\ UNCHANGED <<today, store, effects>>

\* Two best-effort calls: whether they succeed does not matter to the answer.
RefreshDigest(r) ==
  /\ req[r].pc = "counted"
  /\ digests' \in {digests, digests \cup {today}}
  /\ Goto(r, "digested")
  /\ UNCHANGED <<today, store, revision, snapshots>>

RecordSnapshot(r) ==
  /\ req[r].pc = "digested"
  /\ snapshots' \in {snapshots, snapshots \cup {today}}
  /\ Reply(r, "ok")
  /\ UNCHANGED <<today, store, revision, digests>>

-----------------------------------------------------------------------------
\* The mock module asks for a remediation task: one pending "revise" row on
\* the next plan-day, if there is one.
NextPlanDays ==
  {d \in PlanDates : d >= today /\ \A e \in PlanDates : e >= today => d <= e}

Remediate(r) ==
  /\ req[r].pc = "new"
  /\ \/ (\A d \in PlanDates : d < today) /\ task' = task
     \/ \E i \in Items, d \in NextPlanDays :
          /\ ItemType[i] = "topic"
          /\ task' = [task EXCEPT ![r] = Row(i, "revise", d, None)]
  /\ Reply(r, "ok")
  /\ UNCHANGED <<today, session, planMinutes, streak, progress, effects>>

\* The client disconnects, the server stops, or a statement fails: an open
\* transaction is rolled back, what was committed stays.
Lose(r) ==
  /\ Active(r)
  /\ Reply(r, "lost")
  /\ UNCHANGED <<today, store, effects>>

\* Midnight UTC.
NextDay ==
  /\ today + 1 \in Dates
  /\ today' = today + 1
  /\ UNCHANGED <<store, effects, req>>

Step(r) ==
  \/ Read(r) \/ Refuse(r)
  \/ CommitComplete(r) \/ CommitSkip(r) \/ CommitStart(r) \/ CommitReopen(r)
  \/ CommitReschedule(r) \/ NoTargetDay(r)
  \/ ScheduleRevision(r) \/ ScheduleFails(r) \/ ComputeStreak(r)
  \/ RefreshDigest(r) \/ RecordSnapshot(r)

Next ==
  \/ \E r \in Reqs : Arrive(r) \/ Remediate(r) \/ Step(r) \/ Lose(r)
  \/ NextDay

Spec == Init /\ [][Next]_vars

\* A goroutine that serves a request is not stopped forever between two of
\* its statements; nothing is promised about clients, failures or midnight.
FairSpec == Spec /\ \A r \in Reqs : WF_vars(Step(r))

-----------------------------------------------------------------------------
(***************************************************************************)
(* What handlers and rows have in common in every reachable state: the     *)
(* part of the inductive invariant that is about requests.                 *)
(***************************************************************************)
AfterCommit == {"committed", "scheduled", "counted", "digested"}

\* A handler at work has a request about a row that exists; it passed the
\* early returns of its operation; the rows it may insert do not exist yet;
\* past its commit it is a completion that has booked its session.
HandlerOK(r) ==
  /\ Active(r) => req[r].in \in Request /\ req[r].in.task \in Existing
  /\ req[r].pc # "done" => task[r] = None
  /\ req[r].pc \in {"new", "arrived", "read"} => session[r] = None
  /\ req[r].pc = "read" => req[r].seen \in Statuses \ Refused(req[r].in.op)
  /\ req[r].pc \in AfterCommit =>
       /\ req[r].in.op = "complete"
       /\ session[r] # None /\ session[r].task = req[r].in.task
HandlersOK == \A r \in Reqs : HandlerOK(r)

\* Sessions are booked on rows that exist, and never in the future.
SessionsOK ==
  /\ \A r \in Reqs : session[r] # None => /\ session[r].task \in Existing
                                          /\ session[r].day <= today
  /\ \A r \in Reqs : Active(r) => req[r].in.now <= today

\* With one request per task at a time, what a transaction has read is still
\* so when it writes.
SnapshotsFresh ==
  OneRequestPerTask =>
    /\ \A r, s \in Reqs : Active(r) /\ Active(s) /\ r # s =>
                            req[r].in.task # req[s].in.task
    /\ \A r \in Reqs : req[r].pc = "read" =>
         LET t == task[req[r].in.task]
         IN req[r].seen = t.status /\ req[r].seenMinutes = t.minutes

\* And a session stands only while its task is completed: the one session
\* that the completion booked, with the minutes the task shows.
BookedOnce ==
  OneRequestPerTask =>
    \A r \in LiveSessions :
      LET t == task[session[r].task]
      IN /\ t.status = "completed" /\ t.minutes = session[r].minutes
         /\ \A s \in LiveSessions : session[s].task = session[r].task => s = r

-----------------------------------------------------------------------------
(***************************************************************************)
(* Properties.                                                             *)
(***************************************************************************)
CompletesTask(r, t) == session[r] # None /\ session[r].task = t

\* Whatever requests race on a task, one that is marked completed has a study
\* session that is not deleted and carries the minutes the task shows: a
\* reopening never strips a completion that came after it (CompleteTask,
\* ReopenTask).
CompletedHasSession ==
  \A t \in Existing :
    task[t].status = "completed" =>
      \E r \in LiveSessions : /\ CompletesTask(r, t)
                              /\ session[r].minutes = task[t].minutes

\* The topic of a completed task counts as completed, which is what the next
\* roadmap's carry-over reads (upsertProgress).  Of topics only: the problem
\* page (dsaprogress) may mark a problem unsolved, whatever its tasks say.
CompletedHasProgress ==
  \A t \in Existing :
    task[t].status = "completed" /\ ItemType[task[t].item] = "topic" =>
      progress[task[t].item].completed

\* A day on which a completion stands counts for the streak: it has a row in
\* streak_days.  A reopening takes its task off the row of the day it is
\* reopened on, not of the day it was completed, and so may count a day down to
\* no tasks although another task was completed on it (ReopenTask,
\* computeStreakFromDates).  Of a day whose completions were all reopened
\* nothing is said.
StandingDayHasStreakRow ==
  \A r \in LiveSessions : streak[session[r].day] # None

\* The streak a completion answers with includes the day it completed on.
AnswerCountsTheDay ==
  \A r \in Reqs :
    req[r].reply = "ok" /\ req[r].in # None =>
      (req[r].in.op = "complete" => Current(req[r].days, req[r].in.now) >= 1)

\* A day on which tasks are left and the minutes reach the goal is marked as
\* meeting it, in any order of completions and reopenings.
GoalMetIsMarked ==
  \A d \in Dates :
    streak[d] # None =>
      (streak[d].tasks > 0 /\ streak[d].minutes >= DailyGoal => streak[d].goal)

\* A rescheduled task has a clone on some plan-day, so moving tasks around
\* never loses work: it never marks the original without inserting the clone.
MovedHasClone ==
  \A t \in Existing :
    task[t].status = "rescheduled" =>
      \E c \in Existing : task[c].from = t /\ task[c].item = task[t].item

\* A completed learnable task without a revision item is accounted for: the
\* request that completed it is about to schedule it, or has failed.
UnscheduledHasReason ==
  \A t \in Existing :
    /\ task[t].status = "completed"
    /\ Revisable(task[t].kind, task[t].item)
    /\ revision[task[t].item] = None
    => \E r \in Reqs : /\ CompletesTask(r, t)
                       /\ req[r].pc = "committed" \/ req[r].reply \in {"error", "lost"}

\* A revision is never due on the day its item was studied: it is due at
\* least one day after a session on that item (ScheduleForCompletion).
DueAfterStudy ==
  \A i \in Items :
    revision[i] # None =>
      \E r \in Reqs : /\ session[r] # None
                      /\ task[session[r].task].item = i
                      /\ revision[i] > session[r].day

\* The minutes of a plan-day are those of the sessions booked on its tasks,
\* provided a client has one request per task at a time: the roll-back of
\* ReopenTask takes off exactly what CompleteTask added, and GREATEST(..., 0)
\* never hides a difference.
DayLedger ==
  \A d \in PlanDates :
    planMinutes[d] =
      SumFunctionOnSet([r \in LiveSessions |-> session[r].minutes],
                       {r \in LiveSessions : task[session[r].task].day = d})

\* Over all days, streak_days holds at least the completions and minutes of
\* the sessions that stand; a reopening may take them off another day.
StreakNeverUndercounts ==
  LET rows == {d \in Dates : streak[d] # None}
  IN /\ SumFunction([d \in rows |-> streak[d].tasks]) >= Cardinality(LiveSessions)
     /\ SumFunction([d \in rows |-> streak[d].minutes])
          >= SumFunction([r \in LiveSessions |-> session[r].minutes])

\* The variables of TaskLifecycle.
StatusOf == [t \in Tasks |-> IF task[t] = None THEN "absent" ELSE task[t].status]
BookedOf == [t \in Tasks |-> IF task[t] = None THEN None ELSE task[t].minutes]
Lifecycle == INSTANCE TaskLifecycle WITH status <- StatusOf, booked <- BookedOf

\* What the handlers do and TaskLifecycle does not: they turn away what is
\* completed or skipped, and take up the original of a task that was moved;
\* and a skipped task can be moved.
ClosedTakenUp ==
  \E t \in Tasks :
    \/ /\ StatusOf[t] = "rescheduled"
       /\ Lifecycle!Completed(t) \/ Lifecycle!Skipped(t) \/ Lifecycle!Started(t)
    \/ /\ StatusOf[t] \in {"rescheduled", "skipped"}
       /\ \E c \in Tasks : Lifecycle!Moved(t, c)

\* Under one request per task, the handlers of several statements behave like
\* the atomic operations that the Repository interface promises, except where
\* they take up a closed task; a completed one they never do, save to reopen it.
ImplementsLifecycle ==
  /\ Lifecycle!Init
  /\ [][Lifecycle!Next \/ ClosedTakenUp]_<<StatusOf, BookedOf>>

\* Every completed learnable item gets its revision in the end, unless the
\* handler that completed it failed on the way.
EventuallyScheduled ==
  \A t \in Tasks :
    (/\ t \in Existing
     /\ task[t].status = "completed"
     /\ Revisable(task[t].kind, task[t].item))
    ~> \/ t \in Existing /\ revision[task[t].item] # None
       \/ \E r \in Reqs : CompletesTask(r, t) /\ req[r].reply \in {"error", "lost"}

-----------------------------------------------------------------------------
(***************************************************************************)
(* What the documentation says and the code does not do.                   *)
(***************************************************************************)
\* "flips a completed/skipped task back to pending and reverses its
\* completion side effects (progress row + streak counters)"
\* (repository.go, Repository.ReopenTask): an item is completed only while a
\* session on it stands.
ReopenReversesProgress ==
  \A i \in Items :
    progress[i].completed =>
      \E r \in LiveSessions : task[session[r].task].item = i
=============================================================================
