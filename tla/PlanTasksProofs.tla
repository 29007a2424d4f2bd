--------------------------- MODULE PlanTasksProofs ---------------------------
(***************************************************************************)
(* What TLAPS proves of PlanTasks for every set of tasks, requests, items, *)
(* dates and minutes, and for any number of requests racing on a task.     *)
(***************************************************************************)
EXTENDS PlanTasks, SetLemmas

(***************************************************************************)
(* Helpers.                                                                *)
(***************************************************************************)

\* GREATEST(a - b, 0) of naturals is a natural, not above a.
LEMMA SubFloorNat ==
  ASSUME NEW a \in Nat, NEW b \in Nat
  PROVE  SubFloor(a, b) \in Nat /\ SubFloor(a, b) <= a
BY DEF SubFloor

\* A request with an operation has the arguments of that operation.
LEMMA RequestFields ==
  ASSUME NEW q \in Request
  PROVE  /\ q \in [op : Ops, task : Tasks, now : Dates,
                   arg : Minutes \cup Dates \cup {None}]
         /\ q.op \in Ops /\ q.task \in Tasks /\ q.now \in Dates
         /\ q.op = "complete" => q.arg \in Minutes /\ q.arg \in Nat
BY PlanTasksAssumption DEF Request, Args, Ops

\* Rows are told apart from their absence.
LEMMA RowsExist ==
  ASSUME NEW x, x \in TaskRow \cup SessionRow \cup StreakRow
  PROVE  x # None
BY PlanTasksAssumption

\* The ways a step leaves the handlers well-typed.
LEMMA HandlerTypes ==
  ASSUME req \in [Reqs -> Handler], NEW r \in Reqs
  PROVE  /\ \A label \in {"committed", "scheduled", "digested"} :
              Goto(r, label) => req' \in [Reqs -> Handler]
         /\ \A a \in {"ok", "already_resolved", "no_plan_day", "error", "lost"} :
              Reply(r, a) => req' \in [Reqs -> Handler]
         /\ \A q \in Request :
              req' = [req EXCEPT ![r] = [@ EXCEPT !.pc = "arrived", !.in = q]]
                => req' \in [Reqs -> Handler]
         /\ \A st \in Statuses, m \in Nat \cup {None} :
              req' = [req EXCEPT ![r] = [@ EXCEPT !.pc = "read", !.seen = st,
                                                   !.seenMinutes = m]]
                => req' \in [Reqs -> Handler]
         /\ \A ds \in SUBSET Dates :
              req' = [req EXCEPT ![r] = [@ EXCEPT !.pc = "counted", !.days = ds]]
                => req' \in [Reqs -> Handler]
<1>1. ASSUME NEW label \in {"committed", "scheduled", "digested"}, Goto(r, label)
      PROVE  req' \in [Reqs -> Handler]
  <2>1. [req[r] EXCEPT !.pc = label] \in Handler
    BY DEF Handler
  <2>2. req' = [req EXCEPT ![r] = [req[r] EXCEPT !.pc = label]]
    BY <1>1 DEF Goto
  <2> QED BY <2>1, <2>2
<1>2. ASSUME NEW a \in {"ok", "already_resolved", "no_plan_day", "error", "lost"},
             Reply(r, a)
      PROVE  req' \in [Reqs -> Handler]
  BY <1>2 DEF Handler, Reply
<1>3. ASSUME NEW q \in Request,
             req' = [req EXCEPT ![r] = [@ EXCEPT !.pc = "arrived", !.in = q]]
      PROVE  req' \in [Reqs -> Handler]
  <2>1. [req[r] EXCEPT !.pc = "arrived", !.in = q] \in Handler
    BY DEF Handler
  <2> QED BY <1>3, <2>1
<1>4. ASSUME NEW st \in Statuses, NEW m \in Nat \cup {None},
             req' = [req EXCEPT ![r] = [@ EXCEPT !.pc = "read", !.seen = st,
                                                   !.seenMinutes = m]]
      PROVE  req' \in [Reqs -> Handler]
  <2>1. [req[r] EXCEPT !.pc = "read", !.seen = st, !.seenMinutes = m] \in Handler
    BY DEF Handler
  <2> QED BY <1>4, <2>1
<1>5. ASSUME NEW ds \in SUBSET Dates,
             req' = [req EXCEPT ![r] = [@ EXCEPT !.pc = "counted", !.days = ds]]
      PROVE  req' \in [Reqs -> Handler]
  <2>1. [req[r] EXCEPT !.pc = "counted", !.days = ds] \in Handler
    BY DEF Handler
  <2> QED BY <1>5, <2>1
<1> QED BY <1>1, <1>2, <1>3, <1>4, <1>5

(***************************************************************************)
(* Type correctness.                                                       *)
(***************************************************************************)
LEMMA TypeInit == Init => TypeOK /\ HandlersOK /\ SessionsOK
<1> SUFFICES ASSUME Init PROVE TypeOK /\ HandlersOK /\ SessionsOK
  OBVIOUS
<1> USE PlanTasksAssumption
<1>1. task \in [Tasks -> TaskRow \cup {None}]
  BY DEF Init, Row, TaskRow, Tasks, Statuses
<1>2. req \in [Reqs -> Handler]
  BY DEF Init, Handler
<1>3. progress \in [Items -> ProgressRow]
  BY DEF Init, ProgressRow
<1>4. TypeOK
  BY <1>1, <1>2, <1>3 DEF Init, TypeOK
<1>5. HandlersOK
  BY DEF Init, HandlersOK, HandlerOK, Active, AfterCommit, Tasks
<1>6. SessionsOK
  BY DEF Init, SessionsOK, Active
<1> QED BY <1>4, <1>5, <1>6

\* The invariant the other proofs build on.
Inv0 == TypeOK /\ HandlersOK /\ SessionsOK

\* The fields of the row and of the request a handler at work deals with.
AtWorkOn(r) ==
  /\ req[r].in \in Request
  /\ req[r].in.task \in Existing
  /\ req[r].in.task \in Tasks
  /\ task[req[r].in.task] \in TaskRow
  /\ task[r] = None /\ r # req[r].in.task

LEMMA AtWork ==
  ASSUME Inv0, NEW r \in Reqs, Active(r)
  PROVE  AtWorkOn(r)
BY RowsExist, PlanTasksAssumption
   DEF Inv0, TypeOK, HandlersOK, HandlerOK, Active, Existing, Handler, Tasks,
       AtWorkOn

LEMMA TypeArrive ==
  ASSUME Inv0, NEW r \in Reqs, Arrive(r)
  PROVE  TypeOK'
<1>0. PICK op \in Ops, t \in Existing : \E arg \in Args(op) :
        req' = [req EXCEPT ![r] =
                   [@ EXCEPT !.pc = "arrived", !.in = [op |-> op, task |-> t, now |-> today, arg |-> arg]]]
  BY DEF Arrive
<1>1. PICK arg \in Args(op) :
        req' = [req EXCEPT ![r] =
                   [@ EXCEPT !.pc = "arrived", !.in = [op |-> op, task |-> t, now |-> today, arg |-> arg]]]
  BY <1>0
<1>2. [op |-> op, task |-> t, now |-> today, arg |-> arg] \in Request
  BY Zenon DEF Request, Args, Existing, Inv0, TypeOK, Ops
<1>3. req' \in [Reqs -> Handler]
  <2> DEFINE q == [op |-> op, task |-> t, now |-> today, arg |-> arg]
  <2>1. q \in Request /\ req' = [req EXCEPT ![r] = [@ EXCEPT !.pc = "arrived", !.in = q]]
    BY <1>1, <1>2
  <2> HIDE DEF q
  <2> QED BY <2>1, HandlerTypes DEF Inv0, TypeOK
<1> QED
  BY <1>3 DEF Arrive, Inv0, TypeOK, store, effects

\* Answering, whatever the answer, keeps every type if it changes only req.
LEMMA TypeReply ==
  ASSUME Inv0, NEW r \in Reqs,
         NEW a \in {"ok", "already_resolved", "no_plan_day", "error", "lost"},
         Reply(r, a), UNCHANGED <<today, store, effects>>
  PROVE  TypeOK'
<1>1. req' \in [Reqs -> Handler]
  BY HandlerTypes DEF Inv0, TypeOK
<1> QED BY <1>1 DEF Inv0, TypeOK, store, effects

\* A completion added to a row of progress
LEMMA ProgressAdded ==
  ASSUME NEW row \in ProgressRow, NEW given \in Nat, NEW again \in BOOLEAN
  PROVE  [completed |-> TRUE,
          attempts |-> IF again THEN row.attempts + 1 ELSE row.attempts,
          minutes |-> row.minutes + given] \in ProgressRow
<1>1. row.attempts \in Nat /\ row.minutes \in Nat
  BY DEF ProgressRow
<1>2. row.attempts + 1 \in Nat /\ row.minutes + given \in Nat
  BY <1>1
<1> QED BY <1>1, <1>2 DEF ProgressRow

LEMMA TypeCommitComplete ==
  ASSUME Inv0, NEW r \in Reqs, CommitComplete(r)
  PROVE  TypeOK'
<1> DEFINE in == req[r].in
           t == task[in.task]
<1>1. /\ in \in Request /\ in.task \in Tasks /\ t \in TaskRow
      /\ in.arg \in Nat /\ in.now \in Dates
  BY AtWork, RequestFields DEF CommitComplete, Active, AtWorkOn
<1>2. task' \in [Tasks -> TaskRow \cup {None}]
  <2>1. [t EXCEPT !.status = "completed", !.minutes = in.arg] \in TaskRow
    BY <1>1 DEF TaskRow, Statuses
  <2> QED BY <2>1, <1>1 DEF CommitComplete, Inv0, TypeOK
<1>3. session' \in [Reqs -> SessionRow \cup {None}]
  <2>1. [task |-> in.task, day |-> in.now, minutes |-> in.arg, live |-> TRUE]
          \in SessionRow
    BY <1>1 DEF SessionRow
  <2> QED BY <2>1 DEF CommitComplete, Book, Inv0, TypeOK
<1>4. planMinutes' \in [PlanDates -> Nat]
  <2>1. t.day \in PlanDates BY <1>1 DEF TaskRow
  <2>2. planMinutes[t.day] + in.arg \in Nat
    BY <2>1, <1>1 DEF Inv0, TypeOK
  <2> QED BY <2>1, <2>2 DEF CommitComplete, Inv0, TypeOK
<1>5. streak' \in [Dates -> StreakRow \cup {None}]
  <2> DEFINE before == IF streak[in.now] = None
                       THEN [tasks |-> 0, minutes |-> 0, goal |-> FALSE]
                       ELSE streak[in.now]
             after == [tasks |-> before.tasks + 1,
                       minutes |-> before.minutes + in.arg,
                       goal |-> before.minutes + in.arg >= DailyGoal]
  <2>1. before \in StreakRow
    BY <1>1 DEF Inv0, TypeOK, StreakRow
  <2>2. after \in StreakRow
    BY <1>1, <2>1 DEF StreakRow
  <2>3. streak' = [streak EXCEPT ![in.now] = after]
    BY DEF CommitComplete, UpsertStreakDay
  <2> QED BY <1>1, <2>2, <2>3 DEF Inv0, TypeOK
<1>6. progress' \in [Items -> ProgressRow]
  <2>1. t.item \in Items /\ progress[t.item] \in ProgressRow
    BY <1>1 DEF TaskRow, Inv0, TypeOK
  <2> DEFINE p == [completed |-> TRUE,
                   attempts |-> IF ItemType[t.item] = "problem"
                                THEN progress[t.item].attempts + 1
                                ELSE progress[t.item].attempts,
                   minutes |-> progress[t.item].minutes + in.arg]
  <2>2. p \in ProgressRow
    BY <1>1, <2>1, ProgressAdded
  <2>3. progress' = progress \/ progress' = [progress EXCEPT ![t.item] = p]
    BY DEF CommitComplete, UpsertProgress
  <2> QED BY <2>1, <2>2, <2>3 DEF Inv0, TypeOK
<1>7. req' \in [Reqs -> Handler]
  BY HandlerTypes DEF CommitComplete, Inv0, TypeOK
<1> QED
  BY <1>2, <1>3, <1>4, <1>5, <1>6, <1>7
     DEF CommitComplete, Inv0, TypeOK, effects

LEMMA TypeCommitReopen ==
  ASSUME Inv0, NEW r \in Reqs, CommitReopen(r)
  PROVE  TypeOK'
<1> DEFINE in == req[r].in
           t == task[in.task]
           spent == IF req[r].seenMinutes = None THEN 0 ELSE req[r].seenMinutes
<1>1. /\ in.task \in Tasks /\ t \in TaskRow /\ in.now \in Dates
      /\ spent \in Nat /\ t.day \in PlanDates
  <2>1. in.task \in Tasks /\ t \in TaskRow /\ in.now \in Dates
    BY AtWork, RequestFields DEF CommitReopen, Active, AtWorkOn
  <2>2. req[r].seenMinutes \in Nat \cup {None}
    BY DEF Inv0, TypeOK, Handler
  <2> QED BY <2>1, <2>2 DEF TaskRow
<1>2. task' \in [Tasks -> TaskRow \cup {None}]
  <2>1. [t EXCEPT !.status = "pending", !.minutes = None] \in TaskRow
    BY <1>1 DEF TaskRow, Statuses
  <2> QED BY <2>1, <1>1 DEF CommitReopen, Inv0, TypeOK
<1>3. session' \in [Reqs -> SessionRow \cup {None}]
  <2>1. \A s \in Reqs : session[s] # None =>
          [session[s] EXCEPT !.live = FALSE] \in SessionRow
    BY DEF Inv0, TypeOK, SessionRow
  <2> QED BY <2>1 DEF CommitReopen, Inv0, TypeOK
<1>4. planMinutes' \in [PlanDates -> Nat]
  <2>1. SubFloor(planMinutes[t.day], spent) \in Nat
    BY <1>1, SubFloorNat DEF Inv0, TypeOK
  <2>2. \/ planMinutes' = planMinutes
        \/ planMinutes' = [planMinutes EXCEPT
                             ![t.day] = SubFloor(planMinutes[t.day], spent)]
    BY DEF CommitReopen
  <2> QED BY <1>1, <2>1, <2>2 DEF Inv0, TypeOK
<1>5. streak' \in [Dates -> StreakRow \cup {None}]
  <2> DEFINE s == streak[in.now]
             after == [tasks |-> SubFloor(s.tasks, 1),
                       minutes |-> SubFloor(s.minutes, spent),
                       goal |-> SubFloor(s.tasks, 1) > 0 /\ s.goal]
  <2>1. s # None => s \in StreakRow
    BY <1>1 DEF Inv0, TypeOK
  <2>2. s # None => after \in StreakRow
    BY <1>1, <2>1, SubFloorNat DEF StreakRow
  <2>3. \/ streak' = streak
        \/ s # None /\ streak' = [streak EXCEPT ![in.now] = after]
    BY DEF CommitReopen, ReverseStreakDay
  <2> QED BY <1>1, <2>2, <2>3 DEF Inv0, TypeOK
<1>6. req' \in [Reqs -> Handler]
  BY HandlerTypes DEF CommitReopen, Inv0, TypeOK
<1> QED
  BY <1>2, <1>3, <1>4, <1>5, <1>6 DEF CommitReopen, Inv0, TypeOK, effects

\* A new row is a row.
LEMMA RowType ==
  ASSUME NEW i \in Items, NEW k \in Kinds, NEW d \in PlanDates,
         NEW f \in Tasks \cup {None}
  PROVE  Row(i, k, d, f) \in TaskRow
BY DEF Row, TaskRow, Statuses

LEMMA TypeStatus ==
  ASSUME Inv0, NEW r \in Reqs,
         CommitSkip(r) \/ CommitStart(r) \/ CommitReschedule(r)
  PROVE  TypeOK'
<1> DEFINE in == req[r].in
           t == task[in.task]
<1>1. in \in Request /\ in.task \in Tasks /\ t \in TaskRow /\ r \in Tasks
  BY AtWork, RequestFields
     DEF CommitSkip, CommitStart, CommitReschedule, Active, Tasks, AtWorkOn
<1>2. \A s \in Statuses : [t EXCEPT !.status = s] \in TaskRow
  BY <1>1 DEF TaskRow
<1>3. task' \in [Tasks -> TaskRow \cup {None}]
  <2>1. CASE CommitSkip(r)
    BY <2>1, <1>1, <1>2 DEF CommitSkip, Inv0, TypeOK, Statuses
  <2>2. CASE CommitStart(r)
    BY <2>2, <1>1, <1>2 DEF CommitStart, Inv0, TypeOK, Statuses
  <2>3. CASE CommitReschedule(r)
    <3>1. Row(t.item, t.kind, in.arg, in.task) \in TaskRow
      BY <2>3, <1>1, RowType DEF CommitReschedule, TaskRow
    <3>2. task' = [[task EXCEPT ![in.task] = [t EXCEPT !.status = "rescheduled"]]
                     EXCEPT ![r] = Row(t.item, t.kind, in.arg, in.task)]
      BY <2>3 DEF CommitReschedule
    <3>3. [t EXCEPT !.status = "rescheduled"] \in TaskRow
      BY <1>2 DEF Statuses
    <3> QED BY <3>1, <3>2, <3>3, <1>1 DEF Inv0, TypeOK
  <2> QED BY <2>1, <2>2, <2>3
<1>4. req' \in [Reqs -> Handler]
  BY HandlerTypes DEF CommitSkip, CommitStart, CommitReschedule, Inv0, TypeOK
<1> QED
  BY <1>3, <1>4 DEF CommitSkip, CommitStart, CommitReschedule, Inv0, TypeOK,
                    effects

LEMMA TypeAfterCommit ==
  ASSUME Inv0, NEW r \in Reqs,
         \/ ScheduleRevision(r) \/ ComputeStreak(r)
         \/ RefreshDigest(r) \/ RecordSnapshot(r)
  PROVE  TypeOK'
<1>1. CASE ScheduleRevision(r)
  <2>1. /\ task[req[r].in.task] \in TaskRow
        /\ task[req[r].in.task].item \in Items
    BY <1>1, AtWork DEF ScheduleRevision, Active, TaskRow, AtWorkOn
  <2>2. today + 1 \in Int
    BY PlanTasksAssumption DEF Inv0, TypeOK
  <2>3. revision' \in [Items -> Int \cup {None}]
    BY <1>1, <2>1, <2>2 DEF ScheduleRevision, DueAt, Inv0, TypeOK
  <2>4. req' \in [Reqs -> Handler]
    BY <1>1, HandlerTypes DEF ScheduleRevision, Inv0, TypeOK
  <2> QED BY <1>1, <2>3, <2>4 DEF ScheduleRevision, Inv0, TypeOK, store
<1>2. CASE ComputeStreak(r)
  <2> DEFINE ds == {d \in Dates : streak[d] # None}
  <2>1. ds \in SUBSET Dates OBVIOUS
  <2>2. \/ req' = [req EXCEPT ![r] = [@ EXCEPT !.pc = "counted", !.days = ds]]
        \/ Reply(r, "error")
    BY <1>2 DEF ComputeStreak
  <2> HIDE DEF ds
  <2>3. req' \in [Reqs -> Handler]
    BY <2>1, <2>2, HandlerTypes DEF Inv0, TypeOK
  <2> QED BY <1>2, <2>3 DEF ComputeStreak, Inv0, TypeOK, store, effects
<1>3. CASE RefreshDigest(r)
  <2>1. req' \in [Reqs -> Handler]
    BY <1>3, HandlerTypes DEF RefreshDigest, Inv0, TypeOK
  <2> QED BY <1>3, <2>1 DEF RefreshDigest, Inv0, TypeOK, store
<1>4. CASE RecordSnapshot(r)
  <2>1. req' \in [Reqs -> Handler]
    BY <1>4, HandlerTypes DEF RecordSnapshot, Inv0, TypeOK
  <2> QED BY <1>4, <2>1 DEF RecordSnapshot, Inv0, TypeOK, store
<1> QED BY <1>1, <1>2, <1>3, <1>4

LEMMA TypeRead ==
  ASSUME Inv0, NEW r \in Reqs, Read(r)
  PROVE  TypeOK'
<1> DEFINE t == task[req[r].in.task]
<1>1. t.status \in Statuses /\ t.minutes \in Nat \cup {None}
  BY AtWork DEF Read, Active, TaskRow, AtWorkOn
<1>2. req' = [req EXCEPT ![r] = [@ EXCEPT !.pc = "read", !.seen = t.status,
                                           !.seenMinutes = t.minutes]]
  BY DEF Read
<1> HIDE DEF t
<1>3. req' \in [Reqs -> Handler]
  BY <1>1, <1>2, HandlerTypes DEF Inv0, TypeOK
<1> QED BY <1>3 DEF Read, Inv0, TypeOK, store, effects

LEMMA TypeRemediate ==
  ASSUME Inv0, NEW r \in Reqs, Remediate(r)
  PROVE  TypeOK'
<1>1. task' \in [Tasks -> TaskRow \cup {None}]
  <2>1. CASE task' = task
    BY <2>1 DEF Inv0, TypeOK
  <2>2. CASE task' # task
    <3>1. PICK i \in Items, d \in NextPlanDays :
            task' = [task EXCEPT ![r] = Row(i, "revise", d, None)]
      BY <2>2 DEF Remediate
    <3>2. Row(i, "revise", d, None) \in TaskRow
      BY RowType DEF Kinds, NextPlanDays
    <3> QED BY <3>1, <3>2 DEF Inv0, TypeOK
  <2> QED BY <2>1, <2>2
<1>2. req' \in [Reqs -> Handler]
  BY HandlerTypes DEF Remediate, Inv0, TypeOK
<1> QED BY <1>1, <1>2 DEF Remediate, Inv0, TypeOK, effects

\* A step of request r.
By(r) == Arrive(r) \/ Remediate(r) \/ Step(r) \/ Lose(r)

\* Every step of a request leaves the state well-typed.
LEMMA TypeBy ==
  ASSUME Inv0, NEW r \in Reqs, By(r)
  PROVE  TypeOK'
<1>1. CASE Arrive(r)
  BY <1>1, TypeArrive
<1>2. CASE Remediate(r)
  BY <1>2, TypeRemediate
<1>3. CASE Step(r)
  <2>1. CASE Read(r)
    BY <2>1, TypeRead
  <2>2. CASE Refuse(r) \/ NoTargetDay(r) \/ ScheduleFails(r)
    BY <2>2, TypeReply DEF Refuse, NoTargetDay, ScheduleFails
  <2> QED BY <1>3, <2>1, <2>2, TypeCommitComplete, TypeCommitReopen, TypeStatus,
             TypeAfterCommit DEF Step
<1>4. CASE Lose(r)
  BY <1>4, TypeReply DEF Lose
<1> QED BY <1>1, <1>2, <1>3, <1>4 DEF By

(***************************************************************************)
(* What a step of request r leaves alone: the handlers and the own rows of *)
(* the other requests, the existence of rows, and of a row everything but  *)
(* its status and minutes (of a session, everything but its deletion).     *)
(***************************************************************************)
SameRow(t, row) ==
  /\ row # None
  /\ row.item = task[t].item /\ row.kind = task[t].kind
  /\ row.day = task[t].day /\ row.from = task[t].from

Frame(r) ==
  /\ \A s \in Reqs \ {r} : req'[s] = req[s]
  /\ \A t \in Existing : SameRow(t, task'[t])
  /\ \A t \in Tasks \ {r} : task[t] = None => task'[t] = None
  /\ \A s \in Reqs : session[s] # None => /\ session'[s] # None
                                          /\ session'[s].task = session[s].task
                                          /\ session'[s].day = session[s].day
                                          /\ session'[s].minutes = session[s].minutes
  /\ \A s \in Reqs \ {r} : session[s] = None => session'[s] = None

\* Writing the status and the minutes of a row.
LEMMA Rewritten ==
  ASSUME Inv0, NEW u \in Existing,
         NEW st \in Statuses, NEW m \in Nat \cup {None}
  PROVE  /\ SameRow(u, [task[u] EXCEPT !.status = st, !.minutes = m])
         /\ SameRow(u, [task[u] EXCEPT !.status = st])
<1>1. task[u] \in TaskRow
  BY DEF Inv0, TypeOK, Existing
<1>2. /\ [task[u] EXCEPT !.status = st, !.minutes = m] \in TaskRow
      /\ [task[u] EXCEPT !.status = st] \in TaskRow
  BY <1>1 DEF TaskRow
<1>3. /\ [task[u] EXCEPT !.status = st, !.minutes = m] # None
      /\ [task[u] EXCEPT !.status = st] # None
  BY <1>2, RowsExist, Zenon
<1> QED BY <1>1, <1>3 DEF SameRow, TaskRow

LEMMA FrameHolds ==
  ASSUME Inv0, NEW r \in Reqs, By(r)
  PROVE  Frame(r) /\ today' = today
<1>1. TypeOK'
  BY TypeBy
<1>2. \A s \in Reqs \ {r} : req'[s] = req[s]
  BY DEF By, Step, Arrive, Remediate, Lose, Read, Refuse, CommitComplete,
         CommitSkip, CommitStart, CommitReopen, CommitReschedule, NoTargetDay,
         ScheduleRevision, ScheduleFails, ComputeStreak, RefreshDigest,
         RecordSnapshot, Reply, Goto, Inv0, TypeOK
<1>3. today' = today
  BY DEF By, Step, Arrive, Remediate, Lose, Read, Refuse, CommitComplete,
         CommitSkip, CommitStart, CommitReopen, CommitReschedule, NoTargetDay,
         ScheduleRevision, ScheduleFails, ComputeStreak, RefreshDigest,
         RecordSnapshot
<1>4. CASE UNCHANGED <<task, session>>
  BY <1>2, <1>3, <1>4 DEF Frame, SameRow, Existing
<1>5. CASE CommitComplete(r)
  <2>1. AtWorkOn(r) /\ session[r] = None
    BY <1>5, AtWork DEF CommitComplete, Active, AtWorkOn, Inv0, HandlersOK, HandlerOK
  <2>2. \A t \in Existing : SameRow(t, task'[t])
    <3> DEFINE u == req[r].in.task
               row == [task[u] EXCEPT !.status = "completed", !.minutes = req[r].in.arg]
    <3>1. task' = [task EXCEPT ![u] = row]
      BY <1>5 DEF CommitComplete
    <3>2. req[r].in.arg \in Nat
      BY <1>5, <2>1, RequestFields DEF CommitComplete, AtWorkOn
    <3>3. SameRow(u, row)
      BY <2>1, <3>2, Rewritten, Zenon DEF AtWorkOn, Statuses
    <3> QED BY <2>1, <3>1, <3>3 DEF SameRow, AtWorkOn, Existing, Inv0, TypeOK
  <2>3. \A t \in Tasks : task[t] = None => task'[t] = None
    BY <1>5, <2>1 DEF CommitComplete, AtWorkOn, Existing, TypeOK, Inv0
  <2>4. \A s \in Reqs \ {r} : session'[s] = session[s]
    BY <1>5 DEF CommitComplete, Book, TypeOK, Inv0
  <2> QED BY <1>2, <1>3, <2>1, <2>2, <2>3, <2>4 DEF Frame
<1>6. CASE CommitSkip(r) \/ CommitStart(r)
  <2>1. AtWorkOn(r)
    BY <1>6, AtWork DEF CommitSkip, CommitStart, Active, AtWorkOn
  <2>2. \A t \in Existing : SameRow(t, task'[t])
    <3> DEFINE u == req[r].in.task
               row(st) == [task[u] EXCEPT !.status = st]
    <3>1. \/ task' = task
          \/ \E st \in Statuses : task' = [task EXCEPT ![u] = row(st)]
      BY <1>6 DEF CommitSkip, CommitStart, Statuses
    <3>2. \A st \in Statuses : SameRow(u, row(st))
      BY <2>1, Rewritten, Zenon DEF AtWorkOn
    <3> HIDE DEF row
    <3> QED BY <2>1, <3>1, <3>2 DEF SameRow, AtWorkOn, Existing, Inv0, TypeOK
  <2>3. \A t \in Tasks : task[t] = None => task'[t] = None
    BY <1>6, <2>1 DEF CommitSkip, CommitStart, AtWorkOn, Existing, TypeOK, Inv0
  <2>4. session' = session
    BY <1>6 DEF CommitSkip, CommitStart
  <2> QED BY <1>2, <1>3, <2>2, <2>3, <2>4 DEF Frame
<1>7. CASE CommitReopen(r)
  <2>1. AtWorkOn(r)
    BY <1>7, AtWork DEF CommitReopen, Active, AtWorkOn
  <2>2. \A t \in Existing : SameRow(t, task'[t])
    <3> DEFINE u == req[r].in.task
               row == [task[u] EXCEPT !.status = "pending", !.minutes = None]
    <3>1. task' = [task EXCEPT ![u] = row]
      BY <1>7 DEF CommitReopen
    <3>2. SameRow(u, row)
      BY <2>1, Rewritten, Zenon DEF AtWorkOn, Statuses
    <3> QED BY <2>1, <3>1, <3>2 DEF SameRow, AtWorkOn, Existing, Inv0, TypeOK
  <2>3. \A t \in Tasks : task[t] = None => task'[t] = None
    BY <1>7, <2>1 DEF CommitReopen, AtWorkOn, Existing, TypeOK, Inv0
  <2>4. \A s \in Reqs : \/ session'[s] = session[s]
                        \/ /\ session[s] # None
                           /\ session'[s] = [session[s] EXCEPT !.live = FALSE]
    BY <1>7 DEF CommitReopen
  <2>5. \A s \in Reqs : session[s] # None => /\ session'[s] # None
                                          /\ session'[s].task = session[s].task
                                          /\ session'[s].day = session[s].day
                                          /\ session'[s].minutes = session[s].minutes
    <3> SUFFICES ASSUME NEW s \in Reqs, session[s] # None,
                        session'[s] = [session[s] EXCEPT !.live = FALSE]
                 PROVE  /\ session'[s] # None
                        /\ session'[s].task = session[s].task
                        /\ session'[s].day = session[s].day
                        /\ session'[s].minutes = session[s].minutes
      BY <2>4
    <3>1. session[s] \in SessionRow
      BY DEF Inv0, TypeOK
    <3>2. session'[s] \in SessionRow
      BY <3>1 DEF SessionRow
    <3> QED BY <3>1, <3>2, RowsExist DEF SessionRow
  <2>6. \A s \in Reqs : session[s] = None => session'[s] = None
    BY <2>4
  <2> QED BY <1>2, <1>3, <2>2, <2>3, <2>5, <2>6 DEF Frame
<1>8. CASE CommitReschedule(r)
  <2>1. AtWorkOn(r)
    BY <1>8, AtWork DEF CommitReschedule, Active, AtWorkOn
  <2>2. \A t \in Existing : SameRow(t, task'[t])
    <3> DEFINE u == req[r].in.task
               row == [task[u] EXCEPT !.status = "rescheduled"]
    <3>1. \A t \in Existing : task'[t] = [task EXCEPT ![u] = row][t]
      BY <1>8, <2>1 DEF CommitReschedule, AtWorkOn, Existing, Inv0, TypeOK
    <3>2. SameRow(u, row)
      BY <2>1, Rewritten, Zenon DEF AtWorkOn, Statuses
    <3> QED BY <2>1, <3>1, <3>2 DEF SameRow, AtWorkOn, Existing, Inv0, TypeOK
  <2>3. \A t \in Tasks \ {r} : task[t] = None => task'[t] = None
    BY <1>8, <2>1 DEF CommitReschedule, AtWorkOn, Existing, TypeOK, Inv0
  <2>4. session' = session
    BY <1>8 DEF CommitReschedule
  <2> QED BY <1>2, <1>3, <2>2, <2>3, <2>4 DEF Frame
<1>9. CASE Remediate(r)
  <2>1. task[r] = None
    BY <1>9 DEF Remediate, Inv0, HandlersOK, HandlerOK
  <2>2. \A t \in Tasks \ {r} : task'[t] = task[t]
    BY <1>9 DEF Remediate, TypeOK, Inv0
  <2>3. \A t \in Existing : task'[t] = task[t]
    BY <2>1, <2>2 DEF Existing
  <2>4. session' = session
    BY <1>9 DEF Remediate
  <2> QED BY <1>2, <1>3, <2>2, <2>3, <2>4 DEF Frame, SameRow, Existing
<1> QED
  BY <1>4, <1>5, <1>6, <1>7, <1>8, <1>9
     DEF By, Step, Arrive, Lose, Read, Refuse, NoTargetDay, ScheduleRevision,
         ScheduleFails, ComputeStreak, RefreshDigest, RecordSnapshot, store

\* The handlers other than r's stay in order.
LEMMA OthersOK ==
  ASSUME Inv0, NEW r \in Reqs, Frame(r), NEW s \in Reqs \ {r}
  PROVE  HandlerOK(s)'
<1>1. /\ req'[s] = req[s]
      /\ \A t \in Existing : task'[t] # None
      /\ s \in Tasks /\ (task[s] = None => task'[s] = None)
      /\ session[s] = None => session'[s] = None
      /\ session[s] # None => session'[s] # None /\ session'[s].task = session[s].task
  BY DEF Frame, SameRow, Tasks
<1>2. HandlerOK(s)
  BY DEF Inv0, HandlersOK
<1> QED BY <1>1, <1>2 DEF HandlerOK, Active, Existing

\* The ways a step moves the handler of r.
LEMMA HandlerMoves ==
  ASSUME Inv0, NEW r \in Reqs, By(r)
  PROVE  \/ req'[r].pc = "done"
         \/ Arrive(r) \/ Read(r) \/ CommitComplete(r)
         \/ /\ req[r].pc \in AfterCommit /\ req'[r].pc \in AfterCommit
            /\ req'[r].in = req[r].in
            /\ UNCHANGED <<task, session>>
<1>1. ASSUME NEW a, Reply(r, a)
      PROVE  req'[r].pc = "done"
  BY <1>1 DEF Reply, Inv0, TypeOK
<1>2. ASSUME NEW label, Goto(r, label)
      PROVE  req'[r].pc = label /\ req'[r].in = req[r].in
  BY <1>2 DEF Goto, Inv0, TypeOK, Handler
<1>3. ASSUME req[r].pc = "scheduled", ComputeStreak(r)
      PROVE  \/ req'[r].pc = "done"
             \/ req'[r].pc = "counted" /\ req'[r].in = req[r].in
  <2>1. CASE Reply(r, "error")
    BY <1>1, <2>1
  <2>2. CASE ~Reply(r, "error")
    BY <1>3, <2>2 DEF ComputeStreak, Inv0, TypeOK, Handler
  <2> QED BY <2>1, <2>2
<1>4. CASE ScheduleRevision(r)
  BY <1>2, <1>4 DEF ScheduleRevision, AfterCommit, store
<1>5. CASE ComputeStreak(r)
  BY <1>3, <1>5 DEF ComputeStreak, AfterCommit, store
<1>6. CASE RefreshDigest(r)
  BY <1>2, <1>6 DEF RefreshDigest, AfterCommit, store
<1>7. CASE \/ Refuse(r) \/ NoTargetDay(r) \/ ScheduleFails(r) \/ CommitSkip(r)
           \/ CommitStart(r) \/ CommitReopen(r) \/ CommitReschedule(r)
           \/ RecordSnapshot(r) \/ Remediate(r) \/ Lose(r)
  BY <1>1, <1>7 DEF Refuse, NoTargetDay, ScheduleFails, CommitSkip,
     CommitStart, CommitReopen, CommitReschedule, RecordSnapshot, Remediate, Lose
<1> QED BY <1>4, <1>5, <1>6, <1>7 DEF By, Step

\* The handler of r stays in order, and its time is not ahead of the clock.
LEMMA OwnOK ==
  ASSUME Inv0, NEW r \in Reqs, By(r), Frame(r), today' = today
  PROVE  HandlerOK(r)' /\ (Active(r)' => req'[r].in.now <= today')
<1>1. HandlerOK(r) /\ (Active(r) => req[r].in.now <= today)
  BY DEF Inv0, HandlersOK, SessionsOK
<1>2. CASE req'[r].pc = "done"
  BY <1>1, <1>2 DEF HandlerOK, Active, AfterCommit
<1>3. CASE Arrive(r)
  <2>1. PICK op \in Ops, t \in Existing : \E arg \in Args(op) :
          req' = [req EXCEPT ![r] =
                     [@ EXCEPT !.pc = "arrived",
                               !.in = [op |-> op, task |-> t, now |-> today, arg |-> arg]]]
    BY <1>3 DEF Arrive
  <2>2. PICK arg \in Args(op) :
          req' = [req EXCEPT ![r] =
                     [@ EXCEPT !.pc = "arrived",
                               !.in = [op |-> op, task |-> t, now |-> today, arg |-> arg]]]
    BY <2>1
  <2> DEFINE q == [op |-> op, task |-> t, now |-> today, arg |-> arg]
  <2>3. q \in Request
    BY Zenon DEF Request, Args, Existing, Inv0, TypeOK, Ops
  <2>4. q.task = t /\ q.now = today
    OBVIOUS
  <2> HIDE DEF q
  <2>5. req'[r].pc = "arrived" /\ req'[r].in = q
    <3>1. req' = [req EXCEPT ![r] = [@ EXCEPT !.pc = "arrived", !.in = q]]
      BY <2>2 DEF q
    <3> QED BY <3>1 DEF Inv0, TypeOK, Handler
  <2>6. task' = task /\ session' = session /\ req[r].pc = "new" /\ today \in Int
    BY <1>3, PlanTasksAssumption DEF Arrive, store, Inv0, TypeOK
  <2> QED BY <1>1, <2>3, <2>4, <2>5, <2>6 DEF HandlerOK, Active, AfterCommit, Existing
<1>4. CASE Read(r)
  <2> DEFINE t == task[req[r].in.task]
  <2>1. t.status \in Statuses \ Refused(req[r].in.op)
    BY <1>4, AtWork DEF Read, Active, AtWorkOn, TaskRow
  <2>2. req'[r].pc = "read" /\ req'[r].in = req[r].in /\ req'[r].seen = t.status
    BY <1>4 DEF Read, Inv0, TypeOK, Handler
  <2>3. task' = task /\ session' = session /\ req[r].pc = "arrived"
    BY <1>4 DEF Read, store
  <2> QED BY <1>1, <2>1, <2>2, <2>3 DEF HandlerOK, Active, AfterCommit, Existing
<1>5. CASE CommitComplete(r)
  <2>1. req'[r].pc = "committed" /\ req'[r].in = req[r].in
    BY <1>5 DEF CommitComplete, Goto, Inv0, TypeOK, Handler
  <2>2. /\ session'[r] # None /\ session'[r].task = req[r].in.task
        /\ req[r].in.op = "complete" /\ req[r].pc = "read"
    <3>1. TypeOK'
      BY <1>5, TypeCommitComplete
    <3> DEFINE s == [task |-> req[r].in.task, day |-> req[r].in.now,
                     minutes |-> req[r].in.arg, live |-> TRUE]
    <3>2. session'[r] = s
      BY <1>5 DEF CommitComplete, Book, Inv0, TypeOK
    <3>3. s \in SessionRow
      <4>1. AtWorkOn(r) /\ req[r].in.op = "complete"
        BY <1>5, AtWork DEF CommitComplete, Active
      <4> QED BY <4>1, RequestFields DEF AtWorkOn, SessionRow
    <3>4. s # None
      BY <3>3, RowsExist, Zenon
    <3>5. req[r].in.op = "complete" /\ req[r].pc = "read"
      BY <1>5 DEF CommitComplete
    <3>6. s.task = req[r].in.task
      OBVIOUS
    <3> HIDE DEF s
    <3> QED BY <3>2, <3>4, <3>5, <3>6
  <2>3. task[r] = None /\ r # req[r].in.task /\ req[r].in.task \in Existing
    BY <1>5, AtWork DEF CommitComplete, Active, AtWorkOn
  <2>4. task'[r] = None /\ task'[req[r].in.task] # None /\ r \in Tasks
    BY <1>5, <2>3 DEF CommitComplete, Inv0, TypeOK, Tasks, Frame, SameRow
  <2> QED BY <1>1, <2>1, <2>2, <2>3, <2>4 DEF HandlerOK, Active, AfterCommit, Existing
<1>6. CASE /\ req[r].pc \in AfterCommit /\ req'[r].pc \in AfterCommit
           /\ req'[r].in = req[r].in
           /\ UNCHANGED <<task, session>>
  BY <1>1, <1>6 DEF HandlerOK, Active, AfterCommit, Existing
<1> QED BY <1>2, <1>3, <1>4, <1>5, <1>6, HandlerMoves

\* The session r books is the one its request asks for.
LEMMA NewSession ==
  ASSUME Inv0, NEW r \in Reqs, By(r), session[r] = None, session'[r] # None
  PROVE  /\ CommitComplete(r)
         /\ session'[r] = [task |-> req[r].in.task, day |-> req[r].in.now,
                           minutes |-> req[r].in.arg, live |-> TRUE]
<1>1. ~CommitReopen(r)
  BY DEF CommitReopen, Inv0, TypeOK
<1>2. CommitComplete(r)
  BY <1>1 DEF By, Step, Arrive, Remediate, Lose, Read, Refuse,
         CommitSkip, CommitStart, CommitReschedule, NoTargetDay,
         ScheduleRevision, ScheduleFails, ComputeStreak, RefreshDigest,
         RecordSnapshot, store
<1> QED BY <1>2 DEF CommitComplete, Book, Inv0, TypeOK

LEMMA SessionsStep ==
  ASSUME Inv0, NEW r \in Reqs, By(r), Frame(r), today' = today
  PROVE  SessionsOK'
<1>1. ASSUME NEW s \in Reqs, session[s] # None
      PROVE  session'[s].task \in Existing' /\ session'[s].day <= today'
  <2>1. session[s].task \in Existing /\ session[s].day <= today
    BY <1>1 DEF Inv0, SessionsOK
  <2> QED BY <1>1, <2>1 DEF Frame, SameRow, Existing
<1>2. ASSUME NEW s \in Reqs, session[s] = None, session'[s] # None
      PROVE  session'[s].task \in Existing' /\ session'[s].day <= today'
  <2>1. s = r
    BY <1>2 DEF Frame
  <2>2. /\ CommitComplete(r)
        /\ session'[r].task = req[r].in.task /\ session'[r].day = req[r].in.now
    <3>1. session[r] = None /\ session'[r] # None
      BY <1>2, <2>1
    <3>2. CommitComplete(r)
      BY <3>1, NewSession
    <3>3. session'[r] = [task |-> req[r].in.task, day |-> req[r].in.now,
                         minutes |-> req[r].in.arg, live |-> TRUE]
      BY <3>1, NewSession
    <3> QED BY <3>2, <3>3
  <2>3. req[r].in.task \in Existing /\ req[r].in.now <= today
    BY <2>2, AtWork DEF CommitComplete, Active, AtWorkOn, Inv0, SessionsOK
  <2> QED BY <2>1, <2>2, <2>3 DEF Frame, SameRow, Existing
<1>3. ASSUME NEW s \in Reqs, Active(s)'
      PROVE  req'[s].in.now <= today'
  <2>1. CASE s = r
    BY <1>3, <2>1, OwnOK
  <2>2. CASE s # r
    BY <1>3, <2>2 DEF Frame, Active, Inv0, SessionsOK
  <2> QED BY <2>1, <2>2
<1> QED BY <1>1, <1>2, <1>3 DEF SessionsOK

\* Inv0 is inductive.
LEMMA Inv0Step == Inv0 /\ [Next]_vars => Inv0'
<1> SUFFICES ASSUME Inv0, [Next]_vars PROVE Inv0'
  OBVIOUS
<1>1. ASSUME NEW r \in Reqs, By(r)
      PROVE  Inv0'
  <2>1. TypeOK'
    BY <1>1, TypeBy
  <2>2. Frame(r) /\ today' = today
    BY <1>1, FrameHolds
  <2>3. HandlersOK'
    BY <1>1, <2>2, OthersOK, OwnOK DEF HandlersOK
  <2>4. SessionsOK'
    BY <1>1, <2>2, SessionsStep
  <2> QED BY <2>1, <2>3, <2>4 DEF Inv0
<1>2. CASE NextDay
  <2>1. TypeOK'
    BY <1>2 DEF NextDay, Inv0, TypeOK, store, effects
  <2>2. HandlersOK'
    BY <1>2 DEF NextDay, Inv0, HandlersOK, HandlerOK, Active, Existing, store
  <2>3. SessionsOK'
    <3>1. /\ today \in Int /\ today' = today + 1
          /\ \A s \in Reqs : Active(s) => req[s].in.now \in Int
          /\ \A s \in Reqs : session[s] # None => session[s].day \in Int
      BY <1>2, PlanTasksAssumption, AtWork, RequestFields
         DEF NextDay, Inv0, TypeOK, AtWorkOn, SessionRow
    <3>2. UNCHANGED <<task, session, req>>
      BY <1>2 DEF NextDay, store
    <3> QED BY <3>1, <3>2 DEF Inv0, SessionsOK, Active, Existing
  <2> QED BY <2>1, <2>2, <2>3 DEF Inv0
<1>3. CASE UNCHANGED vars
  BY <1>3 DEF vars, store, effects, Inv0, TypeOK, HandlersOK, HandlerOK,
              SessionsOK, Active, Existing
<1> QED BY <1>1, <1>2, <1>3 DEF Next, By

LEMMA Inv0Holds == Spec => []Inv0
BY TypeInit, Inv0Step, PTL DEF Spec, Inv0

\* Every reachable state is well-typed, for any plan, any number of requests
\* and any interleaving of their steps.
THEOREM TypeCorrect == Spec => []TypeOK
BY Inv0Holds, PTL DEF Inv0

(***************************************************************************)
(* The safety invariants, each inductive relative to Inv0: its step lemma  *)
(* looks only at the actions that write the rows it speaks of.             *)
(***************************************************************************)
\* The rows of the store are written by six actions only.
Quiet(r) == UNCHANGED <<task, session, planMinutes, streak, progress>>

LEMMA Writers ==
  ASSUME NEW r \in Reqs, By(r)
  PROVE  \/ CommitComplete(r) \/ CommitSkip(r) \/ CommitStart(r)
         \/ CommitReopen(r) \/ CommitReschedule(r) \/ Remediate(r)
         \/ Quiet(r)
BY DEF By, Step, Arrive, Lose, Read, Refuse, NoTargetDay, ScheduleRevision,
       ScheduleFails, ComputeStreak, RefreshDigest, RecordSnapshot, store, Quiet

\* A row that is completed after a step was completed before it and the step
\* was not its reopening, or the step is its completion.
LEMMA CompletedAfter ==
  ASSUME Inv0, NEW r \in Reqs, By(r),
         NEW t \in Existing', task'[t].status = "completed"
  PROVE  \/ /\ t \in Existing /\ task'[t] = task[t]
            /\ ~(CommitReopen(r) /\ req[r].in.task = t)
         \/ /\ CommitComplete(r) /\ t = req[r].in.task
            /\ t \in Existing /\ task'[t].minutes = req[r].in.arg
<1> DEFINE u == req[r].in.task
<1>1. t \in Tasks /\ task'[t] # None
  BY DEF Existing
<1>2. CASE CommitComplete(r)
  <2>1. AtWorkOn(r)
    BY <1>2, AtWork DEF CommitComplete, Active
  <2>2. CASE t # u
    BY <1>1, <1>2, <2>2 DEF CommitComplete, CommitReopen, Existing, Inv0, TypeOK
  <2>3. CASE t = u
    BY <1>1, <1>2, <2>1, <2>3 DEF CommitComplete, AtWorkOn, Inv0, TypeOK, TaskRow
  <2> QED BY <2>2, <2>3
<1>3. CASE CommitSkip(r) \/ CommitStart(r) \/ CommitReopen(r)
  <2>1. AtWorkOn(r)
    BY <1>3, AtWork DEF CommitSkip, CommitStart, CommitReopen, Active
  <2>2. CASE t # u
    BY <1>1, <1>3, <2>2
       DEF CommitSkip, CommitStart, CommitReopen, Existing, Inv0, TypeOK
  <2>3. CASE t = u
    <3> PICK row : row = task[u]
      OBVIOUS
    <3>4. row \in TaskRow /\ u \in Tasks /\ task \in [Tasks -> TaskRow \cup {None}]
      BY <2>1 DEF AtWorkOn, Inv0, TypeOK, Existing
    <3>5. ASSUME CommitSkip(r) PROVE FALSE
      <4>1. task'[u].status = "skipped"
        BY <3>4, <3>5 DEF CommitSkip, TaskRow
      <4> QED BY <2>3, <4>1
    <3>6. ASSUME CommitReopen(r) PROVE FALSE
      <4>1. task'[u].status = "pending"
        BY <3>4, <3>6 DEF CommitReopen, TaskRow
      <4> QED BY <2>3, <4>1
    <3>1. ~CommitSkip(r) /\ ~CommitReopen(r)
      BY <3>5, <3>6
    <3>2. task' = task
      BY <1>3, <2>1, <2>3, <3>1 DEF CommitStart, AtWorkOn, Inv0, TypeOK, TaskRow
    <3> QED BY <1>1, <3>1, <3>2 DEF Existing
  <2> QED BY <2>2, <2>3
<1>4. CASE CommitReschedule(r)
  <2>1. AtWorkOn(r) /\ r \in Tasks
    BY <1>4, AtWork DEF CommitReschedule, Active, Tasks
  <2>2. CASE t # u /\ t # r
    BY <1>1, <1>4, <2>2 DEF CommitReschedule, CommitReopen, Existing, Inv0, TypeOK
  <2>3. CASE t = r
    BY <1>4, <2>1, <2>3 DEF CommitReschedule, Inv0, TypeOK, Row
  <2>4. CASE t = u /\ t # r
    BY <1>4, <2>1, <2>4 DEF CommitReschedule, AtWorkOn, Inv0, TypeOK, TaskRow
  <2> QED BY <2>2, <2>3, <2>4
<1>5. CASE Remediate(r)
  <2>1. CASE t = r
    BY <1>1, <1>5, <2>1 DEF Remediate, Inv0, TypeOK, Row, HandlersOK, HandlerOK
  <2>2. CASE t # r
    BY <1>1, <1>5, <2>2 DEF Remediate, CommitReopen, Inv0, TypeOK, Existing
  <2> QED BY <2>1, <2>2
<1>6. CASE Quiet(r) /\ ~CommitReopen(r)
  BY <1>1, <1>6 DEF Quiet, Existing
<1> QED BY <1>2, <1>3, <1>4, <1>5, <1>6, Writers

\* Only the reopening of its task touches a session.
LEMMA SessionKept ==
  ASSUME Inv0, NEW r \in Reqs, By(r), NEW s \in Reqs, session[s] # None,
         ~(CommitReopen(r) /\ req[r].in.task = session[s].task)
  PROVE  session'[s] = session[s]
<1>1. CASE CommitComplete(r)
  BY <1>1 DEF CommitComplete, Book, Inv0, TypeOK, HandlersOK, HandlerOK
<1>2. CASE CommitReopen(r)
  BY <1>2 DEF CommitReopen
<1>3. CASE session' = session
  BY <1>3
<1> QED
  BY <1>1, <1>2, <1>3, Writers
     DEF CommitSkip, CommitStart, CommitReschedule, Remediate, Quiet

\* A completion books a live session with the minutes it puts on the task.
LEMMA Booked ==
  ASSUME Inv0, NEW r \in Reqs, CommitComplete(r)
  PROVE  /\ session'[r] # None /\ session'[r].live
         /\ session'[r].task = req[r].in.task
         /\ session'[r].minutes = req[r].in.arg
         /\ session'[r].day = req[r].in.now
<1> DEFINE s == [task |-> req[r].in.task, day |-> req[r].in.now,
                 minutes |-> req[r].in.arg, live |-> TRUE]
<1>1. AtWorkOn(r) /\ req[r].in.op = "complete"
  BY AtWork DEF CommitComplete, Active
<1>2. s \in SessionRow
  BY <1>1, RequestFields DEF AtWorkOn, SessionRow
<1>3. s # None
  BY <1>2, RowsExist, Zenon
<1>4. session'[r] = s
  BY DEF CommitComplete, Book, Inv0, TypeOK
<1> QED BY <1>3, <1>4

LEMMA CompletedHasSessionStep ==
  ASSUME Inv0, NEW r \in Reqs, By(r), CompletedHasSession
  PROVE  CompletedHasSession'
<1> SUFFICES ASSUME NEW t \in Existing', task'[t].status = "completed"
             PROVE  \E s \in Reqs : /\ session'[s] # None /\ session'[s].live
                                    /\ session'[s].task = t
                                    /\ session'[s].minutes = task'[t].minutes
  BY DEF CompletedHasSession, LiveSessions, CompletesTask
<1>1. CASE /\ t \in Existing /\ task'[t] = task[t]
           /\ ~(CommitReopen(r) /\ req[r].in.task = t)
  <2>1. PICK s \in Reqs : /\ session[s] # None /\ session[s].live
                          /\ session[s].task = t
                          /\ session[s].minutes = task[t].minutes
    BY <1>1 DEF CompletedHasSession, LiveSessions, CompletesTask
  <2>2. session'[s] = session[s]
    BY <1>1, <2>1, SessionKept
  <2> QED BY <1>1, <2>1, <2>2
<1>2. CASE /\ CommitComplete(r) /\ t = req[r].in.task
           /\ t \in Existing /\ task'[t].minutes = req[r].in.arg
  BY <1>2, Booked
<1> QED BY <1>1, <1>2, CompletedAfter

\* Whatever requests race on a task, a completed one has a session that was
\* not deleted, with the task's minutes (CompleteTask, ReopenTask).
THEOREM CompletedHasSessionHolds == Spec => []CompletedHasSession
<1>1. Init => CompletedHasSession
  BY PlanTasksAssumption DEF Init, CompletedHasSession, Existing, Row
<1>2. Inv0 /\ CompletedHasSession /\ [Next]_vars => CompletedHasSession'
  <2> SUFFICES ASSUME Inv0, CompletedHasSession, [Next]_vars
               PROVE  CompletedHasSession'
    OBVIOUS
  <2>1. CASE NextDay \/ UNCHANGED vars
    BY <2>1 DEF NextDay, vars, store, CompletedHasSession, LiveSessions,
                CompletesTask, Existing
  <2> QED BY <2>1, CompletedHasSessionStep DEF Next, By
<1> QED BY <1>1, <1>2, Inv0Holds, PTL DEF Spec

\* Progress is never taken back, and a completion completes its item.
LEMMA ProgressGrows ==
  ASSUME Inv0, NEW r \in Reqs, By(r), NEW i \in Items
  PROVE  /\ progress[i].completed => progress'[i].completed
         /\ CommitComplete(r) /\ i = task[req[r].in.task].item /\ Tracked(i)
              => progress'[i].completed
<1>1. CASE CommitComplete(r)
  <2> DEFINE j == task[req[r].in.task].item
             p == [completed |-> TRUE,
                   attempts |-> IF ItemType[j] = "problem"
                                THEN progress[j].attempts + 1
                                ELSE progress[j].attempts,
                   minutes |-> progress[j].minutes + req[r].in.arg]
  <2>1. CASE ~Tracked(j)
    BY <1>1, <2>1 DEF CommitComplete, UpsertProgress
  <2>2. CASE Tracked(j)
    <3>1. progress' = [progress EXCEPT ![j] = p]
      BY <1>1, <2>2 DEF CommitComplete, UpsertProgress
    <3>2. p.completed
      OBVIOUS
    <3> HIDE DEF p
    <3> QED BY <3>1, <3>2 DEF Inv0, TypeOK
  <2> QED BY <2>1, <2>2
<1>2. CASE progress' = progress /\ ~CommitComplete(r)
  BY <1>2
<1>3. ~CommitComplete(r) => progress' = progress
  BY Writers DEF CommitSkip, CommitStart, CommitReopen, CommitReschedule,
                 Remediate, Quiet
<1> QED BY <1>1, <1>2, <1>3

\* The topic of a completed task counts as completed (upsertProgress).
THEOREM CompletedHasProgressHolds == Spec => []CompletedHasProgress
<1>1. Init => CompletedHasProgress
  BY PlanTasksAssumption DEF Init, CompletedHasProgress, Existing, Row
<1>2. Inv0 /\ CompletedHasProgress /\ [Next]_vars => CompletedHasProgress'
  <2> SUFFICES ASSUME Inv0, CompletedHasProgress, [Next]_vars
               PROVE  CompletedHasProgress'
    OBVIOUS
  <2>1. CASE NextDay \/ UNCHANGED vars
    BY <2>1 DEF NextDay, vars, store, CompletedHasProgress, Existing
  <2>2. ASSUME NEW r \in Reqs, By(r)
        PROVE  CompletedHasProgress'
    <3> SUFFICES ASSUME NEW t \in Existing', task'[t].status = "completed",
                        ItemType[task'[t].item] = "topic"
                 PROVE  progress'[task'[t].item].completed
      BY DEF CompletedHasProgress
    <3>1. t \in Existing /\ task'[t].item = task[t].item /\ task[t].item \in Items
      BY <2>2, CompletedAfter, FrameHolds
         DEF Frame, SameRow, Existing, Inv0, TypeOK, TaskRow
    <3>2. CASE task'[t] = task[t]
      BY <2>2, <3>1, <3>2, ProgressGrows DEF CompletedHasProgress
    <3>3. CASE CommitComplete(r) /\ t = req[r].in.task
      BY <2>2, <3>1, <3>3, ProgressGrows DEF Tracked
    <3> QED BY <2>2, <3>2, <3>3, CompletedAfter
  <2> QED BY <2>1, <2>2 DEF Next, By
<1> QED BY <1>1, <1>2, Inv0Holds, PTL DEF Spec

(***************************************************************************)
(* The streak rows.                                                        *)
(***************************************************************************)
\* What a step may do to the streak row of a day.
LEMMA StreakRowStep ==
  ASSUME Inv0, NEW r \in Reqs, By(r), NEW d \in Dates
  PROVE  \/ streak'[d] = streak[d] /\ ~(CommitComplete(r) /\ d = req[r].in.now)
         \/ /\ CommitComplete(r) /\ d = req[r].in.now
            /\ streak'[d] # None /\ streak'[d] \in StreakRow
            /\ streak'[d].goal = (streak'[d].minutes >= DailyGoal)
         \/ /\ streak[d] # None /\ streak'[d] # None
            /\ streak[d] \in StreakRow /\ streak'[d] \in StreakRow
            /\ streak'[d].tasks <= streak[d].tasks
            /\ streak'[d].minutes <= streak[d].minutes
            /\ streak'[d].goal = (streak'[d].tasks > 0 /\ streak[d].goal)
<1>1. TypeOK'
  BY TypeBy
<1>2. CASE CommitComplete(r)
  <2> DEFINE now == req[r].in.now
             before == IF streak[now] = None
                       THEN [tasks |-> 0, minutes |-> 0, goal |-> FALSE]
                       ELSE streak[now]
             after == [tasks |-> before.tasks + 1,
                       minutes |-> before.minutes + req[r].in.arg,
                       goal |-> before.minutes + req[r].in.arg >= DailyGoal]
  <2>1. now \in Dates /\ req[r].in.arg \in Nat
    BY <1>2, AtWork, RequestFields DEF CommitComplete, Active, AtWorkOn
  <2>2. streak' = [streak EXCEPT ![now] = after]
    BY <1>2 DEF CommitComplete, UpsertStreakDay
  <2>3. after.goal = (after.minutes >= DailyGoal)
    OBVIOUS
  <2>4. after \in StreakRow
    <3>1. before \in StreakRow
      BY <2>1 DEF Inv0, TypeOK, StreakRow
    <3> QED BY <2>1, <3>1 DEF StreakRow
  <2>5. after # None
    BY <2>4, RowsExist, Zenon
  <2> HIDE DEF after
  <2> QED BY <1>2, <2>1, <2>2, <2>3, <2>4, <2>5 DEF Inv0, TypeOK
<1>3. CASE CommitReopen(r)
  <2> DEFINE now == req[r].in.now
             spent == IF req[r].seenMinutes = None THEN 0 ELSE req[r].seenMinutes
             s == streak[now]
             after == [tasks |-> SubFloor(s.tasks, 1),
                       minutes |-> SubFloor(s.minutes, spent),
                       goal |-> SubFloor(s.tasks, 1) > 0 /\ s.goal]
  <2>1. now \in Dates /\ spent \in Nat
    BY <1>3, AtWork, RequestFields DEF CommitReopen, Active, AtWorkOn, Inv0,
       TypeOK, Handler
  <2>2. \/ streak' = streak
        \/ s # None /\ streak' = [streak EXCEPT ![now] = after]
    BY <1>3 DEF CommitReopen, ReverseStreakDay
  <2>3. CASE s # None /\ streak' = [streak EXCEPT ![now] = after]
    <3>1. s \in StreakRow
      BY <2>1, <2>3 DEF Inv0, TypeOK
    <3>2. /\ after \in StreakRow
          /\ after.tasks <= s.tasks /\ after.minutes <= s.minutes
          /\ after.goal = (after.tasks > 0 /\ s.goal)
      BY <2>1, <3>1, SubFloorNat DEF StreakRow
    <3>3. after # None
      BY <3>2, RowsExist, Zenon
    <3>4. ~CommitComplete(r)
      BY <1>3 DEF CommitReopen, CommitComplete
    <3> HIDE DEF after
    <3> QED BY <2>1, <2>3, <3>1, <3>2, <3>3, <3>4 DEF Inv0, TypeOK
  <2>4. ~CommitComplete(r)
    BY <1>3 DEF CommitReopen, CommitComplete
  <2> QED BY <2>2, <2>3, <2>4
<1>4. ~CommitComplete(r) /\ ~CommitReopen(r) => streak' = streak
  BY Writers DEF CommitSkip, CommitStart, CommitReschedule, Remediate, Quiet
<1> QED BY <1>2, <1>3, <1>4

\* The day of every session has a streak row, of one that was deleted too:
\* what an answer counts on, which looks at the rows after its own session may
\* have been reopened.
BookedDayHasRow ==
  \A r \in Reqs : session[r] # None => streak[session[r].day] # None

LEMMA BookedDayHasRowHolds == Spec => []BookedDayHasRow
<1>1. Init => BookedDayHasRow
  BY DEF Init, BookedDayHasRow
<1>2. Inv0 /\ BookedDayHasRow /\ [Next]_vars => BookedDayHasRow'
  <2> SUFFICES ASSUME Inv0, BookedDayHasRow, [Next]_vars
               PROVE  BookedDayHasRow'
    OBVIOUS
  <2>1. CASE NextDay \/ UNCHANGED vars
    BY <2>1 DEF NextDay, vars, store, BookedDayHasRow
  <2>2. ASSUME NEW r \in Reqs, By(r), NEW s \in Reqs, session'[s] # None
        PROVE  streak'[session'[s].day] # None
    <3>1. CASE session[s] # None
      <4>1. session'[s].day = session[s].day /\ session[s].day \in Dates
        BY <2>2, <3>1, FrameHolds DEF Frame, Inv0, TypeOK, SessionRow
      <4>2. streak[session[s].day] # None
        BY <3>1 DEF BookedDayHasRow
      <4> QED BY <2>2, <4>1, <4>2, StreakRowStep
    <3>2. CASE session[s] = None
      <4>1. s = r
        BY <2>2, <3>2, FrameHolds DEF Frame
      <4>2. CommitComplete(r)
        BY <2>2, <3>2, <4>1, NewSession
      <4>3. session'[r].day = req[r].in.now
        BY <4>2, Booked
      <4>4. req[r].in.now \in Dates
        BY <4>2, AtWork, RequestFields DEF CommitComplete, Active, AtWorkOn
      <4> QED BY <2>2, <4>1, <4>2, <4>3, <4>4, StreakRowStep
    <3> QED BY <3>1, <3>2
  <2> QED BY <2>1, <2>2 DEF Next, By, BookedDayHasRow
<1> QED BY <1>1, <1>2, Inv0Holds, PTL DEF Spec

\* A day with tasks left and enough minutes is marked as meeting the goal
\* (upsertStreakDay, ReopenTask).
THEOREM GoalMetIsMarkedHolds == Spec => []GoalMetIsMarked
<1>1. Init => GoalMetIsMarked
  BY DEF Init, GoalMetIsMarked
<1>2. Inv0 /\ GoalMetIsMarked /\ [Next]_vars => GoalMetIsMarked'
  <2> SUFFICES ASSUME Inv0, GoalMetIsMarked, [Next]_vars
               PROVE  GoalMetIsMarked'
    OBVIOUS
  <2>1. CASE NextDay \/ UNCHANGED vars
    BY <2>1 DEF NextDay, vars, store, GoalMetIsMarked
  <2>2. ASSUME NEW r \in Reqs, By(r), NEW d \in Dates, streak'[d] # None,
               streak'[d].tasks > 0, streak'[d].minutes >= DailyGoal
        PROVE  streak'[d].goal
    <3>1. CASE streak'[d] = streak[d]
      BY <2>2, <3>1 DEF GoalMetIsMarked
    <3>2. CASE streak'[d].goal = (streak'[d].minutes >= DailyGoal)
      BY <2>2, <3>2
    <3>3. CASE /\ streak[d] # None /\ streak'[d] # None
               /\ streak[d] \in StreakRow /\ streak'[d] \in StreakRow
               /\ streak'[d].tasks <= streak[d].tasks
               /\ streak'[d].minutes <= streak[d].minutes
               /\ streak'[d].goal = (streak'[d].tasks > 0 /\ streak[d].goal)
      <4>1. streak[d].tasks > 0 /\ streak[d].minutes >= DailyGoal
        BY <2>2, <3>3, PlanTasksAssumption DEF StreakRow
      <4> QED BY <2>2, <3>3, <4>1 DEF GoalMetIsMarked
    <3> QED BY <2>2, <3>1, <3>2, <3>3, StreakRowStep
  <2> QED BY <2>1, <2>2 DEF Next, By, GoalMetIsMarked
<1> QED BY <1>1, <1>2, Inv0Holds, PTL DEF Spec

(***************************************************************************)
(* Moving and scheduling.                                                  *)
(***************************************************************************)
\* A row that is rescheduled after a step was so before, or the step moved it
\* and inserted its clone.
LEMMA MovedAfter ==
  ASSUME Inv0, NEW r \in Reqs, By(r),
         NEW t \in Existing', task'[t].status = "rescheduled"
  PROVE  \/ t \in Existing /\ task[t].status = "rescheduled"
         \/ /\ t \in Existing /\ r \in Existing'
            /\ task'[r].from = t /\ task'[r].item = task[t].item
<1> DEFINE u == req[r].in.task
<1>1. t \in Tasks /\ task'[t] # None
  BY DEF Existing
<1>2. CASE CommitComplete(r) \/ CommitSkip(r) \/ CommitStart(r) \/ CommitReopen(r)
  <2>1. AtWorkOn(r)
    BY <1>2, AtWork DEF CommitComplete, CommitSkip, CommitStart, CommitReopen, Active
  <2>2. CASE t # u
    BY <1>1, <1>2, <2>2 DEF CommitComplete, CommitSkip, CommitStart,
                            CommitReopen, Existing, Inv0, TypeOK
  <2>3. CASE t = u /\ ~CommitStart(r)
    <3>1. ASSUME CommitComplete(r) PROVE FALSE
      <4>1. task'[u] = [task[u] EXCEPT !.status = "completed", !.minutes = req[r].in.arg]
        BY <2>1, <3>1 DEF CommitComplete, AtWorkOn, Inv0, TypeOK
      <4> QED BY <2>1, <2>3, <4>1 DEF AtWorkOn, TaskRow
    <3>2. ~CommitSkip(r)
      BY <2>1, <2>3 DEF CommitSkip, AtWorkOn, Inv0, TypeOK, TaskRow
    <3>3. ~CommitReopen(r)
      BY <2>1, <2>3 DEF CommitReopen, AtWorkOn, Inv0, TypeOK, TaskRow
    <3> QED BY <1>2, <2>3, <3>1, <3>2, <3>3
  <2>4. CASE t = u /\ CommitStart(r)
    BY <2>1, <2>4 DEF CommitStart, AtWorkOn, Inv0, TypeOK, TaskRow
  <2> QED BY <2>2, <2>3, <2>4
<1>3. CASE CommitReschedule(r)
  <2>1. AtWorkOn(r) /\ r \in Tasks
    BY <1>3, AtWork DEF CommitReschedule, Active, Tasks
  <2> DEFINE new == Row(task[u].item, task[u].kind, req[r].in.arg, u)
  <2>2. task'[r] = new
    BY <1>3, <2>1 DEF CommitReschedule, AtWorkOn, Inv0, TypeOK
  <2>3. new.from = u /\ new.item = task[u].item /\ new.status = "pending"
    BY DEF Row
  <2>4. new # None
    <3>1. /\ task[u].item \in Items /\ task[u].kind \in Kinds
          /\ req[r].in.arg \in PlanDates /\ u \in Tasks
      BY <1>3, <2>1 DEF CommitReschedule, AtWorkOn, TaskRow
    <3> HIDE DEF u
    <3>2. new \in TaskRow
      BY <3>1, RowType, Zenon
    <3> QED BY <3>2, RowsExist, Zenon
  <2>5. CASE t # u
    <3>1. t # r
      <4> HIDE DEF new
      <4> QED BY <2>2, <2>3
    <3> QED BY <1>1, <1>3, <2>5, <3>1 DEF CommitReschedule, Existing, Inv0, TypeOK
  <2>6. CASE t = u
    BY <2>1, <2>2, <2>3, <2>4, <2>6 DEF Existing, AtWorkOn
  <2> QED BY <2>5, <2>6
<1>4. CASE Remediate(r)
  <2>1. CASE t = r
    BY <1>1, <1>4, <2>1 DEF Remediate, Inv0, TypeOK, Row, HandlersOK, HandlerOK
  <2>2. CASE t # r
    BY <1>1, <1>4, <2>2 DEF Remediate, Inv0, TypeOK, Existing
  <2> QED BY <2>1, <2>2
<1>5. CASE Quiet(r)
  BY <1>1, <1>5 DEF Quiet, Existing
<1> QED BY <1>2, <1>3, <1>4, <1>5, Writers

\* A rescheduled task has a clone for the same item (RescheduleTask).
THEOREM MovedHasCloneHolds == Spec => []MovedHasClone
<1>1. Init => MovedHasClone
  BY PlanTasksAssumption DEF Init, MovedHasClone, Existing, Row
<1>2. Inv0 /\ MovedHasClone /\ [Next]_vars => MovedHasClone'
  <2> SUFFICES ASSUME Inv0, MovedHasClone, [Next]_vars
               PROVE  MovedHasClone'
    OBVIOUS
  <2>1. CASE NextDay \/ UNCHANGED vars
    BY <2>1 DEF NextDay, vars, store, MovedHasClone, Existing
  <2>2. ASSUME NEW r \in Reqs, By(r),
               NEW t \in Existing', task'[t].status = "rescheduled"
        PROVE  \E c \in Existing' : task'[c].from = t /\ task'[c].item = task'[t].item
    <3>1. CASE t \in Existing /\ task[t].status = "rescheduled"
      <4>1. PICK c \in Existing : task[c].from = t /\ task[c].item = task[t].item
        BY <3>1 DEF MovedHasClone
      <4> QED BY <2>2, <3>1, <4>1, FrameHolds DEF Frame, SameRow, Existing
    <3>2. CASE /\ t \in Existing /\ r \in Existing'
               /\ task'[r].from = t /\ task'[r].item = task[t].item
      BY <2>2, <3>2, FrameHolds DEF Frame, SameRow
    <3> QED BY <2>2, <3>1, <3>2, MovedAfter
  <2> QED BY <2>1, <2>2 DEF Next, By, MovedHasClone
<1> QED BY <1>1, <1>2, Inv0Holds, PTL DEF Spec

\* A handler that has answered does nothing more.
Answered == \A r \in Reqs : req[r].reply # "none" => req[r].pc = "done"

LEMMA AnsweredHolds == Spec => []Answered
<1>1. Init => Answered
  BY DEF Init, Answered
<1>2. Inv0 /\ Answered /\ [Next]_vars => Answered'
  <2> SUFFICES ASSUME Inv0, Answered, [Next]_vars PROVE Answered'
    OBVIOUS
  <2>1. CASE NextDay \/ UNCHANGED vars
    BY <2>1 DEF NextDay, vars, Answered
  <2>2. ASSUME NEW r \in Reqs, By(r), NEW s \in Reqs, req'[s].reply # "none"
        PROVE  req'[s].pc = "done"
    <3>1. CASE s # r
      BY <2>2, <3>1, FrameHolds DEF Frame, Answered
    <3>2. CASE s = r
      <4>1. req[r].pc # "done"
        BY <2>2 DEF By, Step, Arrive, Remediate, Lose, Active, Read, Refuse,
           CommitComplete, CommitSkip, CommitStart, CommitReopen,
           CommitReschedule, NoTargetDay, ScheduleRevision, ScheduleFails,
           ComputeStreak, RefreshDigest, RecordSnapshot
      <4>2. req[r].reply = "none"
        BY <4>1 DEF Answered
      <4>3. ASSUME NEW a, Reply(r, a) PROVE req'[r].pc = "done"
        BY <4>3 DEF Reply, Inv0, TypeOK
      <4>4. ASSUME NEW label, Goto(r, label) PROVE req'[r].reply = "none"
        BY <4>2, <4>4 DEF Goto, Inv0, TypeOK, Handler
      <4>5. ASSUME Arrive(r) PROVE req'[r].reply = "none"
        BY <4>2, <4>5 DEF Arrive, Inv0, TypeOK, Handler
      <4>6. ASSUME Read(r) PROVE req'[r].reply = "none"
        BY <4>2, <4>6 DEF Read, Inv0, TypeOK, Handler
      <4>7. ASSUME ComputeStreak(r), ~Reply(r, "error") PROVE req'[r].reply = "none"
        BY <4>2, <4>7 DEF ComputeStreak, Inv0, TypeOK, Handler
      <4> QED
        BY <2>2, <3>2, <4>3, <4>4, <4>5, <4>6, <4>7
           DEF By, Step, Remediate, Lose, Refuse, CommitComplete, CommitSkip,
               CommitStart, CommitReopen, CommitReschedule, NoTargetDay,
               ScheduleRevision, ScheduleFails, RefreshDigest, RecordSnapshot
    <3> QED BY <3>1, <3>2
  <2> QED BY <2>1, <2>2 DEF Next, By, Answered
<1> QED BY <1>1, <1>2, Inv0Holds, PTL DEF Spec

\* A revision row appears only by the scheduling of its item's completion.
LEMMA RevisionStep ==
  ASSUME Inv0, NEW r \in Reqs, By(r), NEW i \in Items
  PROVE  \/ revision'[i] = revision[i] /\ ~(ScheduleRevision(r) /\ Learns(r)
                          /\ i = task[req[r].in.task].item /\ revision[i] = None)
         \/ /\ ScheduleRevision(r) /\ i = task[req[r].in.task].item
            /\ revision'[i] = today + 1 /\ revision'[i] # None
<1>1. CASE ScheduleRevision(r)
  <2>1. today + 1 # None
    BY PlanTasksAssumption DEF Inv0, TypeOK
  <2> QED BY <1>1, <2>1 DEF ScheduleRevision, DueAt, Inv0, TypeOK
<1>2. ~ScheduleRevision(r) => revision' = revision
  BY DEF By, Step, Arrive, Remediate, Lose, Read, Refuse, CommitComplete,
         CommitSkip, CommitStart, CommitReopen, CommitReschedule, NoTargetDay,
         ScheduleFails, ComputeStreak, RefreshDigest, RecordSnapshot, effects
<1> QED BY <1>1, <1>2

LEMMA UnscheduledStep ==
  ASSUME Inv0, Answered, NEW r \in Reqs, By(r), UnscheduledHasReason
  PROVE  UnscheduledHasReason'
<1> SUFFICES ASSUME NEW t \in Existing', task'[t].status = "completed",
                    Revisable(task'[t].kind, task'[t].item),
                    revision'[task'[t].item] = None
             PROVE  \E s \in Reqs :
                      /\ session'[s] # None /\ session'[s].task = t
                      /\ req'[s].pc = "committed" \/ req'[s].reply \in {"error", "lost"}
  BY DEF UnscheduledHasReason, CompletesTask, Revisable
<1>1. CASE CommitComplete(r) /\ t = req[r].in.task
  <2>1. req'[r].pc = "committed"
    BY <1>1 DEF CommitComplete, Goto, Inv0, TypeOK, Handler
  <2> QED BY <1>1, <2>1, Booked
<1>2. CASE t \in Existing /\ task'[t] = task[t]
  <2>1. task[t].item \in Items
    BY <1>2 DEF Existing, Inv0, TypeOK, TaskRow
  <2>2. /\ revision[task[t].item] = None
        /\ ~(ScheduleRevision(r) /\ Learns(r) /\ req[r].in.task = t)
    BY <1>2, <2>1, RevisionStep
  <2>3. PICK s \in Reqs :
          /\ session[s] # None /\ session[s].task = t
          /\ req[s].pc = "committed" \/ req[s].reply \in {"error", "lost"}
    BY <1>2, <2>2 DEF UnscheduledHasReason, CompletesTask
  <2>4. session'[s] # None /\ session'[s].task = t
    BY <2>3, FrameHolds DEF Frame
  <2>5. CASE s # r
    BY <2>3, <2>4, <2>5, FrameHolds DEF Frame
  <2>6. CASE s = r
    <3>1. req[r].pc \in {"committed", "done"}
      BY <2>3, <2>6 DEF Answered
    <3>2. ScheduleRevision(r) \/ ScheduleFails(r) \/ Lose(r)
      BY <3>1 DEF By, Step, Arrive, Remediate, Lose, Active, Read, Refuse,
         CommitComplete, CommitSkip, CommitStart, CommitReopen,
         CommitReschedule, NoTargetDay, ScheduleRevision, ScheduleFails,
         ComputeStreak, RefreshDigest, RecordSnapshot
    <3>3. ~ScheduleRevision(r)
      <4>1. ScheduleRevision(r) => req[r].in.task = t
        BY <2>3, <2>6 DEF ScheduleRevision, Inv0, HandlersOK, HandlerOK, AfterCommit
      <4> QED BY <1>2, <2>2, <4>1 DEF Learns
    <3>4. req'[r].reply \in {"error", "lost"}
      BY <3>2, <3>3 DEF ScheduleFails, Lose, Reply, Inv0, TypeOK
    <3> QED BY <2>4, <2>6, <3>4
  <2> QED BY <2>5, <2>6
<1> QED BY <1>1, <1>2, CompletedAfter

\* A completed learnable task without a revision is accounted for
\* (CompleteTask after its commit).
THEOREM UnscheduledHasReasonHolds == Spec => []UnscheduledHasReason
<1>1. Init => UnscheduledHasReason
  BY PlanTasksAssumption DEF Init, UnscheduledHasReason, Existing, Row
<1>2. Inv0 /\ Answered /\ UnscheduledHasReason /\ [Next]_vars => UnscheduledHasReason'
  <2> SUFFICES ASSUME Inv0, Answered, UnscheduledHasReason, [Next]_vars
               PROVE  UnscheduledHasReason'
    OBVIOUS
  <2>1. CASE NextDay \/ UNCHANGED vars
    BY <2>1 DEF NextDay, vars, store, effects, UnscheduledHasReason,
                CompletesTask, Existing, Revisable
  <2> QED BY <2>1, UnscheduledStep DEF Next, By
<1> QED BY <1>1, <1>2, Inv0Holds, AnsweredHolds, PTL DEF Spec

\* A revision is due after a session on its item (ScheduleForCompletion).
THEOREM DueAfterStudyHolds == Spec => []DueAfterStudy
<1>1. Init => DueAfterStudy
  BY DEF Init, DueAfterStudy
<1>2. Inv0 /\ DueAfterStudy /\ [Next]_vars => DueAfterStudy'
  <2> SUFFICES ASSUME Inv0, DueAfterStudy, [Next]_vars
               PROVE  DueAfterStudy'
    OBVIOUS
  <2>1. CASE NextDay \/ UNCHANGED vars
    BY <2>1 DEF NextDay, vars, store, effects, DueAfterStudy
  <2>2. ASSUME NEW r \in Reqs, By(r), NEW i \in Items, revision'[i] # None
        PROVE  \E s \in Reqs : /\ session'[s] # None
                               /\ task'[session'[s].task].item = i
                               /\ revision'[i] > session'[s].day
    <3>1. \A s \in Reqs : session[s] # None =>
            /\ session'[s] # None /\ session'[s].day = session[s].day
            /\ task'[session'[s].task].item = task[session[s].task].item
      BY <2>2, FrameHolds DEF Frame, SameRow, Inv0, SessionsOK
    <3>2. CASE revision'[i] = revision[i]
      <4>1. PICK s \in Reqs : /\ session[s] # None
                              /\ task[session[s].task].item = i
                              /\ revision[i] > session[s].day
        BY <2>2, <3>2 DEF DueAfterStudy
      <4> QED BY <3>1, <3>2, <4>1
    <3>3. CASE /\ ScheduleRevision(r) /\ i = task[req[r].in.task].item
               /\ revision'[i] = today + 1
      <4>1. session[r] # None /\ session[r].task = req[r].in.task
        BY <3>3 DEF ScheduleRevision, Inv0, HandlersOK, HandlerOK, AfterCommit
      <4>2. session[r].day <= today /\ session[r].day \in Int /\ today \in Int
        BY <4>1, PlanTasksAssumption DEF Inv0, TypeOK, SessionsOK, SessionRow
      <4>3. today + 1 > session[r].day
        BY <4>2
      <4> QED BY <3>1, <3>3, <4>1, <4>3
    <3> QED BY <2>2, <3>2, <3>3, RevisionStep
  <2> QED BY <2>1, <2>2 DEF Next, By, DueAfterStudy
<1> QED BY <1>1, <1>2, Inv0Holds, PTL DEF Spec

\* A day on which a completion stands is never lost to the streak, on whatever
\* day other tasks are reopened (upsertStreakDay, and ReopenTask's update of
\* streak_days).
THEOREM StandingDayHasStreakRowHolds == Spec => []StandingDayHasStreakRow
<1>1. BookedDayHasRow => StandingDayHasStreakRow
  BY DEF BookedDayHasRow, StandingDayHasStreakRow, LiveSessions
<1> QED BY <1>1, BookedDayHasRowHolds, PTL


(***************************************************************************)
(* The refinement of TaskLifecycle, when a client has one request per task *)
(* at a time.                                                              *)
(***************************************************************************)
\* A request writes the row it is about and the row it inserts, no other.
LEMMA RowsOfOthers ==
  ASSUME Inv0, NEW r \in Reqs, By(r), NEW t \in Existing,
         Active(r) => t # req[r].in.task
  PROVE  task'[t] = task[t]
<1>1. (t \in Tasks /\ t # r) \/ Quiet(r)
  <2>1. ASSUME t = r PROVE Quiet(r)
    <3>1. req[r].pc = "done"
      BY <2>1 DEF Existing, Inv0, HandlersOK, HandlerOK
    <3> QED BY <3>1 DEF By, Step, Arrive, Remediate, Lose, Active, Read, Refuse,
                        CommitComplete, CommitSkip, CommitStart, CommitReopen,
                        CommitReschedule, NoTargetDay, ScheduleRevision,
                        ScheduleFails, ComputeStreak, RefreshDigest, RecordSnapshot
  <2> QED BY <2>1 DEF Existing
<1>2. CASE CommitComplete(r) \/ CommitSkip(r) \/ CommitStart(r) \/ CommitReopen(r)
  <2>1. t # req[r].in.task
    BY <1>2 DEF CommitComplete, CommitSkip, CommitStart, CommitReopen, Active
  <2> QED BY <1>2, <2>1
             DEF CommitComplete, CommitSkip, CommitStart, CommitReopen, Existing,
                 Inv0, TypeOK
<1>3. CASE CommitReschedule(r)
  <2>1. t # req[r].in.task
    BY <1>3 DEF CommitReschedule, Active
  <2> QED BY <1>1, <1>3, <2>1 DEF CommitReschedule, Quiet, Existing, Inv0, TypeOK
<1>4. CASE Remediate(r)
  BY <1>1, <1>4 DEF Remediate, Quiet, Existing, Inv0, TypeOK
<1>5. CASE Quiet(r)
  BY <1>5 DEF Quiet
<1> QED BY <1>2, <1>3, <1>4, <1>5, Writers

LEMMA FreshStep ==
  ASSUME Inv0, NEW r \in Reqs, By(r), SnapshotsFresh
  PROVE  SnapshotsFresh'
<1> SUFFICES ASSUME OneRequestPerTask
             PROVE  /\ \A p, s \in Reqs : /\ Active(p)' /\ Active(s)' /\ p # s
                                          => req'[p].in.task # req'[s].in.task
                    /\ \A s \in Reqs : req'[s].pc = "read" =>
                          /\ req'[s].seen = task'[req'[s].in.task].status
                          /\ req'[s].seenMinutes = task'[req'[s].in.task].minutes
  BY DEF SnapshotsFresh
<1>1. \A s \in Reqs \ {r} : req'[s] = req[s]
  BY FrameHolds DEF Frame
<1>2. ASSUME NEW s \in Reqs \ {r}, Active(s), Active(r)'
      PROVE  req'[r].in.task # req[s].in.task
  <2>1. CASE Arrive(r)
    <3>1. PICK op \in Ops, t \in Existing : \E arg \in Args(op) :
            /\ \A q \in Reqs : Active(q) => req[q].in.task # t
            /\ req' = [req EXCEPT
                         ![r] = [@ EXCEPT
                                   !.pc = "arrived",
                                   !.in = [op |-> op, task |-> t, now |-> today,
                                           arg |-> arg]]]
      BY <2>1 DEF Arrive
    <3>2. req'[r].in.task = t
      BY <3>1 DEF Inv0, TypeOK, Handler
    <3> QED BY <1>2, <3>1, <3>2
  <2>2. CASE ~Arrive(r)
    <3>1. Active(r) /\ req'[r].in = req[r].in
      <4>0. req \in [Reqs -> Handler]
        BY DEF Inv0, TypeOK
      <4>1. CASE Read(r)
        BY <4>0, <4>1 DEF Read, Active, Handler
      <4>3. CASE CommitComplete(r)
        BY <4>0, <4>3 DEF CommitComplete, Goto, Active, Handler
      <4>2. CASE /\ req[r].pc \in AfterCommit
                 /\ req'[r].in = req[r].in
        BY <4>2 DEF AfterCommit, Active
      <4> QED BY <1>2, <2>2, <4>1, <4>2, <4>3, HandlerMoves DEF Active
    <3> QED BY <1>2, <3>1 DEF SnapshotsFresh
  <2> QED BY <2>1, <2>2
<1>3. ASSUME NEW p \in Reqs, NEW s \in Reqs, Active(p)', Active(s)', p # s
      PROVE  req'[p].in.task # req'[s].in.task
  BY <1>1, <1>2, <1>3 DEF SnapshotsFresh, Active
<1>4. ASSUME NEW s \in Reqs, req'[s].pc = "read"
      PROVE  /\ req'[s].seen = task'[req'[s].in.task].status
             /\ req'[s].seenMinutes = task'[req'[s].in.task].minutes
  <2>1. CASE s = r
    <3>1. req \in [Reqs -> Handler]
      BY DEF Inv0, TypeOK
    <3>2. ~Arrive(r)
      BY <1>4, <2>1, <3>1 DEF Arrive, Handler
    <3>3. ~CommitComplete(r)
      BY <1>4, <2>1, <3>1 DEF CommitComplete, Goto, Handler
    <3>4. req'[r].pc \notin AfterCommit \cup {"done"}
      BY <1>4, <2>1 DEF AfterCommit
    <3>5. Read(r)
      BY <3>2, <3>3, <3>4, HandlerMoves
    <3> QED BY <2>1, <3>1, <3>5 DEF Read, store, Handler
  <2>2. CASE s # r
    <3>1. req'[s] = req[s] /\ Active(s) /\ req[s].in.task \in Existing
      BY <1>1, <1>4, <2>2 DEF Active, Inv0, HandlersOK, HandlerOK
    <3>2. task'[req[s].in.task] = task[req[s].in.task]
      BY <2>2, <3>1, RowsOfOthers DEF SnapshotsFresh
    <3> QED BY <1>4, <3>1, <3>2 DEF SnapshotsFresh
  <2> QED BY <2>1, <2>2
<1> QED BY <1>3, <1>4

\* What a request has read is still so when it writes (ReopenTask and the
\* others read before they write), for a client that waits for its answers.
THEOREM SnapshotsFreshHolds == Spec => []SnapshotsFresh
<1>1. Init => SnapshotsFresh
  BY DEF Init, SnapshotsFresh, Active
<1>2. Inv0 /\ SnapshotsFresh /\ [Next]_vars => SnapshotsFresh'
  <2> SUFFICES ASSUME Inv0, SnapshotsFresh, [Next]_vars
               PROVE  SnapshotsFresh'
    OBVIOUS
  <2>1. CASE NextDay \/ UNCHANGED vars
    BY <2>1 DEF NextDay, vars, store, SnapshotsFresh, Active
  <2> QED BY <2>1, FreshStep DEF Next, By
<1> QED BY <1>1, <1>2, Inv0Holds, PTL DEF Spec

\* Writing the status and minutes of a row that exists, as TaskLifecycle sees it.
LEMMA RowWritten ==
  ASSUME Inv0, NEW t \in Existing, NEW st \in Statuses, NEW m \in Nat \cup {None}
  PROVE  /\ task' = [task EXCEPT ![t] = [@ EXCEPT !.status = st, !.minutes = m]]
            => /\ StatusOf' = [StatusOf EXCEPT ![t] = st]
               /\ BookedOf' = [BookedOf EXCEPT ![t] = m]
         /\ task' = [task EXCEPT ![t].status = st]
            => /\ StatusOf' = [StatusOf EXCEPT ![t] = st]
               /\ BookedOf' = BookedOf
<1>1. /\ t \in Tasks /\ task \in [Tasks -> TaskRow \cup {None}]
      /\ task[t] \in TaskRow /\ task[t] # None
  BY DEF Inv0, TypeOK, Existing
<1>2. /\ SameRow(t, [task[t] EXCEPT !.status = st, !.minutes = m])
      /\ SameRow(t, [task[t] EXCEPT !.status = st])
  BY Rewritten
<1>3. /\ [task[t] EXCEPT !.status = st, !.minutes = m] # None
      /\ [task[t] EXCEPT !.status = st] # None
  BY <1>2 DEF SameRow
<1>4. ASSUME task' = [task EXCEPT ![t] = [@ EXCEPT !.status = st, !.minutes = m]]
      PROVE  /\ StatusOf' = [StatusOf EXCEPT ![t] = st]
             /\ BookedOf' = [BookedOf EXCEPT ![t] = m]
  <2>1. /\ task'[t] # None
        /\ task'[t].status = st /\ task'[t].minutes = m
        /\ \A u \in Tasks \ {t} : task'[u] = task[u]
    BY <1>1, <1>3, <1>4 DEF TaskRow
  <2> QED BY <1>1, <2>1 DEF StatusOf, BookedOf
<1>5. ASSUME task' = [task EXCEPT ![t].status = st]
      PROVE  /\ StatusOf' = [StatusOf EXCEPT ![t] = st]
             /\ BookedOf' = BookedOf
  <2>1. /\ task'[t] # None
        /\ task'[t].status = st /\ task'[t].minutes = task[t].minutes
        /\ \A u \in Tasks \ {t} : task'[u] = task[u]
    BY <1>1, <1>3, <1>5 DEF TaskRow
  <2> QED BY <1>1, <2>1 DEF StatusOf, BookedOf
<1> QED BY <1>4, <1>5

\* What the transaction of a request at work has read of its row.
LEMMA StillSo ==
  ASSUME Inv0, SnapshotsFresh, OneRequestPerTask, NEW r \in Reqs, req[r].pc = "read"
  PROVE  /\ AtWorkOn(r) /\ req[r].in.op \in Ops
         /\ StatusOf[req[r].in.task] = req[r].seen
         /\ req[r].seen \in Statuses \ Refused(req[r].in.op)
<1>1. AtWorkOn(r)
  BY AtWork DEF Active
<1> QED BY <1>1, RequestFields
        DEF SnapshotsFresh, Inv0, HandlersOK, HandlerOK, AtWorkOn, StatusOf, Existing

\* Inserting a pending row.
LEMMA RowInserted ==
  ASSUME Inv0, NEW r \in Reqs, task[r] = None,
         NEW i \in Items, NEW k \in Kinds, NEW d \in PlanDates,
         task' = [task EXCEPT ![r] = Row(i, k, d, None)]
  PROVE  /\ StatusOf[r] = "absent"
         /\ StatusOf' = [StatusOf EXCEPT ![r] = "pending"]
         /\ UNCHANGED BookedOf
<1>1. r \in Tasks /\ task \in [Tasks -> TaskRow \cup {None}]
  BY DEF Inv0, TypeOK, Tasks
<1>2. Row(i, k, d, None) # None
  <2>1. Row(i, k, d, None) \in TaskRow
    BY RowType
  <2> QED BY <2>1, RowsExist, Zenon
<1>3. /\ task'[r] # None /\ task'[r].status = "pending" /\ task'[r].minutes = None
      /\ \A u \in Tasks \ {r} : task'[u] = task[u]
  BY <1>1, <1>2 DEF Row
<1> QED BY <1>1, <1>3 DEF StatusOf, BookedOf

\* The steps of TaskLifecycle, and those a handler takes beside them, in the
\* terms of StatusOf and BookedOf.
LEMMA LifecycleSteps ==
  /\ Init => Lifecycle!Init
  /\ \A t \in Tasks, m \in Minutes :
       /\ StatusOf[t] \in Lifecycle!Open \cup {"rescheduled"}
       /\ StatusOf' = [StatusOf EXCEPT ![t] = "completed"]
       /\ BookedOf' = [BookedOf EXCEPT ![t] = m]
       => Lifecycle!Complete(t) \/ ClosedTakenUp
  /\ \A t \in Tasks :
       /\ StatusOf[t] \in Lifecycle!Open \cup {"rescheduled"}
       /\ StatusOf' = [StatusOf EXCEPT ![t] = "skipped"]
       /\ BookedOf' = BookedOf
       => Lifecycle!Skip(t) \/ ClosedTakenUp
  /\ \A t \in Tasks :
       /\ StatusOf[t] \in {"pending", "rescheduled"}
       /\ StatusOf' = [StatusOf EXCEPT ![t] = "in_progress"]
       /\ BookedOf' = BookedOf
       => Lifecycle!Start(t) \/ ClosedTakenUp
  /\ \A t \in Tasks :
       /\ StatusOf[t] \in {"completed", "skipped"}
       /\ StatusOf' = [StatusOf EXCEPT ![t] = "pending"]
       /\ BookedOf' = [BookedOf EXCEPT ![t] = None]
       => Lifecycle!Reopen(t)
  /\ \A t, c \in Tasks :
       /\ StatusOf[t] \in Lifecycle!Open \cup {"skipped", "rescheduled"}
       /\ StatusOf[c] = "absent"
       /\ StatusOf' = [StatusOf EXCEPT ![t] = "rescheduled", ![c] = "pending"]
       /\ BookedOf' = BookedOf
       => Lifecycle!Reschedule(t, c) \/ ClosedTakenUp
  /\ \A t \in Tasks :
       /\ StatusOf[t] = "absent"
       /\ StatusOf' = [StatusOf EXCEPT ![t] = "pending"]
       /\ BookedOf' = BookedOf
       => Lifecycle!Insert(t)
<1>1. Init => Lifecycle!Init
  <2> SUFFICES ASSUME Init PROVE Lifecycle!Init
    OBVIOUS
  <2>1. /\ \A t \in Planned : task[t] # None /\ task[t].status = "pending"
                            /\ task[t].minutes = None
        /\ \A t \in Tasks \ Planned : task[t] = None
    <3>1. \A t \in Planned : Row(PlanOf[t].item, PlanOf[t].kind, PlanOf[t].day, None) # None
      <4>1. TypeOK
        BY TypeInit
      <4>2. ASSUME NEW t \in Planned
            PROVE  Row(PlanOf[t].item, PlanOf[t].kind, PlanOf[t].day, None) \in TaskRow
        BY PlanTasksAssumption, RowType
      <4> QED BY <4>2, RowsExist, Zenon
    <3> QED BY <3>1 DEF Init, Tasks, Row
  <2> QED BY <2>1 DEF Lifecycle!Init, StatusOf, BookedOf, Tasks
<1>2. \A t \in Tasks, m \in Minutes :
       /\ StatusOf[t] \in Lifecycle!Open \cup {"rescheduled"}
       /\ StatusOf' = [StatusOf EXCEPT ![t] = "completed"]
       /\ BookedOf' = [BookedOf EXCEPT ![t] = m]
       => Lifecycle!Complete(t) \/ ClosedTakenUp
  BY DEF StatusOf, BookedOf, Lifecycle!Complete, Lifecycle!Completed, ClosedTakenUp
<1>3. \A t \in Tasks :
       /\ StatusOf[t] \in Lifecycle!Open \cup {"rescheduled"}
       /\ StatusOf' = [StatusOf EXCEPT ![t] = "skipped"]
       /\ BookedOf' = BookedOf
       => Lifecycle!Skip(t) \/ ClosedTakenUp
  BY DEF StatusOf, BookedOf, Lifecycle!Skip, Lifecycle!Skipped, ClosedTakenUp
<1>7. \A t \in Tasks :
       /\ StatusOf[t] \in {"pending", "rescheduled"}
       /\ StatusOf' = [StatusOf EXCEPT ![t] = "in_progress"]
       /\ BookedOf' = BookedOf
       => Lifecycle!Start(t) \/ ClosedTakenUp
  BY DEF StatusOf, BookedOf, Lifecycle!Start, Lifecycle!Started, ClosedTakenUp
<1>4. \A t \in Tasks :
       /\ StatusOf[t] \in {"completed", "skipped"}
       /\ StatusOf' = [StatusOf EXCEPT ![t] = "pending"]
       /\ BookedOf' = [BookedOf EXCEPT ![t] = None]
       => Lifecycle!Reopen(t)
  BY DEF StatusOf, BookedOf, Lifecycle!Reopen
<1>5. \A t, c \in Tasks :
       /\ StatusOf[t] \in Lifecycle!Open \cup {"skipped", "rescheduled"}
       /\ StatusOf[c] = "absent"
       /\ StatusOf' = [StatusOf EXCEPT ![t] = "rescheduled", ![c] = "pending"]
       /\ BookedOf' = BookedOf
       => Lifecycle!Reschedule(t, c) \/ ClosedTakenUp
  BY DEF StatusOf, BookedOf, Lifecycle!Reschedule, Lifecycle!Moved, ClosedTakenUp
<1>6. \A t \in Tasks :
       /\ StatusOf[t] = "absent"
       /\ StatusOf' = [StatusOf EXCEPT ![t] = "pending"]
       /\ BookedOf' = BookedOf
       => Lifecycle!Insert(t)
  BY DEF StatusOf, BookedOf, Lifecycle!Insert
<1> QED BY <1>1, <1>2, <1>3, <1>4, <1>5, <1>6, <1>7

\* A committing request takes one step of TaskLifecycle, takes up a closed task,
\* or neither; the other steps of a request do neither.
LEMMA StepIsLifecycle ==
  ASSUME Inv0, SnapshotsFresh, OneRequestPerTask, NEW r \in Reqs, By(r)
  PROVE  Lifecycle!Next \/ ClosedTakenUp \/ UNCHANGED <<StatusOf, BookedOf>>
<1> PICK u : u = req[r].in.task
  OBVIOUS
<1>1. CASE CommitComplete(r)
  <2>1. /\ AtWorkOn(r) /\ StatusOf[u] = req[r].seen
        /\ req[r].seen \in Statuses \ Refused("complete") /\ req[r].in.arg \in Minutes
    BY <1>1, StillSo, RequestFields DEF CommitComplete, AtWorkOn
  <2>2. /\ StatusOf' = [StatusOf EXCEPT ![u] = "completed"]
        /\ BookedOf' = [BookedOf EXCEPT ![u] = req[r].in.arg]
    BY <1>1, <2>1, RowWritten, PlanTasksAssumption
       DEF CommitComplete, AtWorkOn, Statuses
  <2>3. Lifecycle!Complete(u) \/ ClosedTakenUp
    BY <2>1, <2>2, LifecycleSteps
       DEF AtWorkOn, Lifecycle!Open, Statuses, Refused, Resolved
  <2> QED BY <2>1, <2>3 DEF Lifecycle!Next, AtWorkOn
<1>2. CASE CommitSkip(r)
  <2>1. /\ AtWorkOn(r) /\ StatusOf[u] = req[r].seen
        /\ req[r].seen \in Statuses \ Refused("skip")
    BY <1>2, StillSo DEF CommitSkip
  <2>2. /\ StatusOf' = [StatusOf EXCEPT ![u] = "skipped"]
        /\ BookedOf' = BookedOf
    BY <1>2, <2>1, RowWritten DEF CommitSkip, AtWorkOn, Statuses
  <2>3. Lifecycle!Skip(u) \/ ClosedTakenUp
    BY <2>1, <2>2, LifecycleSteps
       DEF AtWorkOn, Lifecycle!Open, Statuses, Refused, Resolved
  <2> QED BY <2>1, <2>3 DEF Lifecycle!Next, AtWorkOn
<1>3. CASE CommitStart(r)
  <2>1. /\ AtWorkOn(r) /\ StatusOf[u] = req[r].seen
        /\ req[r].seen \in Statuses \ Refused("start")
    BY <1>3, StillSo DEF CommitStart
  <2>2. CASE task' = task
    BY <2>2 DEF StatusOf, BookedOf
  <2>3. CASE task' # task
    <3>1. /\ StatusOf' = [StatusOf EXCEPT ![u] = "in_progress"]
          /\ BookedOf' = BookedOf
      BY <1>3, <2>1, <2>3, RowWritten DEF CommitStart, AtWorkOn, Statuses
    <3>2. req[r].seen # "in_progress"
      BY <1>3, <2>3 DEF CommitStart
    <3>3. StatusOf[u] \in {"pending", "rescheduled"}
      BY <2>1, <3>2 DEF Statuses, Refused, Resolved
    <3>4. u \in Tasks
      BY <2>1 DEF AtWorkOn, Existing
    <3>5. Lifecycle!Start(u) \/ ClosedTakenUp
      BY <3>1, <3>3, <3>4, LifecycleSteps
    <3> QED BY <3>4, <3>5 DEF Lifecycle!Next
  <2> QED BY <2>2, <2>3
<1>4. CASE CommitReopen(r)
  <2>1. /\ AtWorkOn(r) /\ StatusOf[u] = req[r].seen
        /\ req[r].seen \in Statuses \ Refused("reopen")
    BY <1>4, StillSo DEF CommitReopen
  <2>2. /\ StatusOf' = [StatusOf EXCEPT ![u] = "pending"]
        /\ BookedOf' = [BookedOf EXCEPT ![u] = None]
    BY <1>4, <2>1, RowWritten DEF CommitReopen, AtWorkOn, Statuses
  <2>3. Lifecycle!Reopen(u)
    BY <2>1, <2>2, LifecycleSteps DEF AtWorkOn, Statuses, Refused, Resolved
  <2> QED BY <2>1, <2>3 DEF Lifecycle!Next, AtWorkOn
<1>5. CASE CommitReschedule(r)
  <2>1. /\ AtWorkOn(r) /\ StatusOf[u] = req[r].seen
        /\ req[r].seen \in Statuses \ Refused("reschedule")
        /\ req[r].in.arg \in PlanDates
        /\ r \in Tasks
    BY <1>5, StillSo DEF CommitReschedule, Tasks
  <2> DEFINE row == Row(task[u].item, task[u].kind, req[r].in.arg, u)
  <2>2. row # None /\ row.status = "pending" /\ row.minutes = None
    <3>1. row \in TaskRow
      BY <2>1, RowType DEF AtWorkOn, TaskRow
    <3>2. row # None
      BY <3>1, RowsExist, Zenon
    <3> QED BY <3>2 DEF Row
  <2>3. /\ task'[u] # None /\ task'[u].status = "rescheduled"
        /\ task'[u].minutes = task[u].minutes
        /\ task'[r] = row
        /\ \A t \in Tasks \ {u, r} : task'[t] = task[t]
    <3>1. [task[u] EXCEPT !.status = "rescheduled"] # None
      BY <2>1, Rewritten, PlanTasksAssumption DEF AtWorkOn, SameRow, Statuses, TaskRow
    <3> QED BY <1>5, <2>1, <3>1 DEF CommitReschedule, AtWorkOn, Inv0, TypeOK, TaskRow
  <2>4. /\ StatusOf[r] = "absent"
        /\ StatusOf' = [StatusOf EXCEPT ![u] = "rescheduled", ![r] = "pending"]
        /\ BookedOf' = BookedOf
    <3>1. task[r] = None /\ r # u /\ u \in Tasks /\ r \in Tasks /\ task[u] # None
      BY <2>1 DEF AtWorkOn, Existing
    <3>2. task'[r] # None /\ task'[r].status = "pending" /\ task'[r].minutes = None
      BY <2>2, <2>3
    <3>3. StatusOf' = [StatusOf EXCEPT ![u] = "rescheduled", ![r] = "pending"]
      BY <2>3, <3>1, <3>2 DEF StatusOf
    <3>4. BookedOf' = BookedOf
      BY <2>3, <3>1, <3>2 DEF BookedOf
    <3> QED BY <3>1, <3>3, <3>4 DEF StatusOf
  <2>5. Lifecycle!Reschedule(u, r) \/ ClosedTakenUp
    BY <2>1, <2>4, LifecycleSteps
       DEF AtWorkOn, Lifecycle!Open, Statuses, Refused, Resolved
  <2> QED BY <2>1, <2>5 DEF Lifecycle!Next, AtWorkOn
<1>6. CASE Remediate(r)
  <2>1. CASE task' = task
    BY <2>1 DEF StatusOf, BookedOf
  <2>2. CASE task' # task
    <3>1. PICK i \in Items, d \in NextPlanDays :
            task' = [task EXCEPT ![r] = Row(i, "revise", d, None)]
      BY <1>6, <2>2 DEF Remediate
    <3>2. task[r] = None /\ r \in Tasks
      BY <1>6 DEF Remediate, Inv0, HandlersOK, HandlerOK, Tasks
    <3>3. /\ StatusOf[r] = "absent"
          /\ StatusOf' = [StatusOf EXCEPT ![r] = "pending"]
          /\ BookedOf' = BookedOf
      BY <3>1, <3>2, RowInserted DEF Kinds, NextPlanDays
    <3>4. Lifecycle!Insert(r)
      BY <3>2, <3>3, LifecycleSteps
    <3> QED BY <3>2, <3>4 DEF Lifecycle!Next
  <2> QED BY <2>1, <2>2
<1>7. CASE Quiet(r)
  BY <1>7 DEF Quiet, StatusOf, BookedOf
<1> QED BY <1>1, <1>2, <1>3, <1>4, <1>5, <1>6, <1>7, Writers

\* For a client that waits for its answers, the handlers that read, decide and
\* write in several statements implement the atomic task endpoints of the
\* Repository interface, but for what they do to a task that was moved and to
\* one that was skipped (ClosedTakenUp).
THEOREM LifecycleImplemented ==
  ASSUME OneRequestPerTask
  PROVE  Spec => ImplementsLifecycle
<1>1. Init => Lifecycle!Init
  BY LifecycleSteps
<1>2. Inv0 /\ SnapshotsFresh /\ [Next]_vars
        => Lifecycle!Next \/ ClosedTakenUp \/ UNCHANGED <<StatusOf, BookedOf>>
  <2>1. CASE NextDay \/ UNCHANGED vars
    BY <2>1 DEF NextDay, vars, store, StatusOf, BookedOf
  <2> QED BY <2>1, StepIsLifecycle DEF Next, By
<1>3. Spec => [](Inv0 /\ SnapshotsFresh)
  BY Inv0Holds, SnapshotsFreshHolds, PTL
<1> QED BY <1>1, <1>2, <1>3, PTL DEF Spec, ImplementsLifecycle

(***************************************************************************)
(* The books: what plan_days and streak_days hold of the sessions.         *)
(***************************************************************************)
\* A session that stands after a step stood before it, and its row is as it
\* was, or is the one the step booked.
LEMMA StandingAfter ==
  ASSUME Inv0, SnapshotsFresh, BookedOnce, OneRequestPerTask,
         NEW r \in Reqs, By(r), NEW p \in LiveSessions'
  PROVE  \/ /\ p \in LiveSessions /\ session'[p] = session[p]
            /\ task'[session[p].task] = task[session[p].task]
            /\ ~((CommitComplete(r) \/ CommitReopen(r)) /\ req[r].in.task = session[p].task)
         \/ CommitComplete(r) /\ p = r /\ p \notin LiveSessions
<1>1. p \in Reqs /\ session'[p] # None /\ session'[p].live
  BY DEF LiveSessions
<1>2. CASE session[p] = None
  <2>1. p = r
    BY <1>1, <1>2, FrameHolds DEF Frame
  <2> QED BY <1>1, <1>2, <2>1, NewSession DEF LiveSessions
<1>3. CASE session[p] # None
  <2> PICK t : t = session[p].task
    OBVIOUS
  <2>1. t \in Existing
    BY <1>1, <1>3 DEF Inv0, SessionsOK
  <2>2. ~(CommitReopen(r) /\ req[r].in.task = t)
    <3> SUFFICES ASSUME CommitReopen(r), req[r].in.task = t PROVE FALSE
      OBVIOUS
    <3>1. CASE Reverses(r)
      <4>1. session'[p] = [session[p] EXCEPT !.live = FALSE] /\ session[p] \in SessionRow
        BY <1>1, <1>3, <3>1 DEF CommitReopen, Inv0, TypeOK
      <4> QED BY <1>1, <4>1 DEF SessionRow
    <3>2. CASE ~Reverses(r)
      <4>1. p \in LiveSessions
        BY <1>1, <1>3, <3>2 DEF CommitReopen, LiveSessions
      <4>2. StatusOf[t] = "completed"
        BY <2>1, <4>1 DEF BookedOnce, StatusOf, Existing
      <4>3. req[r].seen # "completed"
        BY <3>2 DEF Reverses
      <4> QED BY <4>2, <4>3, StillSo DEF CommitReopen
    <3> QED BY <3>1, <3>2
  <2>3. session'[p] = session[p] /\ p \in LiveSessions
    BY <1>1, <1>3, <2>2, SessionKept DEF LiveSessions
  <2>4. StatusOf[t] = "completed"
    BY <2>1, <2>3 DEF BookedOnce, StatusOf, Existing
  <2>5. ~(CommitComplete(r) /\ req[r].in.task = t)
    BY <2>4, StillSo DEF CommitComplete, Refused, Resolved
  <2>6. task'[t] = task[t]
    <3>1. CASE Active(r) => t # req[r].in.task
      BY <2>1, <3>1, RowsOfOthers
    <3>2. CASE t = req[r].in.task /\ Active(r)
      <4>1. ~CommitSkip(r) /\ ~CommitStart(r) /\ ~CommitReschedule(r)
        BY <2>4, <3>2, StillSo
           DEF CommitSkip, CommitStart, CommitReschedule, Refused, Resolved
      <4>2. ~Remediate(r)
        BY <3>2 DEF Remediate, Active
      <4> QED BY <2>2, <2>5, <3>2, <4>1, <4>2, Writers DEF Quiet
    <3> QED BY <3>1, <3>2
  <2> QED BY <2>2, <2>3, <2>5, <2>6
<1> QED BY <1>2, <1>3

LEMMA BookedOnceStep ==
  ASSUME Inv0, SnapshotsFresh, BookedOnce, NEW r \in Reqs, By(r)
  PROVE  BookedOnce'
<1> SUFFICES ASSUME OneRequestPerTask, NEW p \in LiveSessions'
             PROVE  /\ task'[session'[p].task].status = "completed"
                    /\ task'[session'[p].task].minutes = session'[p].minutes
                    /\ \A s \in LiveSessions' :
                         session'[s].task = session'[p].task => s = p
  BY DEF BookedOnce
<1>1. CASE p \in LiveSessions /\ session'[p] = session[p]
  <2>1. /\ task'[session[p].task] = task[session[p].task]
        /\ ~(CommitComplete(r) /\ req[r].in.task = session[p].task)
    BY <1>1, StandingAfter
  <2>2. ASSUME NEW s \in LiveSessions', session'[s].task = session'[p].task
        PROVE  s = p
    <3>1. CASE s \in LiveSessions /\ session'[s] = session[s]
      BY <1>1, <2>2, <3>1 DEF BookedOnce
    <3>2. CASE CommitComplete(r) /\ s = r
      BY <1>1, <2>1, <2>2, <3>2, Booked
    <3> QED BY <3>1, <3>2, StandingAfter
  <2> QED BY <1>1, <2>1, <2>2 DEF BookedOnce
<1>2. CASE CommitComplete(r) /\ p = r /\ p \notin LiveSessions
  <2>1. /\ session'[r].task = req[r].in.task
        /\ session'[r].minutes = req[r].in.arg
    BY <1>2, Booked
  <2>2. /\ task'[req[r].in.task].status = "completed"
        /\ task'[req[r].in.task].minutes = req[r].in.arg
    <3>1. AtWorkOn(r)
      BY <1>2, AtWork DEF CommitComplete, Active
    <3> QED BY <1>2, <3>1 DEF CommitComplete, AtWorkOn, Inv0, TypeOK, TaskRow
  <2>3. ASSUME NEW s \in LiveSessions', session'[s].task = session'[p].task
        PROVE  s = p
    BY <1>2, <2>1, <2>3, StandingAfter
  <2> QED BY <1>2, <2>1, <2>2, <2>3
<1> QED BY <1>1, <1>2, StandingAfter

LEMMA BookedOnceHolds == Spec => []BookedOnce
<1>1. Init => BookedOnce
  BY DEF Init, BookedOnce, LiveSessions
<1>2. Inv0 /\ SnapshotsFresh /\ BookedOnce /\ [Next]_vars => BookedOnce'
  <2> SUFFICES ASSUME Inv0, SnapshotsFresh, BookedOnce, [Next]_vars
               PROVE  BookedOnce'
    OBVIOUS
  <2>1. CASE NextDay \/ UNCHANGED vars
    BY <2>1 DEF NextDay, vars, store, BookedOnce, LiveSessions
  <2> QED BY <2>1, BookedOnceStep DEF Next, By
<1> QED BY <1>1, <1>2, Inv0Holds, SnapshotsFreshHolds, PTL DEF Spec

\* What a step does to the sessions that stand: a completion adds its own, a
\* reopening that reverses takes away the one of its task, no other step
\* touches the books.
Adds(r) ==
  /\ CommitComplete(r) /\ AtWorkOn(r) /\ req[r].in.arg \in Nat
  /\ r \notin LiveSessions /\ LiveSessions' = LiveSessions \cup {r}
  /\ session'[r] # None
  /\ session'[r].task = req[r].in.task /\ session'[r].minutes = req[r].in.arg
  /\ \A s \in LiveSessions : session'[s] = session[s]
Removes(r, p) ==
  /\ CommitReopen(r) /\ AtWorkOn(r) /\ Reverses(r)
  /\ p \in LiveSessions /\ LiveSessions' = LiveSessions \ {p}
  /\ session[p].task = req[r].in.task
  /\ req[r].seenMinutes = session[p].minutes /\ req[r].seenMinutes # None
  /\ \A s \in LiveSessions \ {p} : session'[s] = session[s]

LEMMA LiveSessionFields ==
  ASSUME Inv0, NEW s \in LiveSessions
  PROVE  /\ s \in Reqs /\ session[s] # None /\ session[s].live
         /\ session[s] \in SessionRow
         /\ session[s].minutes \in Nat /\ session[s].minutes # None
         /\ session[s].task \in Existing
         /\ task[session[s].task] \in TaskRow
         /\ task[session[s].task].day \in PlanDates
BY PlanTasksAssumption DEF LiveSessions, Inv0, TypeOK, SessionsOK, SessionRow, Existing, TaskRow

LEMMA Books ==
  ASSUME Inv0, SnapshotsFresh, BookedOnce, CompletedHasSession, OneRequestPerTask,
         NEW r \in Reqs, By(r)
  PROVE  \/ Adds(r)
         \/ \E p \in Reqs : Removes(r, p)
         \/ UNCHANGED <<session, planMinutes, streak>>
<1>1. CASE CommitComplete(r)
  <2>1. /\ AtWorkOn(r) /\ req[r].in.arg \in Nat
    <3>1. AtWorkOn(r) /\ req[r].in.op = "complete"
      BY <1>1, AtWork DEF CommitComplete, Active
    <3> QED BY <3>1, RequestFields DEF AtWorkOn
  <2>2. session[r] = None
    BY <1>1 DEF CommitComplete, Inv0, HandlersOK, HandlerOK
  <2>3. /\ session'[r] # None /\ session'[r].live
        /\ session'[r].task = req[r].in.task /\ session'[r].minutes = req[r].in.arg
    BY <1>1, Booked
  <2>4. \A s \in Reqs \ {r} : session'[s] = session[s]
    BY <1>1 DEF CommitComplete, Book, Inv0, TypeOK
  <2>5. r \notin LiveSessions /\ LiveSessions' = LiveSessions \cup {r}
    BY <2>2, <2>3, <2>4 DEF LiveSessions
  <2>6. \A s \in LiveSessions : session'[s] = session[s]
    BY <2>4, <2>5 DEF LiveSessions
  <2> QED BY <1>1, <2>1, <2>3, <2>5, <2>6 DEF Adds
<1>2. CASE CommitReopen(r) /\ Reverses(r)
  <2> PICK t : t = req[r].in.task
    OBVIOUS
  <2>1. /\ AtWorkOn(r) /\ t \in Existing
        /\ task[t].status = "completed" /\ task[t].minutes = req[r].seenMinutes
    BY <1>2, StillSo DEF CommitReopen, Reverses, AtWorkOn, SnapshotsFresh
  <2>2. PICK p \in LiveSessions : /\ session[p] # None /\ session[p].task = t
                                 /\ session[p].minutes = task[t].minutes
    BY <2>1 DEF CompletedHasSession, CompletesTask
  <2>3. /\ p \in Reqs /\ req[r].seenMinutes = session[p].minutes
        /\ req[r].seenMinutes # None
    BY <2>1, <2>2, LiveSessionFields
  <2>4. ASSUME NEW s \in Reqs
        PROVE  /\ s # p => (s \in LiveSessions' <=> s \in LiveSessions)
               /\ s \in LiveSessions \ {p} => session'[s] = session[s]
               /\ p \notin LiveSessions'
    <3>1. \A q \in Reqs : session[q] # None /\ session[q].task = t
            => session'[q] = [session[q] EXCEPT !.live = FALSE]
      BY <1>2 DEF CommitReopen
    <3>2. \A q \in Reqs : ~(session[q] # None /\ session[q].task = t)
            => session'[q] = session[q]
      BY <1>2 DEF CommitReopen
    <3>3. \A q \in Reqs : session[q] # None => session[q] \in SessionRow
      BY DEF Inv0, TypeOK
    <3>4. \A q \in Reqs : session[q] # None /\ session[q].task = t
            => q \notin LiveSessions'
      BY <3>1, <3>3 DEF LiveSessions, SessionRow
    <3>5. p \notin LiveSessions'
      BY <2>2, <2>3, <3>4
    <3>6. CASE session[s] # None /\ session[s].task = t
      <4>1. s # p => s \notin LiveSessions
        BY <2>2, <3>6 DEF BookedOnce
      <4> QED BY <3>4, <3>5, <3>6, <4>1
    <3>7. CASE ~(session[s] # None /\ session[s].task = t)
      <4>1. session'[s] = session[s]
        BY <3>2, <3>7
      <4> QED BY <3>5, <4>1 DEF LiveSessions
    <3> QED BY <3>6, <3>7
  <2>5. LiveSessions' = LiveSessions \ {p}
    BY <2>3, <2>4 DEF LiveSessions
  <2> QED BY <1>2, <2>1, <2>2, <2>3, <2>4, <2>5, LiveSessionFields DEF Removes
<1>3. CASE CommitReopen(r) /\ ~Reverses(r)
  BY <1>3 DEF CommitReopen
<1>4. CASE UNCHANGED <<session, planMinutes, streak>>
  BY <1>4
<1> QED
  BY <1>1, <1>2, <1>3, <1>4, Writers
     DEF CommitSkip, CommitStart, CommitReschedule, Remediate, Quiet

MinutesOf == [r \in LiveSessions |-> session[r].minutes]
OnDay(d) == {r \in LiveSessions : task[session[r].task].day = d}

LEMMA SessionsFinite ==
  /\ IsFiniteSet(LiveSessions)
  /\ \A d \in PlanDates : IsFiniteSet(OnDay(d))
BY PlanTasksAssumption, FS_Subset DEF LiveSessions, OnDay

\* A plan-day's minutes after a step, if they were those of its sessions.
LEMMA DayLedgerStep ==
  ASSUME Inv0, SnapshotsFresh, BookedOnce, CompletedHasSession, OneRequestPerTask,
         NEW r \in Reqs, By(r), NEW d \in PlanDates,
         planMinutes[d] = SumFunctionOnSet(MinutesOf, OnDay(d))
  PROVE  planMinutes'[d] = SumFunctionOnSet(MinutesOf', OnDay(d)')
<1> PICK f, g, S, T : f = MinutesOf /\ g = MinutesOf' /\ S = OnDay(d) /\ T = OnDay(d)'
  OBVIOUS
<1>1. /\ IsFiniteSet(S) /\ S \subseteq LiveSessions
      /\ \A s \in S : f[s] \in Nat /\ f[s] = session[s].minutes
  BY SessionsFinite, LiveSessionFields DEF MinutesOf, OnDay
<1>2. \A t \in Existing : task'[t].day = task[t].day
  BY FrameHolds DEF Frame, SameRow
<1>3. CASE Adds(r)
  <2> PICK u, m : u = req[r].in.task /\ m = req[r].in.arg
    OBVIOUS
  <2>1. /\ \A s \in LiveSessions : s \in T <=> s \in S
        /\ r \in T <=> task[u].day = d
        /\ T \subseteq LiveSessions \cup {r} /\ r \notin S
    <3>1. \A s \in LiveSessions : session'[s] = session[s] /\ session[s].task \in Existing
      BY <1>3, LiveSessionFields DEF Adds
    <3>2. u \in Existing /\ session'[r].task = u
      BY <1>3 DEF Adds, AtWorkOn
    <3> QED BY <1>2, <1>3, <3>1, <3>2 DEF Adds, OnDay
  <2>2. /\ g[r] = m /\ m \in Nat
        /\ \A s \in S : g[s] = f[s]
    BY <1>1, <1>3 DEF Adds, MinutesOf
  <2>3. SumFunctionOnSet(g, S) = SumFunctionOnSet(f, S)
    BY <1>1, <2>2, SumSame
  <2>4. planMinutes' = [planMinutes EXCEPT ![task[u].day] = @ + m]
    BY <1>3 DEF Adds, CommitComplete
  <2>5. planMinutes \in [PlanDates -> Nat]
    BY DEF Inv0, TypeOK
  <2>6. CASE task[u].day = d
    <3>1. T = S \cup {r}
      BY <1>1, <2>1, <2>6
    <3>2. SumFunctionOnSet(g, T) = m + SumFunctionOnSet(g, S)
      BY <1>1, <2>1, <2>2, <3>1, SumAdd
    <3>3. planMinutes'[d] = planMinutes[d] + m /\ planMinutes[d] \in Nat
      BY <2>4, <2>5, <2>6
    <3> QED BY <2>2, <2>3, <3>2, <3>3
  <2>7. CASE task[u].day # d
    <3>1. T = S
      BY <1>1, <2>1, <2>7
    <3> QED BY <2>3, <2>4, <2>5, <2>7, <3>1
  <2> QED BY <2>6, <2>7
<1>4. ASSUME NEW p \in Reqs, Removes(r, p)
      PROVE  planMinutes'[d] = SumFunctionOnSet(g, T)
  <2> PICK u, m : u = req[r].in.task /\ m = req[r].seenMinutes
    OBVIOUS
  <2>1. T = S \ {p} /\ (p \in S <=> task[u].day = d)
    <3>1. \A s \in LiveSessions \ {p} :
            session'[s] = session[s] /\ session[s].task \in Existing
      BY <1>4, LiveSessionFields DEF Removes
    <3>2. session[p].task = u /\ p \in LiveSessions
      BY <1>4 DEF Removes
    <3> QED BY <1>2, <1>4, <3>1, <3>2 DEF Removes, OnDay
  <2>2. /\ m = session[p].minutes /\ m \in Nat
        /\ \A s \in S \ {p} : g[s] = f[s]
    BY <1>1, <1>4, LiveSessionFields DEF Removes, MinutesOf
  <2>3. SumFunctionOnSet(g, T) = SumFunctionOnSet(f, T)
    BY <1>1, <2>1, <2>2, SumSame, FS_Subset
  <2>4. planMinutes' = [planMinutes EXCEPT ![task[u].day] = SubFloor(@, m)]
    BY <1>4 DEF Removes, CommitReopen
  <2>5. planMinutes \in [PlanDates -> Nat]
    BY DEF Inv0, TypeOK
  <2>6. CASE p \in S
    <3>1. /\ SumFunctionOnSet(f, S) = f[p] + SumFunctionOnSet(f, S \ {p})
          /\ SumFunctionOnSet(f, S \ {p}) \in Nat
      BY <1>1, <2>6, SumRemove
    <3>2. f[p] = m
      BY <1>1, <2>2, <2>6
    <3>3. planMinutes'[d] = SubFloor(planMinutes[d], m)
      BY <2>1, <2>4, <2>5, <2>6
    <3> QED BY <2>1, <2>2, <2>3, <3>1, <3>2, <3>3 DEF SubFloor
  <2>7. CASE p \notin S
    <3>1. T = S
      BY <2>1, <2>7
    <3> QED BY <2>1, <2>3, <2>4, <2>5, <2>7, <3>1
  <2> QED BY <2>6, <2>7
<1>5. CASE UNCHANGED <<session, planMinutes, streak>>
  <2>1. g = f
    BY <1>5 DEF MinutesOf, LiveSessions
  <2>2. T = S
    <3>1. LiveSessions' = LiveSessions
      BY <1>5 DEF LiveSessions
    <3>2. \A s \in LiveSessions : session'[s] = session[s] /\ session[s].task \in Existing
      BY <1>5, LiveSessionFields
    <3> QED BY <1>2, <3>1, <3>2 DEF OnDay
  <2> QED BY <1>5, <2>1, <2>2
<1> QED BY <1>3, <1>4, <1>5, Books

\* The minutes of a plan-day are those of the sessions booked on its tasks
\* (CompleteTask, ReopenTask), for a client that waits for its answers.
THEOREM DayLedgerHolds ==
  ASSUME OneRequestPerTask
  PROVE  Spec => []DayLedger
<1>1. DayLedger <=> \A d \in PlanDates : planMinutes[d] = SumFunctionOnSet(MinutesOf, OnDay(d))
  BY DEF DayLedger, MinutesOf, OnDay
<1>2. Init => DayLedger
  <2> SUFFICES ASSUME Init, NEW d \in PlanDates
               PROVE  planMinutes[d] = SumFunctionOnSet(MinutesOf, OnDay(d))
    BY <1>1
  <2>1. OnDay(d) = {} /\ planMinutes[d] = 0
    BY DEF Init, OnDay, LiveSessions
  <2> QED BY <2>1, SumEmpty
<1>3. /\ Inv0 /\ SnapshotsFresh /\ BookedOnce /\ CompletedHasSession
      /\ DayLedger /\ [Next]_vars
      => DayLedger'
  <2> SUFFICES ASSUME Inv0, SnapshotsFresh, BookedOnce, CompletedHasSession,
                      DayLedger, [Next]_vars, NEW d \in PlanDates
               PROVE  planMinutes'[d] = SumFunctionOnSet(MinutesOf', OnDay(d)')
    BY DEF DayLedger, MinutesOf, OnDay
  <2>1. CASE NextDay \/ UNCHANGED vars
    <3>1. MinutesOf' = MinutesOf /\ OnDay(d)' = OnDay(d) /\ planMinutes' = planMinutes
      BY <2>1 DEF NextDay, vars, store, MinutesOf, OnDay, LiveSessions
    <3> QED BY <1>1, <3>1
  <2> QED BY <1>1, <2>1, DayLedgerStep DEF Next, By
<1> QED BY <1>2, <1>3, Inv0Holds, SnapshotsFreshHolds, BookedOnceHolds,
           CompletedHasSessionHolds, PTL DEF Spec

(***************************************************************************)
(* The streak days.                                                        *)
(***************************************************************************)
Rows == {d \in Dates : streak[d] # None}
RowTasks == [d \in Rows |-> streak[d].tasks]
RowMinutes == [d \in Rows |-> streak[d].minutes]

LEMMA StreakFields ==
  ASSUME Inv0
  PROVE  /\ IsFiniteSet(Rows)
         /\ \A d \in Rows : /\ RowTasks[d] = streak[d].tasks
                            /\ RowMinutes[d] = streak[d].minutes
                            /\ streak[d].tasks \in Nat /\ streak[d].minutes \in Nat
<1>1. IsFiniteSet(Rows)
  BY PlanTasksAssumption, FS_Subset DEF Rows
<1>2. \A d \in Rows : streak[d] \in StreakRow
  BY DEF Inv0, TypeOK, Rows
<1> QED BY <1>1, <1>2 DEF Rows, RowTasks, RowMinutes, StreakRow

\* A completion adds one task and its minutes to the sums over the rows.
LEMMA StreakAdds ==
  ASSUME Inv0, NEW r \in Reqs, Adds(r)
  PROVE  /\ SumFunctionOnSet(RowTasks', Rows') = SumFunctionOnSet(RowTasks, Rows) + 1
         /\ SumFunctionOnSet(RowMinutes', Rows')
              = SumFunctionOnSet(RowMinutes, Rows) + req[r].in.arg
<1> PICK d, m : d = req[r].in.now /\ m = req[r].in.arg
  OBVIOUS
<1>1. d \in Dates /\ m \in Nat /\ streak' = UpsertStreakDay(d, m)
  BY RequestFields DEF Adds, AtWorkOn, CommitComplete
<1>2. streak \in [Dates -> StreakRow \cup {None}]
  BY DEF Inv0, TypeOK
<1>3. \A e \in Dates \ {d} : streak'[e] = streak[e]
  BY <1>1, <1>2 DEF UpsertStreakDay
<1>4. /\ streak'[d].tasks = (IF d \in Rows THEN streak[d].tasks + 1 ELSE 1)
      /\ streak'[d].minutes = (IF d \in Rows THEN streak[d].minutes + m ELSE m)
      /\ streak'[d] # None
  <2> DEFINE before == IF streak[d] = None
                       THEN [tasks |-> 0, minutes |-> 0, goal |-> FALSE]
                       ELSE streak[d]
             row == [tasks |-> before.tasks + 1, minutes |-> before.minutes + m,
                     goal |-> before.minutes + m >= DailyGoal]
  <2>1. streak'[d] = row
    BY <1>1, <1>2 DEF UpsertStreakDay
  <2>2. before \in StreakRow
    BY <1>1, <1>2 DEF StreakRow
  <2>3. row \in StreakRow
    BY <1>1, <2>2 DEF StreakRow
  <2>4. row # None
    BY <2>3, RowsExist, Zenon
  <2>5. before.tasks = (IF d \in Rows THEN streak[d].tasks ELSE 0)
    BY <1>1 DEF Rows
  <2>6. before.minutes = (IF d \in Rows THEN streak[d].minutes ELSE 0)
    BY <1>1 DEF Rows
  <2> HIDE DEF before
  <2> QED BY <1>1, <2>1, <2>4, <2>5, <2>6
<1>5. Rows' = Rows \cup {d}
  BY <1>1, <1>3, <1>4 DEF Rows
<1>6. ASSUME NEW f, NEW g, NEW S, f = RowTasks, g = RowTasks', S = Rows
      PROVE  SumFunctionOnSet(g, S \cup {d}) = SumFunctionOnSet(f, S) + 1
  <2>1. /\ IsFiniteSet(S) /\ \A y \in S : f[y] \in Nat
        /\ \A y \in S \ {d} : g[y] = f[y]
        /\ d \in S => g[d] = f[d] + 1
        /\ d \notin S => g[d] = 1
    BY <1>1, <1>3, <1>4, <1>5, <1>6, StreakFields DEF RowTasks, Rows
  <2> QED BY <2>1, SumUpsert
<1>7. ASSUME NEW f, NEW g, NEW S, f = RowMinutes, g = RowMinutes', S = Rows
      PROVE  SumFunctionOnSet(g, S \cup {d}) = SumFunctionOnSet(f, S) + m
  <2>1. /\ IsFiniteSet(S) /\ \A y \in S : f[y] \in Nat
        /\ \A y \in S \ {d} : g[y] = f[y]
        /\ d \in S => g[d] = f[d] + m
        /\ d \notin S => g[d] = m
    BY <1>1, <1>3, <1>4, <1>5, <1>7, StreakFields DEF RowMinutes, Rows
  <2> QED BY <1>1, <2>1, SumUpsert
<1> QED BY <1>5, <1>6, <1>7

\* A reopening takes at most one task and the minutes it reverses off them.
LEMMA StreakRemoves ==
  ASSUME Inv0, NEW r \in Reqs, NEW p \in Reqs, Removes(r, p)
  PROVE  /\ SumFunctionOnSet(RowTasks', Rows') \in Nat
         /\ SumFunctionOnSet(RowTasks', Rows') >= SumFunctionOnSet(RowTasks, Rows) - 1
         /\ SumFunctionOnSet(RowMinutes', Rows') \in Nat
         /\ SumFunctionOnSet(RowMinutes', Rows')
              >= SumFunctionOnSet(RowMinutes, Rows) - session[p].minutes
<1> PICK d, m : d = req[r].in.now /\ m = session[p].minutes
  OBVIOUS
<1>1. d \in Dates /\ m \in Nat /\ streak' = ReverseStreakDay(d, m)
  BY RequestFields, LiveSessionFields DEF Removes, AtWorkOn, CommitReopen
<1>2. streak \in [Dates -> StreakRow \cup {None}]
  BY DEF Inv0, TypeOK
<1>3. /\ SumFunctionOnSet(RowTasks, Rows) \in Nat
      /\ SumFunctionOnSet(RowMinutes, Rows) \in Nat
  BY StreakFields, SumNat
<1>4. CASE streak[d] = None
  <2>1. RowTasks' = RowTasks /\ RowMinutes' = RowMinutes /\ Rows' = Rows
    BY <1>1, <1>4 DEF ReverseStreakDay, RowTasks, RowMinutes, Rows
  <2> QED BY <1>1, <1>3, <2>1
<1>5. CASE streak[d] # None
  <2>1. \A e \in Dates \ {d} : streak'[e] = streak[e]
    BY <1>1, <1>2, <1>5 DEF ReverseStreakDay
  <2>2. /\ streak'[d].tasks = SubFloor(streak[d].tasks, 1)
        /\ streak'[d].minutes = SubFloor(streak[d].minutes, m)
        /\ streak'[d] # None
    <3> DEFINE row == [tasks |-> SubFloor(streak[d].tasks, 1),
                       minutes |-> SubFloor(streak[d].minutes, m),
                       goal |-> SubFloor(streak[d].tasks, 1) > 0 /\ streak[d].goal]
    <3>1. streak'[d] = row
      BY <1>1, <1>2, <1>5 DEF ReverseStreakDay
    <3>2. streak[d].tasks \in Nat /\ streak[d].minutes \in Nat
      BY <1>1, <1>2, <1>5 DEF StreakRow
    <3>3. row \in StreakRow
      BY <1>1, <3>2, SubFloorNat DEF StreakRow
    <3>4. row # None
      BY <3>3, RowsExist, Zenon
    <3> QED BY <3>1, <3>4
  <2>3. Rows' = Rows /\ d \in Rows
    BY <1>1, <1>5, <2>1, <2>2 DEF Rows
  <2>4. ASSUME NEW f, NEW g, NEW S, f = RowTasks, g = RowTasks', S = Rows
        PROVE  /\ SumFunctionOnSet(g, S) \in Nat
               /\ SumFunctionOnSet(g, S) >= SumFunctionOnSet(f, S) - 1
    <3>1. /\ IsFiniteSet(S) /\ d \in S /\ \A y \in S : f[y] \in Nat
          /\ \A y \in S \ {d} : g[y] = f[y]
          /\ g[d] = SubFloor(f[d], 1)
      BY <2>1, <2>2, <2>3, <2>4, StreakFields DEF RowTasks, Rows
    <3>2. g[d] \in Nat /\ g[d] >= f[d] - 1 /\ f[d] \in Nat
      BY <3>1 DEF SubFloor
    <3>3. \A y \in S : f[y] \in Nat /\ g[y] \in Nat
      BY <3>1, <3>2
    <3>4. SumFunctionOnSet(g, S) = SumFunctionOnSet(f, S) - f[d] + g[d]
      BY <3>1, <3>3, SumChange
    <3>5. SumFunctionOnSet(f, S) \in Nat /\ SumFunctionOnSet(g, S) \in Nat
      BY <3>1, <3>3, SumNat
    <3> QED BY <3>2, <3>4, <3>5
  <2>5. ASSUME NEW f, NEW g, NEW S, f = RowMinutes, g = RowMinutes', S = Rows
        PROVE  /\ SumFunctionOnSet(g, S) \in Nat
               /\ SumFunctionOnSet(g, S) >= SumFunctionOnSet(f, S) - m
    <3>1. /\ IsFiniteSet(S) /\ d \in S /\ \A y \in S : f[y] \in Nat
          /\ \A y \in S \ {d} : g[y] = f[y]
          /\ g[d] = SubFloor(f[d], m)
      BY <2>1, <2>2, <2>3, <2>5, StreakFields DEF RowMinutes, Rows
    <3>2. g[d] \in Nat /\ g[d] >= f[d] - m /\ f[d] \in Nat
      BY <1>1, <3>1 DEF SubFloor
    <3>3. \A y \in S : f[y] \in Nat /\ g[y] \in Nat
      BY <3>1, <3>2
    <3>4. SumFunctionOnSet(g, S) = SumFunctionOnSet(f, S) - f[d] + g[d]
      BY <3>1, <3>3, SumChange
    <3>5. SumFunctionOnSet(f, S) \in Nat /\ SumFunctionOnSet(g, S) \in Nat
      BY <3>1, <3>3, SumNat
    <3> QED BY <1>1, <3>2, <3>4, <3>5
  <2> QED BY <2>3, <2>4, <2>5
<1> QED BY <1>4, <1>5

\* The sessions that stand, and their minutes, never exceed the sums.
Undercounts(n, k) == /\ SumFunctionOnSet(RowTasks, Rows) >= n
                     /\ SumFunctionOnSet(RowMinutes, Rows) >= k

LEMMA StreakStep ==
  ASSUME Inv0, SnapshotsFresh, BookedOnce, CompletedHasSession, OneRequestPerTask,
         NEW r \in Reqs, By(r),
         Undercounts(Cardinality(LiveSessions), SumFunctionOnSet(MinutesOf, LiveSessions))
  PROVE  Undercounts(Cardinality(LiveSessions),
                     SumFunctionOnSet(MinutesOf, LiveSessions))'
<1> PICK f, g, S, T : f = MinutesOf /\ g = MinutesOf' /\ S = LiveSessions /\ T = LiveSessions'
  OBVIOUS
<1> PICK a, b, n, k : /\ a = SumFunctionOnSet(RowTasks, Rows)
                      /\ b = SumFunctionOnSet(RowMinutes, Rows)
                      /\ n = Cardinality(S) /\ k = SumFunctionOnSet(f, S)
  OBVIOUS
<1>1. IsFiniteSet(S) /\ \A s \in S : f[s] = session[s].minutes /\ f[s] \in Nat
  BY SessionsFinite, LiveSessionFields DEF MinutesOf
<1>2. \A s \in T : g[s] = session'[s].minutes
  BY DEF MinutesOf
<1>3. a \in Nat /\ b \in Nat /\ n \in Nat /\ k \in Nat /\ a >= n /\ b >= k
  BY <1>1, SumNat, FS_CardinalityType, StreakFields DEF Undercounts
<1> SUFFICES /\ SumFunctionOnSet(RowTasks', Rows') >= Cardinality(T)
             /\ SumFunctionOnSet(RowMinutes', Rows') >= SumFunctionOnSet(g, T)
  BY DEF Undercounts
<1>4. CASE Adds(r)
  <2> PICK m : m = req[r].in.arg
    OBVIOUS
  <2>1. m \in Nat /\ T = S \cup {r} /\ r \notin S /\ g[r] = m
    BY <1>2, <1>4 DEF Adds
  <2>2. \A s \in S : g[s] = f[s] /\ g[s] \in Nat
    BY <1>1, <1>2, <1>4, <2>1 DEF Adds
  <2>3. Cardinality(T) = n + 1
    BY <1>1, <2>1, FS_AddElement
  <2>4. SumFunctionOnSet(g, S) = k
    BY <1>1, <2>2, SumSame
  <2>5. SumFunctionOnSet(g, T) = m + k
    BY <1>1, <2>1, <2>2, <2>4, SumAdd
  <2>6. /\ SumFunctionOnSet(RowTasks', Rows') = a + 1
        /\ SumFunctionOnSet(RowMinutes', Rows') = b + m
    BY <1>4, StreakAdds
  <2> QED BY <1>3, <2>1, <2>3, <2>5, <2>6
<1>5. CASE \E p \in Reqs : Removes(r, p)
  <2>1. PICK p \in Reqs : Removes(r, p)
    BY <1>5
  <2>2. p \in S /\ T = S \ {p} /\ f[p] = session[p].minutes /\ f[p] \in Nat
    BY <1>1, <2>1 DEF Removes
  <2>3. \A s \in T : g[s] = f[s]
    BY <1>1, <1>2, <2>1, <2>2 DEF Removes
  <2>4. Cardinality(T) = n - 1
    BY <1>1, <2>2, FS_RemoveElement
  <2>5. k = f[p] + SumFunctionOnSet(f, T) /\ SumFunctionOnSet(f, T) \in Nat
    BY <1>1, <2>2, SumRemove
  <2>6. SumFunctionOnSet(g, T) = SumFunctionOnSet(f, T)
    BY <1>1, <2>2, <2>3, SumSame, FS_Subset
  <2>7. /\ SumFunctionOnSet(RowTasks', Rows') >= a - 1
        /\ SumFunctionOnSet(RowMinutes', Rows') >= b - f[p]
    BY <2>1, <2>2, StreakRemoves
  <2>8. /\ SumFunctionOnSet(RowTasks', Rows') \in Nat
        /\ SumFunctionOnSet(RowMinutes', Rows') \in Nat
    BY <2>1, StreakRemoves
  <2> QED BY <1>3, <2>2, <2>4, <2>5, <2>6, <2>7, <2>8
<1>6. CASE UNCHANGED <<session, planMinutes, streak>>
  <2>1. /\ T = S /\ RowTasks' = RowTasks /\ RowMinutes' = RowMinutes /\ Rows' = Rows
        /\ g = f
    BY <1>6 DEF LiveSessions, RowTasks, RowMinutes, Rows, MinutesOf
  <2> QED BY <1>3, <2>1
<1> QED BY <1>4, <1>5, <1>6, Books

\* streak_days never counts fewer tasks or minutes than the sessions that stand
\* (upsertStreakDay, reverseStreakDay), for a client that waits for its answers.
THEOREM StreakNeverUndercountsHolds ==
  ASSUME OneRequestPerTask
  PROVE  Spec => []StreakNeverUndercounts
<1> DEFINE U == Undercounts(Cardinality(LiveSessions),
                            SumFunctionOnSet(MinutesOf, LiveSessions))
<1>1. StreakNeverUndercounts <=> U
  BY DEF StreakNeverUndercounts, Undercounts, Rows, RowTasks, RowMinutes, MinutesOf,
         SumFunction
<1>2. Init => U
  <2> SUFFICES ASSUME Init PROVE U
    OBVIOUS
  <2>1. LiveSessions = {} /\ Rows = {}
    BY DEF Init, LiveSessions, Rows
  <2>2. Cardinality({}) = 0
    BY FS_EmptySet
  <2> QED BY <2>1, <2>2, SumEmpty DEF Undercounts
<1>3. /\ Inv0 /\ SnapshotsFresh /\ BookedOnce /\ CompletedHasSession
      /\ U /\ [Next]_vars
      => U'
  <2> SUFFICES ASSUME Inv0, SnapshotsFresh, BookedOnce, CompletedHasSession,
                      U, [Next]_vars
               PROVE  U'
    OBVIOUS
  <2>1. CASE NextDay \/ UNCHANGED vars
    <3>1. /\ session' = session /\ streak' = streak
          /\ LiveSessions' = LiveSessions
      BY <2>1 DEF NextDay, vars, store, LiveSessions
    <3> QED BY <3>1 DEF Undercounts, Rows, RowTasks, RowMinutes, MinutesOf
  <2> HIDE DEF U
  <2>2. ASSUME NEW r \in Reqs, By(r) PROVE U'
    BY <2>2, StreakStep DEF U
  <2> QED BY <2>1, <2>2 DEF Next, By
<1> HIDE DEF U
<1> QED BY <1>1, <1>2, <1>3, Inv0Holds, SnapshotsFreshHolds, BookedOnceHolds,
           CompletedHasSessionHolds, PTL DEF Spec

(***************************************************************************)
(* The streak a completion answers with.                                   *)
(***************************************************************************)
LEMMA CurrentPositive ==
  ASSUME NEW D \in SUBSET Int, IsFiniteSet(D), NEW d \in D
  PROVE  Current(D, d) >= 1
<1>1. Current(D, d) = Walk(D)[d]
  <2>1. Anchors(D, d) = {d} /\ (CHOOSE a \in {d} : TRUE) = d
    BY DEF Anchors
  <2>2. WalkBack(D, d) = Walk(D)[d]
    BY DEF WalkBack, Walk, WalkStep
  <2> QED BY <2>1, <2>2 DEF Current
<1>2. Walk(D)[d] = 1 + Walk(D)[d - 1] /\ Walk(D)[d - 1] \in Nat
  BY WalkExists, WalkCounts DEF WalkStep
<1> QED BY <1>1, <1>2

\* From the commit on, the day of a completion is that of its session, and the
\* dates its streak is computed from hold it.
Completion(r) == req[r].in # None /\ req[r].in.op = "complete"
Counted ==
  \A r \in Reqs :
    /\ req[r].pc = "new" => req[r].in = None
    /\ req[r].pc \in AfterCommit => session[r].day = req[r].in.now
    /\ \/ req[r].pc \in {"counted", "digested"}
       \/ req[r].reply = "ok" /\ Completion(r)
       => req[r].in.now \in req[r].days

\* What a step of its own makes of a handler that answers with a streak.
LEMMA CountedOwn ==
  ASSUME Inv0, Answered, BookedDayHasRow, Counted, NEW r \in Reqs, By(r)
  PROVE  /\ req'[r].pc = "new" => req'[r].in = None
         /\ req'[r].pc \in AfterCommit => session'[r].day = req'[r].in.now
         /\ \/ req'[r].pc \in {"counted", "digested"}
            \/ req'[r].reply = "ok" /\ Completion(r)'
            => req'[r].in.now \in req'[r].days
<1>1. req[r] \in Handler /\ req' \in [Reqs -> Handler] /\ HandlerOK(r)
  <2>1. TypeOK'
    BY TypeBy
  <2> QED BY <2>1 DEF Inv0, TypeOK, HandlersOK
<1>2. ASSUME NEW a, Reply(r, a)
      PROVE  /\ req'[r].pc = "done" /\ req'[r].reply = a
             /\ req'[r].in = req[r].in /\ req'[r].days = req[r].days
  BY <1>2 DEF Reply, Inv0, TypeOK
<1>3. ASSUME NEW label, Goto(r, label)
      PROVE  /\ req'[r].pc = label /\ req'[r].reply = req[r].reply
             /\ req'[r].in = req[r].in /\ req'[r].days = req[r].days
  BY <1>3 DEF Goto, Inv0, TypeOK, Handler
<1>4. req[r].pc # "done" => req[r].reply = "none"
  BY DEF Answered
<1>5. CASE Arrive(r) \/ Read(r)
  <2>1. /\ req'[r].pc \in {"arrived", "read"} /\ req'[r].reply = req[r].reply
        /\ req[r].pc # "done"
    <3>1. CASE Arrive(r)
      <4>1. PICK q : req' = [req EXCEPT ![r] = [@ EXCEPT !.pc = "arrived", !.in = q]]
        BY <3>1 DEF Arrive
      <4> QED BY <1>1, <3>1, <4>1 DEF Arrive, Inv0, TypeOK, Handler
    <3>2. CASE Read(r)
      BY <1>1, <3>2 DEF Read, Inv0, TypeOK, Handler
    <3> QED BY <1>5, <3>1, <3>2
  <2> QED BY <1>4, <2>1 DEF AfterCommit
<1>6. CASE CommitComplete(r)
  <2>1. Goto(r, "committed") /\ req[r].pc # "done" /\ session'[r].day = req[r].in.now
    BY <1>6, Booked DEF CommitComplete
  <2> QED BY <1>3, <1>4, <2>1 DEF AfterCommit
<1>7. CASE ScheduleRevision(r)
  <2>1. Goto(r, "scheduled") /\ req[r].pc = "committed" /\ session' = session
    BY <1>7 DEF ScheduleRevision, store
  <2> QED BY <1>3, <1>4, <2>1 DEF AfterCommit, Counted
<1>8. CASE ComputeStreak(r)
  <2>1. req[r].pc = "scheduled" /\ session' = session
    BY <1>8 DEF ComputeStreak, store
  <2>2. CASE Reply(r, "error")
    BY <1>2, <2>2 DEF AfterCommit
  <2>3. CASE req' = [req EXCEPT
                       ![r] = [@ EXCEPT !.pc = "counted",
                                        !.days = {d \in Dates : streak[d] # None}]]
    <3>1. /\ req'[r].pc = "counted" /\ req'[r].in = req[r].in
          /\ req'[r].reply = req[r].reply
          /\ req'[r].days = {d \in Dates : streak[d] # None}
      BY <2>3 DEF Inv0, TypeOK, Handler
    <3>2. session[r] # None /\ session[r].day = req[r].in.now
      BY <1>1, <2>1 DEF HandlerOK, AfterCommit, Counted
    <3>3. req[r].in.now \in Dates /\ streak[req[r].in.now] # None
      <4>1. req[r].in.now \in Dates
        BY <2>1, AtWork, RequestFields DEF Active, AtWorkOn
      <4> QED BY <3>2, <4>1 DEF BookedDayHasRow
    <3> QED BY <2>1, <3>1, <3>2, <3>3 DEF AfterCommit
  <2> QED BY <1>8, <2>2, <2>3 DEF ComputeStreak
<1>9. CASE RefreshDigest(r)
  <2>1. Goto(r, "digested") /\ req[r].pc = "counted" /\ session' = session
    BY <1>9 DEF RefreshDigest, store
  <2> QED BY <1>3, <1>4, <2>1 DEF AfterCommit, Counted
<1>10. CASE RecordSnapshot(r)
  <2>1. Reply(r, "ok") /\ req[r].pc = "digested"
    BY <1>10 DEF RecordSnapshot
  <2> QED BY <1>2, <2>1 DEF AfterCommit, Counted
<1>11. CASE \/ Refuse(r) \/ NoTargetDay(r) \/ ScheduleFails(r) \/ Lose(r)
  <2>1. \/ Reply(r, "already_resolved") \/ Reply(r, "no_plan_day")
        \/ Reply(r, "error") \/ Reply(r, "lost")
        \/ Reply(r, "ok") /\ req[r].in.op # "complete"
    BY <1>11 DEF Refuse, NoTargetDay, ScheduleFails, Lose
  <2> QED BY <1>2, <2>1 DEF AfterCommit, Completion
<1>12. CASE CommitSkip(r) \/ CommitStart(r) \/ CommitReopen(r) \/ CommitReschedule(r)
  <2>1. Reply(r, "ok") /\ req[r].in.op # "complete"
    BY <1>12 DEF CommitSkip, CommitStart, CommitReopen, CommitReschedule
  <2> QED BY <1>2, <2>1 DEF AfterCommit, Completion
<1>13. CASE Remediate(r)
  <2>1. req'[r].pc = "done" /\ req'[r].in = None
    BY <1>2, <1>13 DEF Remediate, Counted
  <2> QED BY <2>1 DEF AfterCommit, Completion
<1> QED BY <1>5, <1>6, <1>7, <1>8, <1>9, <1>10, <1>11, <1>12, <1>13 DEF By, Step

LEMMA CountedHolds == Spec => []Counted
<1>1. Init => Counted
  BY DEF Init, Counted, AfterCommit, Completion
<1>2. Inv0 /\ Answered /\ BookedDayHasRow /\ Counted /\ [Next]_vars => Counted'
  <2> SUFFICES ASSUME Inv0, Answered, BookedDayHasRow, Counted, [Next]_vars
               PROVE  Counted'
    OBVIOUS
  <2>1. CASE NextDay \/ UNCHANGED vars
    BY <2>1 DEF NextDay, vars, store, Counted, Completion
  <2>2. ASSUME NEW r \in Reqs, By(r), NEW s \in Reqs
        PROVE  /\ req'[s].pc = "new" => req'[s].in = None
               /\ req'[s].pc \in AfterCommit => session'[s].day = req'[s].in.now
               /\ \/ req'[s].pc \in {"counted", "digested"}
                  \/ req'[s].reply = "ok" /\ Completion(s)'
                  => req'[s].in.now \in req'[s].days
    <3>1. CASE s = r
      BY <2>2, <3>1, CountedOwn
    <3>2. CASE s # r
      <4>1. req'[s] = req[s]
        BY <2>2, <3>2, FrameHolds DEF Frame
      <4>2. req[s].pc \in AfterCommit => session'[s].day = session[s].day
        BY <2>2, FrameHolds DEF Frame, Inv0, HandlersOK, HandlerOK
      <4> QED BY <4>1, <4>2 DEF Counted, Completion
    <3> QED BY <3>1, <3>2
  <2> QED BY <2>1, <2>2 DEF Next, By, Counted
<1> QED BY <1>1, <1>2, Inv0Holds, AnsweredHolds, BookedDayHasRowHolds, PTL DEF Spec

\* The streak a completion answers with counts the day it completed on: it is
\* computed after the commit, and no reopening deletes a row (CompleteTask,
\* computeStreakFromDates).
THEOREM AnswerCountsTheDayHolds == Spec => []AnswerCountsTheDay
<1>1. Inv0 /\ Counted => AnswerCountsTheDay
  <2> SUFFICES ASSUME Inv0, Counted, NEW r \in Reqs,
                      req[r].reply = "ok", Completion(r)
               PROVE  Current(req[r].days, req[r].in.now) >= 1
    BY DEF AnswerCountsTheDay, Completion
  <2>1. req[r].in.now \in req[r].days
    BY DEF Counted
  <2>2. req[r].days \in SUBSET Int /\ IsFiniteSet(req[r].days)
    <3>1. req[r].days \subseteq Dates
      BY DEF Inv0, TypeOK, Handler
    <3> QED BY <3>1, PlanTasksAssumption, FS_Subset
  <2> QED BY <2>1, <2>2, CurrentPositive
<1> QED BY <1>1, Inv0Holds, CountedHolds, PTL
=============================================================================
