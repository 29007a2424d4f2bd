-------------------------------- MODULE Digest --------------------------------
(***************************************************************************)
(* The notification digest and the readiness snapshots of one user         *)
(* (backend/internal/notification and analytics), and the tail of          *)
(* CompleteTask that feeds both.                                           *)
(*                                                                         *)
(* The generator runs six producers in a row.  Each reads the plan, the    *)
(* revisions, the streak or the snapshots, and upserts at most one row     *)
(* under a dedup key; the first error ends the digest.  A completion runs  *)
(* the digest after its commit, and then reads the readiness and upserts   *)
(* the snapshot of the day, both best-effort.  Reading and writing are     *)
(* separate statements outside any transaction, so they are steps of their *)
(* own here, and midnight may fall between any two of them.                *)
(***************************************************************************)
EXTENDS Integers, Sequences, FiniteSets, FiniteSetsExt

CONSTANTS
  Tasks,       \* plan_tasks of the active roadmap
  DayOf,       \* Tasks -> the date of the plan-day of each
  LastDay,     \* bounds the clock
  Monday,      \* a day that is one
  Levels,      \* the overall readiness values that occur
  Wired,       \* the producers whose read port is set (the others are skipped)
  Handlers,    \* requests the server has in hand at once
  OneAtATime,  \* whether the client waits for the answer to a completion
               \* before it completes another task
  None

Days == 0..LastDay
Step == 10                              \* readinessMilestoneStep
Week(d) == (d - Monday) \div 7          \* isoWeekStart, as the week's number
Milestone(v) == (v \div Step) * Step

Port(p) == IF p \in Wired THEN <<p>> ELSE <<>>
Producers == Port("today_plan") \o Port("missed_goal") \o Port("revision_due")
             \o Port("streak_reminder") \o Port("readiness_milestone")
             \o Port("weekly_review")

\* The dedup keys: a type and the day, milestone or week it is about.
Keys == ({"today_plan", "missed_goal", "revision_due", "streak_reminder"} \X Days)
        \cup ({"readiness_milestone"} \X {Milestone(v) : v \in Levels})
        \cup ({"weekly_review"} \X {Week(d) : d \in Days})

ASSUME DigestAssumption ==
  /\ LastDay \in Nat \ {0} /\ Monday \in Int
  /\ DayOf \in [Tasks -> 1..LastDay]
  /\ Levels \subseteq Nat /\ IsFiniteSet(Levels) /\ 0 \in Levels
  /\ OneAtATime \in BOOLEAN
  /\ None \notin Nat \cup Tasks \cup Keys \cup {"unread", "read"}

VARIABLES
  day,        \* the UTC date of the server's clock
  task,       \* Tasks -> [status, on, at]: the row, the date of completed_at,
              \* and (history, not in the row) that of the commit
  studied,    \* the dates of streak_days
  snapshot,   \* Days -> overall_readiness of that day's row, None without one
  note,       \* Keys -> the status of the row with that dedup key, or None
  handler,    \* Handlers -> the request in hand and how far it has come
  failed      \* whether a digest or a snapshot after a completion has failed

vars == <<day, task, studied, snapshot, note, handler, failed>>
plan == <<task, studied>>     \* what a completion changes

Handler ==
  [pc : {"idle", "arrived", "asked", "read", "upsert", "assess", "store"},
   op : {"generate", "complete"},
   at : Nat,                      \* the producer it has reached
   date : Days,                   \* today, as CompleteTask or Generate took it
   key : Keys \cup {None},        \* the row it is about to upsert
   seen : Levels \cup {None}]     \* the readiness it has computed

TypeOK ==
  /\ day \in 1..LastDay
  /\ task \in [Tasks -> [status : {"pending", "completed", "skipped"},
                        on : Days, at : Days]]
  /\ failed \in BOOLEAN
  /\ studied \subseteq Days
  /\ snapshot \in [Days -> Levels \cup {None}]
  /\ note \in [Keys -> {"unread", "read", None}]
  /\ handler \in [Handlers -> Handler]

Idle == [pc |-> "idle", op |-> "generate", at |-> 1, date |-> 0, key |-> None,
         seen |-> None]

Init ==
  /\ day = 1
  /\ task = [t \in Tasks |-> [status |-> "pending", on |-> 0, at |-> 0]]
  /\ failed = FALSE
  /\ studied = {}
  /\ snapshot = [d \in Days |-> None]
  /\ note = [k \in Keys |-> None]
  /\ handler = [h \in Handlers |-> Idle]

-----------------------------------------------------------------------------
(***************************************************************************)
(* The read ports (ports.go).  A definition named Bug_... is a plausible   *)
(* slip in the one that follows it; no specification uses it.              *)
(***************************************************************************)
\* PlanDay: the tasks that count on date d.
PlanDay(d) == {t \in Tasks : DayOf[t] = d /\ task[t].status # "skipped"}
Untouched(d) == /\ PlanDay(d) # {}
                /\ \A t \in PlanDay(d) : task[t].status # "completed"

\* Streak: whether a run of study days ends on the day before d, d not logged.
StreakAtRisk(d) == d \notin studied /\ d - 1 \in studied

\* LatestReadiness: the last two snapshots, 0 for a previous one that is missing.
SnapshotDays == {d \in Days : snapshot[d] # None}
Before(d) == {e \in SnapshotDays : e < d}
Previous(d) == IF Before(d) = {} THEN 0 ELSE snapshot[Max(Before(d))]

\* WeeklySummary: something was completed or assessed in the week of d.
WeekHasNews(d) ==
  \/ \E t \in Tasks : task[t].status = "completed" /\ Week(task[t].on) = Week(d)
  \/ \E e \in SnapshotDays : Week(e) = Week(d)

\* crossedMilestone, as the set of milestones to note: none or one.
Bug_NextMilestone(previous, latest) ==
  IF Milestone(latest) > Milestone(previous) THEN {Milestone(previous) + Step} ELSE {}
Crossed(previous, latest) ==
  IF Milestone(latest) > Milestone(previous) THEN {Milestone(latest)} ELSE {}

-----------------------------------------------------------------------------
(***************************************************************************)
(* The producers (generator.go): the keys each finds reason for on a day.  *)
(***************************************************************************)
TodayPlan(d) == IF Untouched(d) THEN {<<"today_plan", d>>} ELSE {}
Bug_MissedToday(d) == IF Untouched(d) THEN {<<"missed_goal", d>>} ELSE {}
MissedGoal(d) == IF Untouched(d - 1) THEN {<<"missed_goal", d - 1>>} ELSE {}
RevisionDue(d) == {<<"revision_due", d>>}      \* when any is due: see Read
StreakReminder(d) == IF StreakAtRisk(d) THEN {<<"streak_reminder", d>>} ELSE {}
Latest == {d \in SnapshotDays : \A e \in SnapshotDays : e <= d}
ReadinessMilestone ==
  UNION {{"readiness_milestone"} \X Crossed(Previous(d), snapshot[d]) : d \in Latest}
WeeklyReview(d) == IF WeekHasNews(d) THEN {<<"weekly_review", Week(d)>>} ELSE {}

Finds(producer, d) ==
  {k \in TodayPlan(d) \cup MissedGoal(d) \cup RevisionDue(d) \cup StreakReminder(d)
           \cup ReadinessMilestone \cup WeeklyReview(d) : k[1] = producer}

-----------------------------------------------------------------------------
(***************************************************************************)
(* Requests.  A completion's commit is one step (module PlanTasks has the  *)
(* rest of its transaction).  Whether revisions are due and what the       *)
(* readiness comes to is for modules Revision and Readiness: any answer is *)
(* possible here.                                                          *)
(***************************************************************************)
Ask(h) ==
  /\ handler[h].pc = "idle"
  /\ handler' = [handler EXCEPT ![h] = [Idle EXCEPT !.pc = "read", !.date = day]]
  /\ UNCHANGED <<day, plan, snapshot, note, failed>>

\* CompleteTask takes the time, and with it the date, before its transaction.
Complete(h) ==
  /\ handler[h].pc = "idle"
  /\ OneAtATime => \A g \in Handlers : handler[g].pc # "idle" => handler[g].op # "complete"
  /\ handler' = [handler EXCEPT ![h] = [Idle EXCEPT !.pc = "arrived", !.op = "complete",
                                                   !.date = day]]
  /\ UNCHANGED <<day, plan, snapshot, note, failed>>

\* The transaction may commit after midnight; what it writes is of that date.
Commit(h, t) ==
  /\ handler[h].pc = "arrived"
  /\ task[t].status = "pending"
  /\ task' = [task EXCEPT ![t] = [status |-> "completed", on |-> handler[h].date,
                                 at |-> day]]
  /\ studied' = studied \cup {handler[h].date}
  /\ handler' = [handler EXCEPT ![h].pc = "asked"]
  /\ UNCHANGED <<day, snapshot, note, failed>>

\* It finds the task resolved or fails, or after it the scheduler or the streak
\* query does: neither digest nor snapshot follow.
Abandon(h) ==
  /\ handler[h].pc \in {"arrived", "asked"}
  /\ handler' = [handler EXCEPT ![h] = Idle]
  /\ UNCHANGED <<day, plan, snapshot, note, failed>>

\* Generate takes the date once, before its first query.  Between the commit
\* of a completion and its digest lie the scheduler and the streak.
Begin(h) ==
  /\ handler[h].pc = "asked"
  /\ handler' = [handler EXCEPT ![h].pc = "read", ![h].date = day]
  /\ UNCHANGED <<day, plan, snapshot, note, failed>>

\* The handler moves on from its producer: to the next, or out of the digest.
Onward(h) ==
  IF handler[h].at < Len(Producers)
  THEN [handler[h] EXCEPT !.pc = "read", !.at = @ + 1, !.key = None]
  ELSE IF handler[h].op = "complete"
  THEN [Idle EXCEPT !.pc = "assess", !.op = "complete"]
  ELSE Idle

Read(h) ==
  /\ handler[h].pc = "read"
  /\ LET producer == Producers[handler[h].at]
         found == Finds(producer, handler[h].date)
     IN \/ /\ found = {} \/ producer = "revision_due"
           /\ handler' = [handler EXCEPT ![h] = Onward(h)]
        \/ \E k \in found :
             handler' = [handler EXCEPT ![h].pc = "upsert", ![h].key = k]
  /\ UNCHANGED <<day, plan, snapshot, note, failed>>

\* ON CONFLICT DO NOTHING; the row that is there is read back and returned.
Bug_Refreshed(old) == "unread"
OnConflict(old) == IF old = None THEN "unread" ELSE old

Upsert(h) ==
  /\ handler[h].pc = "upsert"
  /\ note' = [note EXCEPT ![handler[h].key] = OnConflict(@)]
  /\ handler' = [handler EXCEPT ![h] = Onward(h)]
  /\ UNCHANGED <<day, plan, snapshot, failed>>

\* RecordSnapshot: the readiness is computed from many queries, and then the
\* row of the day it is by now is written, new or not.
Assess(h) ==
  /\ handler[h].pc = "assess"
  /\ \E v \in Levels : handler' = [handler EXCEPT ![h].pc = "store", ![h].seen = v]
  /\ UNCHANGED <<day, plan, snapshot, note, failed>>

Store(h) ==
  /\ handler[h].pc = "store"
  /\ snapshot' = [snapshot EXCEPT ![day] = handler[h].seen]
  /\ handler' = [handler EXCEPT ![h] = Idle]
  /\ UNCHANGED <<day, plan, note, failed>>

\* A statement fails or the server stops.  An error ends the digest; a
\* completion ignores it and goes on to the snapshot.
Fail(h) ==
  /\ handler[h].pc \in {"read", "upsert", "assess", "store"}
  /\ \/ handler' = [handler EXCEPT ![h] = Idle]
     \/ /\ handler[h].op = "complete" /\ handler[h].pc \in {"read", "upsert"}
        /\ handler' = [handler EXCEPT ![h] = [Idle EXCEPT !.pc = "assess", !.op = "complete"]]
  /\ failed' = (failed \/ handler[h].op = "complete")
  /\ UNCHANGED <<day, plan, snapshot, note>>

\* MarkRead looks the row up, and updates it where it is still unread.  The
\* user opens the inbox once (a bound).
Unopened == \A k \in Keys : note[k] # "read"
MarkRead(k) ==
  /\ Unopened /\ note[k] = "unread"
  /\ note' = [note EXCEPT ![k] = "read"]
  /\ UNCHANGED <<day, plan, snapshot, handler, failed>>

MarkAllRead ==
  /\ Unopened /\ \E k \in Keys : note[k] = "unread"
  /\ note' = [k \in Keys |-> IF note[k] = "unread" THEN "read" ELSE note[k]]
  /\ UNCHANGED <<day, plan, snapshot, handler, failed>>

-----------------------------------------------------------------------------
(***************************************************************************)
(* What happens elsewhere: tasks are reopened and skipped, and midnight    *)
(* passes.                                                                 *)
(***************************************************************************)
Reopen(t) ==
  /\ task[t].status = "completed"
  /\ task' = [task EXCEPT ![t] = [status |-> "pending", on |-> 0, at |-> 0]]
  /\ UNCHANGED <<day, studied, snapshot, note, handler, failed>>

Skip(t) ==
  /\ task[t].status = "pending"
  /\ task' = [task EXCEPT ![t].status = "skipped"]
  /\ UNCHANGED <<day, studied, snapshot, note, handler, failed>>

Midnight ==
  /\ day < LastDay /\ day' = day + 1
  /\ UNCHANGED <<task, studied, snapshot, note, handler, failed>>

Next ==
  \/ \E h \in Handlers : \/ Ask(h) \/ Begin(h) \/ Read(h) \/ Upsert(h)
                         \/ Assess(h) \/ Store(h) \/ Fail(h)
                         \/ Complete(h) \/ Abandon(h)
                         \/ \E t \in Tasks : Commit(h, t)
  \/ \E k \in Keys : MarkRead(k)
  \/ MarkAllRead
  \/ \E t \in Tasks : Reopen(t) \/ Skip(t)
  \/ Midnight

Spec == Init /\ [][Next]_vars

-----------------------------------------------------------------------------
\* However digests, retries and the inbox overlap, a notification the user has
\* read is never shown as unread again and none disappears (UpsertByDedupKey,
\* MarkRead, MarkAllRead).
ReadStaysRead ==
  [][\A k \in Keys : /\ note[k] = "read" => note'[k] = "read"
                     /\ note[k] # None => note'[k] # None]_vars

\* A user whose completion of a task of a plan-day was stored by the end of that
\* day is never told to have missed it, however late the digest that took the
\* date gets to write (Generate against completions and midnight).  Of a request
\* that came in on the day and was stored after midnight nothing is said: its
\* completed_at is of the day, and the digest could not see it yet.
MissedWasMissed ==
  \A d \in Days : note[<<"missed_goal", d>>] # None =>
    \A t \in Tasks : DayOf[t] = d /\ task[t].status = "completed" => task[t].at > d

\* Although the digest of a completion runs before its snapshot, no milestone
\* is lost: when a later snapshot exists, the one a snapshot crossed since the
\* one before it has been noted, unless a completion's follow-up failed
\* (Generate, RecordSnapshot).
MilestoneNoted ==
  failed \/ \A d \in SnapshotDays :
    d # Max(SnapshotDays) /\ Milestone(snapshot[d]) > Milestone(Previous(d)) =>
      note[<<"readiness_milestone", Milestone(snapshot[d])>>] # None
=============================================================================
