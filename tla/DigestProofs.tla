----------------------------- MODULE DigestProofs -----------------------------
(***************************************************************************)
(* What TLAPS proves of Digest for any plan, any days and any number of    *)
(* requests at once.                                                       *)
(*                                                                         *)
(* A digest may write about a day long after it took the date, so the      *)
(* truth of a missed goal has to hold of the key a request is about to     *)
(* upsert as well as of the rows.  What keeps it true is that its day is   *)
(* over: a completion stored later is stored on a later day.               *)
(*                                                                         *)
(* A milestone is noted because snapshots are written by completions only, *)
(* one at a time: the digest of a completion sees the snapshot that its    *)
(* own one will make the last but one.                                     *)
(***************************************************************************)
EXTENDS Digest, SetLemmas, SequenceTheorems

\* What a key says of the past is so.
True(k) ==
  \A d \in Days : k = <<"missed_goal", d>> =>
    /\ d < day
    /\ \A t \in Tasks : DayOf[t] = d /\ task[t].status = "completed" => task[t].at > d

IInv ==
  /\ TypeOK
  /\ \A k \in Keys : note[k] # None => True(k)
  /\ \A h \in Handlers : handler[h].date <= day /\ True(handler[h].key)

-----------------------------------------------------------------------------
LEMMA KeyIs ==
  ASSUME NEW d \in Days
  PROVE  /\ <<"today_plan", d>> \in Keys /\ <<"missed_goal", d>> \in Keys
         /\ <<"revision_due", d>> \in Keys /\ <<"streak_reminder", d>> \in Keys
         /\ <<"weekly_review", Week(d)>> \in Keys
BY DEF Keys

LEMMA MilestoneKey ==
  ASSUME TypeOK, NEW k \in ReadinessMilestone
  PROVE  k \in Keys /\ k[1] = "readiness_milestone"
<1>1. PICK d \in Latest : k \in {"readiness_milestone"} \X Crossed(Previous(d), snapshot[d])
  BY DEF ReadinessMilestone
<1>2. snapshot[d] \in Levels
  BY DEF Latest, SnapshotDays, TypeOK
<1> QED BY <1>1, <1>2 DEF Crossed, Keys

\* A digest finds keys, and finds a goal missed only if it was.
LEMMA FindsIs ==
  ASSUME IInv, NEW h \in Handlers, NEW producer,
         NEW k \in Finds(producer, handler[h].date)
  PROVE  k \in Keys /\ True(k)
<1> DEFINE date == handler[h].date
<1>1. TypeOK /\ date \in Days /\ date <= day
  BY DEF IInv, TypeOK, Handler
<1>2. ASSUME k \in MissedGoal(date)
      PROVE  k = <<"missed_goal", date - 1>> /\ k \in Keys /\ True(k)
  <2>1. k = <<"missed_goal", date - 1>> /\ Untouched(date - 1)
    BY <1>2 DEF MissedGoal
  <2>2. date - 1 \in Days
    BY <1>1, <2>1, DigestAssumption DEF Untouched, PlanDay, Days
  <2>3. \A t \in Tasks : DayOf[t] = date - 1 => task[t].status # "completed"
    BY <2>1 DEF Untouched, PlanDay
  <2>4. date - 1 < day
    BY <1>1, DigestAssumption DEF TypeOK, Days
  <2>5. True(k)
    BY <2>1, <2>2, <2>3, <2>4 DEF True
  <2> QED BY <2>1, <2>2, <2>5, KeyIs
<1>3. CASE k \in MissedGoal(date)
  BY <1>2, <1>3
<1>4. CASE k \in TodayPlan(date) \cup RevisionDue(date) \cup StreakReminder(date)
                   \cup WeeklyReview(date)
  <2>1. \/ \E p \in {"today_plan", "revision_due", "streak_reminder"} : k = <<p, date>>
        \/ k = <<"weekly_review", Week(date)>>
    BY <1>4 DEF TodayPlan, RevisionDue, StreakReminder, WeeklyReview
  <2>2. k \in Keys
    BY <1>1, <2>1, KeyIs
  <2>3. \A d \in Days : k # <<"missed_goal", d>>
    BY <2>1
  <2> QED BY <2>2, <2>3 DEF True
<1>5. CASE k \in ReadinessMilestone
  BY <1>1, <1>5, MilestoneKey DEF True
<1> QED BY <1>3, <1>4, <1>5 DEF Finds

LEMMA IdleIs == Idle \in Handler /\ Idle.date = 0 /\ Idle.key = None
BY DigestAssumption DEF Idle, Handler, Days

LEMMA NoneIsTrue == True(None)
BY KeyIs, DigestAssumption DEF True

LEMMA OnwardIs ==
  ASSUME TypeOK, NEW h \in Handlers
  PROVE  /\ Onward(h) \in Handler
         /\ Onward(h).key = None /\ Onward(h).date \in {0, handler[h].date}
<1>1. handler[h] \in Handler
  BY DEF TypeOK
<1>2. CASE handler[h].at < Len(Producers)
  <2> DEFINE q == [handler[h] EXCEPT !.pc = "read", !.at = handler[h].at + 1, !.key = None]
  <2>1. Onward(h) = q
    BY <1>1, <1>2 DEF Onward, Handler
  <2>2. handler[h].at + 1 \in Nat
    BY <1>1 DEF Handler
  <2>3. q \in Handler /\ q.key = None /\ q.date = handler[h].date
    BY <1>1, <2>2 DEF Handler
  <2> QED BY <2>1, <2>3
<1>3. CASE ~(handler[h].at < Len(Producers))
  BY <1>1, <1>3, IdleIs DEF Onward, Handler, Idle
<1> QED BY <1>2, <1>3

\* A request goes on, perhaps with a key that says what is so.
LEMMA MoveStep ==
  ASSUME IInv, NEW h \in Handlers, NEW q \in Handler,
         handler' = [handler EXCEPT ![h] = q], q.date <= day, True(q.key),
         UNCHANGED <<day, plan>>,
         snapshot' \in [Days -> Levels \cup {None}], failed' \in BOOLEAN,
         note' \in [Keys -> {"unread", "read", None}],
         \A k \in Keys : note'[k] # None => note[k] # None \/ True(k)
  PROVE  IInv'
<1>1. UNCHANGED <<day, task, studied>> /\ TypeOK
  BY DEF plan, IInv
<1>2. /\ handler' \in [Handlers -> Handler]
      /\ \A g \in Handlers : handler'[g] = q \/ handler'[g] = handler[g]
  BY <1>1 DEF TypeOK
<1>3. TypeOK'
  BY <1>1, <1>2 DEF TypeOK
<1>4. ASSUME NEW k, True(k) PROVE True(k)'
  BY <1>1, <1>4 DEF True
<1>5. \A k \in Keys : note'[k] # None => True(k)'
  BY <1>4 DEF IInv
<1>6. ASSUME NEW g \in Handlers PROVE handler'[g].date <= day' /\ True(handler[g].key)'
  <2>1. \A k : True(k) => True(k)'
    BY <1>4
  <2>2. CASE handler'[g] = q
    BY <1>1, <2>2 DEF True
  <2>3. CASE handler'[g] = handler[g]
    BY <1>1, <2>3 DEF True, IInv
  <2> QED BY <1>2, <2>2, <2>3
<1> QED BY <1>3, <1>5, <1>6 DEF IInv

\* The inbox, the plan and the clock move on, and no digest does.
LEMMA ElsewhereStep ==
  ASSUME IInv, TypeOK', UNCHANGED handler, day <= day',
         \A k \in Keys : note'[k] # None => note[k] # None,
         \A t \in Tasks : task'[t].status = "completed" => task'[t] = task[t]
  PROVE  IInv'
<1>1. TypeOK /\ day \in Int /\ day' \in Int
  BY DEF IInv, TypeOK
<1>2. ASSUME NEW k, True(k) PROVE
        \A d \in Days : k = <<"missed_goal", d>> =>
          /\ d < day'
          /\ \A t \in Tasks : DayOf[t] = d /\ task'[t].status = "completed" => task'[t].at > d
  BY <1>1, <1>2 DEF True, Days
<1>3. \A k \in Keys : note'[k] # None => True(k)'
  BY <1>2 DEF IInv, True
<1>4. ASSUME NEW h \in Handlers PROVE handler'[h].date <= day' /\ True(handler[h].key)'
  <2>1. True(handler[h].key) /\ handler[h].date <= day /\ handler[h].date \in Int
    BY <1>1 DEF IInv, TypeOK, Handler, Days
  <2>2. \A d \in Days : handler[h].key = <<"missed_goal", d>> =>
          /\ d < day'
          /\ \A t \in Tasks : DayOf[t] = d /\ task'[t].status = "completed" => task'[t].at > d
    BY <1>2, <2>1
  <2> QED BY <1>1, <2>1, <2>2 DEF True
<1> QED BY <1>3, <1>4 DEF IInv

-----------------------------------------------------------------------------
(***************************************************************************)
(* The actions, in the order of the module.                                *)
(***************************************************************************)
LEMMA AskPreserves ==
  ASSUME IInv, NEW h \in Handlers, Ask(h) \/ Complete(h) \/ Begin(h) \/ Abandon(h)
  PROVE  IInv'
<1>1. /\ handler[h] \in Handler /\ TypeOK /\ day \in Days /\ day <= day /\ 0 <= day
      /\ True(handler[h].key)
  BY DigestAssumption DEF IInv, TypeOK, Days
<1>2. PICK q \in Handler : /\ handler' = [handler EXCEPT ![h] = q]
                           /\ q.date \in {0, day} /\ True(q.key)
  <2>1. CASE Ask(h)
    <3> DEFINE q == [Idle EXCEPT !.pc = "read", !.date = day]
    <3>1. q \in Handler /\ q.date = day /\ q.key = None
      BY <1>1, IdleIs DEF Idle, Handler
    <3> QED BY <2>1, <3>1, NoneIsTrue DEF Ask
  <2>2. CASE Begin(h)
    <3> DEFINE q == [handler[h] EXCEPT !.pc = "read", !.date = day]
    <3>1. q \in Handler /\ q.date = day /\ q.key = handler[h].key
      BY <1>1 DEF Handler
    <3>2. handler' = [handler EXCEPT ![h] = q]
      BY <2>2 DEF Begin
    <3> HIDE DEF q
    <3> QED BY <1>1, <3>1, <3>2
  <2>3. CASE Complete(h)
    <3> DEFINE q == [Idle EXCEPT !.pc = "arrived", !.op = "complete", !.date = day]
    <3>1. q \in Handler /\ q.date = day /\ q.key = None
      BY <1>1, IdleIs DEF Idle, Handler
    <3> QED BY <2>3, <3>1, NoneIsTrue DEF Complete
  <2>4. CASE Abandon(h)
    BY <2>4, IdleIs, NoneIsTrue DEF Abandon
  <2> QED BY <2>1, <2>2, <2>3, <2>4
<1>3. UNCHANGED <<day, plan, snapshot, note, failed>>
  BY DEF Ask, Complete, Begin, Abandon
<1> QED BY <1>1, <1>2, <1>3, MoveStep DEF TypeOK

LEMMA CommitPreserves ==
  ASSUME IInv, NEW h \in Handlers, NEW t \in Tasks, Commit(h, t)
  PROVE  IInv'
<1> DEFINE q == [handler[h] EXCEPT !.pc = "asked"]
<1>1. TypeOK /\ day \in Days /\ handler[h] \in Handler /\ handler[h].date \in Days
  BY DigestAssumption DEF IInv, TypeOK, Days, Handler
<1>2. q \in Handler /\ q.date = handler[h].date /\ q.key = handler[h].key
  BY <1>1 DEF Handler
<1>3. /\ task' = [task EXCEPT ![t] = [status |-> "completed", on |-> handler[h].date,
                                     at |-> day]]
      /\ studied' = studied \cup {handler[h].date}
      /\ handler' = [handler EXCEPT ![h] = q]
      /\ UNCHANGED <<day, snapshot, note, failed>>
  BY DEF Commit
<1> HIDE DEF q
<1>4. TypeOK'
  BY <1>1, <1>2, <1>3 DEF TypeOK
\* It is stored after every day that is over.
<1>5. ASSUME NEW k, True(k) PROVE True(k)'
  <2>1. \A x \in Tasks : task'[x] = task[x] \/ task'[x].at = day
    BY <1>1, <1>3 DEF TypeOK
  <2> QED BY <1>3, <1>5, <2>1 DEF True
<1>6. \A k : True(k) => True(k)'
  BY <1>5
<1>7. ASSUME NEW g \in Handlers PROVE handler'[g].date <= day' /\ True(handler[g].key)'
  <2>1. handler'[g].date = handler[g].date /\ handler'[g].key = handler[g].key
    BY <1>1, <1>2, <1>3 DEF TypeOK
  <2>2. True(handler[g].key) /\ handler[g].date <= day
    BY DEF IInv
  <2>3. \A d \in Days : handler[g].key = <<"missed_goal", d>> =>
          /\ d < day'
          /\ \A x \in Tasks : DayOf[x] = d /\ task'[x].status = "completed" => task'[x].at > d
    BY <1>6, <2>2 DEF True
  <2> QED BY <1>3, <2>1, <2>2, <2>3 DEF True
<1>8. \A k \in Keys : note'[k] # None => True(k)'
  BY <1>3, <1>6 DEF IInv
<1> QED BY <1>4, <1>7, <1>8 DEF IInv

LEMMA ReadPreserves ==
  ASSUME IInv, NEW h \in Handlers, Read(h)
  PROVE  IInv'
<1> DEFINE found == Finds(Producers[handler[h].at], handler[h].date)
<1>1. /\ handler[h] \in Handler /\ handler[h].date <= day /\ TypeOK
      /\ day \in Int /\ 0 <= day
  BY DEF IInv, TypeOK
<1>2. ASSUME NEW k \in found PROVE k \in Keys /\ True(k)
  BY FindsIs
<1>3. \/ handler' = [handler EXCEPT ![h] = Onward(h)]
      \/ \E k \in found : handler' = [handler EXCEPT ![h].pc = "upsert", ![h].key = k]
  BY DEF Read
<1> HIDE DEF found
<1>4. PICK q \in Handler : /\ handler' = [handler EXCEPT ![h] = q]
                           /\ q.date <= day /\ True(q.key)
  <2>1. CASE handler' = [handler EXCEPT ![h] = Onward(h)]
    BY <1>1, <2>1, OnwardIs, NoneIsTrue
  <2>2. ASSUME NEW k \in found,
               handler' = [handler EXCEPT ![h].pc = "upsert", ![h].key = k]
        PROVE  \E q \in Handler : /\ handler' = [handler EXCEPT ![h] = q]
                                  /\ q.date <= day /\ True(q.key)
    <3> DEFINE q == [handler[h] EXCEPT !.pc = "upsert", !.key = k]
    <3>1. k \in Keys /\ True(k)
      BY <1>2
    <3>2. q \in Handler /\ q.date = handler[h].date /\ q.key = k
      BY <1>1, <3>1 DEF Handler
    <3>3. handler' = [handler EXCEPT ![h] = q]
      BY <2>2
    <3> HIDE DEF q
    <3> QED BY <1>1, <3>1, <3>2, <3>3
  <2> QED BY <1>3, <2>1, <2>2
<1>5. UNCHANGED <<day, plan, snapshot, note, failed>>
  BY DEF Read
<1> QED BY <1>1, <1>4, <1>5, MoveStep DEF TypeOK, IInv

LEMMA UpsertPreserves ==
  ASSUME IInv, NEW h \in Handlers, Upsert(h)
  PROVE  IInv'
<1> DEFINE k == handler[h].key
<1>1. /\ TypeOK /\ handler[h].date <= day /\ True(k) /\ day \in Int /\ 0 <= day
  BY DEF IInv, TypeOK
<1>2. /\ note' = [note EXCEPT ![k] = OnConflict(note[k])]
      /\ handler' = [handler EXCEPT ![h] = Onward(h)]
      /\ UNCHANGED <<day, plan, snapshot, failed>>
  BY DEF Upsert
<1>3. /\ note' \in [Keys -> {"unread", "read", None}]
      /\ \A x \in Keys \ {k} : note'[x] = note[x]
  BY <1>1, <1>2 DEF TypeOK, OnConflict
<1> HIDE DEF k
<1>4. \A x \in Keys : note'[x] # None => note[x] # None \/ True(x)
  BY <1>1, <1>3
<1>5. /\ Onward(h) \in Handler /\ Onward(h).date <= day /\ True(Onward(h).key)
  BY <1>1, OnwardIs, NoneIsTrue
<1>6. snapshot' \in [Days -> Levels \cup {None}] /\ failed' \in BOOLEAN
  BY <1>1, <1>2 DEF TypeOK
<1> QED BY <1>2, <1>3, <1>4, <1>5, <1>6, MoveStep

LEMMA SnapshotPreserves ==
  ASSUME IInv, NEW h \in Handlers, Assess(h) \/ Store(h)
  PROVE  IInv'
<1>1. /\ TypeOK /\ handler[h] \in Handler /\ handler[h].date <= day
      /\ day \in Days /\ 0 <= day /\ True(handler[h].key)
  BY DigestAssumption DEF IInv, TypeOK, Days
<1>2. CASE Assess(h)
  <2>1. PICK v \in Levels : handler' = [handler EXCEPT ![h].pc = "store", ![h].seen = v]
    BY <1>2 DEF Assess
  <2> DEFINE q == [handler[h] EXCEPT !.pc = "store", !.seen = v]
  <2>2. q \in Handler /\ q.date = handler[h].date /\ q.key = handler[h].key
    BY <1>1 DEF Handler
  <2>3. handler' = [handler EXCEPT ![h] = q]
    BY <2>1
  <2>4. UNCHANGED <<day, plan, snapshot, note, failed>>
    BY <1>2 DEF Assess
  <2> HIDE DEF q
  <2> QED BY <1>1, <2>2, <2>3, <2>4, MoveStep DEF TypeOK
<1>3. CASE Store(h)
  <2>1. /\ snapshot' = [snapshot EXCEPT ![day] = handler[h].seen]
        /\ handler' = [handler EXCEPT ![h] = Idle]
        /\ UNCHANGED <<day, plan, note, failed>>
    BY <1>3 DEF Store
  <2>2. snapshot' \in [Days -> Levels \cup {None}]
    BY <1>1, <2>1 DEF TypeOK, Handler
  <2> QED BY <1>1, <2>1, <2>2, IdleIs, NoneIsTrue, MoveStep DEF TypeOK
<1> QED BY <1>2, <1>3

LEMMA FailPreserves ==
  ASSUME IInv, NEW h \in Handlers, Fail(h)
  PROVE  IInv'
<1> DEFINE assess == [Idle EXCEPT !.pc = "assess", !.op = "complete"]
<1>1. /\ assess \in Handler /\ assess.date = 0 /\ assess.key = None
  BY IdleIs DEF Idle, Handler
<1>2. /\ handler' = [handler EXCEPT ![h] = Idle] \/ handler' = [handler EXCEPT ![h] = assess]
      /\ UNCHANGED <<day, plan, snapshot, note>> /\ failed' \in BOOLEAN
  BY DEF Fail, IInv, TypeOK
<1> HIDE DEF assess
<1>3. TypeOK /\ 0 <= day
  BY DEF IInv, TypeOK
<1> QED BY <1>1, <1>2, <1>3, IdleIs, NoneIsTrue, MoveStep DEF TypeOK

LEMMA ElsewherePreserves ==
  ASSUME IInv,
         \/ \E k \in Keys : MarkRead(k)
         \/ MarkAllRead
         \/ \E t \in Tasks : Reopen(t) \/ Skip(t)
         \/ Midnight
  PROVE  IInv'
<1>1. TypeOK /\ day \in Int /\ day <= day
  BY DEF IInv, TypeOK
<1>2. ASSUME NEW k \in Keys, MarkRead(k) PROVE IInv'
  BY <1>1, <1>2, ElsewhereStep, DigestAssumption DEF MarkRead, TypeOK, plan
<1>3. CASE MarkAllRead
  BY <1>1, <1>3, ElsewhereStep, DigestAssumption DEF MarkAllRead, TypeOK, plan
<1>4. ASSUME NEW t \in Tasks, Reopen(t) PROVE IInv'
  <2>1. task' \in [Tasks -> [status : {"pending", "completed", "skipped"},
                         on : Days, at : Days]]
    BY <1>1, <1>4, DigestAssumption DEF Reopen, TypeOK, Days
  <2> QED BY <1>1, <1>4, <2>1, ElsewhereStep DEF Reopen, TypeOK
<1>5. ASSUME NEW t \in Tasks, Skip(t) PROVE IInv'
  <2>1. task' \in [Tasks -> [status : {"pending", "completed", "skipped"},
                         on : Days, at : Days]]
    BY <1>1, <1>5 DEF Skip, TypeOK
  <2>2. \A x \in Tasks : task'[x].status = "completed" => task'[x] = task[x]
    BY <1>1, <1>5 DEF Skip, TypeOK
  <2> QED BY <1>1, <1>5, <2>1, <2>2, ElsewhereStep DEF Skip, TypeOK
<1>6. CASE Midnight
  BY <1>1, <1>6, DigestAssumption, ElsewhereStep DEF Midnight, TypeOK
<1> QED BY <1>2, <1>3, <1>4, <1>5, <1>6

-----------------------------------------------------------------------------
(***************************************************************************)
(* The theorems.                                                           *)
(***************************************************************************)
LEMMA Invariant == Spec => []IInv
<1>1. ASSUME Init PROVE IInv
  <2>1. TypeOK
    <3>1. 1 \in 1..LastDay /\ 0 \in Days
      BY DigestAssumption DEF Days
    <3>2. handler \in [Handlers -> Handler]
      BY <1>1, IdleIs DEF Init
    <3> QED BY <1>1, <3>1, <3>2 DEF Init, TypeOK
  <2>2. \A h \in Handlers : handler[h].date <= day /\ True(handler[h].key)
    BY <1>1, IdleIs, NoneIsTrue DEF Init
  <2>3. \A k \in Keys : note[k] = None
    BY <1>1 DEF Init
  <2> QED BY <2>1, <2>2, <2>3 DEF IInv
<1>2. ASSUME IInv, [Next]_vars PROVE IInv'
  <2>1. CASE Next
    BY <2>1, <1>2, AskPreserves, CommitPreserves, ReadPreserves, UpsertPreserves,
       SnapshotPreserves, FailPreserves, ElsewherePreserves DEF Next
  <2>2. CASE UNCHANGED vars
    <3>1. UNCHANGED <<day, task, studied, snapshot, note, handler, failed>>
      BY <2>2 DEF vars
    <3>2. TypeOK'
      BY <1>2, <3>1 DEF IInv, TypeOK
    <3>3. \A k : True(k) => True(k)'
      BY <3>1 DEF True
    <3>4. ASSUME NEW h \in Handlers PROVE handler'[h].date <= day' /\ True(handler[h].key)'
      BY <1>2, <3>1, <3>3 DEF IInv, True
    <3> QED BY <1>2, <3>1, <3>2, <3>3, <3>4 DEF IInv
  <2> QED BY <1>2, <2>1, <2>2
<1> QED BY <1>1, <1>2, PTL DEF Spec

\* The plan, the rows and the requests in hand are always of their types; a
\* digest upserts no other keys than those of the type and day it is about.
THEOREM DigestTyped == Spec => []TypeOK
<1>1. IInv => TypeOK
  BY DEF IInv
<1> QED BY <1>1, Invariant, PTL

\* Whatever the digest and completions do around midnight, nobody is told to
\* have missed a goal of which a task was stored as completed by the end of its
\* day.
THEOREM MissedIsTrue == Spec => []MissedWasMissed
<1>1. ASSUME IInv PROVE MissedWasMissed
  <2>1. SUFFICES ASSUME NEW d \in Days, note[<<"missed_goal", d>>] # None
                 PROVE  True(<<"missed_goal", d>>)
    BY DEF MissedWasMissed, True
  <2> QED BY <1>1, <2>1, KeyIs DEF IInv
<1> QED BY <1>1, Invariant, PTL

\* A notification stays once it is there, and stays read once it was read,
\* however digests and the inbox overlap.
THEOREM InboxKeepsWhatWasRead == Spec => ReadStaysRead
<1> DEFINE Keeps == \A k \in Keys : /\ note[k] = "read" => note'[k] = "read"
                                    /\ note[k] # None => note'[k] # None
<1>1. ASSUME IInv, [Next]_vars PROVE [Keeps]_vars
  <2>0. TypeOK
    BY <1>1 DEF IInv
  <2>1. CASE UNCHANGED note
    BY <2>1
  <2>2. ASSUME NEW h \in Handlers, Upsert(h) PROVE Keeps
    BY <2>0, <2>2, DigestAssumption DEF Upsert, OnConflict, TypeOK
  <2>3. ASSUME NEW k \in Keys, MarkRead(k) PROVE Keeps
    BY <2>0, <2>3, DigestAssumption DEF MarkRead, TypeOK
  <2>4. CASE MarkAllRead
    BY <2>0, <2>4, DigestAssumption DEF MarkAllRead, TypeOK
  <2>5. UNCHANGED note \/ (\E h \in Handlers : Upsert(h))
          \/ (\E k \in Keys : MarkRead(k)) \/ MarkAllRead
    BY <1>1 DEF Next, vars, Ask, Begin, Read, Assess, Store, Fail, Complete, Commit, Abandon, Reopen, Skip,
       Midnight
  <2> QED BY <2>1, <2>2, <2>3, <2>4, <2>5
<1>2. []IInv /\ [][Next]_vars => ReadStaysRead
  BY <1>1, PTL DEF ReadStaysRead
<1> QED BY <1>2, Invariant, PTL DEF Spec

-----------------------------------------------------------------------------
(***************************************************************************)
(* Milestones.                                                             *)
(***************************************************************************)
\* The milestones the latest snapshot has crossed are noted.
Noted == \A k \in ReadinessMilestone : note[k] # None

ForCompletion(q) == q.pc # "idle" /\ q.op = "complete"
\* The digest of a request is past the milestone producer, or has its row in hand.
Past(q) ==
  \/ q.pc \in {"assess", "store"}
  \/ /\ q.pc \in {"read", "upsert"}
     /\ \E i \in 1..(q.at - 1) : Producers[i] = "readiness_milestone"
InHand(q) == q.pc = "upsert" /\ Producers[q.at] = "readiness_milestone"

InOrder(q) ==
  /\ q.at \in 1..Len(Producers)
  /\ q.pc \in {"idle", "arrived", "asked"} => q.at = 1
  /\ q.pc \in {"assess", "store"} => q.op = "complete"
  /\ q.pc = "store" => q.seen # None
Serves(q) ==
  ForCompletion(q) => /\ Past(q) => failed \/ Noted
                      /\ InHand(q) => \A k \in ReadinessMilestone : k = q.key

MInv ==
  /\ \A d \in SnapshotDays : d <= day
  /\ \A h \in Handlers : InOrder(handler[h]) /\ Serves(handler[h])
  /\ \A g, h \in Handlers :
       ForCompletion(handler[g]) /\ ForCompletion(handler[h]) => g = h
  /\ MilestoneNoted

\* What the sequence of producers is made of.
LEMMA OneProducer ==
  ASSUME NEW S, NEW p \in S
  PROVE  <<p>> \in Seq(S) /\ Len(<<p>>) = 1 /\ <<p>>[1] = p
OBVIOUS

LEMMA PortIs ==
  ASSUME NEW S, NEW p \in S
  PROVE  Port(p) \in Seq(S)
BY OneProducer DEF Port

LEMMA Joined ==
  ASSUME NEW S, NEW s \in Seq(S), NEW t \in Seq(S)
  PROVE  /\ s \o t \in Seq(S) /\ Len(s \o t) = Len(s) + Len(t)
         /\ \A i \in 1..Len(s) : (s \o t)[i] = s[i]
         /\ \A i \in 1..Len(t) : (s \o t)[Len(s) + i] = t[i]
OBVIOUS

LEMMA ProducersAre ==
  ASSUME "readiness_milestone" \in Wired
  PROVE  /\ Len(Producers) \in Nat \ {0}
         /\ \E i \in 1..Len(Producers) : Producers[i] = "readiness_milestone"
<1> DEFINE A == Port("today_plan") \o Port("missed_goal") \o Port("revision_due")
                \o Port("streak_reminder")
           B == Port("weekly_review")
           r == "readiness_milestone"
           S == {"today_plan", "missed_goal", "revision_due", "streak_reminder", r,
                 "weekly_review"}
<1>3. Producers = (A \o <<r>>) \o B
  BY DEF Producers, Port
<1>4. /\ r \in S /\ "today_plan" \in S /\ "missed_goal" \in S /\ "revision_due" \in S
      /\ "streak_reminder" \in S /\ "weekly_review" \in S
  OBVIOUS
<1> HIDE DEF S
<1>2. A \in Seq(S) /\ B \in Seq(S)
  <2>1. /\ Port("today_plan") \in Seq(S) /\ Port("missed_goal") \in Seq(S)
        /\ Port("revision_due") \in Seq(S) /\ Port("streak_reminder") \in Seq(S)
        /\ Port("weekly_review") \in Seq(S)
    BY <1>4, PortIs
  <2> QED BY <2>1, Joined
<1> HIDE DEF A, B, r
<1>5. PICK C : C = A \o <<r>>
  OBVIOUS
<1>6. C \in Seq(S) /\ Len(C) = Len(A) + 1 /\ C[Len(A) + 1] = r
  <2>1. PICK s : s = <<r>>
    OBVIOUS
  <2>2. s \in Seq(S) /\ Len(s) = 1 /\ s[1] = r
    BY <1>4, <2>1, OneProducer
  <2>3. 1 \in 1..Len(s)
    BY <2>2
  <2> QED BY <1>2, <1>5, <2>1, <2>2, <2>3, Joined
<1>7. Producers = C \o B
  BY <1>3, <1>5
<1>8. Len(A) + 1 \in 1..Len(C) /\ Len(C) \in Nat /\ Len(B) \in Nat
  <2>1. Len(A) \in Nat /\ Len(C) \in Nat /\ Len(B) \in Nat
    BY <1>2, <1>6, LenProperties
  <2> QED BY <1>6, <2>1
<1>9. Len(Producers) = Len(C) + Len(B) /\ Producers[Len(A) + 1] = r
  <2>1. /\ Len(C \o B) = Len(C) + Len(B)
        /\ \A i \in 1..Len(C) : (C \o B)[i] = C[i]
    BY <1>2, <1>6, Joined
  <2>2. (C \o B)[Len(A) + 1] = C[Len(A) + 1]
    BY <1>8, <2>1
  <2> QED BY <1>6, <1>7, <2>1, <2>2
<1>10. Len(A) + 1 \in 1..Len(Producers) /\ Len(Producers) \in Nat \ {0}
  BY <1>8, <1>9
<1> QED BY <1>9, <1>10 DEF r

LEMMA MaxIs ==
  ASSUME NEW S \in SUBSET Days, NEW m \in S, \A x \in S : x <= m
  PROVE  Max(S) = m
<1>1. S \subseteq Int
  BY DigestAssumption DEF Days
<1>2. ASSUME NEW y \in S, \A x \in S : y >= x PROVE y = m
  BY <1>1, <1>2
<1>3. \E y \in S : \A x \in S : y >= x
  BY <1>1
<1> QED BY <1>2, <1>3 DEF Max

LEMMA MaxExists ==
  ASSUME NEW S \in SUBSET Days, S # {}
  PROVE  Max(S) \in S /\ \A x \in S : x <= Max(S)
<1>1. S \in SUBSET Nat /\ \A x \in S : x <= LastDay
  BY DigestAssumption DEF Days
<1>2. PICK m \in S : \A x \in S : x <= m
  BY <1>1, GreatestNatural, DigestAssumption
<1> QED BY <1>2, MaxIs

\* The latest snapshot crosses at most one milestone.
LEMMA OneMilestone ==
  ASSUME TypeOK, NEW j \in ReadinessMilestone, NEW k \in ReadinessMilestone
  PROVE  j = k
<1>1. PICK d \in Latest : j \in {"readiness_milestone"} \X Crossed(Previous(d), snapshot[d])
  BY DEF ReadinessMilestone
<1>2. PICK e \in Latest : k \in {"readiness_milestone"} \X Crossed(Previous(e), snapshot[e])
  BY DEF ReadinessMilestone
<1>3. d = e
  BY DigestAssumption DEF Latest, SnapshotDays, Days
<1> QED BY <1>1, <1>2, <1>3 DEF Crossed

\* While the snapshots stay, so do the milestones and what is noted of them.
LEMMA NotesStay ==
  ASSUME TypeOK, UNCHANGED snapshot, failed => failed',
         \A k \in Keys : note[k] # None => note'[k] # None
  PROVE  /\ SnapshotDays' = SnapshotDays /\ ReadinessMilestone' = ReadinessMilestone
         /\ failed \/ Noted => failed' \/ Noted'
         /\ MilestoneNoted => MilestoneNoted'
         /\ \A q : Serves(q) => Serves(q)'
<1>1. SnapshotDays' = SnapshotDays
  BY DEF SnapshotDays
<1>2. \A d : Previous(d)' = Previous(d)
  BY <1>1 DEF Previous, Before
<1>3. ReadinessMilestone' = ReadinessMilestone
  BY <1>1, <1>2 DEF ReadinessMilestone, Latest
<1>4. failed \/ Noted => failed' \/ Noted'
  BY <1>3, MilestoneKey DEF Noted
<1>5. \A d \in SnapshotDays : <<"readiness_milestone", Milestone(snapshot[d])>> \in Keys
  BY DEF SnapshotDays, TypeOK, Keys
<1>6. MilestoneNoted => MilestoneNoted'
  BY <1>1, <1>2, <1>5 DEF MilestoneNoted
<1>7. \A q : Serves(q) => Serves(q)'
  BY <1>3, <1>4 DEF Serves
<1> QED BY <1>1, <1>3, <1>4, <1>6, <1>7

\* The request h goes on as q.
LEMMA MilestoneStep ==
  ASSUME IInv, MInv, NEW h \in Handlers, NEW q,
         handler' = [handler EXCEPT ![h] = q], InOrder(q), Serves(q)',
         \/ ForCompletion(q) => ForCompletion(handler[h])
         \/ \A g \in Handlers : ~ForCompletion(handler[g]),
         UNCHANGED <<day, snapshot>>, failed => failed',
         \A k \in Keys : note[k] # None => note'[k] # None
  PROVE  MInv'
<1>1. handler'[h] = q /\ \A g \in Handlers \ {h} : handler'[g] = handler[g]
  BY DEF IInv, TypeOK
<1>2. TypeOK
  BY DEF IInv
<1>3. SnapshotDays' = SnapshotDays /\ MilestoneNoted'
  BY <1>2, NotesStay DEF MInv
<1>4. ASSUME NEW g \in Handlers PROVE InOrder(handler[g])' /\ Serves(handler[g])'
  <2>1. CASE g = h
    BY <1>1, <2>1 DEF InOrder, Serves, ForCompletion, Past, InHand
  <2>2. CASE g # h
    <3>1. InOrder(handler[g]) /\ Serves(handler[g])
      BY DEF MInv
    <3>2. PICK p : p = handler[g]
      OBVIOUS
    <3>3. Serves(p)'
      BY <1>2, <3>1, <3>2, NotesStay
    <3>4. handler'[g] = p
      BY <1>1, <2>2, <3>2
    <3> QED BY <3>1, <3>2, <3>3, <3>4 DEF InOrder, Serves, ForCompletion, Past, InHand
  <2> QED BY <2>1, <2>2
<1>5. ASSUME NEW f \in Handlers, NEW g \in Handlers,
             ForCompletion(handler'[f]), ForCompletion(handler'[g])
      PROVE  f = g
  BY <1>1, <1>5 DEF MInv
<1> QED BY <1>3, <1>4, <1>5 DEF MInv, ForCompletion

\* A request that moves on from its producer has passed it.
LEMMA OnwardPasses ==
  ASSUME TypeOK, "readiness_milestone" \in Wired, NEW h \in Handlers,
         InOrder(handler[h]), handler[h].pc \in {"read", "upsert"},
         NEW q, q = Onward(h)
  PROVE  /\ InOrder(q) /\ ~InHand(q)
         /\ ForCompletion(q) =>
              /\ ForCompletion(handler[h])
              /\ Past(q) => \/ Past(handler[h])
                            \/ Producers[handler[h].at] = "readiness_milestone"
<1> PICK p, n : p = handler[h] /\ n = Len(Producers)
  OBVIOUS
<1>1. /\ p \in Handler /\ p.at \in Nat /\ p.at \in 1..n /\ p.pc \in {"read", "upsert"}
      /\ n \in Nat \ {0}
  BY ProducersAre DEF TypeOK, Handler, InOrder
<1>2. CASE p.at < n
  <2>1. q = [p EXCEPT !.pc = "read", !.at = p.at + 1, !.key = None]
    BY <1>2 DEF Onward
  <2>2. q.pc = "read" /\ q.at = p.at + 1 /\ q.op = p.op
    BY <1>1, <2>1 DEF Handler
  <2>3. InOrder(q) /\ ~InHand(q)
    BY <1>1, <1>2, <2>2 DEF InOrder, InHand
  <2>4. Past(q) => Past(p) \/ Producers[p.at] = "readiness_milestone"
    <3> SUFFICES ASSUME NEW i \in 1..p.at, Producers[i] = "readiness_milestone", i # p.at
                 PROVE  Past(p)
      BY <1>1, <2>2 DEF Past
    <3>1. i \in 1..(p.at - 1)
      BY <1>1
    <3> QED BY <1>1, <3>1 DEF Past
  <2> QED BY <1>1, <2>2, <2>3, <2>4 DEF ForCompletion
<1>3. CASE ~(p.at < n)
  <2>1. p.at = n
    BY <1>1, <1>3
  <2>2. CASE p.op = "complete"
    <3>1. q.pc = "assess" /\ q.op = "complete" /\ q.at = 1
      BY <1>3, <2>2 DEF Onward, Idle
    <3>2. InOrder(q) /\ ~InHand(q)
      BY <1>1, <3>1 DEF InOrder, InHand
    <3>3. PICK i \in 1..n : Producers[i] = "readiness_milestone"
      BY ProducersAre
    <3>4. i \in 1..(p.at - 1) \/ i = p.at
      BY <1>1, <2>1, <3>3
    <3>5. Past(p) \/ Producers[p.at] = "readiness_milestone"
      BY <1>1, <3>3, <3>4 DEF Past
    <3> QED BY <1>1, <2>2, <3>2, <3>5 DEF ForCompletion
  <2>3. CASE p.op # "complete"
    <3>1. q = Idle
      BY <1>3, <2>3 DEF Onward
    <3>2. q.pc = "idle" /\ q.at = 1
      BY <3>1 DEF Idle
    <3> QED BY <1>1, <3>2 DEF InOrder, InHand, ForCompletion
  <2> QED BY <2>2, <2>3
<1> QED BY <1>2, <1>3

LEMMA AskKeeps ==
  ASSUME IInv, MInv, OneAtATime, NEW h \in Handlers,
         \/ Ask(h) \/ Complete(h) \/ Begin(h)
         \/ \E t \in Tasks : Commit(h, t)
  PROVE  MInv'
<1>1. InOrder(handler[h]) /\ handler[h] \in Handler
  BY DEF MInv, IInv, TypeOK
<1>2. PICK q : /\ handler' = [handler EXCEPT ![h] = q]
               /\ q.pc \in {"read", "arrived", "asked"} /\ q.at = 1
               /\ \/ ForCompletion(q) => ForCompletion(handler[h])
                  \/ \A g \in Handlers : ~ForCompletion(handler[g])
  <2>1. CASE Ask(h)
    <3> DEFINE q == [Idle EXCEPT !.pc = "read", !.date = day]
    <3>1. q.pc = "read" /\ q.at = 1 /\ q.op = "generate"
      BY DEF Idle
    <3>2. handler' = [handler EXCEPT ![h] = q]
      BY <2>1 DEF Ask
    <3> HIDE DEF q
    <3> QED BY <3>1, <3>2 DEF ForCompletion
  <2>2. CASE Begin(h)
    <3> DEFINE q == [handler[h] EXCEPT !.pc = "read", !.date = day]
    <3>1. handler[h].pc = "asked"
      BY <2>2 DEF Begin
    <3>2. q.pc = "read" /\ q.at = 1 /\ q.op = handler[h].op
      BY <1>1, <3>1 DEF Handler, InOrder
    <3>3. handler' = [handler EXCEPT ![h] = q]
      BY <2>2 DEF Begin
    <3> HIDE DEF q
    <3> QED BY <3>1, <3>2, <3>3 DEF ForCompletion
  <2>3. CASE Complete(h)
    <3> DEFINE q == [Idle EXCEPT !.pc = "arrived", !.op = "complete", !.date = day]
    <3>1. q.pc = "arrived" /\ q.at = 1
      BY DEF Idle
    <3>2. handler' = [handler EXCEPT ![h] = q]
      BY <2>3 DEF Complete
    <3>3. \A g \in Handlers : ~ForCompletion(handler[g])
      BY <2>3 DEF Complete, ForCompletion
    <3> HIDE DEF q
    <3> QED BY <3>1, <3>2, <3>3
  <2>4. CASE \E t \in Tasks : Commit(h, t)
    <3> DEFINE q == [handler[h] EXCEPT !.pc = "asked"]
    <3>1. handler[h].pc = "arrived"
      BY <2>4 DEF Commit
    <3>2. q.pc = "asked" /\ q.at = 1 /\ q.op = handler[h].op
      BY <1>1, <3>1 DEF Handler, InOrder
    <3>3. handler' = [handler EXCEPT ![h] = q]
      BY <2>4 DEF Commit
    <3> HIDE DEF q
    <3> QED BY <3>1, <3>2, <3>3 DEF ForCompletion
  <2> QED BY <2>1, <2>2, <2>3, <2>4
<1>3. InOrder(q) /\ ~Past(q) /\ ~InHand(q)
  BY <1>1, <1>2 DEF InOrder, Past, InHand
<1>4. UNCHANGED <<day, snapshot, note, failed>>
  BY DEF Ask, Complete, Begin, Commit
<1>5. Serves(q)'
  BY <1>3 DEF Serves, Past, InHand
<1> QED BY <1>2, <1>3, <1>4, <1>5, MilestoneStep

LEMMA ReadKeeps ==
  ASSUME IInv, MInv, "readiness_milestone" \in Wired, NEW h \in Handlers, Read(h)
  PROVE  MInv'
<1> DEFINE producer == Producers[handler[h].at]
           found == Finds(producer, handler[h].date)
<1>1. /\ TypeOK /\ handler[h] \in Handler /\ InOrder(handler[h]) /\ Serves(handler[h])
      /\ handler[h].pc = "read" /\ UNCHANGED <<day, plan, snapshot, note, failed>>
  BY DEF IInv, MInv, TypeOK, Read
<1>2. producer = "readiness_milestone" => ReadinessMilestone \subseteq found
  BY <1>1, MilestoneKey DEF Finds
<1>3. /\ SnapshotDays' = SnapshotDays /\ ReadinessMilestone' = ReadinessMilestone
      /\ failed \/ Noted => failed' \/ Noted'
  BY <1>1, NotesStay
<1>4. CASE (found = {} \/ producer = "revision_due") /\ handler' = [handler EXCEPT ![h] = Onward(h)]
  <2> PICK q : q = Onward(h)
    OBVIOUS
  <2>1. producer = "readiness_milestone" => Noted
    BY <1>2, <1>4 DEF Noted
  <2>2. /\ InOrder(q) /\ ~InHand(q)
        /\ ForCompletion(q) => /\ ForCompletion(handler[h])
                               /\ Past(q) => Past(handler[h]) \/ producer = "readiness_milestone"
    BY <1>1, OnwardPasses
  <2> HIDE DEF producer
  <2>3. ForCompletion(q) /\ Past(q) => failed \/ Noted
    BY <1>1, <2>1, <2>2 DEF Serves
  <2>4. Serves(q)'
    BY <1>3, <2>2, <2>3 DEF Serves, ForCompletion, Past, InHand
  <2> QED BY <1>1, <1>4, <2>2, <2>4, MilestoneStep
<1>5. ASSUME NEW k \in found,
             handler' = [handler EXCEPT ![h].pc = "upsert", ![h].key = k]
      PROVE  MInv'
  <2>0. PICK q : q = [handler[h] EXCEPT !.pc = "upsert", !.key = k]
    OBVIOUS
  <2>1. q.pc = "upsert" /\ q.key = k /\ q.at = handler[h].at /\ q.op = handler[h].op
    BY <1>1, <2>0 DEF Handler
  <2>2. handler' = [handler EXCEPT ![h] = q]
    BY <1>5, <2>0
  <2>3. InOrder(q) /\ (ForCompletion(q) => ForCompletion(handler[h]))
    BY <1>1, <2>1 DEF InOrder, ForCompletion
  <2>4. Past(q) => Past(handler[h])
    BY <1>1, <2>1 DEF Past
  <2>5. InHand(q) => \A j \in ReadinessMilestone : j = q.key
    <3> SUFFICES ASSUME InHand(q), NEW j \in ReadinessMilestone PROVE j = k
      BY <2>1
    <3>1. producer = "readiness_milestone"
      BY <2>1 DEF InHand
    <3>2. k[1] = "readiness_milestone"
      BY <1>5, <3>1 DEF Finds
    <3>3. k \in ReadinessMilestone
      BY <1>5, <3>2 DEF Finds, TodayPlan, MissedGoal, RevisionDue, StreakReminder, WeeklyReview
    <3> QED BY <1>1, <3>3, OneMilestone
  <2>6. Serves(q)
    BY <1>1, <2>3, <2>4, <2>5 DEF Serves
  <2>7. Serves(q)'
    BY <1>1, <2>6, NotesStay
  <2> HIDE DEF producer, found
  <2> QED BY <1>1, <2>2, <2>3, <2>7, MilestoneStep
<1> QED BY <1>4, <1>5 DEF Read

LEMMA UpsertKeeps ==
  ASSUME IInv, MInv, "readiness_milestone" \in Wired, NEW h \in Handlers, Upsert(h)
  PROVE  MInv'
<1> PICK p, q : p = handler[h] /\ q = Onward(h)
  OBVIOUS
<1>1. /\ TypeOK /\ p \in Handler /\ InOrder(p) /\ Serves(p)
      /\ p.pc = "upsert" /\ UNCHANGED <<day, plan, snapshot, failed>>
      /\ note' = [note EXCEPT ![p.key] = OnConflict(note[p.key])]
      /\ handler' = [handler EXCEPT ![h] = q]
  BY DEF IInv, MInv, TypeOK, Upsert
<1>2. /\ \A k \in Keys : note[k] # None => note'[k] # None
      /\ p.key \in Keys => note'[p.key] # None
  BY <1>1, DigestAssumption DEF TypeOK, OnConflict
<1>3. /\ ReadinessMilestone' = ReadinessMilestone
      /\ failed \/ Noted => failed' \/ Noted'
  BY <1>1, <1>2, NotesStay
<1>4. /\ InOrder(q) /\ ~InHand(q)
      /\ ForCompletion(q) => /\ ForCompletion(p)
                             /\ Past(q) => Past(p) \/ InHand(p)
  BY <1>1, OnwardPasses DEF InHand
<1>5. ForCompletion(p) /\ InHand(p) => Noted'
  <2> SUFFICES ASSUME ForCompletion(p), InHand(p), NEW k \in ReadinessMilestone
               PROVE  note'[k] # None
    BY <1>3 DEF Noted
  <2>1. k = p.key
    BY <1>1 DEF Serves
  <2> QED BY <1>1, <1>2, <2>1, MilestoneKey
<1>6. Serves(q)'
  BY <1>1, <1>3, <1>4, <1>5 DEF Serves, ForCompletion, Past, InHand
<1> QED BY <1>1, <1>2, <1>4, <1>6, MilestoneStep

LEMMA AssessKeeps ==
  ASSUME IInv, MInv, NEW h \in Handlers, Assess(h)
  PROVE  MInv'
<1>1. /\ TypeOK /\ handler[h] \in Handler /\ InOrder(handler[h]) /\ Serves(handler[h])
      /\ handler[h].pc = "assess" /\ UNCHANGED <<day, snapshot, note, failed>>
  BY DEF IInv, MInv, TypeOK, Assess
<1>2. PICK v \in Levels : handler' = [handler EXCEPT ![h].pc = "store", ![h].seen = v]
  BY DEF Assess
<1> PICK q : q = [handler[h] EXCEPT !.pc = "store", !.seen = v]
  OBVIOUS
<1>3. /\ q.pc = "store" /\ q.seen = v /\ q.at = handler[h].at /\ q.op = handler[h].op
      /\ handler' = [handler EXCEPT ![h] = q]
  BY <1>1, <1>2 DEF Handler
<1>4. v # None
  BY DigestAssumption
<1>5. InOrder(q) /\ (ForCompletion(q) => ForCompletion(handler[h])) /\ ~InHand(q)
  BY <1>1, <1>3, <1>4 DEF InOrder, ForCompletion, InHand
<1>6. Serves(q)
  BY <1>1, <1>3, <1>5 DEF Serves, ForCompletion, Past
<1>7. Serves(q)'
  BY <1>1, <1>6, NotesStay
<1> QED BY <1>1, <1>3, <1>5, <1>7, MilestoneStep

LEMMA FailKeeps ==
  ASSUME IInv, MInv, "readiness_milestone" \in Wired, NEW h \in Handlers,
         Fail(h) \/ Abandon(h)
  PROVE  MInv'
<1>1. /\ TypeOK /\ InOrder(handler[h]) /\ UNCHANGED <<day, snapshot, note>>
      /\ handler[h].pc # "idle" /\ (failed => failed')
  <2>1. TypeOK /\ InOrder(handler[h])
    BY DEF IInv, MInv
  <2>2. CASE Fail(h)
    BY <2>1, <2>2 DEF Fail
  <2>3. CASE Abandon(h)
    BY <2>1, <2>3 DEF Abandon
  <2> QED BY <2>2, <2>3
<1>2. CASE handler' = [handler EXCEPT ![h] = Idle]
  <2>1. InOrder(Idle) /\ ~ForCompletion(Idle)
    BY ProducersAre DEF InOrder, ForCompletion, Idle
  <2>2. Serves(Idle)'
    BY <2>1 DEF Serves, ForCompletion, Idle
  <2> QED BY <1>1, <1>2, <2>1, <2>2, MilestoneStep
<1>3. CASE /\ Fail(h) /\ handler[h].op = "complete"
           /\ handler' = [handler EXCEPT ![h] = [Idle EXCEPT !.pc = "assess", !.op = "complete"]]
  <2> DEFINE q == [Idle EXCEPT !.pc = "assess", !.op = "complete"]
  <2>1. q.pc = "assess" /\ q.op = "complete" /\ q.at = 1
    BY DEF Idle
  <2> HIDE DEF q
  <2>2. InOrder(q) /\ ForCompletion(handler[h]) /\ ~InHand(q) /\ failed'
    <3>1. failed'
      BY <1>3 DEF Fail
    <3> QED BY <1>1, <1>3, <2>1, <3>1, ProducersAre DEF InOrder, ForCompletion, InHand
  <2>3. Serves(q)'
    BY <2>2 DEF Serves, InHand
  <2>4. handler' = [handler EXCEPT ![h] = q]
    BY <1>3 DEF q
  <2> QED BY <1>1, <2>2, <2>3, <2>4, MilestoneStep
<1> QED BY <1>2, <1>3 DEF Fail, Abandon

\* The snapshot of the day becomes the last one; what its predecessor crossed
\* was noted by the digest of the same completion.
LEMMA StoreKeeps ==
  ASSUME IInv, MInv, NEW h \in Handlers, Store(h)
  PROVE  MInv'
<1> PICK p : p = handler[h]
  OBVIOUS
<1>1. /\ TypeOK /\ p \in Handler /\ InOrder(p) /\ Serves(p) /\ p.pc = "store"
      /\ UNCHANGED <<day, plan, note, failed>>
      /\ snapshot' = [snapshot EXCEPT ![day] = p.seen]
      /\ handler' = [handler EXCEPT ![h] = Idle]
      /\ day \in Days
  BY DigestAssumption DEF IInv, MInv, TypeOK, Store, Days
<1>0. day \in Int /\ Days \subseteq Int /\ SnapshotDays \subseteq Int
  BY <1>1, DigestAssumption DEF Days, SnapshotDays
<1>2. ForCompletion(p) /\ Past(p) /\ p.seen \in Levels /\ p.seen # None
  BY <1>1 DEF ForCompletion, Past, InOrder, Handler
<1>3. failed \/ Noted
  BY <1>1, <1>2 DEF Serves
<1>4. /\ snapshot'[day] # None
      /\ \A d \in Days \ {day} : snapshot'[d] = snapshot[d]
  BY <1>1, <1>2 DEF TypeOK
<1>5. /\ SnapshotDays' = SnapshotDays \cup {day}
      /\ \A d \in SnapshotDays : d <= day
      /\ SnapshotDays \in SUBSET Days
  BY <1>1, <1>4 DEF SnapshotDays, MInv
<1>6. Max(SnapshotDays') = day
  <2>1. SnapshotDays' \in SUBSET Days /\ day \in SnapshotDays' /\ day <= day
    BY <1>1, <1>5 DEF TypeOK
  <2> QED BY <1>5, <2>1, MaxIs
<1>7. ASSUME NEW d \in SnapshotDays, d < day
      PROVE  Previous(d)' = Previous(d) /\ snapshot'[d] = snapshot[d]
  <2>1. Before(d)' = Before(d) /\ Before(d) \in SUBSET Days
    <3>1. \A e : e \in SnapshotDays' /\ e < d <=> e \in SnapshotDays /\ e < d
      BY <1>0, <1>5, <1>7
    <3> QED BY <1>5, <3>1 DEF Before
  <2>2. snapshot'[d] = snapshot[d]
    BY <1>4, <1>5, <1>7, DigestAssumption DEF Days
  <2>3. ASSUME Before(d) # {} PROVE snapshot'[Max(Before(d))] = snapshot[Max(Before(d))]
    <3> PICK m : m = Max(Before(d))
      OBVIOUS
    <3>1. m \in Before(d)
      BY <2>1, <2>3, MaxExists
    <3>2. m \in Days /\ m # day
      BY <1>1, <1>5, <1>7, <3>1, DigestAssumption DEF Before, Days
    <3> QED BY <1>4, <3>2
  <2> QED BY <2>1, <2>2, <2>3 DEF Previous
<1>8. MilestoneNoted'
  <2> SUFFICES ASSUME ~failed', NEW d \in SnapshotDays', d # day,
                      Milestone(snapshot'[d]) > Milestone(Previous(d)')
               PROVE  note'[<<"readiness_milestone", Milestone(snapshot'[d])>>] # None
    BY <1>6 DEF MilestoneNoted
  <2>1. d \in SnapshotDays /\ d < day /\ d \in Int
    BY <1>1, <1>5, DigestAssumption DEF Days
  <2>2. snapshot'[d] = snapshot[d] /\ Milestone(snapshot[d]) > Milestone(Previous(d))
    BY <1>7, <2>1
  <2>3. CASE \A e \in SnapshotDays : e <= d
    <3>1. d \in Latest
      BY <2>1, <2>3 DEF Latest
    <3>2. <<"readiness_milestone", Milestone(snapshot[d])>> \in ReadinessMilestone
      BY <2>2, <3>1 DEF ReadinessMilestone, Crossed
    <3> QED BY <1>1, <1>3, <2>2, <3>2 DEF Noted
  <2>4. CASE ~(\A e \in SnapshotDays : e <= d)
    <3>1. SnapshotDays # {} /\ d # Max(SnapshotDays)
      BY <1>5, <2>1, <2>4, MaxExists
    <3> QED BY <1>1, <2>1, <2>2, <3>1 DEF MInv, MilestoneNoted
  <2> QED BY <2>3, <2>4
<1>9. ASSUME NEW g \in Handlers
      PROVE  InOrder(handler'[g]) /\ ~ForCompletion(handler'[g])
  <2>1. CASE g = h
    <3>1. handler'[g] = Idle
      BY <1>1, <2>1 DEF TypeOK
    <3>2. 1 \in 1..Len(Producers)
      <4>1. p.at \in 1..Len(Producers) /\ p.at \in Nat
        BY <1>1 DEF InOrder, Handler
      <4>2. Len(Producers) \in Int
        BY <4>1
      <4> QED BY <4>1, <4>2
    <3> QED BY <3>1, <3>2 DEF InOrder, ForCompletion, Idle
  <2>2. CASE g # h
    BY <1>1, <1>2, <2>2 DEF TypeOK, MInv
  <2> QED BY <2>1, <2>2
<1>10. \A d \in SnapshotDays' : d <= day'
  BY <1>0, <1>1, <1>5
<1> QED BY <1>8, <1>9, <1>10 DEF MInv, InOrder, Serves, ForCompletion

\* The inbox, the plan and the clock move on, and no request does.
LEMMA ElsewhereKeeps ==
  ASSUME IInv, MInv,
         \/ \E k \in Keys : MarkRead(k)
         \/ MarkAllRead
         \/ \E t \in Tasks : Reopen(t) \/ Skip(t)
         \/ Midnight
         \/ UNCHANGED vars
  PROVE  MInv'
<1>1. TypeOK /\ UNCHANGED <<snapshot, handler, failed>>
  BY DEF IInv, MarkRead, MarkAllRead, Reopen, Skip, Midnight, vars
<1>2. \A k \in Keys : note[k] # None => note'[k] # None
  <2>1. ASSUME NEW k \in Keys, MarkRead(k) PROVE \A j \in Keys : note[j] # None => note'[j] # None
    BY <1>1, <2>1, DigestAssumption DEF MarkRead, TypeOK
  <2>2. CASE MarkAllRead
    BY <2>2, DigestAssumption DEF MarkAllRead
  <2> QED BY <2>1, <2>2 DEF Reopen, Skip, Midnight, vars
<1>3. /\ SnapshotDays' = SnapshotDays /\ MilestoneNoted'
      /\ \A q : Serves(q) => Serves(q)'
  BY <1>1, <1>2, NotesStay DEF MInv
<1>4. day \in Int /\ (day' = day \/ day' = day + 1)
  BY <1>1 DEF TypeOK, MarkRead, MarkAllRead, Reopen, Skip, Midnight, vars
<1>5. \A d \in SnapshotDays' : d <= day'
  BY <1>3, <1>4, DigestAssumption DEF MInv, SnapshotDays, Days
<1>6. ASSUME NEW h \in Handlers PROVE InOrder(handler[h])' /\ Serves(handler[h])'
  <2> PICK q : q = handler[h]
    OBVIOUS
  <2>1. InOrder(q) /\ Serves(q)'
    BY <1>3 DEF MInv
  <2> QED BY <1>1, <2>1 DEF InOrder, Serves, ForCompletion, Past, InHand
<1> QED BY <1>1, <1>3, <1>5, <1>6 DEF MInv, ForCompletion

\* No milestone is lost by noting it before the snapshot that could show it is
\* stored: the next completion notes it, if a client completes one task at a
\* time and nothing fails (CompleteTask, Generate, RecordSnapshot).
THEOREM NoMilestoneLost ==
  ASSUME OneAtATime, "readiness_milestone" \in Wired
  PROVE  Spec => []MilestoneNoted
<1>1. ASSUME Init PROVE MInv
  <2>1. SnapshotDays = {}
    BY <1>1 DEF Init, SnapshotDays
  <2>2. InOrder(Idle) /\ ~ForCompletion(Idle)
    BY ProducersAre DEF InOrder, ForCompletion, Idle
  <2>3. \A h \in Handlers : handler[h] = Idle
    BY <1>1 DEF Init
  <2> QED BY <2>1, <2>2, <2>3 DEF MInv, Serves, MilestoneNoted
<1>2. ASSUME IInv, MInv, [Next]_vars PROVE MInv'
  BY <1>2, AskKeeps, ReadKeeps, UpsertKeeps, AssessKeeps, StoreKeeps, FailKeeps,
     ElsewhereKeeps DEF Next
<1>3. MInv => MilestoneNoted
  BY DEF MInv
<1> QED BY <1>1, <1>2, <1>3, Invariant, PTL DEF Spec
=============================================================================
