------------------------------ MODULE Revision ------------------------------
(***************************************************************************)
(* Spaced repetition (backend/internal/revision): the revision_items rows  *)
(* of one user and the handlers that change them.                          *)
(*                                                                         *)
(* ScheduleForCompletion computes the first row from the clock and inserts *)
(* it unless the item has one.  Recall is a read-modify-write without a    *)
(* transaction or a version: it reads the row, refuses a graduated item,   *)
(* reads the clock, and overwrites every column of the ladder state with   *)
(* what it computed from the row it read.  So each handler takes a step    *)
(* per statement, and others run in between.  Handlers is the number of    *)
(* requests the server has in hand at once; each of them serves one        *)
(* request after another.                                                  *)
(***************************************************************************)
EXTENDS Integers, Sequences

CONSTANTS
  Items,             \* the learning items of the user's completions
  Schedulable,       \* those whose item_type has revisions
  Handlers,          \* requests in hand at once
  Intervals,         \* the ladder, in days
  OneRecallPerItem,  \* whether the client waits for an answer about an item
                     \* before it sends another recall of it
  LastDay,           \* bounds the clock, and
  MaxReviews,        \* the review_count an item may have when recalled
  None

Recalls == {"correct", "incorrect"}

ASSUME RevisionAssumption ==
  /\ Schedulable \subseteq Items
  /\ Intervals \in Seq(Nat) /\ Len(Intervals) > 0
  /\ OneRecallPerItem \in BOOLEAN
  /\ LastDay \in Nat /\ MaxReviews \in Nat
  /\ None \notin Items \cup Int \cup Recalls

Last == Len(Intervals) - 1          \* lastStage()
Stages == 0..Last

Item == [stage : Stages, interval : Nat, due : Nat, active : BOOLEAN,
         last : Recalls \cup {None},      \* last_recall
         reviewed : Nat \cup {None},      \* the day of last_reviewed_at
         reviews : Nat, lapses : Nat]

\* What the abstract ladder (module Ladder) keeps of an item.
Card == [rung : Nat, active : BOOLEAN, due : Nat, reviews : Nat, lapses : Nat]

ASSUME NoneIsNoRow == None \notin Item \cup Card

VARIABLES
  today,    \* the UTC date of the server's clock
  item,     \* Items -> its revision_items row, None before it is scheduled
  handler   \* Handlers -> the request in hand and how far it has come

vars == <<today, item, handler>>

Handler ==
  [pc : {"idle", "arrived", "seen", "decided"},
   op : {"schedule", "recall"},
   of : Items \cup {None},          \* the item it is about
   recall : Recalls \cup {None},
   seen : Item \cup {None},         \* the row Recall read
   now : Nat]                       \* the day it read from the clock

TypeOK ==
  /\ today \in Nat
  /\ item \in [Items -> Item \cup {None}]
  /\ handler \in [Handlers -> Handler]

Idle == [pc |-> "idle", op |-> "schedule", of |-> None, recall |-> None,
         seen |-> None, now |-> 0]

Init ==
  /\ today = 0
  /\ item = [i \in Items |-> None]
  /\ handler = [h \in Handlers |-> Idle]

-----------------------------------------------------------------------------
(***************************************************************************)
(* The ladder (ladder.go).  A definition named Bug_... is a plausible slip *)
(* in the one that follows it; nothing uses it but the runs that show      *)
(* which property would catch the slip.                                    *)
(***************************************************************************)
IntervalForStage(stage) ==
  Intervals[(IF stage < 0 THEN 0 ELSE IF stage > Last THEN Last ELSE stage) + 1]

\* The row ScheduleForCompletion inserts on day now.
InitialState(now) ==
  [stage |-> 0, interval |-> Intervals[1], due |-> now + Intervals[1],
   active |-> TRUE, last |-> None, reviewed |-> None,
   reviews |-> 0, lapses |-> 0]

Graduates(row) == row.stage >= Last

\* The row a recall of it on day now leaves behind (Apply and Recall).
Bug_DueKept(row, now) ==
  [stage |-> row.stage + 1, interval |-> IntervalForStage(row.stage + 1),
   due |-> row.due, active |-> TRUE, last |-> "correct", reviewed |-> now,
   reviews |-> row.reviews + 1, lapses |-> row.lapses]
Advance(row, now) ==
  [stage |-> row.stage + 1, interval |-> IntervalForStage(row.stage + 1),
   due |-> now + IntervalForStage(row.stage + 1), active |-> TRUE,
   last |-> "correct", reviewed |-> now,
   reviews |-> row.reviews + 1, lapses |-> row.lapses]
Graduate(row, now) ==
  [stage |-> row.stage, interval |-> IntervalForStage(row.stage),
   due |-> now, active |-> FALSE,
   last |-> "correct", reviewed |-> now,
   reviews |-> row.reviews + 1, lapses |-> row.lapses]
Bug_LapseInstead(row, now) ==
  [stage |-> 0, interval |-> Intervals[1],
   due |-> now + Intervals[1], active |-> TRUE,
   last |-> "incorrect", reviewed |-> now,
   reviews |-> row.reviews, lapses |-> row.lapses + 1]
Lapse(row, now) ==
  [stage |-> 0, interval |-> Intervals[1],
   due |-> now + Intervals[1], active |-> TRUE,
   last |-> "incorrect", reviewed |-> now,
   reviews |-> row.reviews + 1, lapses |-> row.lapses + 1]

Apply(row, recall, now) ==
  IF recall = "incorrect" THEN Lapse(row, now)
  ELSE IF Graduates(row) THEN Graduate(row, now)
  ELSE Advance(row, now)

-----------------------------------------------------------------------------
(***************************************************************************)
(* The handlers.                                                           *)
(***************************************************************************)
Busy(i) == \E h \in Handlers : /\ handler[h].pc # "idle"
                               /\ handler[h].op = "recall"
                               /\ handler[h].of = i

Accept(h, op, i, recall) ==
  /\ handler[h].pc = "idle"
  /\ handler' = [handler EXCEPT ![h] =
                   [Idle EXCEPT !.pc = "arrived", !.op = op, !.of = i,
                                !.recall = recall]]
  /\ UNCHANGED <<today, item>>

\* POST /revision/{id}/recall: the user answers a revision.
AskRecall(h, i, recall) ==
  /\ item[i] # None => item[i].reviews < MaxReviews
  /\ OneRecallPerItem => ~Busy(i)
  /\ Accept(h, "recall", i, recall)

\* A completion of the item has committed (progress.CompleteTask).
AskSchedule(h, i) == Accept(h, "schedule", i, None)

\* The handler answers, having changed nothing: an item without
\* a row (ErrItemNotFound), a graduated one (ErrItemGraduated), a type that has
\* no revisions, a failed statement.
Answer(h) ==
  /\ handler' = [handler EXCEPT ![h] = Idle]
  /\ UNCHANGED <<today, item>>

Bug_AnyItem(row) == row # None
Recallable(row) == row # None /\ row.active

\* GetByID.
ReadItem(h) ==
  /\ handler[h].pc = "arrived" /\ handler[h].op = "recall"
  /\ LET row == item[handler[h].of]
     IN IF Recallable(row)
        THEN /\ handler' = [handler EXCEPT ![h] =
                             [@ EXCEPT !.pc = "seen", !.seen = row]]
             /\ UNCHANGED <<today, item>>
        ELSE Answer(h)

\* now := s.now(), after the row was read and its title resolved.
ReadClock(h) ==
  /\ \/ handler[h].pc = "seen"
     \/ /\ handler[h].pc = "arrived" /\ handler[h].op = "schedule"
        /\ handler[h].of \in Schedulable
  /\ handler' = [handler EXCEPT ![h] =
                   [@ EXCEPT !.pc = "decided", !.now = today]]
  /\ UNCHANGED <<today, item>>

\* Update: every mutable column, by id.
UpdateItem(h) ==
  /\ handler[h].pc = "decided" /\ handler[h].op = "recall"
  /\ item' = [item EXCEPT ![handler[h].of] =
                Apply(handler[h].seen, handler[h].recall, handler[h].now)]
  /\ handler' = [handler EXCEPT ![h] = Idle]
  /\ UNCHANGED today

\* Create: INSERT ... ON CONFLICT DO NOTHING.
Bug_Upsert(row, new) == new
OnConflict(row, new) == IF row = None THEN new ELSE row
InsertItem(h) ==
  /\ handler[h].pc = "decided" /\ handler[h].op = "schedule"
  /\ item' = [item EXCEPT ![handler[h].of] =
                OnConflict(@, InitialState(handler[h].now))]
  /\ handler' = [handler EXCEPT ![h] = Idle]
  /\ UNCHANGED today

\* Nothing to do for the item's type.
SkipSchedule(h) ==
  /\ handler[h].pc = "arrived" /\ handler[h].op = "schedule"
  /\ handler[h].of \notin Schedulable
  /\ Answer(h)

\* A statement fails or the server stops.
Fail(h) == handler[h].pc # "idle" /\ Answer(h)

Midnight ==
  /\ today < LastDay
  /\ today' = today + 1
  /\ UNCHANGED <<item, handler>>

Next ==
  \/ Midnight
  \/ \E h \in Handlers :
       \/ \E i \in Items : \/ AskSchedule(h, i)
                           \/ \E recall \in Recalls : AskRecall(h, i, recall)
       \/ ReadItem(h) \/ ReadClock(h) \/ UpdateItem(h)
       \/ InsertItem(h) \/ SkipSchedule(h) \/ Fail(h)

Spec == Init /\ [][Next]_vars

-----------------------------------------------------------------------------
(***************************************************************************)
(* Properties.                                                             *)
(***************************************************************************)
Existing == {i \in Items : item[i] # None}

\* Whatever recalls race on it, a row hangs together: its interval is that of
\* its stage, it is due that interval after the day it was last reviewed (or
\* not reviewed at all), and only an item at the last stage whose last recall
\* was correct is graduated (Apply, and Update's list of columns).
FieldsAgreeIn(row) ==
  /\ row.interval = Intervals[row.stage + 1]
  /\ row.last = None => row.active /\ row.stage = 0 /\ row.reviewed = None
  /\ row.last = "incorrect" => row.active /\ row.stage = 0
  /\ row.last # None => row.reviewed # None
  /\ row.reviewed # None =>
       /\ row.reviewed <= today
       /\ row.due = row.reviewed + (IF row.active THEN row.interval ELSE 0)
  /\ ~row.active => row.stage = Last /\ row.last = "correct"
FieldsAgree == \A i \in Existing : FieldsAgreeIn(item[i])

\* A stage is earned: there were at least as many reviews as rungs climbed
\* and lapses together, and one more for a graduated item.  Recalls that race
\* may lose a review but never make one up.
StageIsEarnedBy(row) ==
  row.reviews >= row.stage + row.lapses + (IF row.active THEN 0 ELSE 1)
StageIsEarned == \A i \in Existing : StageIsEarnedBy(item[i])

\* An item that is due stays due until a recall of it is recorded: neither
\* midnight nor completing the item again takes it off the due list (FR-REV-008).
Due(i) == item[i] # None /\ item[i].active /\ item[i].due <= today
RecordsRecall(h, i) ==
  /\ handler[h].op = "recall" /\ handler[h].of = i
  /\ handler[h].pc = "decided" /\ handler'[h].pc = "idle"
DueOrRecalled ==
  \A i \in Items : Due(i) => Due(i)' \/ \E h \in Handlers : RecordsRecall(h, i)
DueUntilRecalled == [][DueOrRecalled]_vars

\* With one recall of an item at a time, the read-modify-write handlers
\* behave like atomic ones.
CardOf(row) ==
  IF row = None THEN None
  ELSE [rung |-> row.stage + 1, active |-> row.active, due |-> row.due,
        reviews |-> row.reviews, lapses |-> row.lapses]
Cards == INSTANCE Ladder WITH
  day <- today,
  card <- [i \in Items |-> CardOf(item[i])]
ImplementsLadder == Cards!Spec
=============================================================================
