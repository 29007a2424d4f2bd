--------------------------- MODULE RevisionProofs ---------------------------
(***************************************************************************)
(* Proofs about Revision, for any items, ladder and number of handlers.    *)
(*                                                                         *)
(* The properties of rows are invariant because a recall computes a good   *)
(* row from a good row: the row a handler has read is as good as the one   *)
(* in the table, however old it is (HandlersOK).  That the handlers        *)
(* implement the atomic ladder needs more, and holds only when the client  *)
(* has one recall per item in hand: then the row a handler has read is     *)
(* the row in the table (Serial).                                          *)
(***************************************************************************)
EXTENDS Revision, TLAPS

RowOK(row) == row \in Item /\ FieldsAgreeIn(row) /\ StageIsEarnedBy(row)

\* When the client has one recall per item in hand, no two handlers recall one
\* item, and the row a handler has read is still the one in the table.
Recalling(r) == r.pc # "idle" /\ r.op = "recall"
Serial ==
  /\ \A h, k \in Handlers :
       Recalling(handler[h]) /\ Recalling(handler[k])
       /\ handler[h].of = handler[k].of => h = k
  /\ \A h \in Handlers :
       Recalling(handler[h]) /\ handler[h].pc # "arrived" =>
         item[handler[h].of] = handler[h].seen

\* A handler that has read a row holds a good one, and a clock reading that
\* is not ahead of the clock.
HandlerOK(r) ==
  /\ r.pc # "idle" => r.of \in Items
  /\ r.pc # "idle" /\ r.op = "recall" => r.recall \in Recalls
  /\ r.pc = "seen" => r.op = "recall"
  /\ r.pc \in {"seen", "decided"} /\ r.op = "recall" =>
       r.seen # None /\ r.seen.active /\ RowOK(r.seen)
  /\ r.pc = "decided" => r.now <= today

RowsOK == \A i \in Items : item[i] # None => RowOK(item[i])
HandlersOK == \A h \in Handlers : HandlerOK(handler[h])
Inv == TypeOK /\ RowsOK /\ HandlersOK

-----------------------------------------------------------------------------
(* The ladder. *)
LEMMA IntervalsAreNat ==
  \A k \in 1..Len(Intervals) : Intervals[k] \in Nat
BY RevisionAssumption

LEMMA LastIsNat == Last \in Nat /\ Last + 1 = Len(Intervals)
BY RevisionAssumption DEF Last

LEMMA IntervalOfStage ==
  ASSUME NEW stage \in Stages
  PROVE  /\ IntervalForStage(stage) = Intervals[stage + 1]
         /\ Intervals[stage + 1] \in Nat
<1>1. stage \in Int /\ 0 <= stage /\ stage <= Last
  BY LastIsNat DEF Stages
<1>2. stage + 1 \in 1..Len(Intervals)
  BY <1>1, LastIsNat
<1>3. (IF stage < 0 THEN 0 ELSE IF stage > Last THEN Last ELSE stage) = stage
  BY <1>1, LastIsNat
<1>4. IntervalForStage(stage) = Intervals[stage + 1]
  BY <1>3 DEF IntervalForStage
<1>. QED BY <1>2, <1>4, IntervalsAreNat

LEMMA NoneIsNoDay == \A n \in Nat : n # None
BY RevisionAssumption

LEMMA NoneIsNoRecall == "correct" # None /\ "incorrect" # None
BY RevisionAssumption DEF Recalls

\* The row of a completion is a good one.
LEMMA InitialOK ==
  ASSUME NEW now \in Nat, now <= today, today \in Nat
  PROVE  RowOK(InitialState(now))
<1>1. Intervals[1] \in Nat /\ 0 \in Stages
  BY LastIsNat, IntervalsAreNat DEF Stages
<1>. QED BY <1>1 DEF RowOK, InitialState, FieldsAgreeIn, StageIsEarnedBy, Item

\* A recall makes a good row from a good row, whatever it was read from.
LEMMA ApplyOK ==
  ASSUME NEW row, RowOK(row), row.active, NEW recall \in Recalls,
         NEW now \in Nat, now <= today, today \in Nat
  PROVE  RowOK(Apply(row, recall, now))
<1>. DEFINE new == Apply(row, recall, now)
<1>1. row \in Item /\ row.stage \in Stages
  BY DEF RowOK, Item
<1>2. Stages \subseteq Int /\ 0 \in Stages /\ Intervals[1] \in Nat
  BY LastIsNat, IntervalsAreNat DEF Stages
<1>3. /\ row.reviews \in Nat /\ row.lapses \in Nat /\ row.stage \in Int
      /\ row.reviews >= row.stage + row.lapses
  <2>1. row.reviews \in Nat /\ row.lapses \in Nat
    BY DEF RowOK, Item
  <2>2. row.reviews >= row.stage + row.lapses + 0
    BY DEF RowOK, StageIsEarnedBy
  <2>3. row.stage \in Int
    BY <1>1, <1>2
  <2>. QED BY <2>1, <2>2, <2>3
<1>4. now # None
  BY NoneIsNoDay
<1>5. CASE recall = "incorrect"
  <2>1. new = Lapse(row, now)
    BY <1>5 DEF Apply
  <2>2. Lapse(row, now) \in Item
    BY <1>1, <1>2, <1>3 DEF Lapse, Item, Recalls
  <2>3. FieldsAgreeIn(Lapse(row, now))
    BY <1>1, <1>2, <1>4, NoneIsNoRecall DEF Lapse, FieldsAgreeIn
  <2>4. StageIsEarnedBy(Lapse(row, now))
    BY <1>1, <1>2, <1>3, LastIsNat DEF Lapse, Item, StageIsEarnedBy, Stages
  <2>. QED BY <2>1, <2>2, <2>3, <2>4 DEF RowOK
<1>6. CASE recall = "correct" /\ Graduates(row)
  <2>1. new = Graduate(row, now)
    BY <1>6 DEF Apply
  <2>2. row.stage = Last
    BY <1>1, <1>6, LastIsNat DEF Graduates, Stages
  <2>3. IntervalForStage(row.stage) = Intervals[row.stage + 1] /\ Intervals[row.stage + 1] \in Nat
    BY <1>1, IntervalOfStage
  <2>4. Graduate(row, now) \in Item
    BY <1>1, <1>3, <2>3 DEF Graduate, Item, Recalls
  <2>5. FieldsAgreeIn(Graduate(row, now))
    BY <1>1, <1>4, <2>2, <2>3, NoneIsNoRecall DEF Graduate, FieldsAgreeIn
  <2>6. StageIsEarnedBy(Graduate(row, now))
    BY <1>1, <1>2, <1>3 DEF Graduate, Item, StageIsEarnedBy
  <2>. QED BY <2>1, <2>4, <2>5, <2>6 DEF RowOK
<1>7. CASE recall = "correct" /\ ~Graduates(row)
  <2>1. new = Advance(row, now)
    BY <1>7 DEF Apply
  <2>2. row.stage + 1 \in Stages
    BY <1>1, <1>7, LastIsNat DEF Graduates, Stages
  <2>3. /\ IntervalForStage(row.stage + 1) = Intervals[row.stage + 1 + 1]
        /\ Intervals[row.stage + 1 + 1] \in Nat
    BY <2>2, IntervalOfStage
  <2>4. Advance(row, now) \in Item
    BY <1>1, <1>3, <2>2, <2>3 DEF Advance, Item, Recalls
  <2>5. FieldsAgreeIn(Advance(row, now))
    BY <1>1, <1>4, <2>2, <2>3, NoneIsNoRecall DEF Advance, FieldsAgreeIn
  <2>6. StageIsEarnedBy(Advance(row, now))
    BY <1>1, <1>2, <1>3 DEF Advance, Item, StageIsEarnedBy
  <2>. QED BY <2>1, <2>4, <2>5, <2>6 DEF RowOK
<1>. QED BY <1>5, <1>6, <1>7 DEF Recalls

-----------------------------------------------------------------------------
(* The invariant. *)
LEMMA InitInv == Init => Inv
<1>. SUFFICES ASSUME Init PROVE Inv
  OBVIOUS
<1>1. Idle \in Handler /\ HandlerOK(Idle)
  BY DEF Idle, Handler, HandlerOK
<1>2. TypeOK
  BY <1>1 DEF Init, TypeOK
<1>3. RowsOK
  BY DEF Init, RowsOK
<1>4. HandlersOK
  BY <1>1 DEF Init, HandlersOK
<1>. QED BY <1>2, <1>3, <1>4 DEF Inv

\* One handler moves to a good state; the others stay in theirs.
LEMMA HandlerMoves ==
  ASSUME HandlersOK, handler \in [Handlers -> Handler],
         NEW h \in Handlers, NEW r \in Handler, HandlerOK(r),
         handler' = [handler EXCEPT ![h] = r], UNCHANGED today
  PROVE  HandlersOK' /\ handler' \in [Handlers -> Handler]
<1>1. handler' \in [Handlers -> Handler]
  OBVIOUS
<1>2. ASSUME NEW k \in Handlers PROVE HandlerOK(handler[k])'
  <2>1. HandlerOK(handler'[k])
    <3>1. CASE k = h
      BY <3>1
    <3>2. CASE k # h
      BY <3>2 DEF HandlersOK
    <3>. QED BY <3>1, <3>2
  <2>. QED BY <2>1 DEF HandlerOK, RowOK, FieldsAgreeIn, StageIsEarnedBy
<1>. QED BY <1>1, <1>2 DEF HandlersOK

\* The rows stay good while the day does not change.
LEMMA RowsMove ==
  ASSUME RowsOK, item \in [Items -> Item \cup {None}],
         NEW i \in Items, NEW row \in Item, RowOK(row),
         item' = [item EXCEPT ![i] = row], UNCHANGED today
  PROVE  RowsOK' /\ item' \in [Items -> Item \cup {None}]
<1>1. item' \in [Items -> Item \cup {None}]
  OBVIOUS
<1>2. ASSUME NEW k \in Items, item'[k] # None PROVE RowOK(item[k])'
  <2>1. RowOK(item'[k])
    <3>1. CASE k = i
      BY <3>1
    <3>2. CASE k # i
      BY <3>2, <1>2 DEF RowsOK
    <3>. QED BY <3>1, <3>2
  <2>. QED BY <2>1 DEF RowOK, FieldsAgreeIn, StageIsEarnedBy
<1>. QED BY <1>1, <1>2 DEF RowsOK

LEMMA RowsStay ==
  ASSUME RowsOK, UNCHANGED <<item, today>>
  PROVE  RowsOK'
BY DEF RowsOK, RowOK, FieldsAgreeIn, StageIsEarnedBy

\* A good row stays good when the day advances.
LEMMA Later ==
  ASSUME NEW row, RowOK(row), today \in Nat, today' = today + 1
  PROVE  RowOK(row)'
<1>1. row.reviewed # None => row.reviewed <= today'
  <2>1. row.reviewed # None => row.reviewed \in Nat /\ row.reviewed <= today
    BY DEF RowOK, FieldsAgreeIn, Item
  <2>. QED BY <2>1
<1>2. FieldsAgreeIn(row)'
  BY <1>1 DEF RowOK, FieldsAgreeIn
<1>. QED BY <1>2 DEF RowOK, StageIsEarnedBy

LEMMA IdleOK == Idle \in Handler /\ HandlerOK(Idle)
BY DEF Idle, Handler, HandlerOK

\* A handler that answers without a change keeps the invariant.
LEMMA AnswerInv ==
  ASSUME Inv, NEW h \in Handlers, Answer(h)
  PROVE  Inv'
<1>1. HandlersOK' /\ handler' \in [Handlers -> Handler]
  BY IdleOK, HandlerMoves DEF Answer, Inv, TypeOK
<1>2. RowsOK'
  BY RowsStay DEF Answer, Inv
<1>. QED BY <1>1, <1>2 DEF Answer, Inv, TypeOK

LEMMA NextInv == Inv /\ [Next]_vars => Inv'
<1>. SUFFICES ASSUME Inv, [Next]_vars PROVE Inv'
  OBVIOUS
<1>1. CASE Midnight
  <2>1. today \in Nat /\ today' = today + 1 /\ UNCHANGED <<item, handler>>
    BY <1>1 DEF Midnight, Inv, TypeOK
  <2>2. RowsOK'
    BY <2>1, Later DEF Inv, RowsOK
  <2>3. ASSUME NEW h \in Handlers PROVE HandlerOK(handler[h])'
    <3>. DEFINE r == handler[h]
    <3>1. HandlerOK(r) /\ r \in Handler /\ r' = r
      BY <2>1 DEF Inv, HandlersOK, TypeOK
    <3>2. r.pc \in {"seen", "decided"} /\ r.op = "recall" => RowOK(r.seen)'
      BY <3>1, <2>1, Later DEF HandlerOK
    <3>3. r.pc = "decided" => r.now <= today'
      BY <3>1, <2>1 DEF HandlerOK, Handler
    <3>. HIDE DEF r
    <3>4. HandlerOK(r)'
      BY <3>1, <3>2, <3>3 DEF HandlerOK, RowOK, FieldsAgreeIn, StageIsEarnedBy
    <3>. QED BY <3>4 DEF r
  <2>. QED BY <2>1, <2>2, <2>3 DEF Inv, TypeOK, HandlersOK
<1>2. ASSUME NEW h \in Handlers, NEW i \in Items, NEW op \in {"schedule", "recall"},
             NEW recall \in Recalls \cup {None},
             op = "recall" => recall \in Recalls,
             Accept(h, op, i, recall)
      PROVE  Inv'
  <2>. DEFINE r == [Idle EXCEPT !.pc = "arrived", !.op = op, !.of = i,
                                !.recall = recall]
  <2>1. handler' = [handler EXCEPT ![h] = r]
    BY <1>2 DEF Accept
  <2>2. r \in Handler /\ HandlerOK(r)
    BY <1>2 DEF Idle, Handler, HandlerOK
  <2>. HIDE DEF r
  <2>3. HandlersOK' /\ handler' \in [Handlers -> Handler]
    BY <2>1, <2>2, <1>2, HandlerMoves DEF Accept, Inv, TypeOK
  <2>. QED BY <1>2, <2>3, RowsStay DEF Accept, Inv, TypeOK
<1>3. CASE \E h \in Handlers, i \in Items : AskSchedule(h, i)
  BY <1>2, <1>3 DEF AskSchedule
<1>4. CASE \E h \in Handlers, i \in Items, recall \in Recalls : AskRecall(h, i, recall)
  BY <1>2, <1>4 DEF AskRecall
<1>5. ASSUME NEW h \in Handlers, ReadItem(h) PROVE Inv'
  <2>. DEFINE row == item[handler[h].of]
              r == [handler[h] EXCEPT !.pc = "seen", !.seen = row]
  <2>1. CASE Recallable(row)
    <3>1. handler' = [handler EXCEPT ![h] = r] /\ UNCHANGED <<today, item>>
      BY <1>5, <2>1 DEF ReadItem
    <3>2. handler[h] \in Handler /\ HandlerOK(handler[h])
      BY DEF Inv, TypeOK, HandlersOK
    <3>3. handler[h].of \in Items /\ row \in Item \cup {None} /\ row.active
      BY <1>5, <2>1, <3>2 DEF ReadItem, HandlerOK, Inv, TypeOK, Recallable
    <3>4. row # None
      BY <2>1 DEF Recallable
    <3>5. r \in Handler /\ HandlerOK(r)
      BY <1>5, <3>2, <3>3, <3>4 DEF ReadItem, Handler, HandlerOK, Inv, RowsOK
    <3>. QED BY <3>1, <3>5, HandlerMoves, RowsStay DEF Inv, TypeOK
  <2>2. CASE ~Recallable(row)
    BY <1>5, <2>2, AnswerInv DEF ReadItem
  <2>. QED BY <2>1, <2>2
<1>6. ASSUME NEW h \in Handlers, ReadClock(h) PROVE Inv'
  <2>. DEFINE r == [handler[h] EXCEPT !.pc = "decided", !.now = today]
  <2>1. handler' = [handler EXCEPT ![h] = r] /\ UNCHANGED <<today, item>>
    BY <1>6 DEF ReadClock
  <2>2. handler[h] \in Handler /\ HandlerOK(handler[h])
    BY DEF Inv, TypeOK, HandlersOK
  <2>3. handler[h].pc = "seen" \/ (handler[h].pc = "arrived" /\ handler[h].op = "schedule")
    BY <1>6 DEF ReadClock
  <2>4. r \in Handler
    BY <2>2 DEF Handler, Inv, TypeOK
  <2>5. HandlerOK(r)
    BY <2>2, <2>3 DEF Handler, HandlerOK, Inv, TypeOK
  <2>. QED BY <2>1, <2>4, <2>5, HandlerMoves, RowsStay DEF Inv, TypeOK
<1>7. ASSUME NEW h \in Handlers, UpdateItem(h) PROVE Inv'
  <2>. DEFINE row == Apply(handler[h].seen, handler[h].recall, handler[h].now)
  <2>1. handler[h] \in Handler /\ HandlerOK(handler[h])
    BY DEF Inv, TypeOK, HandlersOK
  <2>2. handler[h].of \in Items /\ RowOK(row)
    BY <1>7, <2>1, ApplyOK DEF UpdateItem, HandlerOK, Handler, Inv, TypeOK
  <2>. HIDE DEF row
  <2>3. item' = [item EXCEPT ![handler[h].of] = row]
    BY <1>7 DEF UpdateItem, row
  <2>4. RowsOK' /\ item' \in [Items -> Item \cup {None}]
    BY <1>7, <2>2, <2>3, RowsMove DEF UpdateItem, Inv, TypeOK, RowOK
  <2>5. HandlersOK' /\ handler' \in [Handlers -> Handler]
    BY <1>7, IdleOK, HandlerMoves DEF UpdateItem, Inv, TypeOK
  <2>. QED BY <1>7, <2>4, <2>5 DEF UpdateItem, Inv, TypeOK
<1>8. ASSUME NEW h \in Handlers, InsertItem(h) PROVE Inv'
  <2>. DEFINE i == handler[h].of
              new == InitialState(handler[h].now)
  <2>1. handler[h] \in Handler /\ HandlerOK(handler[h])
    BY DEF Inv, TypeOK, HandlersOK
  <2>2. i \in Items /\ RowOK(new)
    BY <1>8, <2>1, InitialOK DEF InsertItem, HandlerOK, Handler, Inv, TypeOK
  <2>3. item' = [item EXCEPT ![i] = OnConflict(item[i], new)]
    BY <1>8 DEF InsertItem
  <2>4. RowOK(OnConflict(item[i], new))
    BY <2>2 DEF OnConflict, Inv, RowsOK
  <2>. HIDE DEF i, new
  <2>5. RowsOK' /\ item' \in [Items -> Item \cup {None}]
    BY <1>8, <2>2, <2>3, <2>4, RowsMove DEF InsertItem, Inv, TypeOK, RowOK
  <2>6. HandlersOK' /\ handler' \in [Handlers -> Handler]
    BY <1>8, IdleOK, HandlerMoves DEF InsertItem, Inv, TypeOK
  <2>. QED BY <1>8, <2>5, <2>6 DEF InsertItem, Inv, TypeOK
<1>9. ASSUME NEW h \in Handlers, SkipSchedule(h) \/ Fail(h) PROVE Inv'
  BY <1>9, AnswerInv DEF SkipSchedule, Fail
<1>10. CASE UNCHANGED vars
  <2>1. HandlersOK'
    BY <1>10 DEF vars, Inv, HandlersOK, HandlerOK, RowOK, FieldsAgreeIn, StageIsEarnedBy
  <2>. QED BY <1>10, <2>1, RowsStay DEF vars, Inv, TypeOK
<1>. QED BY <1>1, <1>3, <1>4, <1>5, <1>6, <1>7, <1>8, <1>9, <1>10 DEF Next

LEMMA InvHolds == Spec => []Inv
BY InitInv, NextInv, PTL DEF Spec

-----------------------------------------------------------------------------
\* Every reachable state is well-typed; in particular no recall, however
\* stale, moves an item off the ladder.
THEOREM TypeCorrect == Spec => []TypeOK
<1>1. Inv => TypeOK
  BY DEF Inv
<1>. QED BY <1>1, InvHolds, PTL

\* The columns of a row always belong to one review, whatever recalls race.
THEOREM FieldsAgreeHolds == Spec => []FieldsAgree
<1>1. Inv => FieldsAgree
  BY DEF Inv, RowsOK, RowOK, FieldsAgree, Existing
<1>. QED BY <1>1, InvHolds, PTL

\* Recalls that race may lose reviews, never make up a stage.
THEOREM StageIsEarnedHolds == Spec => []StageIsEarned
<1>1. Inv => StageIsEarned
  BY DEF Inv, RowsOK, RowOK, StageIsEarned, Existing
<1>. QED BY <1>1, InvHolds, PTL

-----------------------------------------------------------------------------
(* What a step does to the rows. *)
LEMMA Writers ==
  ASSUME [Next]_vars
  PROVE  \/ UNCHANGED <<item, today>>
         \/ Midnight
         \/ \E h \in Handlers : UpdateItem(h)
         \/ \E h \in Handlers : InsertItem(h)
BY DEF Next, vars, AskSchedule, AskRecall, Accept, ReadItem, ReadClock,
       SkipSchedule, Fail, Answer

\* Only a recall takes an item off the due list.
THEOREM DueUntilRecalledHolds == Spec => DueUntilRecalled
<1>. DEFINE Kept(i) == Due(i)' \/ \E h \in Handlers : RecordsRecall(h, i)
<1>1. Inv /\ [Next]_vars => DueOrRecalled
  <2>. SUFFICES ASSUME Inv, [Next]_vars, NEW i \in Items, Due(i) PROVE Kept(i)
    BY DEF DueOrRecalled
  <2>1. CASE UNCHANGED <<item, today>>
    BY <2>1 DEF Due
  <2>2. CASE Midnight
    <3>1. item[i].due \in Nat /\ today \in Nat
      BY DEF Inv, TypeOK, Due, Item
    <3>. QED BY <2>2, <3>1 DEF Midnight, Due
  <2>3. ASSUME NEW h \in Handlers, UpdateItem(h) PROVE Kept(i)
    <3>1. handler'[h] = Idle
      BY <2>3 DEF UpdateItem, Inv, TypeOK
    <3>2. CASE handler[h].of = i
      BY <2>3, <3>1, <3>2 DEF UpdateItem, RecordsRecall, Idle
    <3>3. CASE handler[h].of # i
      BY <2>3, <3>3 DEF UpdateItem, Due, Inv, TypeOK
    <3>. QED BY <3>2, <3>3
  <2>4. ASSUME NEW h \in Handlers, InsertItem(h) PROVE Kept(i)
    <3>1. item'[i] = item[i] /\ today' = today
      BY <2>4 DEF InsertItem, OnConflict, Due, Inv, TypeOK
    <3>. QED BY <3>1 DEF Due
  <2>. QED BY <2>1, <2>2, <2>3, <2>4, Writers
<1>. QED BY <1>1, InvHolds, PTL DEF Spec, DueUntilRecalled

-----------------------------------------------------------------------------
(* The refinement. *)

\* A handler that moves on with its request, or that answers.
LEMMA SerialMoves ==
  ASSUME Serial, handler \in [Handlers -> Handler],
         NEW h \in Handlers, NEW r, handler' = [handler EXCEPT ![h] = r],
         UNCHANGED item,
         \/ ~Recalling(r)
         \/ /\ Recalling(handler[h]) /\ r.of = handler[h].of
            /\ r.pc # "arrived" => item[r.of] = r.seen
  PROVE  Serial'
<1>1. \A k \in Handlers : handler'[k] = IF k = h THEN r ELSE handler[k]
  OBVIOUS
<1>2. ASSUME NEW k \in Handlers, NEW l \in Handlers,
             Recalling(handler'[k]), Recalling(handler'[l]),
             handler'[k].of = handler'[l].of
      PROVE  k = l
  BY <1>1, <1>2 DEF Serial
<1>3. ASSUME NEW k \in Handlers, Recalling(handler'[k]), handler'[k].pc # "arrived"
      PROVE  item[handler'[k].of] = handler'[k].seen
  BY <1>1, <1>3 DEF Serial
<1>. QED BY <1>2, <1>3 DEF Serial, Recalling

LEMMA IdleIsNotRecalling == ~Recalling(Idle)
BY DEF Recalling, Idle

LEMMA SerialNext ==
  ASSUME OneRecallPerItem, Inv, Serial, [Next]_vars
  PROVE  Serial'
<1>. USE DEF Recalling
<1>1. handler \in [Handlers -> Handler] /\ item \in [Items -> Item \cup {None}]
  BY DEF Inv, TypeOK
<1>2. CASE Midnight \/ UNCHANGED vars
  BY <1>2 DEF Midnight, vars, Serial
<1>3. ASSUME NEW h \in Handlers, Answer(h) PROVE Serial'
  BY <1>1, <1>3, IdleIsNotRecalling, SerialMoves DEF Answer
<1>4. ASSUME NEW h \in Handlers, NEW i \in Items, AskSchedule(h, i) PROVE Serial'
  <2>. DEFINE r == [Idle EXCEPT !.pc = "arrived", !.op = "schedule", !.of = i,
                                !.recall = None]
  <2>1. handler' = [handler EXCEPT ![h] = r] /\ UNCHANGED item
    BY <1>4 DEF AskSchedule, Accept
  <2>2. ~Recalling(r)
    BY DEF Idle
  <2>. HIDE DEF r
  <2>. QED BY <1>1, <2>1, <2>2, SerialMoves
<1>5. ASSUME NEW h \in Handlers, NEW i \in Items, NEW recall \in Recalls,
             AskRecall(h, i, recall)
      PROVE  Serial'
  <2>. DEFINE r == [Idle EXCEPT !.pc = "arrived", !.op = "recall", !.of = i,
                                !.recall = recall]
  <2>1. handler' = [handler EXCEPT ![h] = r] /\ UNCHANGED item /\ ~Busy(i)
    BY <1>5 DEF AskRecall, Accept
  <2>2. r.pc = "arrived" /\ r.of = i
    BY DEF Idle
  <2>. HIDE DEF r
  <2>3. \A k \in Handlers : handler'[k] = IF k = h THEN r ELSE handler[k]
    BY <1>1, <2>1
  <2>4. \A k \in Handlers : Recalling(handler[k]) => handler[k].of # i
    BY <2>1 DEF Busy
  <2>. QED BY <2>1, <2>2, <2>3, <2>4 DEF Serial
<1>6. ASSUME NEW h \in Handlers, ReadItem(h) PROVE Serial'
  <2>. DEFINE row == item[handler[h].of]
              r == [handler[h] EXCEPT !.pc = "seen", !.seen = row]
  <2>1. CASE Recallable(row)
    <3>1. handler' = [handler EXCEPT ![h] = r] /\ UNCHANGED item
      BY <1>6, <2>1 DEF ReadItem
    <3>2. Recalling(handler[h]) /\ r.of = handler[h].of /\ item[r.of] = r.seen
      BY <1>1, <1>6 DEF ReadItem, Handler
    <3>. HIDE DEF r
    <3>. QED BY <1>1, <3>1, <3>2, SerialMoves
  <2>2. CASE ~Recallable(row)
    BY <1>3, <1>6, <2>2 DEF ReadItem
  <2>. QED BY <2>1, <2>2
<1>7. ASSUME NEW h \in Handlers, ReadClock(h) PROVE Serial'
  <2>. DEFINE r == [handler[h] EXCEPT !.pc = "decided", !.now = today]
  <2>1. handler' = [handler EXCEPT ![h] = r] /\ UNCHANGED item
    BY <1>7 DEF ReadClock
  <2>2. HandlerOK(handler[h]) /\ handler[h] \in Handler
    BY <1>1 DEF Inv, HandlersOK
  <2>3. CASE handler[h].pc = "seen"
    <3>1. Recalling(handler[h]) /\ r.of = handler[h].of /\ item[r.of] = r.seen
      BY <2>2, <2>3 DEF HandlerOK, Serial, Handler
    <3>. HIDE DEF r
    <3>. QED BY <1>1, <2>1, <3>1, SerialMoves
  <2>4. CASE handler[h].op = "schedule"
    <3>1. ~Recalling(r)
      BY <2>2, <2>4 DEF Handler
    <3>. HIDE DEF r
    <3>. QED BY <1>1, <2>1, <3>1, SerialMoves
  <2>. QED BY <1>7, <2>3, <2>4 DEF ReadClock
<1>8. ASSUME NEW h \in Handlers, UpdateItem(h) PROVE Serial'
  <2>1. handler' = [handler EXCEPT ![h] = Idle] /\ Recalling(handler[h])
    BY <1>8 DEF UpdateItem
  <2>2. \A k \in Handlers : handler'[k] = IF k = h THEN Idle ELSE handler[k]
    BY <1>1, <2>1
  <2>3. \A k \in Handlers : k # h /\ Recalling(handler[k]) =>
          handler[k].of # handler[h].of
    BY <2>1 DEF Serial
  <2>4. \A i \in Items : i # handler[h].of => item'[i] = item[i]
    BY <1>1, <1>8 DEF UpdateItem
  <2>5. \A k \in Handlers : Recalling(handler[k]) => handler[k].of \in Items
    BY DEF Inv, HandlersOK, HandlerOK
  <2>. QED BY <2>2, <2>3, <2>4, <2>5, IdleIsNotRecalling DEF Serial
<1>9. ASSUME NEW h \in Handlers, InsertItem(h) PROVE Serial'
  <2>1. handler' = [handler EXCEPT ![h] = Idle]
    BY <1>9 DEF InsertItem
  <2>2. \A k \in Handlers : handler'[k] = IF k = h THEN Idle ELSE handler[k]
    BY <1>1, <2>1
  <2>3. \A i \in Items : item[i] # None => item'[i] = item[i]
    BY <1>1, <1>9 DEF InsertItem, OnConflict
  <2>4. \A k \in Handlers : Recalling(handler[k]) /\ handler[k].pc # "arrived" =>
          handler[k].of \in Items /\ handler[k].seen # None
    BY <1>1 DEF Inv, HandlersOK, HandlerOK, Handler
  <2>. QED BY <2>2, <2>3, <2>4, IdleIsNotRecalling DEF Serial
<1>. QED BY <1>2, <1>3, <1>4, <1>5, <1>6, <1>7, <1>8, <1>9
         DEF Next, SkipSchedule, Fail

LEMMA SerialHolds ==
  ASSUME OneRecallPerItem
  PROVE  Spec => [](Inv /\ Serial)
<1>1. Init => Inv /\ Serial
  BY InitInv, IdleIsNotRecalling DEF Init, Serial, Recalling
<1>2. Inv /\ Serial /\ [Next]_vars => (Inv /\ Serial)'
  BY NextInv, SerialNext
<1>. QED BY <1>1, <1>2, PTL DEF Spec

card == [i \in Items |-> CardOf(item[i])]

\* The abstract actions, told with that card.
LEMMA CardPut ==
  ASSUME NEW i, NEW d, NEW rung, NEW active, NEW reviews, NEW lapses,
         card' = [card EXCEPT ![i] =
                    [rung |-> rung, active |-> active,
                     due |-> IF active THEN d + Intervals[rung] ELSE d,
                     reviews |-> reviews, lapses |-> lapses]]
  PROVE  Cards!Put(i, d, rung, active, reviews, lapses)
BY Zenon DEF Cards!Put, card

LEMMA CardLearnt ==
  ASSUME NEW i, NEW d, card[i] = None, Cards!Put(i, d, 1, TRUE, 0, 0)
  PROVE  Cards!Learn(i, d)
BY Zenon DEF Cards!Learn, card

LEMMA CardIncorrect ==
  ASSUME NEW i, NEW d, card[i] # None, card[i].active,
         Cards!Put(i, d, 1, TRUE, card[i].reviews + 1, card[i].lapses + 1)
  PROVE  Cards!Incorrect(i, d)
BY Zenon DEF Cards!Incorrect, card

LEMMA CardCorrect ==
  ASSUME NEW i, NEW d, card[i] # None, card[i].active,
         IF card[i].rung = Len(Intervals)
         THEN Cards!Put(i, d, card[i].rung, FALSE, card[i].reviews + 1, card[i].lapses)
         ELSE Cards!Put(i, d, card[i].rung + 1, TRUE, card[i].reviews + 1, card[i].lapses)
  PROVE  Cards!Correct(i, d)
BY Zenon DEF Cards!Correct, card

\* A row written for an item shows as its card.
LEMMA CardWritten ==
  ASSUME item \in [Items -> Item \cup {None}], NEW i \in Items, NEW row,
         item' = [item EXCEPT ![i] = row]
  PROVE  card' = [card EXCEPT ![i] = CardOf(row)]
BY DEF card

\* A recall of an active row is the atomic recall of its card.
LEMMA RecallIsAtomic ==
  ASSUME NEW i \in Items, NEW row, RowOK(row), row.active, item[i] = row, row # None,
         NEW recall \in Recalls, NEW now \in Nat, now <= today, today \in Nat,
         item \in [Items -> Item \cup {None}],
         item' = [item EXCEPT ![i] = Apply(row, recall, now)]
  PROVE  Cards!Correct(i, now) \/ Cards!Incorrect(i, now)
<1>. DEFINE Shown(rung, active, reviews, lapses) ==
              [rung |-> rung, active |-> active,
               due |-> IF active THEN now + Intervals[rung] ELSE now,
               reviews |-> reviews, lapses |-> lapses]
<1>1. /\ card[i] # None /\ card[i].active
      /\ card[i].rung = row.stage + 1
      /\ card[i].reviews = row.reviews /\ card[i].lapses = row.lapses
  <2>1. card[i] = CardOf(row)
    BY DEF card
  <2>2. CardOf(row) # None
    <3>1. CardOf(row) \in Card
      BY LastIsNat DEF CardOf, Card, RowOK, Item, Stages
    <3>. QED BY <3>1, NoneIsNoRow
  <2>. QED BY <2>1, <2>2 DEF CardOf
<1>2. card' = [card EXCEPT ![i] = CardOf(Apply(row, recall, now))]
  BY CardWritten
<1>3. row \in Item /\ row.stage \in Int /\ Last \in Int /\ Last + 1 = Len(Intervals)
  BY LastIsNat DEF RowOK, Item, Stages
<1>4. row.stage <= Last
  BY LastIsNat DEF RowOK, Item, Stages
<1>5. Apply(row, recall, now) # None
  BY ApplyOK, NoneIsNoRow DEF RowOK
<1>6. CASE recall = "incorrect"
  <2>1. Apply(row, recall, now) = Lapse(row, now)
    BY <1>6 DEF Apply
  <2>2. CardOf(Lapse(row, now)) = Shown(1, TRUE, row.reviews + 1, row.lapses + 1)
    BY <1>5, <2>1 DEF CardOf, Lapse
  <2>3. Cards!Put(i, now, 1, TRUE, row.reviews + 1, row.lapses + 1)
    BY <1>2, <2>1, <2>2, CardPut, Zenon
  <2>. QED BY <1>1, <2>3, CardIncorrect, Zenon
<1>7. CASE recall = "correct" /\ Graduates(row)
  <2>1. Apply(row, recall, now) = Graduate(row, now)
    BY <1>7 DEF Apply
  <2>2. row.stage + 1 = Len(Intervals)
    BY <1>3, <1>4, <1>7 DEF Graduates
  <2>3. CardOf(Graduate(row, now)) = Shown(row.stage + 1, FALSE, row.reviews + 1, row.lapses)
    BY <1>5, <2>1 DEF CardOf, Graduate
  <2>4. Cards!Put(i, now, row.stage + 1, FALSE, row.reviews + 1, row.lapses)
    BY <1>2, <2>1, <2>3, CardPut, Zenon
  <2>. QED BY <1>1, <2>2, <2>4, CardCorrect, Zenon
<1>8. CASE recall = "correct" /\ ~Graduates(row)
  <2>1. Apply(row, recall, now) = Advance(row, now)
    BY <1>8 DEF Apply
  <2>2. row.stage + 1 # Len(Intervals) /\ row.stage + 1 \in Stages
    BY <1>3, <1>4, <1>8, LastIsNat DEF Graduates, RowOK, Item, Stages
  <2>3. IntervalForStage(row.stage + 1) = Intervals[row.stage + 1 + 1]
    BY <2>2, IntervalOfStage
  <2>4. CardOf(Advance(row, now)) = Shown(row.stage + 1 + 1, TRUE, row.reviews + 1, row.lapses)
    BY <1>5, <2>1, <2>3 DEF CardOf, Advance
  <2>5. Cards!Put(i, now, row.stage + 1 + 1, TRUE, row.reviews + 1, row.lapses)
    BY <1>2, <2>1, <2>4, CardPut, Zenon
  <2>. QED BY <1>1, <2>2, <2>5, CardCorrect, Zenon
<1>. QED BY <1>6, <1>7, <1>8 DEF Recalls

\* With one recall per item in hand, the handlers implement the ladder.
THEOREM LadderImplemented ==
  ASSUME OneRecallPerItem
  PROVE  Spec => ImplementsLadder
<1>1. Init => Cards!Init
  BY DEF Init, Cards!Init, CardOf
<1>2. Inv /\ Serial /\ [Next]_vars => Cards!Next \/ UNCHANGED <<today, card>>
  <2>. SUFFICES ASSUME Inv, Serial, [Next]_vars
                PROVE  Cards!Next \/ UNCHANGED <<today, card>>
    OBVIOUS
  <2>1. CASE UNCHANGED <<item, today>>
    BY <2>1 DEF card
  <2>2. CASE Midnight
    BY <2>2 DEF Midnight, Cards!Next, Cards!NextDay
  <2>3. ASSUME NEW h \in Handlers, UpdateItem(h) PROVE Cards!Next
    <3>. DEFINE r == handler[h]
    <3>1. /\ r \in Handler /\ HandlerOK(r) /\ item \in [Items -> Item \cup {None}]
          /\ today \in Nat /\ r.pc = "decided" /\ r.op = "recall"
      BY <2>3 DEF Inv, TypeOK, HandlersOK, UpdateItem
    <3>2. /\ r.of \in Items /\ RowOK(r.seen) /\ r.seen.active /\ r.seen # None
          /\ r.recall \in Recalls /\ r.now \in Nat /\ r.now <= today
      BY <3>1 DEF HandlerOK, Handler
    <3>3. item[r.of] = r.seen
      BY <3>1 DEF Serial, Recalling
    <3>4. Cards!Correct(r.of, r.now) \/ Cards!Incorrect(r.of, r.now)
      BY <2>3, <3>1, <3>2, <3>3, RecallIsAtomic DEF UpdateItem
    <3>5. r.now \in 0..today /\ UNCHANGED today
      BY <2>3, <3>1, <3>2 DEF UpdateItem
    <3>. QED BY <3>2, <3>4, <3>5 DEF Cards!Next
  <2>4. ASSUME NEW h \in Handlers, InsertItem(h)
        PROVE  Cards!Next \/ UNCHANGED <<today, card>>
    <3>. DEFINE i == handler[h].of
                now == handler[h].now
    <3>1. /\ i \in Items /\ now \in 0..today /\ UNCHANGED today
          /\ item \in [Items -> Item \cup {None}]
          /\ item' = [item EXCEPT ![i] = OnConflict(item[i], InitialState(now))]
      BY <2>4 DEF Inv, TypeOK, HandlersOK, HandlerOK, Handler, InsertItem
    <3>. HIDE DEF i, now
    <3>2. CASE item[i] # None
      BY <3>1, <3>2 DEF OnConflict, card
    <3>3. CASE item[i] = None
      <4>1. card' = [card EXCEPT ![i] = CardOf(InitialState(now))]
        BY <3>1, <3>3, CardWritten DEF OnConflict
      <4>2. InitialState(now) # None
        BY <3>1, InitialOK, NoneIsNoRow DEF RowOK, Inv, TypeOK
      <4>3. CardOf(InitialState(now)) =
              [rung |-> 1, active |-> TRUE,
               due |-> IF TRUE THEN now + Intervals[1] ELSE now,
               reviews |-> 0, lapses |-> 0]
        BY <4>2 DEF CardOf, InitialState
      <4>4. Cards!Put(i, now, 1, TRUE, 0, 0)
        BY <4>1, <4>3, CardPut, Zenon
      <4>5. card[i] = None
        BY <3>1, <3>3 DEF card, CardOf
      <4>6. Cards!Learn(i, now)
        BY <4>4, <4>5, CardLearnt, Zenon
      <4>. QED BY <3>1, <4>6 DEF Cards!Next
    <3>. QED BY <3>2, <3>3
  <2>. QED BY <2>1, <2>2, <2>3, <2>4, Writers
<1>3. Inv /\ Serial /\ [Next]_vars => [Cards!Next]_<<today, [i \in Items |-> CardOf(item[i])]>>
  BY <1>2 DEF card
<1>. QED BY <1>1, <1>3, SerialHolds, PTL DEF Spec, ImplementsLadder, Cards!Spec
=============================================================================
