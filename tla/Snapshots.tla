------------------------------ MODULE Snapshots ------------------------------
(***************************************************************************)
(* The daily readiness snapshots of a user (internal/analytics): a         *)
(* recording computes the readiness of now, reads the snapshots there are, *)
(* projects the day on which the target is reached, and upserts the row of *)
(* the day it then is.  Whoever completes a task or opens the dashboard    *)
(* records one; what the readiness is made of is in Readiness.             *)
(***************************************************************************)
EXTENDS Integers, FiniteSetsExt

CONSTANTS
  Requests,         \* recordings at work at once
  Levels,           \* overall readiness, in small units
  Grain,            \* units in a hundredth of a per cent, which is what a row keeps
  Target, Window,   \* DefaultReadyTarget, DefaultTrendWindowDays
  LastDay,          \* bound
  None

VARIABLES
  today,
  overall,     \* the readiness of now
  snapshot,    \* 0..LastDay -> the row of that day, or None
  recording    \* Requests -> the recording at work, or None

snapshotVars == <<today, overall, snapshot, recording>>

SnapshotInit ==
  /\ today = 0
  /\ overall \in Levels
  /\ snapshot = [d \in 0..LastDay |-> None]
  /\ recording = [r \in Requests |-> None]

-----------------------------------------------------------------------------
\* dailyGainRate: the slope between the first and the last snapshot of the
\* window, as gain over days.
InWindow(history, day) ==
  {d \in DOMAIN history : history[d] # None /\ day - Window <= d /\ d <= day}
DailyGain(history, day) ==
  LET points == InWindow(history, day)
  IN IF points = {} THEN [gain |-> 0, days |-> 0]
     ELSE [gain |-> history[Max(points)].overall - history[Min(points)].overall,
           days |-> Max(points) - Min(points)]

\* The days that are left, rounded up (math.Ceil).  The code divides float64
\* numbers: a quotient that is whole may come out a little larger, and a day
\* late.  No other quotient of levels and days is so close to a whole number
\* that its error, of some 10^-12 of it, can matter.
\* (Bug_DaysRemaining is a plausible slip: rounded down.)
Bug_DaysRemaining(missing, rate) == {(missing * rate.days) \div rate.gain}
DaysRemaining(missing, rate) ==
  LET exact == (missing * rate.days + rate.gain - 1) \div rate.gain
  IN IF exact * rate.gain = missing * rate.days THEN {exact, exact + 1} ELSE {exact}

\* The dates that may come of it
EstimatedReadyDate(day, current, history) ==
  LET rate == DailyGain(history, day)
  IN IF current >= Target THEN {day}
     ELSE IF rate.days = 0 \/ rate.gain <= 0 THEN {None}
     ELSE {day + n : n \in DaysRemaining(Target - current, rate)}

-----------------------------------------------------------------------------
At(r, step) == recording[r] # None /\ recording[r].step = step

\* RecordSnapshot: Readiness, whose reads of the inputs and of the history are
\* two steps with the clock read in between, and the upsert.
Compute(r) ==
  /\ recording[r] = None
  /\ recording' = [recording EXCEPT ![r] =
       [step |-> "computed", overall |-> overall, day |-> None, history |-> None, ready |-> None]]
  /\ UNCHANGED <<today, overall, snapshot>>

ReadHistory(r) ==
  /\ At(r, "computed")
  /\ \E ready \in EstimatedReadyDate(today, recording[r].overall, snapshot) :
       recording' = [recording EXCEPT ![r] =
         [@ EXCEPT !.step = "estimated", !.day = today, !.history = snapshot, !.ready = ready]]
  /\ UNCHANGED <<today, overall, snapshot>>

\* round2, which may take a level in the middle up or down.
Rounded(level) ==
  LET down == Grain * (level \div Grain)
  IN {row \in {down, down + Grain} : 2 * (level - row) <= Grain /\ 2 * (row - level) <= Grain}

\* The clock is read again for the date of the row.
UpsertSnapshot(r) ==
  /\ At(r, "estimated")
  /\ \E kept \in Rounded(recording[r].overall) :
       snapshot' = [snapshot EXCEPT ![today] = [overall |-> kept, ready |-> recording[r].ready]]
  /\ recording' = [recording EXCEPT ![r] = None]
  /\ UNCHANGED <<today, overall>>

Study == overall' \in Levels /\ UNCHANGED <<today, snapshot, recording>>
Midnight == today < LastDay /\ today' = today + 1 /\ UNCHANGED <<overall, snapshot, recording>>

SnapshotNext ==
  \/ \E r \in Requests : Compute(r) \/ ReadHistory(r) \/ UpsertSnapshot(r)
  \/ Study \/ Midnight

-----------------------------------------------------------------------------
\* The estimate is the day on which the user reaches the target at the pace of
\* the window: today if they have; none if that pace does not lead there; or
\* else a day to come, on which they have reached it, though the day before
\* they have not passed it (readiness.go EstimatedReadyDate, 02-SRS.md 6.2.4).
Pace(recorded) ==
  LET points == InWindow(recorded.history, recorded.day)
      first == Min(points)
      last == Max(points)
  IN IF points = {} THEN [gained |-> 0, over |-> 0]
     ELSE [gained |-> recorded.history[last].overall - recorded.history[first].overall,
           over |-> last - first]
Ahead(recorded, d) ==
  LET pace == Pace(recorded)
  IN (recorded.overall - Target) * pace.over + pace.gained * (d - recorded.day)
Reaches(recorded, d) == Pace(recorded).gained > 0 /\ Ahead(recorded, d) >= 0
EstimateIsReadyDay ==
  \A r \in Requests : At(r, "estimated") =>
    LET recorded == recording[r]
        ready == recorded.ready
    IN IF recorded.overall >= Target THEN ready = recorded.day
       ELSE IF ready = None THEN ~Reaches(recorded, recorded.day + Target * Window)
       ELSE /\ ready > recorded.day
            /\ Reaches(recorded, ready)
            /\ Ahead(recorded, ready - 1) <= 0
=============================================================================
