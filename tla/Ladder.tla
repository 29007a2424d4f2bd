------------------------------- MODULE Ladder -------------------------------
(***************************************************************************)
(* What spaced repetition promises (FR-REV-001 to FR-REV-007), as if every *)
(* recall were atomic.  An item is learned once and then climbs the ladder *)
(* of intervals, one rung for each correct recall; an incorrect one drops  *)
(* it to the first rung; a correct one on the last rung retires it.        *)
(***************************************************************************)
EXTENDS Integers, Sequences

CONSTANTS Items, Intervals, None

VARIABLES
  day,   \* the day it is
  card   \* Items -> [rung, due, active, reviews, lapses], or None

Init == day = 0 /\ card = [i \in Items |-> None]

NextDay == day' = day + 1 /\ UNCHANGED card

\* What happened to i happened on day d: today, or earlier when the server
\* was slow to record it.
Put(i, d, rung, active, reviews, lapses) ==
  card' = [card EXCEPT ![i] =
             [rung |-> rung, active |-> active,
              due |-> IF active THEN d + Intervals[rung] ELSE d,
              reviews |-> reviews, lapses |-> lapses]]

Learn(i, d) ==
  /\ card[i] = None
  /\ Put(i, d, 1, TRUE, 0, 0)

Correct(i, d) ==
  /\ card[i] # None /\ card[i].active
  /\ IF card[i].rung = Len(Intervals)
     THEN Put(i, d, card[i].rung, FALSE, card[i].reviews + 1, card[i].lapses)
     ELSE Put(i, d, card[i].rung + 1, TRUE, card[i].reviews + 1, card[i].lapses)

Incorrect(i, d) ==
  /\ card[i] # None /\ card[i].active
  /\ Put(i, d, 1, TRUE, card[i].reviews + 1, card[i].lapses + 1)

Next ==
  \/ NextDay
  \/ /\ \E i \in Items, d \in 0..day :
          Learn(i, d) \/ Correct(i, d) \/ Incorrect(i, d)
     /\ UNCHANGED day

Spec == Init /\ [][Next]_<<day, card>>
=============================================================================
