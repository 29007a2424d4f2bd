---------------------------- MODULE TaskLifecycle ----------------------------
(***************************************************************************)
(* What the comments of the Repository interface promise of a plan task,   *)
(* as if each operation were atomic: its status and the minutes booked on  *)
(* it.  Tasks that are pending or in progress are open; one that was       *)
(* completed, skipped or moved is closed, and only a reopening leads back. *)
(***************************************************************************)
CONSTANTS Planned, Tasks, Minutes, None

VARIABLES
  status,  \* Tasks -> its status, "absent" until the row exists
  booked   \* Tasks -> the minutes booked by its completion, or None

Open == {"pending", "in_progress"}

Init ==
  /\ status = [t \in Tasks |-> IF t \in Planned THEN "pending" ELSE "absent"]
  /\ booked = [t \in Tasks |-> None]

-----------------------------------------------------------------------------
(* What an operation does to the task, whatever it found. *)
Completed(t) ==
  /\ status' = [status EXCEPT ![t] = "completed"]
  /\ \E m \in Minutes : booked' = [booked EXCEPT ![t] = m]

Skipped(t) ==
  /\ status' = [status EXCEPT ![t] = "skipped"]
  /\ UNCHANGED booked

Started(t) ==
  /\ status' = [status EXCEPT ![t] = "in_progress"]
  /\ UNCHANGED booked

\* The task makes way for a new one.
Moved(t, clone) ==
  /\ status[clone] = "absent"
  /\ status' = [status EXCEPT ![t] = "rescheduled", ![clone] = "pending"]
  /\ UNCHANGED booked

-----------------------------------------------------------------------------
(* And what it is promised to be applied to. *)
Complete(t) == status[t] \in Open /\ Completed(t)
Skip(t) == status[t] \in Open /\ Skipped(t)
Start(t) == status[t] = "pending" /\ Started(t)
Reschedule(t, clone) == status[t] \in Open /\ Moved(t, clone)

Reopen(t) ==
  /\ status[t] \in {"completed", "skipped"}
  /\ status' = [status EXCEPT ![t] = "pending"]
  /\ booked' = [booked EXCEPT ![t] = None]

Insert(t) ==
  /\ status[t] = "absent"
  /\ status' = [status EXCEPT ![t] = "pending"]
  /\ UNCHANGED booked

Next ==
  \/ \E t \in Tasks : \/ Complete(t) \/ Skip(t) \/ Start(t) \/ Reopen(t)
                      \/ Insert(t)
  \/ \E t, c \in Tasks : Reschedule(t, c)

Spec == Init /\ [][Next]_<<status, booked>>
=============================================================================
