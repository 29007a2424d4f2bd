------------------------------ MODULE Practice ------------------------------
(***************************************************************************)
(* What one user has recorded of each problem: the user_problem_progress   *)
(* rows, which the completion of a plan task (internal/progress) and the   *)
(* practice log with its stored solutions (internal/dsaprogress) both      *)
(* upsert, and the user_design_problem_progress rows of the design         *)
(* problems (internal/designproblems).                                     *)
(*                                                                         *)
(* Each write is one statement that computes from the row it meets, so it  *)
(* is one step.  A solution is a set of parts (code, language, notes), the *)
(* day each was last written standing for its text; minutes and attempts   *)
(* count up to a bound.                                                    *)
(***************************************************************************)
EXTENDS Integers

CONSTANTS
  Problems, Designs,       \* problems and design problems
  Parts,                   \* of a stored solution
  LastDay, MaxAttempts,    \* bounds
  None

VARIABLES
  today,
  problem,   \* Problems -> its row, or None
  design     \* Designs -> its row, or None

practiceVars == <<today, problem, design>>

Confidences == {1, 5}
Minutes == {0, 45}
Statuses == {"not_started", "in_progress", "completed", "needs_review"}

PracticeInit ==
  /\ today = 0
  /\ problem = [p \in Problems |-> None]
  /\ design = [d \in Designs |-> None]

\* COALESCE: stamp is the day of the first solve, or None.
Bug_Stamp(old, solved) == IF solved THEN today ELSE old
Stamp(old, solved) == IF old = None /\ solved THEN today ELSE old

\* The row an attempt leaves, on a new row or on the one there is.
Attempt(old, solved, confidence, minutes, parts) ==
  LET was == IF old # None THEN old
             ELSE [attempts |-> 0, minutes |-> 0, solvedAt |-> None,
                   solution |-> [x \in Parts |-> None]]
  IN [status |-> IF solved THEN "completed" ELSE "in_progress",
      confidence |-> confidence, attempts |-> was.attempts + 1, solved |-> solved,
      minutes |-> was.minutes + minutes, solvedAt |-> Stamp(was.solvedAt, solved),
      solution |-> [x \in Parts |-> IF x \in parts THEN today ELSE was.solution[x]]]

More(row) == row # None => row.attempts < MaxAttempts

\* PUT /problems/{id}/progress: a part that is absent or blank is not written.
Save(p, solved, confidence, minutes, parts) ==
  /\ More(problem[p])
  /\ problem' = [problem EXCEPT ![p] = Attempt(@, solved, confidence, minutes, parts)]
  /\ UNCHANGED <<today, design>>

\* The upsert of a completed plan task, which knows nothing of solutions.
CompleteProblem(p, confidence, minutes) ==
  /\ More(problem[p])
  /\ problem' = [problem EXCEPT ![p] = Attempt(@, TRUE, confidence, minutes, {})]
  /\ UNCHANGED <<today, design>>

\* DELETE /problems/{id}/progress: a later save starts a new row.
Clear(p) ==
  /\ problem[p] # None
  /\ problem' = [problem EXCEPT ![p] = None]
  /\ UNCHANGED <<today, design>>

\* PUT /design-problems/{id}/progress: the notes are written as they come, so
\* a save without them erases them.
SaveDesign(d, status, confidence, minutes, notes) ==
  /\ More(design[d])
  /\ LET was == IF design[d] # None THEN design[d]
                ELSE [attempts |-> 0, minutes |-> 0, firstCompletedAt |-> None]
     IN design' = [design EXCEPT ![d] =
          [status |-> status, confidence |-> confidence, attempts |-> was.attempts + 1,
           minutes |-> was.minutes + minutes, notes |-> IF notes THEN today ELSE None,
           firstCompletedAt |-> Stamp(was.firstCompletedAt, status = "completed")]]
  /\ UNCHANGED <<today, problem>>

ClearDesign(d) ==
  /\ design[d] # None
  /\ design' = [design EXCEPT ![d] = None]
  /\ UNCHANGED <<today, problem>>

Midnight == today < LastDay /\ today' = today + 1 /\ UNCHANGED <<problem, design>>

PracticeNext ==
  \/ \E p \in Problems, solved \in BOOLEAN, c \in Confidences \cup {None}, n \in Minutes,
        parts \in SUBSET Parts : Save(p, solved, c, n, parts)
  \/ \E p \in Problems, c \in Confidences, n \in Minutes : CompleteProblem(p, c, n)
  \/ \E p \in Problems : Clear(p)
  \/ \E d \in Designs, status \in Statuses, c \in Confidences \cup {None}, n \in Minutes,
        notes \in BOOLEAN : SaveDesign(d, status, c, n, notes)
  \/ \E d \in Designs : ClearDesign(d)
  \/ Midnight

-----------------------------------------------------------------------------
\* Until a row is cleared, no writer of it takes back what another recorded:
\* attempts and minutes grow, the day of the first solve stays (also when the
\* problem is marked unsolved), and a stored solution survives every save of
\* the solve state and every completed task (dsaprogress/repository.go Upsert,
\* progress/repository.go upsertProgress, designproblems/progress.go Upsert).
Kept(old, new) == old # None => new = old
Remembers ==
  /\ \A p \in Problems : problem[p] # None /\ problem'[p] # None =>
       /\ problem'[p].attempts >= problem[p].attempts
       /\ problem'[p].minutes >= problem[p].minutes
       /\ Kept(problem[p].solvedAt, problem'[p].solvedAt)
       /\ problem'[p].solved => problem'[p].solvedAt # None
       /\ \A x \in Parts : problem[p].solution[x] # None => problem'[p].solution[x] # None
  /\ \A d \in Designs : design[d] # None /\ design'[d] # None =>
       /\ design'[d].attempts >= design[d].attempts
       /\ Kept(design[d].firstCompletedAt, design'[d].firstCompletedAt)
NothingForgotten == [][Remembers]_practiceVars
=============================================================================
