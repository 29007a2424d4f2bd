-------------------------------- MODULE Mocks --------------------------------
(***************************************************************************)
(* The mock interviews of one user (backend/internal/mock): their editing, *)
(* the findings added to them, the study task that a finding may ask for   *)
(* (scheduled by internal/progress), and the ranking of the areas in which *)
(* findings accumulate.                                                    *)
(*                                                                         *)
(* Adding a finding is up to five statements without a transaction: the    *)
(* mock is looked up, the finding inserted, a day of the active plan       *)
(* chosen, the task inserted, and its id written into the finding.  The    *)
(* last three may fail without the request failing.                        *)
(***************************************************************************)
EXTENDS Weakness

CONSTANTS
  Mocks, Findings, Tasks,   \* ids
  Requests,                 \* handlers at work at once
  Types, Outcomes,          \* of a mock
  MaxPlans,                 \* bound on the plans generated
  None, Gone,
  Nil                       \* no task (uuid.Nil)

VARIABLES
  mock,      \* Mocks -> [type, outcome], None before it exists, Gone once deleted
  finding,   \* Findings -> [mock, area, severity, task], or None
  task,      \* Tasks -> [area, plan], a task of kind "revise", or None
  plan,      \* number of the active plan, 0 when there is none
  busy       \* Requests -> [step, ...], or None

mockVars == <<mock, finding, task, plan, busy>>

MocksInit ==
  /\ mock = [m \in Mocks |-> None]
  /\ finding = [f \in Findings |-> None]
  /\ task = [t \in Tasks |-> None]
  /\ plan = 0
  /\ busy = [r \in Requests |-> None]

Stored(m) == mock[m] \notin {None, Gone}
Unused(rows) == {i \in DOMAIN rows : rows[i] = None}

-----------------------------------------------------------------------------
(***************************************************************************)
(* Mocks.  An outcome that is left out is "not_rated" in a new mock, and   *)
(* what it was when the handler read it in an old one.                     *)
(***************************************************************************)
ApplyMock(type, outcome, old) ==
  [type |-> type, outcome |-> IF outcome = None THEN old ELSE outcome]

Create(m, type, outcome) ==
  /\ mock[m] = None
  /\ mock' = [mock EXCEPT ![m] = ApplyMock(type, outcome, "not_rated")]
  /\ UNCHANGED <<finding, task, plan, busy>>

Update(r, m, type, outcome) ==
  /\ busy[r] = None /\ Stored(m)
  /\ busy' = [busy EXCEPT ![r] = [step |-> "update", mock |-> m,
                row |-> ApplyMock(type, outcome, mock[m].outcome)]]
  /\ UNCHANGED <<mock, finding, task, plan>>

SaveMock(r) ==
  /\ busy[r] # None /\ busy[r].step = "update"
  /\ mock' = IF Stored(busy[r].mock) THEN [mock EXCEPT ![busy[r].mock] = busy[r].row] ELSE mock
  /\ busy' = [busy EXCEPT ![r] = None]
  /\ UNCHANGED <<finding, task, plan>>

\* Its findings stay.
Delete(m) ==
  /\ Stored(m) /\ mock' = [mock EXCEPT ![m] = Gone]
  /\ UNCHANGED <<finding, task, plan, busy>>

-----------------------------------------------------------------------------
(***************************************************************************)
(* Findings                                                                *)
(***************************************************************************)
AddFinding(r, m, area, severity, wanted) ==
  /\ busy[r] = None /\ Stored(m)
  /\ busy' = [busy EXCEPT ![r] = [step |-> "insert", wanted |-> wanted,
       row |-> [mock |-> m, area |-> area, severity |-> severity, task |-> None]]]
  /\ UNCHANGED <<mock, finding, task, plan>>

InsertFinding(r) ==
  /\ busy[r] # None /\ busy[r].step = "insert" /\ Unused(finding) # {}
  /\ LET f == CHOOSE f \in Unused(finding) : TRUE IN
     /\ finding' = [finding EXCEPT ![f] = busy[r].row]
     /\ busy' = [busy EXCEPT ![r] =
          IF busy[r].wanted THEN [step |-> "day", finding |-> f] ELSE None]
  /\ UNCHANGED <<mock, task, plan>>

\* Schedule returns the task, Nil without a plan, or fails (None); only a task is
\* linked.
Bug_Linked(t) == t # None
Linked(t) == t \notin {None, Nil}
Scheduled(r, t) ==
  [busy EXCEPT ![r] =
     IF Linked(t) THEN [step |-> "link", finding |-> @.finding, task |-> t] ELSE None]

\* The next day of the active plan, if there is a plan and not all of its days
\* are past.
PickDay(r) ==
  /\ busy[r] # None /\ busy[r].step = "day"
  /\ \/ /\ plan # 0
        /\ busy' = [busy EXCEPT ![r] = [step |-> "task", finding |-> @.finding, plan |-> plan]]
     \/ busy' = Scheduled(r, Nil)
     \/ busy' = Scheduled(r, None)
  /\ UNCHANGED <<mock, finding, task, plan>>

InsertTask(r) ==
  /\ busy[r] # None /\ busy[r].step = "task"
  /\ \/ /\ Unused(task) # {}
        /\ LET t == CHOOSE t \in Unused(task) : TRUE
               area == finding[busy[r].finding].area
           IN /\ task' = [task EXCEPT ![t] = [area |-> area, plan |-> busy[r].plan]]
              /\ busy' = Scheduled(r, t)
     \/ busy' = Scheduled(r, None) /\ UNCHANGED task
  /\ UNCHANGED <<mock, finding, plan>>

\* UpdateFinding; its failure is ignored.
LinkTask(r) ==
  /\ busy[r] # None /\ busy[r].step = "link"
  /\ \/ finding' = [finding EXCEPT ![busy[r].finding].task = busy[r].task]
     \/ UNCHANGED finding
  /\ busy' = [busy EXCEPT ![r] = None]
  /\ UNCHANGED <<mock, task, plan>>

\* The user generates a plan; the one before is archived.
Generate == plan < MaxPlans /\ plan' = plan + 1 /\ UNCHANGED <<mock, finding, task, busy>>

MocksNext ==
  \/ \E m \in Mocks, type \in Types, outcome \in Outcomes \cup {None} :
       Create(m, type, outcome) \/ \E r \in Requests : Update(r, m, type, outcome)
  \/ \E m \in Mocks : Delete(m)
  \/ \E r \in Requests :
       \/ SaveMock(r) \/ InsertFinding(r) \/ PickDay(r) \/ InsertTask(r) \/ LinkTask(r)
       \/ \E m \in Mocks, a \in Areas, s \in Severities, wanted \in BOOLEAN :
            AddFinding(r, m, a, s, wanted)
  \/ Generate

-----------------------------------------------------------------------------
\* Detect ranks all findings, those of deleted mocks too.
Found(rows) == [f \in {g \in Findings : rows[g] # None} |-> rows[f]]
PlaceAt(ranked, a) == CHOOSE i \in DOMAIN ranked : ranked[i] = a
Place(rows, a) == PlaceAt(Weaknesses(Found(rows)), a)

-----------------------------------------------------------------------------
\* A finding that names a task names one that exists, that was made for its area
\* and that no other finding names, whatever failed on the way (service.go
\* AddFinding, remediation.go Schedule).
LinkSound ==
  \A f \in Findings : finding[f] # None /\ finding[f].task # None =>
    /\ \E t \in Tasks : /\ finding[f].task = t /\ task[t] # None
                        /\ task[t].area = finding[f].area
    /\ \A g \in Findings \ {f} : finding[g] # None => finding[g].task # finding[f].task

\* One more finding never improves the standing of its area: the place of the
\* area among the weaknesses stays or comes nearer to the first (weakness.go).
Counts ==
  \A f \in Findings : finding[f] = None /\ finding'[f] # None =>
    LET a == finding'[f].area IN
    InArea(Found(finding), a) # {} => Place(finding', a) <= Place(finding, a)
FindingCounts == [][Counts]_mockVars
=============================================================================
