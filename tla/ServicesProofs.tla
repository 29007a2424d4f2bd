---------------------------- MODULE ServicesProofs ----------------------------
(***************************************************************************)
(* Proofs about the services of module Services, one section for each.     *)
(* They share one lemma, that a step of a service is a step of its module; *)
(* every section has an invariant of its own, which holds of the           *)
(* behaviours of its service and is preserved by the steps of its module.  *)
(***************************************************************************)
EXTENDS Services, SetLemmas

-----------------------------------------------------------------------------
(***************************************************************************)
(* A step of a service is a step of its module.                            *)
(***************************************************************************)
LEMMA StepIs ==
  ASSUME [ServicesNext]_vars
  PROVE  /\ service' = service
         /\ service = "plan engine" => [Engine!CurriculumNext]_(Engine!curriculumVars)
         /\ service = "streak" => [Streak!StudyNext]_(Streak!studyVars)
         /\ service = "practice" => [Log!PracticeNext]_(Log!practiceVars)
         /\ service = "design practice" => [DesignLog!PracticeNext]_(DesignLog!practiceVars)
         /\ service = "readiness" => [Ready!ReadinessNext]_(Ready!readinessVars)
         /\ service = "snapshots" => [Trend!SnapshotNext]_(Trend!snapshotVars)
         /\ service = "rate limit" => [Limiter!LimitNext]_(Limiter!limitVars)
         /\ service = "stories" => [Story!StoriesNext]_(Story!storyVars)
         /\ service = "resume" => [Cv!ResumeNext]_(Cv!resumeVars)
         /\ service = "mocks" => [Mock!MocksNext]_(Mock!mockVars)
         /\ service = "assistant" => [Ai!AssistNext]_(Ai!assistVars)
         /\ service = "code" => [Runner!CodeNext]_(Runner!codeVars)
         /\ service = "catalogue" => [Admin!CatalogueNext]_(Admin!catalogueVars)
         /\ service = "intake" => [Profile!IntakeNext]_(Profile!intakeVars)
<1>1. CASE UNCHANGED vars
  BY <1>1 DEF vars, Streak!studyVars, Log!practiceVars, DesignLog!practiceVars,
              Trend!snapshotVars, Limiter!limitVars, Story!storyVars, Cv!resumeVars,
              Mock!mockVars, Ai!assistVars, Runner!codeVars, Admin!catalogueVars,
              Profile!intakeVars, Engine!curriculumVars, Ready!readinessVars
<1>2. CASE ServicesNext
  BY Zenon, <1>2 DEF ServicesNext
<1> QED BY Zenon, <1>1, <1>2

-----------------------------------------------------------------------------
(***************************************************************************)
(* Stories: what a request works on matches, too.                          *)
(***************************************************************************)
Analysed(row) == row.feedback # None => row.feedback = Story!Analysis(row.section, TRUE)
Row(row) == row = [section |-> row.section, feedback |-> row.feedback]

StoriesInv ==
  /\ v1 = [s \in Stories |-> v1[s]] /\ v2 = [r \in Requests |-> v2[r]]
  /\ \A s \in Stories : Story!Stored(s) => Row(v1[s]) /\ Analysed(v1[s])
  /\ \A r \in Requests : v2[r] # None => Row(v2[r].row) /\ Analysed(v2[r].row)

LEMMA StoriesPreserves ==
  ASSUME StoriesInv, [Story!StoriesNext]_(Story!storyVars)
  PROVE  StoriesInv'
<1>1. ASSUME NEW s \in Stories, NEW draft, Story!Create(s, draft)
      PROVE  StoriesInv'
  <2> DEFINE row == [section |-> Story!ApplyText(draft.section), feedback |-> None]
  <2>1. Row(row) /\ Analysed(row)
    BY DEF Row, Analysed
  <2>2. v1' = [v1 EXCEPT ![s] = row] /\ UNCHANGED v2
    BY <1>1 DEF Story!Create
  <2> HIDE DEF row
  <2> QED BY <2>1, <2>2 DEF StoriesInv, Story!Stored
<1>2. ASSUME NEW s \in Stories, Story!Delete(s)
      PROVE  StoriesInv'
  BY <1>2 DEF Story!Delete, StoriesInv, Story!Stored, Row, Analysed
<1>3. ASSUME NEW r \in Requests, NEW s \in Stories, Story!Improve(r, s)
      PROVE  StoriesInv'
  <2>0. PICK a : a = Story!Analysis(v1[s].section, TRUE)
    OBVIOUS
  <2> DEFINE row == [v1[s] EXCEPT !.feedback = a]
             e == [op |-> "improve", story |-> s, row |-> row]
  <2>1. Row(row) /\ Analysed(row)
    <3>1. v1[s] = [section |-> v1[s].section, feedback |-> v1[s].feedback]
      BY <1>3 DEF Story!Improve, StoriesInv, Row
    <3>2. row = [section |-> v1[s].section, feedback |-> a]
      BY <3>1
    <3>3. row.section = v1[s].section /\ row.feedback = a /\ Row(row)
      BY <3>2 DEF Row
    <3> QED BY <2>0, <3>3 DEF Analysed
  <2>2. e.row = row /\ v2' = [v2 EXCEPT ![r] = e] /\ UNCHANGED v1
    BY <1>3, <2>0 DEF Story!Improve
  <2> HIDE DEF e, row
  <2> QED BY <2>1, <2>2 DEF StoriesInv, Story!Stored
<1>4. ASSUME NEW r \in Requests, NEW s \in Stories, NEW draft, Story!Update(r, s, draft)
      PROVE  StoriesInv'
  <2> DEFINE row == [section |-> Story!ApplyText(draft.section), feedback |-> None]
             e == [op |-> "update", story |-> s, row |-> row]
  <2>1. Row(row) /\ Analysed(row)
    BY DEF Row, Analysed
  <2>2. e.row = row /\ v2' = [v2 EXCEPT ![r] = e] /\ UNCHANGED v1
    BY <1>4 DEF Story!Update
  <2> HIDE DEF e, row
  <2> QED BY <2>1, <2>2 DEF StoriesInv, Story!Stored
<1>5. ASSUME NEW r \in Requests, Story!Save(r)
      PROVE  StoriesInv'
  BY <1>5 DEF Story!Save, Story!Columns, StoriesInv, Story!Stored, Row, Analysed
<1>6. CASE UNCHANGED Story!storyVars
  BY <1>6 DEF StoriesInv, Story!Stored, Row, Analysed, Story!storyVars
<1> QED BY <1>1, <1>2, <1>3, <1>4, <1>5, <1>6 DEF Story!StoriesNext

\* Feedback that is stored with a story is on the text stored with it.
THEOREM FeedbackMatchesStoryHolds == ServicesSpec => []FeedbackMatchesStory
<1> DEFINE Inv == service = "stories" => StoriesInv
<1>1. ServicesInit => Inv
  BY DEF ServicesInit, Story!StoriesInit, StoriesInv, Story!Stored
<1>2. Inv /\ [ServicesNext]_vars => Inv'
  BY Zenon, StepIs, StoriesPreserves
<1>3. Inv => FeedbackMatchesStory
  BY DEF FeedbackMatchesStory, StoriesInv, Analysed, Story!FeedbackMatchesStory
<1> QED BY <1>1, <1>2, <1>3, PTL DEF ServicesSpec

-----------------------------------------------------------------------------
(***************************************************************************)
(* Mock interviews: v1 to v5 are mock, finding, task, plan and busy.       *)
(*                                                                         *)
(* The link is the last of the statements.  What keeps it sound is that    *)
(* the task a request is about to link was made for that finding's area,   *)
(* and that nobody else has or is about to link it.                        *)
(***************************************************************************)
Finding == [mock : Mocks, area : Areas, severity : Severities, task : Tasks \cup {None}]
Task == [area : Areas, plan : Nat]

MocksAssumption ==
  /\ None \notin Finding \cup Task \cup Findings \cup Tasks
  /\ Nil \notin Tasks

MocksTypes ==
  /\ v2 \in [Findings -> Finding \cup {None}]
  /\ v3 \in [Tasks -> Task \cup {None}]
  /\ v4 \in Nat

Named(t) == \E f \in Findings : v2[f] # None /\ v2[f].task = t
Linking(b, t) == b # None /\ b.step = "link" /\ b.task = t

\* What a request has in hand is there, and nobody names the task that it is
\* about to link.
InHand(b) ==
  b # None =>
    /\ b.step = "insert" => b.row \in Finding /\ b.row.task = None
    /\ b.step = "task" => b.plan \in Nat
    /\ b.step \in {"day", "task", "link"} => b.finding \in Findings /\ v2[b.finding] # None
    /\ b.step = "link" => /\ b.task \in Tasks /\ v3[b.task] # None
                          /\ v3[b.task].area = v2[b.finding].area
                          /\ ~Named(b.task)

LinksInv ==
  /\ MocksTypes /\ Mock!LinkSound
  /\ v5 = [r \in Requests |-> v5[r]]
  /\ \A r \in Requests : InHand(v5[r])
  /\ \A r, s \in Requests, t \in Tasks :
       Linking(v5[r], t) /\ Linking(v5[s], t) => r = s

-----------------------------------------------------------------------------
\* A request goes on, without a row of findings or tasks changing and with no
\* task to link.
LEMMA MoveStep ==
  ASSUME LinksInv, NEW r \in Requests, NEW b, v5' = [v5 EXCEPT ![r] = b],
         InHand(b), b # None => b.step # "link", UNCHANGED <<v2, v3, v4>>
  PROVE  LinksInv'
<1>1. /\ v5'[r] = b /\ \A s \in Requests \ {r} : v5'[s] = v5[s]
      /\ v5' = [s \in Requests |-> v5'[s]]
  BY DEF LinksInv
<1>2. MocksTypes' /\ Mock!LinkSound'
  BY DEF LinksInv, MocksTypes, Mock!LinkSound
<1>3. ASSUME NEW s \in Requests PROVE InHand(v5[s])'
  <2>1. InHand(v5[s])
    BY DEF LinksInv
  <2>2. CASE s = r
    BY <1>1, <2>2 DEF InHand, Named
  <2>3. CASE s # r
    BY <1>1, <2>1, <2>3 DEF InHand, Named
  <2> QED BY <2>2, <2>3
<1>4. \A s, u \in Requests, t \in Tasks :
        Linking(v5[s], t)' /\ Linking(v5[u], t)' => s = u
  BY <1>1 DEF LinksInv, Linking
<1> QED BY <1>1, <1>2, <1>3, <1>4 DEF LinksInv

\* A row of findings appears or is linked to a task, or a task is inserted; the
\* requests that stay keep what they have in hand.
LEMMA WriteStep ==
  ASSUME LinksInv, NEW r \in Requests, NEW b, v5' = [v5 EXCEPT ![r] = b],
         MocksTypes', Mock!LinkSound',
         \A f \in Findings : v2[f] # None =>
           v2'[f] # None /\ v2'[f].area = v2[f].area,
         \A t \in Tasks : v3[t] # None => v3'[t] = v3[t],
         \A t \in Tasks : Named(t)' => Named(t) \/ Linking(v5[r], t),
         InHand(b)',
         \A s \in Requests \ {r}, t \in Tasks : Linking(b, t) => ~Linking(v5[s], t)
  PROVE  LinksInv'
<1>1. /\ v5'[r] = b /\ \A s \in Requests \ {r} : v5'[s] = v5[s]
      /\ v5' = [s \in Requests |-> v5'[s]]
  BY DEF LinksInv
<1>2. ASSUME NEW s \in Requests \ {r} PROVE InHand(v5[s])'
  <2>1. /\ InHand(v5[s]) /\ v5'[s] = v5[s]
        /\ \A t \in Tasks : Linking(v5[r], t) /\ Linking(v5[s], t) => r = s
    BY <1>1 DEF LinksInv
  <2>2. v5[s] # None /\ v5[s].step = "link" => ~Named(v5[s].task)'
    BY <2>1 DEF InHand, Linking
  <2> HIDE DEF LinksInv
  <2> QED BY <2>1, <2>2 DEF InHand
<1>3. InHand(v5[r])'
  BY <1>1 DEF InHand
<1>4. \A s, u \in Requests, t \in Tasks :
        Linking(v5[s], t)' /\ Linking(v5[u], t)' => s = u
  BY <1>1 DEF LinksInv, Linking
<1> QED BY <1>1, <1>2, <1>3, <1>4 DEF LinksInv

\* A mock is written, a plan generated: the findings and tasks stay.
LEMMA MocksStay ==
  ASSUME LinksInv, UNCHANGED <<v2, v3, v5>>, v4' \in Nat
  PROVE  LinksInv'
<1>1. MocksTypes' /\ Mock!LinkSound'
  BY DEF LinksInv, MocksTypes, Mock!LinkSound
<1>2. ASSUME NEW r \in Requests PROVE InHand(v5[r])'
  BY DEF LinksInv, InHand, Named
<1>3. \A s, u \in Requests, t \in Tasks :
        Linking(v5[s], t)' /\ Linking(v5[u], t)' => s = u
  BY DEF LinksInv, Linking
<1>4. v5' = [r \in Requests |-> v5'[r]]
  BY DEF LinksInv
<1> QED BY <1>1, <1>2, <1>3, <1>4 DEF LinksInv

-----------------------------------------------------------------------------
(***************************************************************************)
(* The actions.                                                            *)
(***************************************************************************)
LEMMA BeginPreserves ==
  ASSUME LinksInv, NEW r \in Requests,
         \/ \E m \in Mocks, type \in Types, outcome \in Outcomes \cup {None} :
              Mock!Update(r, m, type, outcome)
         \/ \E m \in Mocks, a \in Areas, s \in Severities, wanted \in BOOLEAN :
              Mock!AddFinding(r, m, a, s, wanted)
         \/ Mock!SaveMock(r)
  PROVE  LinksInv'
<1>1. ASSUME NEW m, NEW type, NEW outcome, Mock!Update(r, m, type, outcome) PROVE LinksInv'
  <2> DEFINE b == [step |-> "update", mock |-> m,
                   row |-> Mock!ApplyMock(type, outcome, v1[m].outcome)]
  <2>1. b.step = "update" /\ InHand(b)
    BY DEF InHand
  <2>2. v5' = [v5 EXCEPT ![r] = b] /\ UNCHANGED <<v2, v3, v4>>
    BY <1>1 DEF Mock!Update
  <2> HIDE DEF b
  <2> QED BY <2>1, <2>2, MoveStep
<1>2. ASSUME NEW m \in Mocks, NEW a \in Areas, NEW s \in Severities, NEW wanted,
             Mock!AddFinding(r, m, a, s, wanted)
      PROVE  LinksInv'
  <2> DEFINE row == [mock |-> m, area |-> a, severity |-> s, task |-> None]
             b == [step |-> "insert", wanted |-> wanted, row |-> row]
  <2>1. row \in Finding /\ row.task = None
    BY DEF Finding
  <2>2. b.step = "insert" /\ InHand(b)
    BY <2>1 DEF InHand
  <2>3. v5' = [v5 EXCEPT ![r] = b] /\ UNCHANGED <<v2, v3, v4>>
    BY <1>2 DEF Mock!AddFinding
  <2> HIDE DEF b
  <2> QED BY <2>2, <2>3, MoveStep
<1>3. CASE Mock!SaveMock(r)
  <2>1. InHand(None) /\ v5' = [v5 EXCEPT ![r] = None]
          /\ UNCHANGED <<v2, v3, v4>>
    BY <1>3 DEF Mock!SaveMock, InHand
  <2> QED BY <2>1, MoveStep
<1> QED BY <1>1, <1>2, <1>3

LEMMA InsertFindingPreserves ==
  ASSUME MocksAssumption, LinksInv, NEW r \in Requests, Mock!InsertFinding(r)
  PROVE  LinksInv'
<1>1. PICK f \in Findings :
        /\ v2[f] = None
        /\ v2' = [v2 EXCEPT ![f] = v5[r].row]
        /\ v5' = [v5 EXCEPT ![r] =
             IF v5[r].wanted THEN [step |-> "day", finding |-> f] ELSE None]
  BY DEF Mock!InsertFinding, Mock!Unused, LinksInv, MocksTypes
<1>2. /\ v5[r].row \in Finding /\ v5[r].row.task = None /\ v5[r].row # None
      /\ v5[r].step = "insert" /\ UNCHANGED <<v3, v4>>
  BY DEF Mock!InsertFinding, LinksInv, InHand, MocksAssumption
<1>3. /\ v2' \in [Findings -> Finding \cup {None}] /\ v2'[f] = v5[r].row
      /\ \A g \in Findings \ {f} : v2'[g] = v2[g]
  BY <1>1, <1>2 DEF LinksInv, MocksTypes
<1>4. MocksTypes' /\ Mock!LinkSound'
  BY <1>2, <1>3 DEF LinksInv, MocksTypes, Mock!LinkSound
<1>5. \A t \in Tasks : Named(t)' => Named(t)
  BY <1>2, <1>3 DEF Named, MocksAssumption
<1>6. PICK b : /\ v5' = [v5 EXCEPT ![r] = b]
               /\ b # None => b.step = "day" /\ b.finding = f
  <2> DEFINE b == IF v5[r].wanted THEN [step |-> "day", finding |-> f] ELSE None
  <2>1. b # None => b.step = "day" /\ b.finding = f
    OBVIOUS
  <2>2. v5' = [v5 EXCEPT ![r] = b]
    BY <1>1
  <2> HIDE DEF b
  <2> QED BY <2>1, <2>2
<1>7. InHand(b)' /\ \A t \in Tasks : ~Linking(b, t)
  BY <1>2, <1>3, <1>6 DEF InHand, Linking
<1> QED BY <1>1, <1>2, <1>3, <1>4, <1>5, <1>6, <1>7, WriteStep

LEMMA ScheduledIs ==
  ASSUME MocksAssumption, NEW r \in Requests, NEW t, t \in Tasks \cup {None, Nil}, LinksInv,
         v5[r] # None, v5' = Mock!Scheduled(r, t)
  PROVE  v5' = [v5 EXCEPT ![r] =
           IF t \in Tasks THEN [step |-> "link", finding |-> v5[r].finding, task |-> t]
                          ELSE None]
BY DEF Mock!Scheduled, Mock!Linked, MocksAssumption

LEMMA PickDayPreserves ==
  ASSUME MocksAssumption, LinksInv, NEW r \in Requests, Mock!PickDay(r)
  PROVE  LinksInv'
<1>1. /\ v5[r].finding \in Findings /\ v2[v5[r].finding] # None
      /\ v5[r] # None /\ v4 \in Nat /\ UNCHANGED <<v2, v3, v4>>
  BY DEF Mock!PickDay, LinksInv, InHand, MocksTypes
<1>2. PICK b : /\ v5' = [v5 EXCEPT ![r] = b]
               /\ b # None => /\ b.step = "task" /\ b.finding = v5[r].finding
                              /\ b.plan = v4
  <2>1. v5' \in {Mock!Scheduled(r, Nil), Mock!Scheduled(r, None)} =>
          v5' = [v5 EXCEPT ![r] = None]
    BY <1>1, ScheduledIs DEF MocksAssumption
  <2>2. \/ v5' \in {Mock!Scheduled(r, Nil), Mock!Scheduled(r, None)}
        \/ v5' = [v5 EXCEPT ![r] =
             [step |-> "task", finding |-> v5[r].finding, plan |-> v4]]
    BY DEF Mock!PickDay
  <2> QED BY <2>1, <2>2
<1>3. InHand(b)
  BY <1>1, <1>2 DEF InHand
<1> QED BY <1>1, <1>2, <1>3, MoveStep

LEMMA InsertTaskPreserves ==
  ASSUME MocksAssumption, LinksInv, NEW r \in Requests, Mock!InsertTask(r)
  PROVE  LinksInv'
<1> DEFINE f == v5[r].finding
<1>1. /\ f \in Findings /\ v2[f] # None /\ v2[f] \in Finding
      /\ v5[r] # None /\ v5[r].plan \in Nat /\ v5[r].step = "task"
      /\ UNCHANGED <<v2, v4>>
  BY DEF Mock!InsertTask, LinksInv, InHand, MocksTypes
<1>2. CASE v5' = Mock!Scheduled(r, None) /\ UNCHANGED v3
  <2>1. v5' = [v5 EXCEPT ![r] = None]
    BY <1>1, <1>2, ScheduledIs DEF MocksAssumption
  <2>2. InHand(None)
    BY DEF InHand
  <2> QED BY <1>1, <1>2, <2>1, <2>2, MoveStep
<1>3. CASE ~(v5' = Mock!Scheduled(r, None) /\ UNCHANGED v3)
  <2> DEFINE row == [area |-> v2[f].area, plan |-> v5[r].plan]
  <2>1. row \in Task /\ row # None /\ row.area = v2[f].area
    BY <1>1 DEF Finding, Task, MocksAssumption
  <2>2. PICK t \in Tasks : /\ v3[t] = None /\ v3' = [v3 EXCEPT ![t] = row]
                           /\ v5' = Mock!Scheduled(r, t)
    BY <1>3 DEF Mock!InsertTask, Mock!Unused, LinksInv, MocksTypes
  <2>3. PICK b : /\ v5' = [v5 EXCEPT ![r] = b]
                 /\ b.step = "link" /\ b.finding = f /\ b.task = t
    <3> DEFINE b == [step |-> "link", finding |-> f, task |-> t]
    <3>1. v5' = [v5 EXCEPT ![r] = b]
      BY <1>1, <2>2, ScheduledIs
    <3>2. b.step = "link" /\ b.finding = f /\ b.task = t
      OBVIOUS
    <3> HIDE DEF b
    <3> QED BY <3>1, <3>2
  <2> HIDE DEF f, row
  <2>4. /\ v3' \in [Tasks -> Task \cup {None}] /\ v3'[t] = row
        /\ \A u \in Tasks \ {t} : v3'[u] = v3[u]
    BY <2>1, <2>2 DEF LinksInv, MocksTypes
  <2>5. MocksTypes' /\ Mock!LinkSound'
    BY <1>1, <2>2, <2>4 DEF LinksInv, MocksTypes, Mock!LinkSound
  \* Nobody has named or is about to link a task that was not there.
  <2>6. ~Named(t) /\ \A s \in Requests : ~Linking(v5[s], t)
    BY <2>2 DEF LinksInv, Mock!LinkSound, Named, Linking, InHand, MocksAssumption
  <2>7. \A u \in Tasks : Named(u)' <=> Named(u)
    BY <1>1 DEF Named
  <2>8. InHand(b)'
    BY <1>1, <2>1, <2>3, <2>4, <2>6, <2>7 DEF InHand
  <2>9. \A s \in Requests \ {r}, u \in Tasks : Linking(b, u) => ~Linking(v5[s], u)
    BY <2>3, <2>6 DEF Linking
  <2> QED BY <1>1, <2>2, <2>3, <2>4, <2>5, <2>7, <2>8, <2>9, WriteStep
<1> QED BY <1>2, <1>3

LEMMA LinkTaskPreserves ==
  ASSUME MocksAssumption, LinksInv, NEW r \in Requests, Mock!LinkTask(r)
  PROVE  LinksInv'
<1> DEFINE f == v5[r].finding
           t == v5[r].task
<1>1. /\ f \in Findings /\ v2[f] # None /\ v2[f] \in Finding
      /\ t \in Tasks /\ v3[t] # None /\ v3[t].area = v2[f].area /\ ~Named(t)
      /\ v5[r] # None /\ v5[r].step = "link"
      /\ UNCHANGED <<v3, v4>> /\ v5' = [v5 EXCEPT ![r] = None]
  BY DEF Mock!LinkTask, LinksInv, InHand, MocksTypes
<1>2. InHand(None) /\ InHand(None)' /\ \A u \in Tasks : ~Linking(None, u)
  BY DEF InHand, Linking
<1>3. CASE UNCHANGED v2
  BY <1>1, <1>2, <1>3, MoveStep
<1>4. CASE v2' = [v2 EXCEPT ![f].task = t]
  <2> DEFINE row == [v2[f] EXCEPT !.task = t]
  <2>1. row \in Finding /\ row # None /\ row.task = t /\ row.area = v2[f].area
    BY <1>1 DEF Finding, MocksAssumption
  <2>2. v2' = [v2 EXCEPT ![f] = row]
    BY <1>4
  <2>3. Linking(v5[r], t)
    BY <1>1 DEF Linking
  <2> HIDE DEF f, t, row
  <2>4. /\ v2' \in [Findings -> Finding \cup {None}] /\ v2'[f] = row
        /\ \A g \in Findings \ {f} : v2'[g] = v2[g]
    BY <1>1, <2>1, <2>2 DEF LinksInv, MocksTypes
  <2>5. MocksTypes'
    BY <1>1, <2>4 DEF LinksInv, MocksTypes
  <2>6. Mock!LinkSound'
    BY <1>1, <2>1, <2>4 DEF LinksInv, Mock!LinkSound, Named, MocksAssumption
  <2>7. \A u \in Tasks : Named(u)' => Named(u) \/ Linking(v5[r], u)
    BY <2>1, <2>3, <2>4 DEF Named
  <2> QED BY <1>1, <1>2, <2>1, <2>4, <2>5, <2>6, <2>7, WriteStep
<1> QED BY <1>3, <1>4 DEF Mock!LinkTask

-----------------------------------------------------------------------------
(***************************************************************************)
(* The theorem.                                                            *)
(***************************************************************************)
LEMMA MocksPreserves ==
  ASSUME MocksAssumption, LinksInv, [Mock!MocksNext]_(Mock!mockVars)
  PROVE  LinksInv'
<1>1. CASE UNCHANGED <<v2, v3, v5>> /\ v4' \in Nat
  BY <1>1, MocksStay
<1>2. ASSUME NEW r \in Requests,
             \/ Mock!SaveMock(r) \/ Mock!InsertFinding(r) \/ Mock!PickDay(r)
             \/ Mock!InsertTask(r) \/ Mock!LinkTask(r)
             \/ \E m \in Mocks, a \in Areas, s \in Severities, wanted \in BOOLEAN :
                  Mock!AddFinding(r, m, a, s, wanted)
             \/ \E m \in Mocks, type \in Types, outcome \in Outcomes \cup {None} :
                  Mock!Update(r, m, type, outcome)
      PROVE  LinksInv'
  BY <1>2, BeginPreserves, InsertFindingPreserves, PickDayPreserves, InsertTaskPreserves,
     LinkTaskPreserves
<1>3. v4 \in Nat
  BY DEF LinksInv, MocksTypes
<1>4. \/ UNCHANGED <<v2, v3, v5>> /\ v4' \in Nat
      \/ \E r \in Requests :
           \/ Mock!SaveMock(r) \/ Mock!InsertFinding(r) \/ Mock!PickDay(r)
           \/ Mock!InsertTask(r) \/ Mock!LinkTask(r)
           \/ \E m \in Mocks, a \in Areas, s \in Severities, wanted \in BOOLEAN :
                Mock!AddFinding(r, m, a, s, wanted)
           \/ \E m \in Mocks, type \in Types, outcome \in Outcomes \cup {None} :
                Mock!Update(r, m, type, outcome)
  BY <1>3 DEF Mock!MocksNext, Mock!mockVars, Mock!Create, Mock!Delete, Mock!Generate
<1> QED BY <1>1, <1>2, <1>4

LEMMA MocksBegin == Mock!MocksInit => LinksInv
<1> SUFFICES ASSUME Mock!MocksInit PROVE LinksInv
  OBVIOUS
<1>1. /\ \A f \in Findings : v2[f] = None
      /\ \A r \in Requests : v5[r] = None
      /\ MocksTypes /\ v5 = [r \in Requests |-> v5[r]]
  BY DEF Mock!MocksInit, MocksTypes
<1> QED BY <1>1 DEF LinksInv, Mock!LinkSound, InHand, Linking

\* Whatever statements fail and however requests overlap, a finding that names
\* a task names one that was made for its area and that no other finding names
\* (mock service AddFinding, remediation Schedule).
THEOREM LinkSoundHolds ==
  ASSUME MocksAssumption
  PROVE  ServicesSpec => []LinkSound
<1> DEFINE Inv == service = "mocks" => LinksInv
<1>2. ServicesInit => Inv
  BY MocksBegin DEF ServicesInit
<1>3. Inv /\ [ServicesNext]_vars => Inv'
  BY Zenon, StepIs, MocksPreserves
<1>4. Inv => LinkSound
  BY DEF LinkSound, LinksInv
<1> QED BY <1>2, <1>3, <1>4, PTL DEF ServicesSpec

-----------------------------------------------------------------------------
(***************************************************************************)
(* The ranking of the areas.  One more finding lets the score of its area  *)
(* grow and changes no other, so whoever precedes the area now preceded it *)
(* before.                                                                 *)
(***************************************************************************)
Rows == [Findings -> Finding \cup {None}]

\* The areas that are ranked, and their keys
Listed(found) == {a \in Areas : Mock!InArea(found, a) # {}}
Keys(found) == [a \in Listed(found) |-> Mock!Standing(found, a)]

LEMMA MockCardinality == \A S : Mock!Cardinality(S) = Cardinality(S)
BY DEF Mock!Cardinality, Cardinality

LEMMA MockSum == \A f, S : Mock!SumFunctionOnSet(f, S) = SumFunctionOnSet(f, S)
BY DEF Mock!SumFunctionOnSet, Mock!FoldFunctionOnSet, SumFunctionOnSet,
       FoldFunctionOnSet, Mock!MapThenFoldSet, MapThenFoldSet

LEMMA MockPlace == \A found, a :
  Mock!PlaceAt(Mock!Weaknesses(found), a) = PlaceOf(Ranked(Keys(found)), a)
<1>1. \A key : Mock!Ranked(key) = Ranked(key)
  BY DEF Mock!Ranked, Ranked, Mock!Precedes, Precedes, Mock!Cardinality, Cardinality
<1>2. \A found : Mock!Weaknesses(found) = Mock!Ranked(Keys(found))
  BY DEF Mock!Weaknesses, Keys, Listed
<1>3. \A s, a : Mock!PlaceAt(s, a) = PlaceOf(s, a)
  BY DEF Mock!PlaceAt, PlaceOf
<1> QED BY <1>1, <1>2, <1>3

\* The findings of an area are numbered and their weights added up.
LEMMA AreaTypes ==
  ASSUME RankAssumption, MocksAssumption, NEW rows \in Rows, NEW a
  PROVE  LET found == Mock!Found(rows)
         IN  /\ IsFiniteSet(Mock!InArea(found, a))
             /\ \A f \in Mock!InArea(found, a) : Mock!Burden(found)[f] \in Nat
             /\ Cardinality(Mock!InArea(found, a)) \in Nat
             /\ Mock!Score(found, a) \in Nat
<1> DEFINE found == Mock!Found(rows)
           A == Mock!InArea(found, a)
<1>1. \A f \in A : f \in Findings /\ found[f] \in Finding /\ f \in DOMAIN found
  BY DEF Mock!Found, Mock!InArea, Rows
<1>2. A \in SUBSET Findings
  BY <1>1
<1>3. IsFiniteSet(A)
  BY <1>2, FS_Subset DEF RankAssumption
<1>4. ASSUME NEW f \in A PROVE Mock!Burden(found)[f] \in Nat
  <2>1. found[f].severity \in DOMAIN Mock!SeverityWeight
    BY <1>1 DEF Finding, RankAssumption
  <2>2. Mock!SeverityWeight[found[f].severity] \in Nat
    BY <2>1 DEF Mock!SeverityWeight
  <2> QED BY <1>1, <2>2 DEF Mock!Burden
<1>5. Cardinality(A) \in Nat
  BY <1>3, FS_CardinalityType
<1>6. SumFunctionOnSet(Mock!Burden(found), A) \in Nat
  BY <1>3, <1>4, SumNat
<1>7. Mock!Score(found, a) \in Nat
  BY <1>6, MockSum DEF Mock!Score
<1> QED BY <1>3, <1>4, <1>5, <1>7

\* No two areas have the same key.
LEMMA KeysAre ==
  ASSUME RankAssumption, MocksAssumption, NEW rows \in Rows
  PROVE  /\ IsFiniteSet(Listed(Mock!Found(rows)))
         /\ Keyed(Keys(Mock!Found(rows)), Listed(Mock!Found(rows)), 3)
<1> DEFINE found == Mock!Found(rows)
<1>1. Listed(found) \in SUBSET Areas
  BY DEF Listed
<1>2. IsFiniteSet(Listed(found))
  BY <1>1, FS_Subset DEF RankAssumption
<1>3. ASSUME NEW a \in Areas
      PROVE  /\ Mock!Standing(found, a) \in [1..3 -> Int]
             /\ Mock!Standing(found, a)[3] = AreaRank[a]
  <2>1. PICK x, y, z : /\ x = -Mock!Score(found, a) /\ z = AreaRank[a]
                       /\ y = -Mock!Cardinality(Mock!InArea(found, a))
    OBVIOUS
  <2>2. x \in Int /\ y \in Int /\ z \in Int
    BY <2>1, AreaTypes, MockCardinality DEF RankAssumption
  <2>3. Mock!Standing(found, a) = <<x, y, z>>
    BY <2>1 DEF Mock!Standing, Mock!Count
  <2> QED BY <2>1, <2>2, <2>3
<1>4. \A a \in Listed(found) : a \in Areas /\ Keys(found)[a] = Mock!Standing(found, a)
  BY <1>1 DEF Keys
<1>5. DOMAIN Keys(found) = Listed(found)
  BY DEF Keys
<1> HIDE DEF found
<1>6. Keyed(Keys(found), Listed(found), 3)
  BY <1>3, <1>4, <1>5 DEF Keyed, RankAssumption
<1> QED BY <1>2, <1>6 DEF found

\* What one more finding changes
LEMMA OneMore ==
  ASSUME RankAssumption, MocksAssumption, NEW rows \in Rows, NEW f \in Findings,
         rows[f] = None, NEW row \in Finding,
         Mock!InArea(Mock!Found(rows), row.area) # {}
  PROVE  LET old == Mock!Found(rows)
             new == Mock!Found([rows EXCEPT ![f] = row])
         IN  /\ Listed(new) = Listed(old) /\ row.area \in Listed(old)
             /\ Precedes(Keys(new)[row.area], Keys(old)[row.area])
             /\ \A b \in Listed(old) \ {row.area} : Keys(new)[b] = Keys(old)[b]
<1> DEFINE more == [rows EXCEPT ![f] = row]
           old == Mock!Found(rows)
           new == Mock!Found(more)
           a == row.area
<1>1. more \in Rows /\ row # None /\ a \in Areas
  BY DEF Rows, MocksAssumption, Finding
<1>2. /\ f \notin DOMAIN old /\ DOMAIN new = DOMAIN old \cup {f}
      /\ new[f] = row /\ \A g \in DOMAIN old : new[g] = old[g]
  BY <1>1 DEF Mock!Found, Rows
<1> HIDE DEF more, old, new
<1>3. \A b : b # a => Mock!InArea(new, b) = Mock!InArea(old, b)
  BY <1>2 DEF Mock!InArea
<1>4. Mock!InArea(new, a) = Mock!InArea(old, a) \cup {f} /\ f \notin Mock!InArea(old, a)
  BY <1>2 DEF Mock!InArea
<1>5. Listed(new) = Listed(old) /\ a \in Listed(old)
  BY <1>1, <1>3, <1>4 DEF Listed, old
<1>6. \A b : \A g \in Mock!InArea(old, b) : Mock!Burden(new)[g] = Mock!Burden(old)[g]
  BY <1>2 DEF Mock!InArea, Mock!Burden
<1>7. ASSUME NEW b, b # a PROVE Mock!Standing(new, b) = Mock!Standing(old, b)
  <2>1. SumFunctionOnSet(Mock!Burden(new), Mock!InArea(old, b))
          = SumFunctionOnSet(Mock!Burden(old), Mock!InArea(old, b))
    <3>1. IsFiniteSet(Mock!InArea(old, b))
      BY AreaTypes DEF old
    <3> QED BY <1>6, <3>1, SumSame
  <2>2. Mock!Score(new, b) = Mock!Score(old, b)
    BY <1>3, <1>7, <2>1, MockSum DEF Mock!Score
  <2> QED BY <1>3, <1>7, <2>2 DEF Mock!Standing, Mock!Count
<1>8. Mock!Score(new, a) > Mock!Score(old, a)
  <2> DEFINE A == Mock!InArea(old, a)
             w == Mock!Burden(new)
  <2>1. /\ IsFiniteSet(A) /\ Mock!Score(old, a) \in Nat
        /\ \A g \in A : Mock!Burden(old)[g] \in Nat
    BY AreaTypes DEF old
  <2>2. w[f] \in Nat /\ w[f] > 0
    <3>1. row.severity \in DOMAIN Mock!SeverityWeight
      BY DEF Finding, RankAssumption
    <3>2. Mock!SeverityWeight[row.severity] \in Nat /\ Mock!SeverityWeight[row.severity] > 0
      BY <3>1 DEF Mock!SeverityWeight
    <3> QED BY <1>2, <3>2 DEF Mock!Burden
  <2>3. \A g \in A : w[g] = Mock!Burden(old)[g]
    BY <1>6
  <2>4. SumFunctionOnSet(w, A) = Mock!Score(old, a)
    <3>1. SumFunctionOnSet(w, A) = SumFunctionOnSet(Mock!Burden(old), A)
      BY <2>1, <2>3, SumSame
    <3> QED BY <3>1, MockSum DEF Mock!Score
  <2>5. SumFunctionOnSet(w, A \cup {f}) = w[f] + SumFunctionOnSet(w, A)
    <3> HIDE DEF w, A
    <3> QED BY <1>4, <2>1, <2>2, <2>3, SumAdd DEF A
  <2>6. Mock!Score(new, a) = SumFunctionOnSet(w, A \cup {f})
    BY <1>4, MockSum DEF Mock!Score
  <2> HIDE DEF w, A
  <2> QED BY <2>1, <2>2, <2>4, <2>5, <2>6
<1>9. Precedes(Mock!Standing(new, a), Mock!Standing(old, a))
  <2>1. Mock!Score(old, a) \in Nat /\ Mock!Score(new, a) \in Nat
    BY <1>1, AreaTypes DEF old, new
  <2>2. /\ Mock!Standing(new, a)[1] = -Mock!Score(new, a)
        /\ Mock!Standing(old, a)[1] = -Mock!Score(old, a)
        /\ 1 \in DOMAIN Mock!Standing(new, a)
    BY DEF Mock!Standing
  <2>3. Mock!Standing(new, a)[1] < Mock!Standing(old, a)[1]
    BY <1>8, <2>1, <2>2
  <2>4. 1..(1 - 1) = {}
    OBVIOUS
  <2> QED BY <2>2, <2>3, <2>4 DEF Precedes
<1>10. \A b \in Listed(old) : /\ Keys(new)[b] = Mock!Standing(new, b)
                              /\ Keys(old)[b] = Mock!Standing(old, b)
  BY <1>5 DEF Keys
<1> QED BY <1>5, <1>7, <1>9, <1>10 DEF old, new, more

\* Only InsertFinding makes a finding of an id.
LEMMA FindingAppears ==
  ASSUME MocksAssumption, LinksInv, [Mock!MocksNext]_(Mock!mockVars),
         NEW f \in Findings, v2[f] = None, v2'[f] # None
  PROVE  \E row \in Finding : v2' = [v2 EXCEPT ![f] = row]
<1>1. v2 \in Rows
  BY DEF LinksInv, MocksTypes, Rows
<1>2. v2' # v2
  OBVIOUS
<1>3. PICK r \in Requests : Mock!InsertFinding(r) \/ Mock!LinkTask(r)
  BY <1>2 DEF Mock!MocksNext, Mock!mockVars, Mock!Create, Mock!Update, Mock!SaveMock,
              Mock!Delete, Mock!AddFinding, Mock!PickDay, Mock!InsertTask, Mock!Generate
<1>4. InHand(v5[r])
  BY DEF LinksInv
<1>5. CASE Mock!InsertFinding(r)
  <2>1. PICK g : v2' = [v2 EXCEPT ![g] = v5[r].row]
    BY <1>5 DEF Mock!InsertFinding
  <2>2. v5[r].row \in Finding
    BY <1>4, <1>5 DEF Mock!InsertFinding, InHand
  <2>3. g = f
    BY <1>1, <2>1 DEF Rows
  <2> QED BY <2>1, <2>2, <2>3
<1>6. CASE Mock!LinkTask(r)
  <2>1. v2[v5[r].finding] # None
    BY <1>4, <1>6 DEF Mock!LinkTask, InHand
  <2>2. v2' = [v2 EXCEPT ![v5[r].finding].task = v5[r].task]
    BY <1>2, <1>6 DEF Mock!LinkTask
  <2>3. v5[r].finding # f
    BY <2>1
  <2> QED BY <1>1, <2>2, <2>3 DEF Rows
<1> QED BY <1>3, <1>5, <1>6

\* One more finding never improves the standing of its area (mock Detect).
THEOREM FindingCountsHolds ==
  ASSUME MocksAssumption
  PROVE  ServicesSpec => FindingCounts
<1> DEFINE Inv == service = "mocks" => LinksInv
<1>2. ServicesInit => Inv
  BY MocksBegin DEF ServicesInit
<1>3. Inv /\ [ServicesNext]_vars => Inv'
  BY Zenon, StepIs, MocksPreserves
<1>4. ASSUME Inv, [ServicesNext]_vars, service = "mocks" PROVE Mock!Counts
  <2>1. LinksInv /\ [Mock!MocksNext]_(Mock!mockVars)
    BY <1>4, StepIs
  <2> SUFFICES ASSUME NEW f \in Findings, v2[f] = None, v2'[f] # None,
                      Mock!InArea(Mock!Found(v2), v2'[f].area) # {}
               PROVE  Mock!Place(v2', v2'[f].area) <= Mock!Place(v2, v2'[f].area)
    BY DEF Mock!Counts
  <2>2. PICK row \in Finding : v2' = [v2 EXCEPT ![f] = row]
    BY <2>1, FindingAppears
  <2>3. v2 \in Rows
    BY <2>1 DEF LinksInv, MocksTypes, Rows
  <2>4. v2'[f] = row /\ v2' \in Rows
    BY <2>2, <2>3 DEF Rows
  <2> DEFINE old == Mock!Found(v2)
             new == Mock!Found(v2')
  <2>5. /\ Listed(new) = Listed(old) /\ row.area \in Listed(old)
        /\ Precedes(Keys(new)[row.area], Keys(old)[row.area])
        /\ \A b \in Listed(old) \ {row.area} : Keys(new)[b] = Keys(old)[b]
    BY <2>2, <2>3, <2>4, OneMore, ServicesAssumption DEF ServicesAssumption
  <2>6. /\ IsFiniteSet(Listed(old)) /\ Keyed(Keys(old), Listed(old), 3)
        /\ Keyed(Keys(new), Listed(new), 3)
    BY <2>3, <2>4, KeysAre, ServicesAssumption DEF ServicesAssumption
  <2> HIDE DEF old, new
  <2>7. PlaceOf(Ranked(Keys(new)), row.area) <= PlaceOf(Ranked(Keys(old)), row.area)
    BY <2>5, <2>6, PlaceFalls
  <2> QED BY <2>4, <2>7, MockPlace DEF Mock!Place, old, new
<1>5. Inv /\ [ServicesNext]_vars => (service = "mocks" => Mock!Counts)
  BY <1>4
<1> QED BY <1>2, <1>3, <1>5, PTL DEF ServicesSpec, FindingCounts

-----------------------------------------------------------------------------
(***************************************************************************)
(* Readiness: v1 to v7 are today, item, revision, scores, weight, answers  *)
(* and pillarOf.                                                           *)
(*                                                                         *)
(* A day that passes and a recall change the health of revision items and  *)
(* nothing else that readiness is computed from, and every step of the     *)
(* computation is monotone in that health.                                 *)
(***************************************************************************)
Progress == [completed : BOOLEAN, confidence : Ratings \cup {None}]
Remembered == {None, "correct", "incorrect"}
Revision == [stage : 0..(Len(Intervals) - 1), due : Int, active : BOOLEAN, last : Remembered]

ReadinessInv ==
  /\ v1 \in Int
  /\ v2 \in [Ready!Items -> Progress]
  /\ v3 \in [Ready!Items -> Revision \cup {None}]
  /\ v4 \in [Pillars -> Seq(Scores)]
  /\ v5 \in [Pillars -> Int]

LEMMA ReadyCardinality == \A S : Ready!Cardinality(S) = Cardinality(S)
BY DEF Ready!Cardinality, Cardinality

LEMMA ReadySum == \A f : Ready!Total(f) = SumFunctionOnSet(f, DOMAIN f)
BY DEF Ready!Total, Ready!SumFunctionOnSet, Ready!FoldFunctionOnSet, SumFunctionOnSet,
       FoldFunctionOnSet, Ready!MapThenFoldSet, MapThenFoldSet

LEMMA RevisionIsRow ==
  ASSUME ReadinessAssumption
  PROVE  /\ Len(Intervals) \in Nat /\ Len(Intervals) > 0
         /\ \A i \in 1..Len(Intervals) : Intervals[i] \in Nat
         /\ None \notin Revision
<1>1. Intervals \in Seq(Nat) /\ Intervals # <<>>
  BY DEF ReadinessAssumption
<1>2. /\ Len(Intervals) \in Nat /\ Len(Intervals) > 0
      /\ \A i \in 1..Len(Intervals) : Intervals[i] \in Nat
  BY <1>1
<1>3. None \notin [stage : Nat, due : Int, active : BOOLEAN, last : Remembered]
  BY DEF ReadinessAssumption, Remembered
<1>4. \A row \in Revision :
        row \in [stage : Nat, due : Int, active : BOOLEAN, last : Remembered]
  BY <1>2 DEF Revision
<1> QED BY <1>2, <1>3, <1>4

\* A row that is scheduled today is not overdue.
LEMMA RowIs ==
  ASSUME ReadinessAssumption, v1 \in Int, NEW stage \in 0..(Len(Intervals) - 1),
         NEW last \in Remembered
  PROVE  /\ Ready!Row(stage, last) \in Revision
         /\ Ready!Row(stage, last).due >= v1 /\ Ready!Row(stage, last).active
         /\ Ready!Row(stage, last).stage = stage /\ Ready!Row(stage, last).last = last
<1>1. Intervals[stage + 1] \in Nat
  BY RevisionIsRow
<1> QED BY <1>1 DEF Ready!Row, Revision

\* What a recall writes: the first rung, the next one, or the row retired.
Retired(row, answer) == [row EXCEPT !.active = FALSE, !.last = answer, !.due = v1]
LEMMA RecallIs ==
  ASSUME ReadinessAssumption, ReadinessInv, NEW i \in Ready!Items,
         NEW answer \in {"correct", "incorrect"}, Ready!Recall(i, answer)
  PROVE  /\ v3[i] \in Revision /\ v3[i].active
         /\ v3'[i] \in Revision /\ v3'[i].last = answer
         /\ v3' = [v3 EXCEPT ![i] = v3'[i]]
         /\ answer = "incorrect" => v3'[i].stage = 0 /\ v3'[i].due >= v1 /\ v3'[i].active
         /\ answer = "correct" => \/ ~v3'[i].active
                                  \/ v3'[i].stage = v3[i].stage + 1 /\ v3'[i].due >= v1
<1>1. v3[i] \in Revision /\ v3[i].active
  BY DEF Ready!Recall, ReadinessInv
<1>2. /\ v3'[i] = IF answer = "incorrect" THEN Ready!Row(0, answer)
                  ELSE IF v3[i].stage = Len(Intervals) - 1 THEN Retired(v3[i], answer)
                  ELSE Ready!Row(v3[i].stage + 1, answer)
      /\ v3' = [v3 EXCEPT ![i] = v3'[i]]
  BY DEF Ready!Recall, ReadinessInv, Ready!LastStage, Retired
<1>3. CASE answer = "incorrect"
  <2>1. 0 \in 0..(Len(Intervals) - 1) /\ answer \in Remembered
    BY RevisionIsRow DEF Remembered
  <2>2. v3'[i] = Ready!Row(0, answer)
    BY <1>2, <1>3
  <2> QED BY <1>1, <1>2, <1>3, <2>1, <2>2, RowIs DEF ReadinessInv
<1>4. CASE answer = "correct" /\ v3[i].stage = Len(Intervals) - 1
  <2>1. v3'[i] = Retired(v3[i], answer)
    BY <1>2, <1>4
  <2>2. Retired(v3[i], answer) \in Revision
    BY <1>1, <1>4 DEF Retired, Revision, Remembered, ReadinessInv
  <2>3. Retired(v3[i], answer).last = answer /\ ~Retired(v3[i], answer).active
    BY <1>1 DEF Retired, Revision
  <2> QED BY <1>1, <1>2, <1>4, <2>1, <2>2, <2>3
<1>5. CASE answer = "correct" /\ v3[i].stage # Len(Intervals) - 1
  <2>1. PICK stage : stage = v3[i].stage + 1
    OBVIOUS
  <2>2. stage \in 0..(Len(Intervals) - 1) /\ answer \in Remembered
    BY <1>1, <1>5, <2>1, RevisionIsRow DEF Revision, Remembered
  <2>3. PICK row : row = Ready!Row(stage, answer)
    OBVIOUS
  <2>4. v3'[i] = row
    BY <1>2, <1>5, <2>1, <2>3
  <2>5. row \in Revision /\ row.due >= v1 /\ row.stage = stage /\ row.last = answer
    BY <2>2, <2>3, RowIs DEF ReadinessInv
  <2> QED BY <1>1, <1>2, <1>5, <2>1, <2>4, <2>5
<1> QED BY <1>3, <1>4, <1>5

LEMMA ReadinessPreserves ==
  ASSUME ReadinessAssumption, ReadinessInv, [Ready!ReadinessNext]_(Ready!readinessVars)
  PROVE  ReadinessInv'
<1>1. ASSUME NEW i \in Ready!Items, NEW r \in Ratings, Ready!Complete(i, r)
      PROVE  ReadinessInv'
  <2>1. Ready!Row(0, None) \in Revision
    <3>1. 0 \in 0..(Len(Intervals) - 1) /\ None \in Remembered
      BY RevisionIsRow DEF Remembered
    <3> QED BY <3>1, RowIs DEF ReadinessInv
  <2>2. v3' \in [Ready!Items -> Revision \cup {None}]
    BY <1>1, <2>1 DEF Ready!Complete, ReadinessInv
  <2>3. v2' \in [Ready!Items -> Progress]
    BY <1>1 DEF Ready!Complete, ReadinessInv, Progress
  <2> QED BY <1>1, <2>2, <2>3 DEF Ready!Complete, ReadinessInv
<1>2. ASSUME NEW i \in Problems, NEW solved \in BOOLEAN, NEW r \in Ratings \cup {None},
             Ready!Log(i, solved, r)
      PROVE  ReadinessInv'
  <2>1. v2' \in [Ready!Items -> Progress]
    BY <1>2 DEF Ready!Log, ReadinessInv, Progress
  <2> QED BY <1>2, <2>1 DEF Ready!Log, ReadinessInv
<1>3. ASSUME NEW i \in Ready!Items, NEW answer \in {"correct", "incorrect"},
             Ready!Recall(i, answer)
      PROVE  ReadinessInv'
  <2>1. v3' \in [Ready!Items -> Revision \cup {None}]
    BY <1>3, RecallIs DEF ReadinessInv
  <2> QED BY <1>3, <2>1 DEF Ready!Recall, ReadinessInv
<1>4. ASSUME NEW p \in Pillars, NEW x \in Scores, Ready!Score(p, x)
      PROVE  ReadinessInv'
  <2>1. v4' \in [Pillars -> Seq(Scores)]
    BY <1>4 DEF Ready!Score, ReadinessInv
  <2> QED BY <1>4, <2>1 DEF Ready!Score, ReadinessInv
<1>5. CASE Ready!Midnight
  BY <1>5 DEF Ready!Midnight, ReadinessInv
<1>6. CASE UNCHANGED Ready!readinessVars
  BY <1>6 DEF Ready!readinessVars, ReadinessInv
<1> QED BY <1>1, <1>2, <1>3, <1>4, <1>5, <1>6 DEF Ready!ReadinessNext

-----------------------------------------------------------------------------
\* The health of an item on a day: what its rung and its last answer are worth, less
\* for the days it is overdue.
Decay(row, day) == IF row.due < day THEN Ready!Larger(3, 10 - (day - row.due)) ELSE 10
Worth(row) == Ready!Lesser(row.stage, 4) + (IF row.last = "correct" THEN 4 ELSE 0)
HealthOn(row, day) == IF ~row.active THEN 80 ELSE Decay(row, day) * Worth(row)

LEMMA HealthIs ==
  ASSUME NEW row \in Revision, NEW day \in Int
  PROVE  /\ Decay(row, day) \in 3..10 /\ Worth(row) \in 0..8
         /\ HealthOn(row, day) \in Nat /\ HealthOn(row, day) <= 80
<1>1. row.stage \in Nat /\ row.due \in Int
  BY DEF Revision
<1>2. Decay(row, day) \in 3..10
  BY <1>1 DEF Decay, Ready!Larger
<1>3. Worth(row) \in 0..8
  BY <1>1 DEF Worth, Ready!Lesser
<1>4. ASSUME NEW a \in 3..10, NEW b \in 0..8 PROVE a * b \in Nat /\ a * b <= 80
  <2>1. a * b \in Nat /\ a * b <= 10 * b
    BY Product
  <2> QED BY <2>1
<1> QED BY <1>2, <1>3, <1>4 DEF HealthOn

\* Of two days, of two answers
LEMMA HealthFalls ==
  ASSUME NEW row \in Revision, NEW day \in Int
  PROVE  HealthOn(row, day + 1) <= HealthOn(row, day)
<1>1. row.due \in Int
  BY DEF Revision
<1>2. Decay(row, day + 1) <= Decay(row, day)
  BY <1>1 DEF Decay, Ready!Larger
<1>3. Decay(row, day + 1) \in Nat /\ Decay(row, day) \in Nat /\ Worth(row) \in Nat
  BY HealthIs
<1>4. Decay(row, day + 1) * Worth(row) <= Decay(row, day) * Worth(row)
  BY <1>2, <1>3, Product
<1> QED BY <1>4 DEF HealthOn

LEMMA HealthOfRecall ==
  ASSUME NEW row \in Revision, row.active, NEW new \in Revision, NEW day \in Int
  PROVE  /\ ~new.active => HealthOn(row, day) <= HealthOn(new, day)
         /\ new.stage = row.stage + 1 /\ new.last = "correct" /\ new.due >= day =>
              HealthOn(row, day) <= HealthOn(new, day)
         /\ new.active /\ new.stage = 0 /\ new.last # "correct" /\ new.due >= day =>
              HealthOn(new, day) <= HealthOn(row, day)
<1>1. ASSUME ~new.active PROVE HealthOn(row, day) <= HealthOn(new, day)
  BY <1>1, HealthIs DEF HealthOn
<1>2. new.due \in Int /\ row.stage \in Nat
  BY DEF Revision
<1>3. ASSUME new.due >= day PROVE Decay(new, day) = 10
  BY <1>2, <1>3 DEF Decay
<1>4. ASSUME new.stage = row.stage + 1, new.last = "correct", new.due >= day
      PROVE  HealthOn(row, day) <= HealthOn(new, day)
  <2>1. Worth(row) <= Worth(new)
    BY <1>2, <1>4 DEF Worth, Ready!Lesser
  <2>2. PICK a \in 3..10, b \in 0..8, c \in 0..8 :
          a = Decay(row, day) /\ b = Worth(row) /\ c = Worth(new)
    BY HealthIs
  <2>3. a * b \in Nat /\ a * b <= 10 * b
    BY Product
  <2>4. HealthOn(row, day) = a * b
    BY <2>2 DEF HealthOn
  <2>5. HealthOn(new, day) = 80 \/ HealthOn(new, day) = 10 * c
    BY <1>3, <1>4, <2>2 DEF HealthOn
  <2> QED BY <2>1, <2>2, <2>3, <2>4, <2>5
<1>5. ASSUME new.active, new.stage = 0, new.last # "correct", new.due >= day
      PROVE  HealthOn(new, day) <= HealthOn(row, day)
  <2>1. Worth(new) = 0
    BY <1>5 DEF Worth, Ready!Lesser
  <2>2. HealthOn(new, day) = 0
    BY <1>3, <1>5, <2>1 DEF HealthOn
  <2> QED BY <2>2, HealthIs
<1> QED BY <1>1, <1>4, <1>5

-----------------------------------------------------------------------------
\* The mean is a number and monotone.
LEMMA MeanRises ==
  ASSUME ReadinessAssumption, NEW S, IsFiniteSet(S), S # {}, NEW u \in Nat \ {0},
         NEW f, DOMAIN f = S, NEW g, DOMAIN g = S,
         \A x \in S : f[x] \in Nat /\ g[x] \in Nat /\ f[x] <= g[x]
  PROVE  /\ Ready!Mean(f, u) \in Nat /\ Ready!Mean(g, u) \in Nat
         /\ Ready!Mean(f, u) <= Ready!Mean(g, u)
<1>1. PICK c : c = u * Cardinality(S)
  OBVIOUS
<1>2. c \in Nat \ {0}
  <2>1. Cardinality(S) \in Nat /\ Cardinality(S) # 0
    BY FS_CardinalityType, FS_EmptySet
  <2> QED BY <1>1, <2>1
<1>3. /\ SumFunctionOnSet(f, S) \in Nat /\ SumFunctionOnSet(g, S) \in Nat
      /\ SumFunctionOnSet(f, S) <= SumFunctionOnSet(g, S)
  BY SumNat, SumLess
<1>4. PICK a \in Nat, b \in Nat :
        a = SumFunctionOnSet(f, S) * Whole /\ b = SumFunctionOnSet(g, S) * Whole /\ a <= b
  BY <1>3, Product DEF ReadinessAssumption
<1>5. Ready!Mean(f, u) = a \div c /\ Ready!Mean(g, u) = b \div c
  BY <1>1, <1>4, ReadySum, ReadyCardinality DEF Ready!Mean
<1> QED BY <1>2, <1>4, <1>5, Quotient

Inputs == [items : Nat \ {0}, completed : Nat, confidence : Nat, health : Nat,
           mock : Nat \cup {None}]

\* The score of a pillar is a number and monotone in the health.
LEMMA PillarRises ==
  ASSUME NEW in \in Inputs, NEW h \in Nat, NEW k \in Nat, h <= k
  PROVE  LET low == Ready!PillarReadiness([in EXCEPT !.health = h])
             high == Ready!PillarReadiness([in EXCEPT !.health = k])
         IN  low \in Nat /\ high \in Nat /\ low <= high
<1> DEFINE Blend(x) == (3 * in.confidence + 2 * x) \div 5
           Own(x) == (in.completed * Blend(x)) \div in.items
           Mocked(x) == (4 * Own(x) + in.mock) \div 5
<1>0. /\ in.items \in Nat \ {0} /\ in.completed \in Nat /\ in.confidence \in Nat
      /\ in.mock \in Nat \cup {None}
  BY DEF Inputs
<1>1. Blend(h) \in Nat /\ Blend(k) \in Nat /\ Blend(h) <= Blend(k)
  BY <1>0
<1>2. PICK x \in Nat, y \in Nat : x = Blend(h) /\ y = Blend(k) /\ x <= y
  BY <1>1
<1>3. /\ x * in.completed \in Nat /\ y * in.completed \in Nat
      /\ x * in.completed <= y * in.completed
  BY <1>0, <1>2, Product
<1>4. in.completed * x = x * in.completed /\ in.completed * y = y * in.completed
  BY <1>0
<1>5. Own(h) \in Nat /\ Own(k) \in Nat /\ Own(h) <= Own(k)
  <2>0. PICK a \in Nat, b \in Nat, c \in Nat \ {0} :
          a = x * in.completed /\ b = y * in.completed /\ c = in.items /\ a <= b
    BY <1>0, <1>3
  <2>1. Own(h) = (x * in.completed) \div in.items /\ Own(k) = (y * in.completed) \div in.items
    BY <1>2, <1>4
  <2>2. a \div c \in Nat /\ b \div c \in Nat /\ a \div c <= b \div c
    BY <2>0, Quotient
  <2> HIDE DEF Own
  <2> QED BY <2>0, <2>1, <2>2
<1> HIDE DEF Own
<1>6. in.mock # None => Mocked(h) \in Nat /\ Mocked(k) \in Nat /\ Mocked(h) <= Mocked(k)
  <2>1. PICK m \in Nat \cup {None}, x1 \in Nat, y1 \in Nat :
          m = in.mock /\ x1 = Own(h) /\ y1 = Own(k) /\ x1 <= y1
    BY <1>0, <1>5
  <2>2. ASSUME m \in Nat
        PROVE  /\ (4 * x1 + m) \div 5 \in Nat /\ (4 * y1 + m) \div 5 \in Nat
               /\ (4 * x1 + m) \div 5 <= (4 * y1 + m) \div 5
    <3>1. PICK a \in Nat, b \in Nat : a = 4 * x1 + m /\ b = 4 * y1 + m /\ a <= b
      BY <2>1, <2>2
    <3> QED BY <3>1, Quotient
  <2> QED BY <1>0, <2>1, <2>2
<1>7. \A z \in Nat : Ready!PillarReadiness([in EXCEPT !.health = z])
                       = IF in.mock = None THEN Own(z) ELSE Mocked(z)
  BY DEF Ready!PillarReadiness, Inputs, Own
<1> HIDE DEF Mocked
<1> QED BY <1>5, <1>6, <1>7

-----------------------------------------------------------------------------
LEMMA MockScoreIs ==
  ASSUME ReadinessAssumption, NEW sum \in Int, NEW n \in Nat \ {0}
  PROVE  Ready!NormalizeScore(sum, n) \in Nat
<1>1. Whole \in Nat
  BY DEF ReadinessAssumption
<1>2. ASSUME NEW a \in Nat, NEW c \in Nat \ {0}
      PROVE  a \div c \in Nat /\ Ready!Clamp(a \div c) \in Nat
  <2>1. a \div c \in Nat
    BY Quotient
  <2> QED BY <1>1, <2>1 DEF Ready!Clamp, Ready!Larger, Ready!Lesser
<1>3. \A a \in Nat : a * Whole \in Nat
  BY <1>1
<1>4. 4 * n \in Nat \ {0} /\ 100 * n \in Nat \ {0}
  OBVIOUS
<1>5. CASE sum <= 0
  BY <1>5 DEF Ready!NormalizeScore
<1>6. CASE sum > 0 /\ sum <= n
  BY <1>2, <1>3, <1>6 DEF Ready!NormalizeScore
<1>7. CASE sum > n /\ sum <= 5 * n
  <2>1. sum - n \in Nat /\ ~(sum <= 0) /\ ~(sum <= n)
    BY <1>7
  <2>2. Ready!Clamp(((sum - n) * Whole) \div (4 * n)) \in Nat
    BY <1>2, <1>3, <1>4, <2>1
  <2> QED BY <1>7, <2>1, <2>2 DEF Ready!NormalizeScore
<1>8. CASE sum > 5 * n
  <2>1. sum \in Nat /\ ~(sum <= 0) /\ ~(sum <= n) /\ ~(sum <= 5 * n)
    BY <1>8
  <2>2. Ready!Clamp((sum * Whole) \div (100 * n)) \in Nat
    BY <1>2, <1>3, <1>4, <2>1
  <2> QED BY <2>1, <2>2 DEF Ready!NormalizeScore
<1> QED BY <1>5, <1>6, <1>7, <1>8

\* What else a pillar is scored on
LEMMA InputsAre ==
  ASSUME ReadinessAssumption, ReadinessInv, NEW p \in Pillars, Ready!InPillar(p) # {}
  PROVE  /\ \A h \in Nat : [Ready!PillarInputs(p) EXCEPT !.health = h] \in Inputs
         /\ Ready!Weight(p) \in Nat
         /\ IsFiniteSet(Ready!Scheduled(p)) /\ Ready!Scheduled(p) \in SUBSET Ready!Items
<1>1. Ready!InPillar(p) \in SUBSET Ready!Items
  BY DEF Ready!InPillar, Ready!Items
<1>2. IsFiniteSet(Ready!Items)
  BY DEF Ready!Items, ReadinessAssumption
<1>3. /\ Ready!Completed(p) \in SUBSET Ready!InPillar(p)
      /\ Ready!Rated(p) \in SUBSET Ready!InPillar(p)
      /\ Ready!Scheduled(p) \in SUBSET Ready!InPillar(p)
  BY DEF Ready!Completed, Ready!Rated, Ready!Scheduled
<1>4. /\ IsFiniteSet(Ready!InPillar(p)) /\ IsFiniteSet(Ready!Completed(p))
      /\ IsFiniteSet(Ready!Rated(p)) /\ IsFiniteSet(Ready!Scheduled(p))
  BY <1>1, <1>2, <1>3, FS_Subset
<1>5. Cardinality(Ready!InPillar(p)) \in Nat \ {0} /\ Cardinality(Ready!Completed(p)) \in Nat
  BY <1>4, FS_CardinalityType, FS_EmptySet
<1>6. Ready!Confidence(p) \in Nat
  <2>1. PICK f : f = [i \in Ready!Rated(p) |-> v2[i].confidence - 1]
    OBVIOUS
  <2>2. ASSUME NEW i \in Ready!Rated(p) PROVE f[i] \in Nat /\ f[i] <= f[i]
    <3>1. v2[i] \in Progress /\ v2[i].confidence # None
      BY <1>1, <1>3 DEF ReadinessInv, Ready!Rated
    <3>2. v2[i].confidence \in Nat \ {0}
      BY <3>1 DEF Progress, ReadinessAssumption
    <3> QED BY <2>1, <3>2
  <2>3. Ready!Rated(p) # {} => Ready!Mean(f, 4) \in Nat
    BY <1>4, <2>1, <2>2, MeanRises
  <2> QED BY <2>1, <2>3 DEF Ready!Confidence
<1>7. v4[p] # <<>> => Ready!MockScore(p) \in Nat
  <2> SUFFICES ASSUME v4[p] # <<>> PROVE Ready!MockScore(p) \in Nat
    OBVIOUS
  <2>1. PICK s \in Seq(Int) : s = v4[p]
    BY DEF ReadinessInv, ReadinessAssumption
  <2>2. Len(s) \in Nat \ {0} /\ DOMAIN s = 1..Len(s) /\ \A i \in 1..Len(s) : s[i] \in Int
    BY <2>1
  <2>3. SumFunctionOnSet(s, DOMAIN s) \in Int
    <3>1. IsFiniteSet(1..Len(s))
      BY <2>2, FS_Interval
    <3> QED BY <2>2, <3>1, SumInt
  <2>4. Ready!NormalizeScore(SumFunctionOnSet(s, DOMAIN s), Len(s)) \in Nat
    BY <2>2, <2>3, MockScoreIs
  <2> QED BY <2>1, <2>4, ReadySum DEF Ready!MockScore
<1>8. Ready!Weight(p) \in Nat
  BY DEF Ready!Weight, ReadinessInv
<1>9. \A h : [Ready!PillarInputs(p) EXCEPT !.health = h] =
        [items |-> Cardinality(Ready!InPillar(p)), completed |-> Cardinality(Ready!Completed(p)),
         confidence |-> Ready!Confidence(p), health |-> h,
         mock |-> IF v4[p] = <<>> THEN None ELSE Ready!MockScore(p)]
  BY ReadyCardinality DEF Ready!PillarInputs
<1>10. \A h \in Nat : [Ready!PillarInputs(p) EXCEPT !.health = h] \in Inputs
  BY <1>5, <1>6, <1>7, <1>9 DEF Inputs
<1> QED BY <1>1, <1>3, <1>4, <1>8, <1>10

-----------------------------------------------------------------------------
\* Readiness if the items had health h
HealthOf(p, h) ==
  IF Ready!Scheduled(p) = {} THEN Whole
  ELSE Ready!Mean([i \in Ready!Scheduled(p) |-> h[i]], 80)
InputsWith(p, h) == [Ready!PillarInputs(p) EXCEPT !.health = HealthOf(p, h)]
WeightedWith(h) ==
  Ready!Total([p \in Ready!Counted |-> Ready!Weight(p) * Ready!PillarReadiness(InputsWith(p, h))])

AllHealth == [i \in Ready!Items |-> IF v3[i] = None THEN 0 ELSE HealthOn(v3[i], v1)]

LEMMA WeightedRises ==
  ASSUME ReadinessAssumption, ReadinessInv,
         NEW h \in [Ready!Items -> Nat], NEW k \in [Ready!Items -> Nat],
         \A i \in Ready!Items : h[i] <= k[i]
  PROVE  WeightedWith(h) <= WeightedWith(k)
<1> DEFINE At(p, x) == Ready!Weight(p) * Ready!PillarReadiness(InputsWith(p, x))
           f == [p \in Ready!Counted |-> At(p, h)]
           g == [p \in Ready!Counted |-> At(p, k)]
<1>1. ASSUME NEW p \in Ready!Counted
      PROVE  At(p, h) \in Nat /\ At(p, k) \in Nat /\ At(p, h) <= At(p, k)
  <2>1. p \in Pillars /\ Ready!InPillar(p) # {}
    BY DEF Ready!Counted
  <2>2. /\ \A x \in Nat : [Ready!PillarInputs(p) EXCEPT !.health = x] \in Inputs
        /\ Ready!Weight(p) \in Nat
        /\ IsFiniteSet(Ready!Scheduled(p)) /\ Ready!Scheduled(p) \in SUBSET Ready!Items
    BY <2>1, InputsAre
  <2>3. HealthOf(p, h) \in Nat /\ HealthOf(p, k) \in Nat /\ HealthOf(p, h) <= HealthOf(p, k)
    <3>1. CASE Ready!Scheduled(p) = {}
      BY <3>1 DEF HealthOf, ReadinessAssumption
    <3>2. CASE Ready!Scheduled(p) # {}
      <4>1. PICK a, b : /\ a = [i \in Ready!Scheduled(p) |-> h[i]]
                        /\ b = [i \in Ready!Scheduled(p) |-> k[i]]
        OBVIOUS
      <4>2. /\ DOMAIN a = Ready!Scheduled(p) /\ DOMAIN b = Ready!Scheduled(p)
            /\ \A i \in Ready!Scheduled(p) : a[i] \in Nat /\ b[i] \in Nat /\ a[i] <= b[i]
        BY <2>2, <4>1
      <4>3. /\ Ready!Mean(a, 80) \in Nat /\ Ready!Mean(b, 80) \in Nat
            /\ Ready!Mean(a, 80) <= Ready!Mean(b, 80)
        <5>1. IsFiniteSet(Ready!Scheduled(p)) /\ 80 \in Nat \ {0}
          BY <2>2
        <5> QED BY <3>2, <4>2, <5>1, MeanRises
      <4> QED BY <3>2, <4>1, <4>3 DEF HealthOf
    <3> QED BY <3>1, <3>2
  <2>4. PICK in \in Inputs : in = [Ready!PillarInputs(p) EXCEPT !.health = 0]
    BY <2>2
  <2>5. \A x : InputsWith(p, x) = [in EXCEPT !.health = HealthOf(p, x)]
    BY <2>4 DEF InputsWith, Ready!PillarInputs
  <2>6. PICK a \in Nat, b \in Nat : /\ a = Ready!PillarReadiness(InputsWith(p, h))
                                    /\ b = Ready!PillarReadiness(InputsWith(p, k)) /\ a <= b
    BY <2>3, <2>5, PillarRises
  <2>7. At(p, h) = Ready!Weight(p) * a /\ At(p, k) = Ready!Weight(p) * b
    BY <2>6
  <2>8. PICK w \in Nat : w = Ready!Weight(p)
    BY <2>2
  <2>9. w * a = a * w /\ w * b = b * w
    OBVIOUS
  <2> HIDE DEF At
  <2> QED BY <2>6, <2>7, <2>8, <2>9, Product
<1>2. IsFiniteSet(Ready!Counted)
  <2>1. Ready!Counted \in SUBSET Pillars
    BY DEF Ready!Counted
  <2> QED BY <2>1, FS_Subset DEF ReadinessAssumption
<1>3. WeightedWith(h) = SumFunctionOnSet(f, Ready!Counted)
  BY ReadySum DEF WeightedWith
<1>4. WeightedWith(k) = SumFunctionOnSet(g, Ready!Counted)
  BY ReadySum DEF WeightedWith
<1>5. \A p \in Ready!Counted : f[p] \in Nat /\ g[p] \in Nat /\ f[p] <= g[p]
  BY <1>1
<1> HIDE DEF f, g
<1>6. SumFunctionOnSet(f, Ready!Counted) <= SumFunctionOnSet(g, Ready!Counted)
  BY <1>2, <1>5, SumLess
<1> QED BY <1>3, <1>4, <1>6

LEMMA WeightedIs ==
  ASSUME ReadinessInv
  PROVE  Ready!Weighted = WeightedWith(AllHealth)
<1>1. ASSUME NEW p \in Ready!Counted PROVE Ready!PillarInputs(p) = InputsWith(p, AllHealth)
  <2>1. ASSUME NEW i \in Ready!Scheduled(p) PROVE Ready!Health(v3[i]) = AllHealth[i]
    <3>1. i \in Ready!Items /\ v3[i] # None
      BY DEF Ready!Scheduled, Ready!InPillar, Ready!Items
    <3> QED BY <3>1 DEF AllHealth, Ready!Health, HealthOn, Ready!Overdue, Decay, Worth
  <2>2. [i \in Ready!Scheduled(p) |-> Ready!Health(v3[i])]
          = [i \in Ready!Scheduled(p) |-> AllHealth[i]]
    BY <2>1
  <2>3. Ready!RevisionHealth(p) = HealthOf(p, AllHealth)
    BY <2>2 DEF Ready!RevisionHealth, HealthOf
  <2> QED BY <2>3 DEF Ready!PillarInputs, InputsWith
<1>2. [p \in Ready!Counted |-> Ready!Weight(p) * Ready!PillarReadiness(Ready!PillarInputs(p))]
        = [p \in Ready!Counted |->
             Ready!Weight(p) * Ready!PillarReadiness(InputsWith(p, AllHealth))]
  BY <1>1
<1> QED BY <1>2 DEF Ready!Weighted, WeightedWith

\* A step that changes nothing but the health of the items
LEMMA WeightedAfter ==
  ASSUME ReadinessInv, ReadinessInv', UNCHANGED <<v2, v4, v5, v7>>,
         \A i \in Ready!Items : v3'[i] = None <=> v3[i] = None
  PROVE  Ready!Weighted' = WeightedWith(AllHealth')
<1>1. PICK k : k = AllHealth'
  OBVIOUS
<1>2. \A p : Ready!InPillar(p)' = Ready!InPillar(p)
  BY DEF Ready!InPillar
<1>3. \A p : Ready!Scheduled(p)' = Ready!Scheduled(p)
  BY DEF Ready!InPillar, Ready!Scheduled, Ready!Items
<1>4. ASSUME NEW p PROVE Ready!RevisionHealth(p)' = HealthOf(p, k)
  <2>1. ASSUME NEW i \in Ready!Scheduled(p) PROVE Ready!Health(v3[i])' = k[i]
    <3>1. i \in Ready!Items /\ v3'[i] # None
      BY DEF Ready!Scheduled, Ready!InPillar, Ready!Items
    <3> QED BY <1>1, <3>1
            DEF AllHealth, Ready!Health, HealthOn, Ready!Overdue, Decay, Worth, Ready!Items
  <2>2. [i \in Ready!Scheduled(p) |-> Ready!Health(v3[i])']
          = [i \in Ready!Scheduled(p) |-> k[i]]
    BY <2>1
  <2>3. Ready!RevisionHealth(p)'
          = IF Ready!Scheduled(p)' = {} THEN Whole
            ELSE Ready!Mean([i \in Ready!Scheduled(p)' |-> Ready!Health(v3[i])'], 80)
    BY DEF Ready!RevisionHealth, Ready!Mean, Ready!Total
  <2> QED BY <1>3, <2>2, <2>3 DEF HealthOf
<1>5. ASSUME NEW p PROVE Ready!PillarInputs(p)' = InputsWith(p, k)
  <2>1. /\ Ready!Completed(p)' = Ready!Completed(p) /\ Ready!Rated(p)' = Ready!Rated(p)
        /\ Ready!Confidence(p)' = Ready!Confidence(p) /\ Ready!MockScore(p)' = Ready!MockScore(p)
    BY <1>2 DEF Ready!Completed, Ready!Rated, Ready!Confidence, Ready!MockScore,
                Ready!Mean, Ready!Total, Ready!NormalizeScore, Ready!Clamp
  <2> QED BY <1>2, <1>4, <2>1 DEF Ready!PillarInputs, InputsWith
<1>6. Ready!Counted' = Ready!Counted
  BY <1>2 DEF Ready!Counted
<1>7. \A p : Ready!Weight(p)' = Ready!Weight(p)
  BY DEF Ready!Weight
<1>8. Ready!Weighted'
        = Ready!Total([p \in Ready!Counted |->
            Ready!Weight(p) * Ready!PillarReadiness(InputsWith(p, k))])
  BY <1>5, <1>6, <1>7 DEF Ready!Weighted, Ready!Total, Ready!PillarReadiness
<1> QED BY <1>1, <1>8 DEF WeightedWith

\* Readiness does not rise by days that pass or by incorrect recalls, and correct
\* ones do not lower it (analytics revisionHealth, revision ladder Apply).
THEOREM ReadinessIsEarnedHolds == ServicesSpec => ReadinessIsEarned
<1> DEFINE Inv == service = "readiness" => ReadinessInv
<1>0. ReadinessAssumption
  BY ServicesAssumption DEF ServicesAssumption
<1>1. ServicesInit => Inv
  <2> SUFFICES ASSUME Ready!ReadinessInit PROVE ReadinessInv
    BY DEF ServicesInit
  <2>1. v5 \in [Pillars -> Int]
    BY <1>0 DEF Ready!ReadinessInit, ReadinessAssumption
  <2> QED BY <2>1 DEF Ready!ReadinessInit, ReadinessInv, Progress
<1>2. Inv /\ [ServicesNext]_vars => Inv'
  BY Zenon, <1>0, StepIs, ReadinessPreserves
<1>3. ASSUME ReadinessInv, ReadinessInv', Ready!ReadinessNext PROVE Ready!Earned
  <2>1. \A i \in Ready!Items : v3[i] \in Revision \cup {None} /\ v3'[i] \in Revision \cup {None}
    BY <1>3 DEF ReadinessInv, Ready!Items
  <2>2. v1 \in Int /\ v1' \in Int
    BY <1>3 DEF ReadinessInv
  <2>3. PICK h, k : h = AllHealth /\ k = AllHealth'
    OBVIOUS
  <2>4. \A i \in Ready!Items : /\ h[i] = IF v3[i] = None THEN 0 ELSE HealthOn(v3[i], v1)
                               /\ k[i] = IF v3'[i] = None THEN 0 ELSE HealthOn(v3'[i], v1')
    BY <2>3 DEF AllHealth, HealthOn, Decay, Worth, Ready!Items
  <2>5. h \in [Ready!Items -> Nat] /\ k \in [Ready!Items -> Nat]
    <3>1. \A i \in Ready!Items : h[i] \in Nat /\ k[i] \in Nat
      BY <2>1, <2>2, <2>4, HealthIs
    <3>2. h = [i \in Ready!Items |-> h[i]] /\ k = [i \in Ready!Items |-> k[i]]
      BY <2>3 DEF AllHealth, Ready!Items
    <3> QED BY <3>1, <3>2
  <2>6. Ready!Weighted = WeightedWith(h)
    BY <1>3, <2>3, WeightedIs
  <2>7. ASSUME v1' # v1 PROVE Ready!Weighted' <= Ready!Weighted
    <3>1. v1' = v1 + 1 /\ UNCHANGED <<v2, v3, v4, v5, v7>>
      BY Zenon, <1>3, <2>7 DEF Ready!ReadinessNext, Ready!Midnight, Ready!Complete, Ready!Log,
                        Ready!Recall, Ready!Score
    <3>2. Ready!Weighted' = WeightedWith(k)
      BY <1>3, <2>3, <3>1, WeightedAfter
    <3>3. \A i \in Ready!Items : k[i] <= h[i]
      BY <2>1, <2>2, <2>4, <3>1, HealthFalls
    <3> QED BY <1>0, <1>3, <2>5, <2>6, <3>2, <3>3, WeightedRises
  <2>8. ASSUME NEW i \in Ready!Items, v6' # v6, v3'[i] # v3[i]
        PROVE  IF v3'[i].last = "correct" THEN Ready!Weighted' >= Ready!Weighted
               ELSE Ready!Weighted' <= Ready!Weighted
    <3>1. PICK j \in Ready!Items, answer \in {"correct", "incorrect"} : Ready!Recall(j, answer)
      BY <1>3, <2>8 DEF Ready!ReadinessNext, Ready!Midnight, Ready!Complete, Ready!Log,
                        Ready!Score
    <3>2. /\ v3[j] \in Revision /\ v3[j].active
          /\ v3'[j] \in Revision /\ v3'[j].last = answer
          /\ v3' = [v3 EXCEPT ![j] = v3'[j]]
          /\ answer = "incorrect" => v3'[j].stage = 0 /\ v3'[j].due >= v1 /\ v3'[j].active
          /\ answer = "correct" => \/ ~v3'[j].active
                                   \/ v3'[j].stage = v3[j].stage + 1 /\ v3'[j].due >= v1
      BY <1>0, <1>3, <3>1, RecallIs
    <3>3. UNCHANGED <<v1, v2, v4, v5, v7>>
      BY <3>1 DEF Ready!Recall
    <3>4. \A x \in Ready!Items \ {j} : v3'[x] = v3[x]
      BY <1>3, <3>2 DEF ReadinessInv
    <3>5. i = j
      BY <2>8, <3>4
    <3>6. v3[j] # None /\ v3'[j] # None
      BY <1>0, <3>2, RevisionIsRow
    <3>7. Ready!Weighted' = WeightedWith(k)
      <4>1. \A x \in Ready!Items : v3'[x] = None <=> v3[x] = None
        BY <3>4, <3>6
      <4> QED BY <1>3, <2>3, <3>3, <4>1, WeightedAfter
    <3>8. /\ h[j] = HealthOn(v3[j], v1) /\ k[j] = HealthOn(v3'[j], v1)
          /\ \A x \in Ready!Items \ {j} : h[x] = k[x]
      BY <2>4, <3>3, <3>4, <3>6
    <3>9. h[j] \in Nat /\ k[j] \in Nat /\ \A x \in Ready!Items : h[x] <= h[x]
      BY <2>5
    <3>10. CASE answer = "correct"
      <4>1. h[j] <= k[j]
        BY <2>2, <3>2, <3>8, <3>10, HealthOfRecall
      <4>2. \A x \in Ready!Items : h[x] <= k[x]
        BY <2>5, <3>8, <4>1
      <4>3. WeightedWith(h) <= WeightedWith(k)
        BY <1>0, <1>3, <2>5, <4>2, WeightedRises
      <4> QED BY <2>6, <3>2, <3>5, <3>7, <3>10, <4>3
    <3>11. CASE answer = "incorrect"
      <4>1. k[j] <= h[j]
        BY <2>2, <3>2, <3>8, <3>11, HealthOfRecall
      <4>2. \A x \in Ready!Items : k[x] <= h[x]
        BY <2>5, <3>8, <4>1
      <4>3. WeightedWith(k) <= WeightedWith(h)
        BY <1>0, <1>3, <2>5, <4>2, WeightedRises
      <4> QED BY <2>6, <3>2, <3>5, <3>7, <3>11, <4>3
    <3> QED BY <3>10, <3>11
  <2> QED BY <2>7, <2>8 DEF Ready!Earned
<1>4. ASSUME UNCHANGED Ready!readinessVars PROVE Ready!Earned
  BY <1>4 DEF Ready!readinessVars, Ready!Earned
<1>5. Inv /\ Inv' /\ [ServicesNext]_vars => (service = "readiness" => Ready!Earned)
  BY <1>3, <1>4, StepIs
<1> QED BY <1>1, <1>2, <1>5, PTL DEF ServicesSpec, ReadinessIsEarned

-----------------------------------------------------------------------------
(***************************************************************************)
(* The catalogue: v1 to v5 are table, rows, tags, request and answer.      *)
(*                                                                         *)
(* The argument is the row lock (LocksOK).  A transaction that is past the *)
(* UPDATE of the columns holds the row, unless the row was deleted before, *)
(* and a deleted row stays deleted.  So nobody else writes the row or its  *)
(* associations until the transaction ends, and the associations it has    *)
(* deleted are all there are (SeenOK).                                     *)
(***************************************************************************)
AllBodies == Bodies \cup SeedBodies
AllTags == UNION {b.tags : b \in AllBodies}
CatalogueRow == [body : AllBodies, deleted : BOOLEAN]
CatalogueWrite == [op : {"create", "update"}, id : Ids \cup {None}, body : Bodies,
                   step : {"checked", "found", "updated", "replaced"},
                   locked : BOOLEAN, seen : SUBSET AllTags]
CatalogueTypes ==
  /\ v2 \in [Ids -> CatalogueRow \cup {None}]
  /\ v3 \in [Ids -> SUBSET AllTags]
  /\ v4 \in [Requests -> CatalogueWrite \cup {None}]

\* Nothing is neither a row nor a write.
CatalogueAssumption == None \notin CatalogueRow \cup CatalogueWrite

\* A handler that writes a problem has found its row, which is there since.
Writing(w) == w # None /\ w.step \in {"updated", "replaced"}
WritingOK(w) ==
  /\ w # None /\ w.op = "update" => w.id \in Ids
  /\ w # None /\ w.step # "checked" =>
       v1 = "problem" /\ w.id \in Ids /\ v2[w.id] # None
  /\ Writing(w) => w.body \in Bodies /\ (Admin!Live(w.id) => w.locked)
  /\ w # None /\ w.locked => Writing(w) /\ Admin!Live(w.id)

LocksOK ==
  /\ \A r \in Requests : WritingOK(v4[r])
  /\ \A r, s \in Requests, i \in Ids : Admin!Holds(r, i) /\ Admin!Holds(s, i) => r = s
SeenOK ==
  \A r \in Requests :
    v4[r] # None /\ v4[r].locked /\ v4[r].step = "replaced" =>
      v4[r].seen = v3[v4[r].id]
CatalogueInv == CatalogueTypes /\ LocksOK /\ SeenOK /\ Admin!AssociationsOfOneWrite

-----------------------------------------------------------------------------
(***************************************************************************)
(* The two ways a step can move: a handler proceeds while the rows stay,   *)
(* or rows change while nobody but those that end proceeds.                *)
(***************************************************************************)
Becomes(r, w) == v4' = [v4 EXCEPT ![r] = w]

LEMMA BodyTags ==
  ASSUME NEW body \in AllBodies
  PROVE  body.tags \subseteq AllTags
BY DEF AllTags

LEMMA IdOfRow ==
  ASSUME CatalogueAssumption, CatalogueTypes, NEW i \in Ids, v2[i] # None
  PROVE  v2[i] \in CatalogueRow
BY DEF CatalogueTypes

LEMMA WriteOf ==
  ASSUME CatalogueTypes, NEW r \in Requests, v4[r] # None
  PROVE  v4[r] \in CatalogueWrite
BY DEF CatalogueTypes

\* A handler proceeds: what it is at now fits the rows, it takes no row that
\* another holds, and it has seen the associations of the row it holds.
LEMMA ProceedStep ==
  ASSUME CatalogueInv, NEW r \in Requests, NEW w \in CatalogueWrite \cup {None},
         Becomes(r, w),
         UNCHANGED <<v1, v2, v3>>,
         WritingOK(w),
         w # None /\ w.locked =>
           \A s \in Requests \ {r} : ~Admin!Holds(s, w.id),
         w # None /\ w.locked /\ w.step = "replaced" => w.seen = v3[w.id]
  PROVE  CatalogueInv'
<1>1. \A s \in Requests : v4'[s] = IF s = r THEN w ELSE v4[s]
  BY DEF CatalogueInv, CatalogueTypes, Becomes
<1>2. CatalogueTypes'
  BY DEF CatalogueInv, CatalogueTypes, Becomes
<1>3. LocksOK'
  <2>1. \A s \in Requests : WritingOK(v4[s])'
    <3>1. SUFFICES ASSUME NEW s \in Requests PROVE WritingOK(v4[s])'
      OBVIOUS
    <3> QED BY <1>1, <3>1 DEF CatalogueInv, LocksOK, WritingOK, Writing, Admin!Live
  <2>2. \A s, k \in Requests, i \in Ids : Admin!Holds(s, i)' /\ Admin!Holds(k, i)' => s = k
    BY <1>1 DEF CatalogueInv, LocksOK, Admin!Holds
  <2> QED BY <2>1, <2>2 DEF LocksOK
<1>4. SeenOK'
  BY <1>1 DEF CatalogueInv, SeenOK
<1>5. Admin!AssociationsOfOneWrite'
  BY DEF CatalogueInv, Admin!AssociationsOfOneWrite, Admin!Live
<1> QED BY <1>2, <1>3, <1>4, <1>5 DEF CatalogueInv

\* Rows change: none vanishes or comes back, nobody proceeds but those that
\* end, and a row that is held afterwards has kept its associations.
LEMMA RowsStep ==
  ASSUME CatalogueAssumption, CatalogueInv, UNCHANGED v1,
         v2' \in [Ids -> CatalogueRow \cup {None}], v3' \in [Ids -> SUBSET AllTags],
         v4' \in [Requests -> CatalogueWrite \cup {None}],
         \A i \in Ids : v2[i] # None =>
           v2'[i] # None /\ (Admin!Live(i)' => Admin!Live(i)),
         \A s \in Requests : v4'[s] \in {v4[s], None},
         \A s \in Requests : v4'[s] # None /\ v4'[s].locked =>
           Admin!Live(v4[s].id)' /\ v3'[v4[s].id] = v3[v4[s].id]
  PROVE  CatalogueTypes' /\ LocksOK' /\ SeenOK'
<1>1. CatalogueTypes'
  BY DEF CatalogueTypes
<1>2. ASSUME NEW s \in Requests PROVE WritingOK(v4[s])'
  <2>1. CASE v4'[s] = None
    BY <2>1 DEF WritingOK, Writing
  <2>2. CASE v4'[s] = v4[s] /\ v4[s] # None
    BY <2>2 DEF CatalogueInv, LocksOK, WritingOK, Writing
  <2> QED BY <2>1, <2>2
<1>3. \A s, k \in Requests, i \in Ids : Admin!Holds(s, i)' /\ Admin!Holds(k, i)' => s = k
  BY DEF CatalogueInv, LocksOK, Admin!Holds
<1>4. SeenOK'
  BY DEF CatalogueInv, SeenOK
<1> QED BY <1>1, <1>2, <1>3, <1>4 DEF LocksOK

-----------------------------------------------------------------------------
(***************************************************************************)
(* Every step preserves the invariant.                                     *)
(***************************************************************************)
LEMMA AnswerPreserves ==
  ASSUME CatalogueAssumption, CatalogueInv, NEW r \in Requests, NEW what,
         Admin!Answer(r, what),
         UNCHANGED <<v1, v2, v3>>
  PROVE  CatalogueInv'
<1>1. Becomes(r, None)
  BY DEF Admin!Answer, Becomes
<1> QED BY <1>1, ProceedStep DEF WritingOK, Writing

LEMMA CatalogueBeginPreserves ==
  ASSUME CatalogueAssumption, CatalogueInv, NEW r \in Requests,
         NEW op \in {"create", "update"},
         NEW i \in Ids \cup {None}, op = "update" => i \in Ids,
         NEW body \in Bodies, Admin!Begin(r, op, i, body)
  PROVE  CatalogueInv'
<1> DEFINE w == [op |-> op, id |-> i, body |-> body, step |-> "checked",
                 locked |-> FALSE, seen |-> {}]
<1>1. CASE v4' = v4
  <2>1. Becomes(r, v4[r])
    BY <1>1 DEF CatalogueInv, CatalogueTypes, Becomes
  <2>2. v4[r] = None
    BY DEF Admin!Begin
  <2> QED BY <2>1, <2>2, ProceedStep DEF Admin!Begin, WritingOK, Writing
<1>2. CASE Becomes(r, w)
  <2>1. w \in CatalogueWrite
    BY DEF CatalogueWrite
  <2>2. w.step = "checked" /\ ~w.locked /\ (w.op = "update" => w.id \in Ids)
    OBVIOUS
  <2> HIDE DEF w
  <2> QED BY <1>2, <2>1, <2>2, ProceedStep DEF Admin!Begin, WritingOK, Writing
<1> QED BY <1>1, <1>2 DEF Admin!Begin, Becomes

LEMMA FindProblemPreserves ==
  ASSUME CatalogueAssumption, CatalogueInv, NEW r \in Requests, Admin!FindProblem(r)
  PROVE  CatalogueInv'
<1>1. CASE Admin!Answer(r, "not found")
  BY Zenon, <1>1, AnswerPreserves DEF Admin!FindProblem
<1>2. CASE Admin!Live(v4[r].id) /\ Admin!Proceed(r, "found")
  <2> DEFINE w == [v4[r] EXCEPT !.step = "found"]
  <2>1. v4[r] \in CatalogueWrite /\ v4[r] # None /\ v4[r].op = "update"
    BY Zenon, WriteOf DEF CatalogueInv, Admin!FindProblem, Admin!At
  <2>2. w \in CatalogueWrite /\ w.step = "found" /\ w.id = v4[r].id
          /\ w.locked = v4[r].locked
    BY <2>1 DEF CatalogueWrite
  <2>3. Becomes(r, w)
    BY <1>2 DEF Admin!Proceed, Becomes
  <2>4. ~w.locked /\ w.id \in Ids /\ v2[w.id] # None
    BY <1>2, <2>1, <2>2 DEF CatalogueInv, LocksOK, WritingOK, Writing, Admin!FindProblem,
                            Admin!At, Admin!Live
  <2> HIDE DEF w
  <2> QED BY Zenon, <2>2, <2>3, <2>4, ProceedStep DEF Admin!FindProblem, WritingOK, Writing
<1> QED BY Zenon, <1>1, <1>2 DEF Admin!FindProblem

LEMMA UpdateColumnsPreserves ==
  ASSUME CatalogueAssumption, CatalogueInv, NEW r \in Requests, Admin!UpdateColumns(r)
  PROVE  CatalogueInv'
<1>1. CASE Admin!Answer(r, "conflict")
  BY <1>1, AnswerPreserves DEF Admin!UpdateColumns
<1>2. CASE v4' = [v4 EXCEPT ![r].step = "updated", ![r].locked = Admin!Lock(r)]
  <2> DEFINE w == [v4[r] EXCEPT !.step = "updated", !.locked = Admin!Lock(r)]
  <2>1. v4[r] \in CatalogueWrite /\ v4[r] # None
    BY WriteOf DEF CatalogueInv, Admin!UpdateColumns, Admin!At
  <2>2. w \in CatalogueWrite /\ w.step = "updated" /\ w.id = v4[r].id
          /\ w.locked = Admin!Live(v4[r].id) /\ w.body \in Bodies
    BY <2>1 DEF CatalogueWrite, Admin!Lock, Admin!Live
  <2>3. Becomes(r, w)
    BY <1>2 DEF Becomes
  <2>4. v1 = "problem" /\ w.id \in Ids /\ v2[w.id] # None
    BY <2>1, <2>2 DEF CatalogueInv, LocksOK, WritingOK, Admin!UpdateColumns, Admin!At
  <2>5. \A s \in Requests : ~Admin!Holds(s, w.id)
    BY <2>2 DEF Admin!UpdateColumns, Admin!Locked
  <2> HIDE DEF w
  <2> QED BY <2>2, <2>3, <2>4, <2>5, ProceedStep DEF Admin!UpdateColumns, WritingOK, Writing
<1> QED BY <1>1, <1>2 DEF Admin!UpdateColumns

LEMMA ReplacePreserves ==
  ASSUME CatalogueAssumption, CatalogueInv, NEW r \in Requests, Admin!ReplaceAssociations(r)
  PROVE  CatalogueInv'
<1>1. CASE Admin!Answer(r, Admin!Unresolved(v4[r].body))
  BY Zenon, <1>1, AnswerPreserves DEF Admin!ReplaceAssociations
<1>2. CASE v4' = [v4 EXCEPT ![r].step = "replaced",
                                      ![r].seen = v3[v4[r].id]]
  <2> DEFINE w == [v4[r] EXCEPT !.step = "replaced", !.seen = v3[v4[r].id]]
  <2>1. v4[r] \in CatalogueWrite /\ v4[r] # None /\ v4[r].step = "updated"
    BY Zenon, WriteOf DEF CatalogueInv, Admin!ReplaceAssociations, Admin!At
  <2>2. WritingOK(v4[r]) /\ v4[r].id \in Ids
    BY <2>1 DEF CatalogueInv, LocksOK, WritingOK
  <2>3. v3[v4[r].id] \in SUBSET AllTags
    BY <2>2 DEF CatalogueInv, CatalogueTypes
  <2>4. w \in CatalogueWrite /\ w.step = "replaced" /\ w.id = v4[r].id
          /\ w.locked = v4[r].locked /\ w.body = v4[r].body
          /\ w.op = v4[r].op /\ w.seen = v3[v4[r].id]
    BY <2>1, <2>3 DEF CatalogueWrite
  <2>5. Becomes(r, w)
    BY <1>2 DEF Becomes
  <2>6. w.locked => \A s \in Requests \ {r} : ~Admin!Holds(s, w.id)
    BY <2>1, <2>2, <2>4 DEF CatalogueInv, LocksOK, Admin!Holds
  <2>7. WritingOK(w)
    BY <2>1, <2>2, <2>4 DEF WritingOK, Writing
  <2> HIDE DEF w
  <2> QED BY Zenon, <2>4, <2>5, <2>6, <2>7, ProceedStep DEF Admin!ReplaceAssociations
<1> QED BY Zenon, <1>1, <1>2 DEF Admin!ReplaceAssociations

\* What ends a handler leaves the others as they are.
LEMMA AnswerOnly ==
  ASSUME CatalogueInv, NEW r \in Requests, NEW what, Admin!Answer(r, what)
  PROVE  /\ v4' \in [Requests -> CatalogueWrite \cup {None}]
         /\ v4'[r] = None
         /\ \A s \in Requests \ {r} : v4'[s] = v4[s]
BY DEF CatalogueInv, CatalogueTypes, Admin!Answer

\* The row and the associations of what another handler holds.
LEMMA HeldRow ==
  ASSUME CatalogueInv, NEW s \in Requests, v4[s] # None, v4[s].locked
  PROVE  v4[s].id \in Ids /\ Admin!Live(v4[s].id) /\ Admin!Holds(s, v4[s].id)
BY DEF CatalogueInv, LocksOK, WritingOK, Writing, Admin!Holds

LEMMA InsertPreserves ==
  ASSUME CatalogueAssumption, CatalogueInv, NEW r \in Requests, Admin!Insert(r)
  PROVE  CatalogueInv'
<1>1. CASE \E what : Admin!Answer(r, what) /\ UNCHANGED <<v2, v3>>
  BY Zenon, <1>1, AnswerPreserves DEF Admin!Insert
<1>2. CASE /\ \E i \in Ids :
                /\ Admin!Free(i)
                /\ v2' = [v2 EXCEPT ![i] = [body |-> v4[r].body,
                                               deleted |-> FALSE]]
                /\ v3' = [v3 EXCEPT ![i] = v4[r].body.tags]
           /\ Admin!Answer(r, "created")
  <2> DEFINE body == v4[r].body
             new == [body |-> body, deleted |-> FALSE]
  <2>1. PICK i \in Ids : /\ Admin!Free(i)
                         /\ v2' = [v2 EXCEPT ![i] = new]
                         /\ v3' = [v3 EXCEPT ![i] = body.tags]
    BY <1>2
  <2>2. body \in Bodies /\ body \in AllBodies
    BY Zenon, WriteOf DEF CatalogueInv, Admin!Insert, Admin!At, CatalogueWrite, AllBodies
  <2>3. new \in CatalogueRow /\ new # None
    <3>1. new \in CatalogueRow
      BY <2>2 DEF CatalogueRow
    <3> QED BY <3>1 DEF CatalogueAssumption
  <2>4. body.tags \in SUBSET AllTags
    BY <2>2, BodyTags
  <2>5. new.body = body
    OBVIOUS
  <2> HIDE DEF body, new
  <2>6. v2' \in [Ids -> CatalogueRow \cup {None}] /\ v3' \in [Ids -> SUBSET AllTags]
    BY <2>1, <2>3, <2>4 DEF CatalogueInv, CatalogueTypes
  <2>7. \A k \in Ids \ {i} : v2'[k] = v2[k] /\ v3'[k] = v3[k]
    BY <2>1 DEF CatalogueInv, CatalogueTypes
  <2>8. v2'[i] = new /\ v3'[i] = body.tags
    BY <2>1 DEF CatalogueInv, CatalogueTypes
  <2>9. \A k \in Ids : v2[k] # None => k # i /\ v2'[k] = v2[k]
    BY <2>1, <2>7 DEF Admin!Free
  <2>10. \A s \in Requests : v4'[s] # None /\ v4'[s].locked =>
           Admin!Live(v4[s].id)' /\ v3'[v4[s].id] = v3[v4[s].id]
    <3>1. SUFFICES ASSUME NEW s \in Requests, v4'[s] # None, v4'[s].locked
                   PROVE  Admin!Live(v4[s].id)' /\ v3'[v4[s].id] = v3[v4[s].id]
      OBVIOUS
    <3>2. v4'[s] = v4[s]
      BY <1>2, <3>1, AnswerOnly
    <3>3. v4[s].id \in Ids /\ Admin!Live(v4[s].id)
      BY <3>1, <3>2, HeldRow
    <3> QED BY <2>7, <2>9, <3>2, <3>3 DEF Admin!Live
  <2>11. CatalogueTypes' /\ LocksOK' /\ SeenOK'
    BY Zenon, <1>2, <2>6, <2>9, <2>10, AnswerOnly, RowsStep DEF Admin!Insert, Admin!Live
  <2>12. Admin!AssociationsOfOneWrite'
    BY Zenon, <2>5, <2>7, <2>8 DEF CatalogueInv, Admin!AssociationsOfOneWrite, Admin!Insert,
                            Admin!Live
  <2> QED BY <2>11, <2>12 DEF CatalogueInv
<1> QED BY Zenon, <1>1, <1>2 DEF Admin!Insert

LEMMA UpdateRowPreserves ==
  ASSUME CatalogueAssumption, CatalogueInv, NEW r \in Requests, Admin!UpdateRow(r),
         v1 # "problem"
  PROVE  CatalogueInv'
<1>1. CASE \E what : Admin!Answer(r, what) /\ UNCHANGED v2
  BY Zenon, <1>1, AnswerPreserves DEF Admin!UpdateRow
<1>2. CASE /\ Admin!Live(v4[r].id)
           /\ Admin!Answer(r, "updated")
           /\ v2' = [v2 EXCEPT ![v4[r].id].body = v4[r].body]
  <2> DEFINE i == v4[r].id
             new == [v2[i] EXCEPT !.body = v4[r].body]
  <2>1. i \in Ids
    BY Zenon DEF CatalogueInv, LocksOK, WritingOK, Admin!UpdateRow, Admin!At
  <2>2. v4[r].body \in AllBodies
    BY Zenon, WriteOf DEF CatalogueInv, Admin!UpdateRow, Admin!At, CatalogueWrite, AllBodies
  <2>3. v2[i] \in CatalogueRow
    BY <1>2, <2>1, IdOfRow DEF CatalogueInv, Admin!Live
  <2>4. new \in CatalogueRow /\ new # None /\ new.deleted = v2[i].deleted
    BY <2>2, <2>3 DEF CatalogueRow, CatalogueAssumption
  <2> HIDE DEF i, new
  <2>5. v2' = [v2 EXCEPT ![i] = new]
    BY <1>2 DEF i, new
  <2>6. v2' \in [Ids -> CatalogueRow \cup {None}]
    BY <2>4, <2>5 DEF CatalogueInv, CatalogueTypes
  <2>7. \A k \in Ids : v2'[k] = IF k = i THEN new ELSE v2[k]
    BY <2>5 DEF CatalogueInv, CatalogueTypes
  <2>8. v3' = v3 /\ v1' = v1
    BY Zenon DEF Admin!UpdateRow
  <2>9. \A s \in Requests : v4'[s] # None => ~v4'[s].locked
    BY <1>2, AnswerOnly DEF CatalogueInv, LocksOK, WritingOK, Writing
  <2>10. CatalogueTypes' /\ LocksOK' /\ SeenOK'
    BY <1>2, <2>4, <2>6, <2>7, <2>8, <2>9, AnswerOnly, RowsStep
       DEF CatalogueInv, CatalogueTypes, Admin!Live
  <2> QED BY <2>8, <2>10 DEF CatalogueInv, Admin!AssociationsOfOneWrite
<1> QED BY Zenon, <1>1, <1>2 DEF Admin!UpdateRow

LEMMA CommitPreserves ==
  ASSUME CatalogueAssumption, CatalogueInv, NEW r \in Requests, Admin!Commit(r)
  PROVE  CatalogueInv'
<1> DEFINE i == v4[r].id
           body == v4[r].body
           left == v3[i] \ v4[r].seen
           new == [v2[i] EXCEPT !.body = body]
<1>1. CASE Admin!Answer(r, "conflict") /\ UNCHANGED <<v2, v3>>
  BY Zenon, <1>1, AnswerPreserves DEF Admin!Commit
<1>2. CASE /\ v3' = [v3 EXCEPT ![i] = left \cup body.tags]
           /\ v2' = IF Admin!Live(i) THEN [v2 EXCEPT ![i] = new] ELSE v2
           /\ \E what : Admin!Answer(r, what)
  <2>1. v4[r] \in CatalogueWrite /\ Writing(v4[r]) /\ v4[r].step = "replaced"
    BY Zenon, WriteOf DEF CatalogueInv, Admin!Commit, Admin!At, Writing
  <2>2. i \in Ids /\ v2[i] # None /\ body \in Bodies /\ (Admin!Live(i) => v4[r].locked)
    BY <2>1 DEF CatalogueInv, LocksOK, WritingOK, Writing
  <2>3. body \in AllBodies /\ body.tags \in SUBSET AllTags
    BY <2>2, BodyTags DEF AllBodies
  <2>4. v2[i] \in CatalogueRow
    BY <2>2, IdOfRow DEF CatalogueInv
  <2>5. new \in CatalogueRow /\ new # None /\ new.deleted = v2[i].deleted /\ new.body = body
    BY <2>3, <2>4 DEF CatalogueRow, CatalogueAssumption
  <2>6. left \cup body.tags \in SUBSET AllTags
    BY <2>2, <2>3 DEF CatalogueInv, CatalogueTypes
  <2>7. Admin!Live(i) => left = {}
    BY <2>1, <2>2 DEF CatalogueInv, SeenOK, Writing
  <2>8. Admin!Live(i) => \A s \in Requests \ {r} : ~Admin!Holds(s, i)
    BY <2>1, <2>2 DEF CatalogueInv, LocksOK, Admin!Holds, Writing
  <2> HIDE DEF i, body, left, new
  <2>9. v2' \in [Ids -> CatalogueRow \cup {None}] /\ v3' \in [Ids -> SUBSET AllTags]
    BY <1>2, <2>5, <2>6 DEF CatalogueInv, CatalogueTypes
  <2>10. \A k \in Ids : v2'[k] = IF k = i /\ Admin!Live(i) THEN new ELSE v2[k]
    BY <1>2 DEF CatalogueInv, CatalogueTypes
  <2>11. \A k \in Ids : v3'[k] = IF k = i THEN left \cup body.tags ELSE v3[k]
    BY <1>2 DEF CatalogueInv, CatalogueTypes
  <2>12. \A s \in Requests : v4'[s] # None /\ v4'[s].locked =>
           Admin!Live(v4[s].id)' /\ v3'[v4[s].id] = v3[v4[s].id]
    <3>1. SUFFICES ASSUME NEW s \in Requests, v4'[s] # None, v4'[s].locked
                   PROVE  Admin!Live(v4[s].id)' /\ v3'[v4[s].id] = v3[v4[s].id]
      OBVIOUS
    <3>2. s # r /\ v4'[s] = v4[s]
      BY <1>2, <3>1, AnswerOnly
    <3>3. v4[s].id \in Ids /\ Admin!Live(v4[s].id) /\ Admin!Holds(s, v4[s].id)
      BY <3>1, <3>2, HeldRow
    <3>4. v4[s].id # i
      BY <2>8, <3>2, <3>3
    <3> QED BY <2>10, <2>11, <3>2, <3>3, <3>4 DEF Admin!Live
  <2>13. CatalogueTypes' /\ LocksOK' /\ SeenOK'
    BY Zenon, <1>2, <2>5, <2>9, <2>10, <2>12, AnswerOnly, RowsStep DEF Admin!Commit, Admin!Live
  <2>14. Admin!AssociationsOfOneWrite'
    BY Zenon, <2>5, <2>7, <2>10, <2>11 DEF CatalogueInv, Admin!AssociationsOfOneWrite,
                                    Admin!Commit, Admin!Live
  <2> QED BY <2>13, <2>14 DEF CatalogueInv
<1>3. \/ Admin!Answer(r, "conflict") /\ UNCHANGED <<v2, v3>>
      \/ /\ v3' = [v3 EXCEPT ![i] = left \cup body.tags]
         /\ v2' = IF Admin!Live(i) THEN [v2 EXCEPT ![i].body = body] ELSE v2
         /\ Admin!Answer(r, IF Admin!Live(i) THEN "updated" ELSE "not found")
  BY Zenon DEF Admin!Commit
<1> QED BY Zenon, <1>1, <1>2, <1>3

LEMMA DeletePreserves ==
  ASSUME CatalogueAssumption, CatalogueInv, NEW r \in Requests, NEW i \in Ids,
         Admin!Delete(r, i)
  PROVE  CatalogueInv'
<1> DEFINE new == [v2[i] EXCEPT !.deleted = TRUE]
<1>1. CASE v2' = v2
  <2>1. v4' \in [Requests -> CatalogueWrite \cup {None}]
    BY Zenon DEF CatalogueInv, CatalogueTypes, Admin!Delete
  <2>2. Becomes(r, v4[r])
    BY Zenon DEF CatalogueInv, CatalogueTypes, Admin!Delete, Becomes
  <2>3. v4[r] = None
    BY Zenon DEF Admin!Delete
  <2> QED BY Zenon, <1>1, <2>2, <2>3, ProceedStep DEF Admin!Delete, WritingOK, Writing
<1>2. CASE Admin!Live(i) /\ v2' = [v2 EXCEPT ![i] = new]
  <2>1. v2[i] \in CatalogueRow
    BY <1>2, IdOfRow DEF CatalogueInv, Admin!Live
  <2>2. new \in CatalogueRow /\ new # None /\ new.deleted
    BY <2>1 DEF CatalogueRow, CatalogueAssumption
  <2> HIDE DEF new
  <2>3. v2' \in [Ids -> CatalogueRow \cup {None}]
    BY <1>2, <2>2 DEF CatalogueInv, CatalogueTypes
  <2>4. \A k \in Ids : v2'[k] = IF k = i THEN new ELSE v2[k]
    BY <1>2 DEF CatalogueInv, CatalogueTypes
  <2>5. \A s \in Requests : v4[s] # None /\ v4[s].locked =>
          v4[s].id # i
    BY Zenon, HeldRow DEF Admin!Delete, Admin!Locked
  <2>6. \A s \in Requests : v4'[s] # None /\ v4'[s].locked =>
          Admin!Live(v4[s].id)' /\ v3'[v4[s].id] = v3[v4[s].id]
    BY Zenon, <2>4, <2>5, HeldRow DEF Admin!Delete, Admin!Live
  <2>7. UNCHANGED <<v1, v3, v4>>
    BY Zenon DEF Admin!Delete
  <2>8. v3' \in [Ids -> SUBSET AllTags]
        /\ v4' \in [Requests -> CatalogueWrite \cup {None}]
    BY <2>7 DEF CatalogueInv, CatalogueTypes
  <2>9. CatalogueTypes' /\ LocksOK' /\ SeenOK'
    BY <2>2, <2>3, <2>4, <2>6, <2>7, <2>8, RowsStep DEF Admin!Live
  <2>10. Admin!AssociationsOfOneWrite'
    BY <2>2, <2>4, <2>7 DEF CatalogueInv, Admin!AssociationsOfOneWrite, Admin!Live
  <2> QED BY <2>9, <2>10 DEF CatalogueInv
<1> QED BY Zenon, <1>1, <1>2 DEF Admin!Delete

\* A run of the seeder writes free rows and live rows that nobody holds.
LEMMA PlacedRows ==
  ASSUME CatalogueInv, NEW place \in [SeedBodies -> Ids], Admin!Placement(place),
         \A seed \in SeedBodies : \A i \in Admin!Holder(seed) : ~Admin!Locked(i),
         ~ \E seed \in SeedBodies : Admin!Unreadable(seed),
         NEW seed \in SeedBodies
  PROVE  /\ Admin!Free(place[seed]) \/ Admin!Live(place[seed])
         /\ ~Admin!Locked(place[seed])
         /\ \A other \in SeedBodies : place[other] = place[seed] => other = seed
<1>1. CASE Admin!Holder(seed) = {}
  <2>1. Admin!Free(place[seed])
    BY <1>1 DEF Admin!Placement
  <2>2. ~Admin!Locked(place[seed])
    BY <2>1, HeldRow DEF Admin!Locked, Admin!Holds, Admin!Free, Admin!Live
  <2> QED BY <2>1, <2>2 DEF Admin!Placement
<1>2. CASE place[seed] \in Admin!Holder(seed)
  <2>1. Admin!Live(place[seed])
    BY <1>2 DEF Admin!Unreadable, Admin!Holder, Admin!Seeded, Admin!Live
  <2> QED BY <1>2, <2>1 DEF Admin!Placement
<1> QED BY <1>1, <1>2 DEF Admin!Placement

LEMMA SeedPreserves ==
  ASSUME CatalogueAssumption, CatalogueInv, Admin!Seed
  PROVE  CatalogueInv'
<1>1. PICK place \in [SeedBodies -> Ids] :
        /\ Admin!Placement(place) /\ Admin!SeedRows(place)
        /\ IF v1 = "problem" THEN Admin!SeedProblems(place) ELSE UNCHANGED v3
  BY DEF Admin!Seed
<1>2. /\ \A seed \in SeedBodies : \A i \in Admin!Holder(seed) : ~Admin!Locked(i)
      /\ ~ \E seed \in SeedBodies : Admin!Unreadable(seed)
      /\ UNCHANGED <<v1, v4>>
  BY DEF Admin!Seed
<1> DEFINE Placed(i) == \E seed \in SeedBodies : place[seed] = i
           SeedOf(i) == CHOOSE seed \in SeedBodies : place[seed] = i
           new(i) == [body |-> SeedOf(i), deleted |-> FALSE]
           added(i) == UNION {seed.tags : seed \in {s \in SeedBodies : place[s] = i}}
<1>3. \A i \in Ids : Placed(i) =>
        SeedOf(i) \in SeedBodies /\ place[SeedOf(i)] = i
  OBVIOUS
<1>4. \A i \in Ids : Placed(i) => (Admin!Free(i) \/ Admin!Live(i)) /\ ~Admin!Locked(i)
  BY <1>1, <1>2, PlacedRows
<1>5. \A i \in Ids : Placed(i) =>
        /\ new(i) \in CatalogueRow /\ new(i) # None
        /\ new(i).body = SeedOf(i) /\ ~new(i).deleted
  <2>1. SUFFICES ASSUME NEW i \in Ids, Placed(i)
                 PROVE  /\ new(i) \in CatalogueRow /\ new(i) # None
                        /\ new(i).body = SeedOf(i) /\ ~new(i).deleted
    OBVIOUS
  <2>2. SeedOf(i) \in AllBodies
    BY <1>3, <2>1 DEF AllBodies
  <2> HIDE DEF SeedOf
  <2>3. new(i) \in CatalogueRow
    BY <2>2 DEF CatalogueRow
  <2> QED BY <2>3 DEF CatalogueAssumption
<1>6. \A i \in Ids : /\ added(i) \in SUBSET AllTags
                     /\ ~Placed(i) => added(i) = {}
                     /\ Placed(i) => SeedOf(i).tags \subseteq added(i)
  <2>1. \A seed \in SeedBodies : seed.tags \subseteq AllTags
    BY BodyTags DEF AllBodies
  <2>2. ASSUME NEW i \in Ids PROVE added(i) \in SUBSET AllTags
    BY <2>1
  <2>3. ASSUME NEW i \in Ids, ~Placed(i) PROVE added(i) = {}
    BY <2>3
  <2>4. ASSUME NEW i \in Ids, Placed(i) PROVE SeedOf(i).tags \subseteq added(i)
    BY <1>3, <2>4
  <2> QED BY <2>2, <2>3, <2>4
<1>7. v2' = [i \in Ids |-> IF Placed(i) THEN new(i) ELSE v2[i]]
  BY <1>1 DEF Admin!SeedRows
<1>8. v3' = IF v1 = "problem" THEN [i \in Ids |-> v3[i] \cup added(i)] ELSE v3
  BY <1>1 DEF Admin!SeedProblems
<1> HIDE DEF Placed, SeedOf, new, added
<1>9. \A i \in Ids : v2'[i] = IF Placed(i) THEN new(i) ELSE v2[i]
  BY <1>7
<1>10. \A i \in Ids : ~Placed(i) => v3'[i] = v3[i]
  BY <1>6, <1>8
<1>11. v2' \in [Ids -> CatalogueRow \cup {None}]
  BY <1>5, <1>7 DEF CatalogueInv, CatalogueTypes
<1>12. v3' \in [Ids -> SUBSET AllTags]
  BY <1>6, <1>8 DEF CatalogueInv, CatalogueTypes
<1>13. \A s \in Requests : v4'[s] # None /\ v4'[s].locked =>
         Admin!Live(v4[s].id)' /\ v3'[v4[s].id] = v3[v4[s].id]
  <2>1. SUFFICES ASSUME NEW s \in Requests, v4[s] # None, v4[s].locked
                 PROVE  Admin!Live(v4[s].id)' /\ v3'[v4[s].id] = v3[v4[s].id]
    BY <1>2
  <2>2. v4[s].id \in Ids /\ Admin!Live(v4[s].id) /\ Admin!Locked(v4[s].id)
    BY <2>1, HeldRow DEF Admin!Locked
  <2>3. ~Placed(v4[s].id)
    BY <1>4, <2>2
  <2> QED BY <1>2, <1>9, <1>10, <2>2, <2>3 DEF Admin!Live
<1>14. \A i \in Ids : v2[i] # None => v2'[i] # None /\ (Admin!Live(i)' => Admin!Live(i))
  BY <1>4, <1>5, <1>9 DEF Admin!Free, Admin!Live
<1>15. CatalogueTypes' /\ LocksOK' /\ SeenOK'
  <2>1. v4' \in [Requests -> CatalogueWrite \cup {None}]
    BY <1>2 DEF CatalogueInv, CatalogueTypes
  <2> QED BY <1>2, <1>11, <1>12, <1>13, <1>14, <2>1, RowsStep
<1>16. Admin!AssociationsOfOneWrite'
  <2>1. SUFFICES ASSUME NEW i \in Ids, v1 = "problem", Admin!Live(i)'
                 PROVE  IF v2'[i].body \in SeedBodies
                        THEN v2'[i].body.tags \subseteq v3'[i]
                        ELSE v3'[i] = v2'[i].body.tags
    BY <1>2 DEF Admin!AssociationsOfOneWrite
  <2>2. CASE Placed(i)
    BY <1>3, <1>5, <1>6, <1>8, <1>9, <2>1, <2>2
  <2>3. CASE ~Placed(i)
    BY <1>9, <1>10, <2>1, <2>3 DEF CatalogueInv, Admin!AssociationsOfOneWrite, Admin!Live
  <2> QED BY <2>2, <2>3
<1> QED BY <1>15, <1>16 DEF CatalogueInv

LEMMA CataloguePreserves ==
  ASSUME CatalogueAssumption, CatalogueInv, [Admin!CatalogueNext]_(Admin!catalogueVars)
  PROVE  CatalogueInv'
<1>1. CASE UNCHANGED Admin!catalogueVars
  BY <1>1 DEF Admin!catalogueVars, CatalogueInv, CatalogueTypes, LocksOK, WritingOK,
              Writing, SeenOK, Admin!Holds, Admin!AssociationsOfOneWrite, Admin!Live
<1>2. CASE Admin!Seed
  BY <1>2, SeedPreserves
<1>3. ASSUME NEW r \in Requests, NEW body \in Bodies, Admin!Begin(r, "create", None, body)
      PROVE  CatalogueInv'
  BY <1>3, CatalogueBeginPreserves
<1>4. ASSUME NEW r \in Requests, NEW body \in Bodies, NEW i \in Ids,
             Admin!Begin(r, "update", i, body)
      PROVE  CatalogueInv'
  BY <1>4, CatalogueBeginPreserves
<1>5. ASSUME NEW r \in Requests,
             \/ Admin!CreateProblem(r) \/ Admin!CreateTopic(r)
             \/ Admin!CreateDesign(r) \/ Admin!CreateLld(r)
      PROVE  CatalogueInv'
  BY <1>5, InsertPreserves DEF Admin!CreateProblem, Admin!CreateTopic, Admin!CreateDesign,
                               Admin!CreateLld
<1>6. ASSUME NEW r \in Requests,
             Admin!UpdateTopic(r) \/ Admin!UpdateDesign(r) \/ Admin!UpdateLld(r)
      PROVE  CatalogueInv'
  BY <1>6, UpdateRowPreserves DEF Admin!UpdateTopic, Admin!UpdateDesign, Admin!UpdateLld
<1>7. ASSUME NEW r \in Requests, Admin!FindProblem(r) \/ Admin!UpdateColumns(r)
      PROVE  CatalogueInv'
  BY <1>7, FindProblemPreserves, UpdateColumnsPreserves
<1>8. ASSUME NEW r \in Requests, Admin!ReplaceAssociations(r) \/ Admin!Commit(r)
      PROVE  CatalogueInv'
  BY <1>8, ReplacePreserves, CommitPreserves
<1>9. ASSUME NEW r \in Requests, Admin!Disconnect(r)
      PROVE  CatalogueInv'
  BY <1>9, AnswerPreserves DEF Admin!Disconnect
<1>10. ASSUME NEW r \in Requests, NEW i \in Ids, Admin!Delete(r, i)
       PROVE  CatalogueInv'
  BY <1>10, DeletePreserves
<1> QED BY <1>1, <1>2, <1>3, <1>4, <1>5, <1>6, <1>7, <1>8, <1>9, <1>10
        DEF Admin!CatalogueNext

\* For any rows, inputs and number of handlers, the associations of a problem
\* belong to the write that its columns come from (content UpdateProblem, seed
\* seedProblems).
THEOREM AssociationsOfOneWriteHolds ==
  ASSUME CatalogueAssumption
  PROVE  ServicesSpec => []AssociationsOfOneWrite
<1> DEFINE Inv == service = "catalogue" => CatalogueInv
<1>1. ServicesInit => Inv
  BY DEF ServicesInit, Admin!CatalogueInit, CatalogueInv, CatalogueTypes, LocksOK,
         WritingOK, Writing, SeenOK, Admin!Holds, Admin!AssociationsOfOneWrite, Admin!Live
<1>2. Inv /\ [ServicesNext]_vars => Inv'
  BY Zenon, StepIs, CataloguePreserves
<1>3. Inv => AssociationsOfOneWrite
  BY DEF AssociationsOfOneWrite, CatalogueInv
<1> QED BY <1>1, <1>2, <1>3, PTL DEF ServicesSpec

-----------------------------------------------------------------------------
(***************************************************************************)
(* The plan engine: the theorem of CurriculumProofs, of this instance.     *)
(***************************************************************************)
LEMMA PlanOK == ServicesSpec => [](EveryTaskOnce /\ OverflowOnlyWhenFull)
<1> DEFINE Here == service = "plan engine"
<1>1. ServicesInit /\ Here => Engine!CurriculumInit
  BY Zenon DEF ServicesInit
<1>2. Here /\ [ServicesNext]_vars => Here' /\ [Engine!CurriculumNext]_(Engine!curriculumVars)
  BY Zenon, StepIs
<1>3. ~Here /\ [ServicesNext]_vars => ~Here'
  BY Zenon, StepIs
<1>4. Engine!CurriculumInit /\ [][Engine!CurriculumNext]_(Engine!curriculumVars)
        => [](Engine!EveryTaskOnce /\ Engine!OverflowOnlyWhenFull)
  <2>1. Engine!CurriculumAssumption
    BY ServicesAssumption DEF EngineAssumption
  <2> QED BY <2>1, Engine!PlanIsComplete DEF Engine!CurriculumSpec
<1>5. Engine!EveryTaskOnce /\ Engine!OverflowOnlyWhenFull => EveryTaskOnce /\ OverflowOnlyWhenFull
  BY DEF EveryTaskOnce, OverflowOnlyWhenFull
<1>6. ~Here => EveryTaskOnce /\ OverflowOnlyWhenFull
  BY Zenon DEF EveryTaskOnce, OverflowOnlyWhenFull
<1> QED BY <1>1, <1>2, <1>3, <1>4, <1>5, <1>6, PTL DEF ServicesSpec

\* The days of a plan hold every task of every picked topic exactly once, for any
\* catalogue and profile (curriculum engine Generate, buildWeek, packTasks).
THEOREM EveryTaskOnceHolds == ServicesSpec => []EveryTaskOnce
BY PlanOK, PTL

\* A week is over its budget only when one of its topics has room in no other week
\* either, for any catalogue and profile (curriculum engine sequenceWeeks).
THEOREM OverflowOnlyWhenFullHolds == ServicesSpec => []OverflowOnlyWhenFull
BY PlanOK, PTL

-----------------------------------------------------------------------------
(***************************************************************************)
(* Code execution: v1 and v2 are run and answer.  A process that was       *)
(* killed was so by the deadline, and only a compiler fails.               *)
(***************************************************************************)
Process ==
  [program : Programs, command : {"compiler", "program"}, late : BOOLEAN,
   process : {"running", "killed", "failed", "ended"}, child : BOOLEAN]
Sound(x) ==
  /\ x \in Process
  /\ x.process = "killed" => x.late
  /\ x.process = "failed" => x.command = "compiler"

CodeInv ==
  /\ v1 = [r \in Runs |-> v1[r]] /\ v2 = [r \in Runs |-> v2[r]]
  /\ \A r \in Runs : v1[r] # None => Sound(v1[r])
  /\ Runner!NoSilentKill

LEMMA ProcessMoves ==
  ASSUME CodeInv, NEW r \in Runs, NEW x, Sound(x), v1' = [v1 EXCEPT ![r] = x],
         v2' \in {v2, [v2 EXCEPT ![r] = None]}
  PROVE  CodeInv'
BY DEF CodeInv, Runner!NoSilentKill

LEMMA Replies ==
  ASSUME CodeInv, NEW r \in Runs, NEW said, NEW left, v1' = [v1 EXCEPT ![r] = left],
         left # None => Sound(left), said.message = "none" => said.whole,
         v2' = [v2 EXCEPT ![r] = said]
  PROVE  CodeInv'
BY DEF CodeInv, Runner!NoSilentKill

LEMMA RunPreserves ==
  ASSUME CodeInv, NEW r \in Runs, NEW program \in Programs, Runner!Run(r, program)
  PROVE  CodeInv'
<1>1. ASSUME NEW message \in {"unsupported language", "executor unavailable"},
             v2' = [v2 EXCEPT ![r] = Runner!Refusal(message)], UNCHANGED v1
      PROVE  CodeInv'
  BY Zenon, <1>1 DEF CodeInv, Runner!NoSilentKill, Runner!Refusal
<1>2. ASSUME NEW name \in {"compiler", "program"},
             v1' = [v1 EXCEPT ![r] = Runner!Started(program, name)],
             v2' = [v2 EXCEPT ![r] = None]
      PROVE  CodeInv'
  <2>1. Sound(Runner!Started(program, name))
    BY DEF Sound, Process, Runner!Started
  <2> QED BY <1>2, <2>1, ProcessMoves
<1>3. (IF program.language \in Runner!Compiled THEN "compiler" ELSE "program")
        \in {"compiler", "program"}
  OBVIOUS
<1> QED BY Zenon, <1>1, <1>2, <1>3 DEF Runner!Run

LEMMA ProcessPreserves ==
  ASSUME CodeInv, NEW r \in Runs, Runner!Deadline(r) \/ Runner!Ends(r) \/ Runner!ChildEnds(r)
  PROVE  CodeInv'
<1>1. v1[r] # None /\ Sound(v1[r]) /\ UNCHANGED v2
  BY DEF CodeInv, Runner!Deadline, Runner!Ends, Runner!ChildEnds, Runner!Running
<1>2. CASE Runner!Deadline(r)
  <2> DEFINE x == [v1[r] EXCEPT !.late = TRUE,
                                !.process = IF @ = "running" THEN "killed" ELSE @]
  <2>1. Sound(x)
    BY <1>1 DEF Sound, Process
  <2>2. v1' = [v1 EXCEPT ![r] = x]
    BY <1>2 DEF Runner!Deadline
  <2> HIDE DEF x
  <2> QED BY <1>1, <2>1, <2>2, ProcessMoves
<1>3. CASE Runner!Ends(r)
  <2> DEFINE x == [v1[r] EXCEPT !.process =
                     IF Runner!Command(r, "compiler") /\ ~v1[r].program.builds
                     THEN "failed" ELSE "ended"]
  <2>1. Sound(x)
    BY <1>1 DEF Sound, Process, Runner!Command
  <2>2. v1' = [v1 EXCEPT ![r] = x]
    BY <1>3 DEF Runner!Ends
  <2> HIDE DEF x
  <2> QED BY <1>1, <2>1, <2>2, ProcessMoves
<1>4. CASE Runner!ChildEnds(r)
  <2> DEFINE x == [v1[r] EXCEPT !.child = FALSE]
  <2>1. Sound(x)
    BY <1>1 DEF Sound, Process
  <2>2. v1' = [v1 EXCEPT ![r] = x]
    BY <1>4 DEF Runner!ChildEnds
  <2> HIDE DEF x
  <2> QED BY <1>1, <2>1, <2>2, ProcessMoves
<1> QED BY <1>2, <1>3, <1>4

LEMMA ReturnPreserves ==
  ASSUME CodeInv, NEW r \in Runs, Runner!CompilerReturns(r) \/ Runner!ProgramReturns(r)
  PROVE  CodeInv'
<1>1. v1[r] # None /\ Sound(v1[r])
  BY Zenon DEF CodeInv, Runner!CompilerReturns, Runner!ProgramReturns, Runner!Command, Runner!Running
<1>2. ASSUME NEW message, message = "none" => v1[r].process = "ended", Runner!Reply(r, message)
      PROVE  CodeInv'
  <2> DEFINE said == [ran |-> TRUE, message |-> message, whole |-> v1[r].process = "ended"]
  <2>1. said.message = "none" => said.whole
    BY <1>2
  <2>2. v1' = [v1 EXCEPT ![r] = None] /\ v2' = [v2 EXCEPT ![r] = said]
    BY <1>2 DEF Runner!Reply
  <2> HIDE DEF said
  <2> QED BY <2>1, <2>2, Replies
<1>3. CASE Runner!ProgramReturns(r)
  <2>1. Runner!Message(r) = "none" => ~v1[r].late
    BY DEF Runner!Message
  <2>2. v1[r].command = "program" /\ v1[r].process # "running"
    BY <1>3 DEF Runner!ProgramReturns, Runner!Command, Runner!Returned
  <2>3. Runner!Message(r) = "none" => v1[r].process = "ended"
    BY <1>1, <2>1, <2>2 DEF Sound, Process
  <2>4. Runner!Reply(r, Runner!Message(r))
    BY <1>3 DEF Runner!ProgramReturns
  <2> QED BY <1>2, <2>3, <2>4
<1>4. CASE Runner!CompilerReturns(r) /\ v1[r].process # "ended"
  BY Zenon, <1>2, <1>4 DEF Runner!CompilerReturns
<1>5. CASE Runner!CompilerReturns(r) /\ v1[r].process = "ended"
  <2> DEFINE x == [Runner!Started(v1[r].program, "program") EXCEPT
                     !.late = v1[r].late,
                     !.process = IF v1[r].late THEN "killed" ELSE "running",
                     !.child = IF v1[r].late THEN FALSE ELSE @]
  <2>1. Sound(x)
    <3>0. v1[r].program \in Programs
      BY <1>1 DEF Sound, Process
    <3>1. PICK started : /\ started = Runner!Started(v1[r].program, "program")
                         /\ started \in Process
      <4>1. Runner!Started(v1[r].program, "program") \in Process
        BY <3>0 DEF Runner!Started, Process
      <4> QED BY <4>1
    <3>2. v1[r].late \in BOOLEAN
      BY <1>1 DEF Sound, Process
    <3> HIDE DEF x
    <3>3. x \in Process /\ x.late = v1[r].late
          /\ x.process = IF v1[r].late THEN "killed" ELSE "running"
      BY <3>1, <3>2 DEF x, Process
    <3> QED BY <3>2, <3>3 DEF Sound
  <2>2. v1' = [v1 EXCEPT ![r] = x] /\ UNCHANGED v2
    BY <1>5 DEF Runner!CompilerReturns
  <2> HIDE DEF x
  <2> QED BY <2>1, <2>2, ProcessMoves
<1> QED BY <1>3, <1>4, <1>5

\* What is answered without a message ended by itself, however the deadline
\* falls (coderun spawn, runCmd).
THEOREM NoSilentKillHolds == ServicesSpec => []NoSilentKill
<1> DEFINE Inv == service = "code" => CodeInv
<1>1. ServicesInit => Inv
  BY DEF ServicesInit, Runner!CodeInit, CodeInv, Runner!NoSilentKill
<1>2. CodeInv /\ [Runner!CodeNext]_(Runner!codeVars) => CodeInv'
  <2>1. CodeInv /\ UNCHANGED Runner!codeVars => CodeInv'
    BY DEF CodeInv, Runner!codeVars, Runner!NoSilentKill
  <2>2. CodeInv /\ Runner!CodeNext => CodeInv'
    BY RunPreserves, ProcessPreserves, ReturnPreserves DEF Runner!CodeNext
  <2> QED BY <2>1, <2>2
<1>3. Inv /\ [ServicesNext]_vars => Inv'
  BY Zenon, <1>2, StepIs
<1>4. Inv => NoSilentKill
  BY DEF NoSilentKill, CodeInv
<1> QED BY <1>1, <1>3, <1>4, PTL DEF ServicesSpec

-----------------------------------------------------------------------------
(***************************************************************************)
(* The intake form: v1, v2 and v3 are profile, write and answer.  The row  *)
(* that a transaction has written fits what it was asked for, whatever the *)
(* row was when it looked, and what it has read back is that row.          *)
(***************************************************************************)
FormNames == {form.form : form \in Forms}
Targets == {form.target : form \in Forms} \cup Known
ProfileRow == [form : FormNames, target : Targets]
Transaction ==
  [asked : [form : FormNames \cup {None}, target : Targets],
   step : {"begun", "found", "written", "read"}, found : BOOLEAN,
   row : ProfileRow \cup {None}, shown : ProfileRow \cup {None}]

IntakeAssumption == None \notin ProfileRow \cup Transaction

Fits(asked, row) ==
  /\ row \in ProfileRow /\ row.target = asked.target
  /\ asked.form # None => row.form = asked.form
Consistent(w) ==
  /\ w \in Transaction
  /\ w.step = "found" /\ ~w.found => w.asked.form # None
  /\ w.step \in {"written", "read"} => Fits(w.asked, w.row)
  /\ w.step = "read" => w.shown = w.row

IntakeInv ==
  /\ v1 \in ProfileRow \cup {None}
  /\ v2 = [r \in Requests |-> v2[r]] /\ v3 = [r \in Requests |-> v3[r]]
  /\ \A r \in Requests : v2[r] # None => Consistent(v2[r])
  /\ Profile!AnswerShowsTheWrite

\* A transaction goes on, and an earlier answer is forgotten or not.
LEMMA Proceeds ==
  ASSUME IntakeInv, NEW r \in Requests, NEW w, Consistent(w), v2' = [v2 EXCEPT ![r] = w],
         v3' \in {v3, [v3 EXCEPT ![r] = None]}, UNCHANGED v1
  PROVE  IntakeInv'
BY DEF IntakeInv, Profile!AnswerShowsTheWrite

Shown(said) ==
  said # None /\ said.status = 200 =>
    /\ said.shown # None /\ said.shown.target = said.asked.target
    /\ said.shown.form \in FormNames
    /\ said.asked.form # None => said.shown.form = said.asked.form

\* A request is answered.
LEMMA Answers ==
  ASSUME IntakeInv, NEW r \in Requests, NEW said, Shown(said),
         v3' = [v3 EXCEPT ![r] = said], v2' \in {v2, [v2 EXCEPT ![r] = None]},
         v1' \in ProfileRow \cup {None}
  PROVE  IntakeInv'
<1>1. ASSUME NEW s \in Requests PROVE Shown(v3'[s])
  <2>1. Shown(v3[s])
    BY DEF IntakeInv, Profile!AnswerShowsTheWrite, Shown, FormNames
  <2>2. v3'[s] = IF s = r THEN said ELSE v3[s]
    BY DEF IntakeInv
  <2> QED BY <2>1, <2>2
<1>2. Profile!AnswerShowsTheWrite'
  BY <1>1 DEF Profile!AnswerShowsTheWrite, Shown, FormNames
<1> QED BY <1>2 DEF IntakeInv

LEMMA Refuses ==
  ASSUME IntakeInv, NEW r \in Requests, NEW status \in {404, 422, 500},
         v3' = [v3 EXCEPT ![r] = Profile!Error(status)],
         v2' \in {v2, [v2 EXCEPT ![r] = None]}, UNCHANGED v1
  PROVE  IntakeInv'
<1>1. Shown(Profile!Error(status))
  BY DEF Shown, Profile!Error
<1>2. v1' \in ProfileRow \cup {None}
  BY DEF IntakeInv
<1> QED BY <1>1, <1>2, Answers

LEMMA StartPreserves ==
  ASSUME IntakeInv, NEW r \in Requests, UNCHANGED v1,
         NEW asked \in [form : FormNames \cup {None}, target : Targets],
         Profile!Start(r, asked)
  PROVE  IntakeInv'
<1> DEFINE w == [asked |-> asked, step |-> "begun", found |-> FALSE, row |-> None,
                 shown |-> None]
<1>1. Consistent(w)
  BY DEF Consistent, Transaction
<1>2. v2' = [v2 EXCEPT ![r] = w] /\ v3' = [v3 EXCEPT ![r] = None]
  BY DEF Profile!Start
<1> HIDE DEF w
<1> QED BY <1>1, <1>2, Proceeds

LEMMA AskPreserves ==
  ASSUME IntakeInv, NEW r \in Requests,
         \/ \E form \in Forms : Profile!Upsert(r, form)
         \/ \E company \in Companies : Profile!SetTarget(r, company)
  PROVE  IntakeInv'
<1>1. ASSUME NEW form \in Forms, Profile!Upsert(r, form) PROVE IntakeInv'
  <2> DEFINE asked == [form |-> form.form, target |-> form.target]
  <2>1. asked \in [form : FormNames \cup {None}, target : Targets]
    BY DEF FormNames, Targets
  <2>2. CASE Profile!Refused(form)
    BY <1>1, <2>2, Refuses DEF Profile!Upsert
  <2>3. CASE ~Profile!Refused(form)
    BY <1>1, <2>1, <2>3, StartPreserves DEF Profile!Upsert
  <2> QED BY <2>2, <2>3
<1>2. ASSUME NEW company \in Companies, Profile!SetTarget(r, company) PROVE IntakeInv'
  <2> DEFINE asked == [form |-> None, target |-> company]
  <2>1. CASE company \notin Known
    BY <1>2, <2>1, Refuses DEF Profile!SetTarget
  <2>2. CASE company \in Known
    <3>1. asked \in [form : FormNames \cup {None}, target : Targets]
      BY <2>2 DEF Targets
    <3> QED BY <1>2, <2>2, <3>1, StartPreserves DEF Profile!SetTarget
  <2> QED BY <2>1, <2>2
<1> QED BY <1>1, <1>2

LEMMA FindPreserves ==
  ASSUME IntakeInv, NEW r \in Requests, Profile!Find(r)
  PROVE  IntakeInv'
<1>1. v2[r] \in Transaction /\ UNCHANGED v1
  BY DEF IntakeInv, Profile!Find, Profile!At, Consistent
<1>2. CASE v1 = None /\ ~Profile!IsForm(r)
  BY <1>2, Refuses DEF Profile!Find, Profile!Ends
<1>3. CASE ~(v1 = None /\ ~Profile!IsForm(r))
  <2> DEFINE w == [v2[r] EXCEPT !.step = "found", !.found = v1 # None]
  <2>1. Consistent(w)
    BY <1>1, <1>3 DEF Consistent, Transaction, Profile!IsForm
  <2>2. v2' = [v2 EXCEPT ![r] = w] /\ UNCHANGED v3
    BY <1>3 DEF Profile!Find
  <2> HIDE DEF w
  <2> QED BY <1>1, <2>1, <2>2, Proceeds
<1> QED BY <1>2, <1>3

LEMMA WriteRowPreserves ==
  ASSUME IntakeAssumption, IntakeInv, NEW r \in Requests,
         Profile!Create(r) \/ Profile!Update(r)
  PROVE  IntakeInv'
<1>1. v2[r] \in Transaction /\ Consistent(v2[r]) /\ v2[r].step = "found" /\ UNCHANGED v1
  BY DEF IntakeInv, Profile!Create, Profile!Update, Profile!At, Consistent
<1>2. ASSUME NEW row, Fits(v2[r].asked, row), Profile!Written(r, row)
      PROVE  IntakeInv'
  <2> DEFINE w == [v2[r] EXCEPT !.step = "written", !.row = row]
  <2>1. Consistent(w)
    BY <1>1, <1>2 DEF Consistent, Transaction, Fits
  <2>2. v2' = [v2 EXCEPT ![r] = w] /\ UNCHANGED v3
    BY <1>2 DEF Profile!Written
  <2> HIDE DEF w
  <2> QED BY <1>1, <2>1, <2>2, Proceeds
<1>3. ASSUME Profile!Ends(r, Profile!Error(500)) PROVE IntakeInv'
  <2>1. PICK said : said = Profile!Error(500)
    OBVIOUS
  <2>2. Shown(said)
    BY <2>1 DEF Shown, Profile!Error
  <2>3. v3' = [v3 EXCEPT ![r] = said] /\ v2' \in {v2, [v2 EXCEPT ![r] = None]}
    BY <1>3, <2>1 DEF Profile!Ends
  <2>4. v1' \in ProfileRow \cup {None}
    BY <1>1 DEF IntakeInv
  <2> QED BY <2>2, <2>3, <2>4, Answers
<1>4. v2[r].asked.form # None => Fits(v2[r].asked, v2[r].asked)
  BY <1>1 DEF Fits, Transaction, ProfileRow
<1>5. ASSUME v1 # None, v2[r].asked.form = None
      PROVE  Fits(v2[r].asked, [v1 EXCEPT !.target = v2[r].asked.target])
  BY <1>1, <1>5 DEF Fits, Transaction, ProfileRow, IntakeInv
<1>6. CASE Profile!Create(r)
  BY <1>1, <1>2, <1>3, <1>4, <1>6 DEF Profile!Create, Consistent
<1>7. CASE Profile!Update(r)
  BY <1>1, <1>2, <1>3, <1>4, <1>5, <1>7 DEF Profile!Update, Profile!IsForm
<1> QED BY <1>6, <1>7

LEMMA EndPreserves ==
  ASSUME IntakeAssumption, IntakeInv, NEW r \in Requests,
         Profile!Reload(r) \/ Profile!Commit(r) \/ Profile!Disconnect(r)
  PROVE  IntakeInv'
<1>1. v2[r] \in Transaction /\ Consistent(v2[r])
  BY DEF IntakeInv, Profile!Reload, Profile!Commit, Profile!Disconnect, Profile!At,
         Profile!Idle, Consistent
<1>2. CASE Profile!Reload(r)
  <2> DEFINE w == [v2[r] EXCEPT !.step = "read", !.shown = v2[r].row]
  <2>1. Consistent(w)
    BY <1>1, <1>2 DEF Consistent, Transaction, Fits, Profile!Reload, Profile!At
  <2>2. v2' = [v2 EXCEPT ![r] = w] /\ UNCHANGED <<v1, v3>>
    BY <1>2 DEF Profile!Reload, Profile!View
  <2> HIDE DEF w
  <2> QED BY <2>1, <2>2, Proceeds
<1>3. CASE Profile!Commit(r)
  <2> DEFINE said == [status |-> 200, asked |-> v2[r].asked, shown |-> v2[r].shown]
  <2>1. Fits(v2[r].asked, v2[r].row) /\ v2[r].shown = v2[r].row
    BY <1>1, <1>3 DEF Consistent, Profile!Commit, Profile!At
  <2>2. Shown(said) /\ v2[r].row \in ProfileRow
    BY <2>1 DEF Shown, Fits, ProfileRow, IntakeAssumption
  <2>3. /\ v3' = [v3 EXCEPT ![r] = said] /\ v2' = [v2 EXCEPT ![r] = None]
        /\ v1' = v2[r].row
    BY <1>3 DEF Profile!Commit, Profile!Ends
  <2> HIDE DEF said
  <2> QED BY <2>2, <2>3, Answers
<1>4. CASE Profile!Disconnect(r)
  <2>1. Shown(None)
    BY DEF Shown
  <2>2. v1' \in ProfileRow \cup {None}
    BY <1>4 DEF Profile!Disconnect, IntakeInv
  <2> QED BY <1>4, <2>1, <2>2, Answers DEF Profile!Disconnect, Profile!Ends
<1> QED BY <1>2, <1>3, <1>4

\* Whatever forms and targets race, a request that is answered with a profile is
\* shown what it asked for (intake Upsert, company SetTargetCompany).
THEOREM AnswerShowsTheWriteHolds ==
  ASSUME IntakeAssumption
  PROVE  ServicesSpec => []AnswerShowsTheWrite
<1> DEFINE Inv == service = "intake" => IntakeInv
<1>1. ServicesInit => Inv
  BY DEF ServicesInit, Profile!IntakeInit, IntakeInv, Profile!AnswerShowsTheWrite
<1>2. IntakeInv /\ [Profile!IntakeNext]_(Profile!intakeVars) => IntakeInv'
  <2>1. IntakeInv /\ UNCHANGED Profile!intakeVars => IntakeInv'
    BY DEF IntakeInv, Profile!intakeVars, Profile!AnswerShowsTheWrite
  <2>2. IntakeInv /\ Profile!DeleteAccount => IntakeInv'
    BY DEF IntakeInv, Profile!DeleteAccount, Profile!AnswerShowsTheWrite
  <2>3. ASSUME IntakeInv, Profile!IntakeNext, ~Profile!DeleteAccount PROVE IntakeInv'
    BY <2>3, AskPreserves, FindPreserves, WriteRowPreserves, EndPreserves DEF Profile!IntakeNext
  <2> QED BY <2>1, <2>2, <2>3
<1>3. Inv /\ [ServicesNext]_vars => Inv'
  BY Zenon, <1>2, StepIs
<1>4. Inv => AnswerShowsTheWrite
  BY DEF AnswerShowsTheWrite, IntakeInv
<1> QED BY <1>1, <1>3, <1>4, PTL DEF ServicesSpec

-----------------------------------------------------------------------------
(***************************************************************************)
(* The resume: v1 is profile, v5 is serving.  A score is written to the    *)
(* profile it was computed from or, when that is deleted, nowhere.         *)
(***************************************************************************)
Columns == {"input", "score", "live"}
OwnScore(i, row) ==
  /\ row = [k \in Columns |-> row[k]]
  /\ row.score # None => row.score.of = i

ResumeInv ==
  /\ v1 = [i \in Profiles |-> v1[i]]
  /\ \A i \in Profiles : v1[i] # None => OwnScore(i, v1[i])

\* An edit of a column: no score, or one of this profile.
LEMMA EditKeeps ==
  ASSUME ResumeInv, NEW i, NEW column \in Columns, NEW value,
         column = "score" /\ value # None => value.of = i,
         v1' = Cv!Edit(v1, i, column, value)
  PROVE  ResumeInv'
<1>1. CASE UNCHANGED v1
  BY <1>1 DEF ResumeInv
<1>2. CASE i \in Profiles /\ v1[i] # None /\ v1' = [v1 EXCEPT ![i][column] = value]
  <2> DEFINE row == [v1[i] EXCEPT ![column] = value]
  <2>1. /\ v1[i] = [k \in Columns |-> v1[i][k]]
        /\ v1[i].score # None => v1[i].score.of = i
    BY <1>2 DEF ResumeInv, OwnScore
  <2>2. row = [k \in Columns |-> IF k = column THEN value ELSE v1[i][k]]
    BY <2>1
  <2>3. v1' = [v1 EXCEPT ![i] = row]
    BY <1>2
  <2> HIDE DEF row
  <2>4. OwnScore(i, row)
    BY <2>1, <2>2 DEF OwnScore, Columns
  <2> QED BY <2>3, <2>4 DEF ResumeInv
<1> QED BY <1>1, <1>2 DEF Cv!Edit, Cv!IsLive, ResumeInv

\* The write of a request; nothing is assumed of what it has read.
LEMMA WriteKeeps ==
  ASSUME ResumeInv, NEW r \in Requests, Cv!Write(r)
  PROVE  ResumeInv'
<1> DEFINE w == v5[r]
<1>1. CASE w.op = "create_profile"
  <2>1. Cv!InsertProfile(w.input)
    BY <1>1 DEF Cv!Write
  <2> DEFINE row == [input |-> w.input, score |-> None, live |-> TRUE]
             i == Cv!Min(Cv!Fresh(v1))
  <2>2. UNCHANGED v1 \/ v1' = [v1 EXCEPT ![i] = row]
    BY <2>1 DEF Cv!InsertProfile
  <2>3. \A j : OwnScore(j, row)
    BY DEF OwnScore, Columns
  <2> HIDE DEF row, i
  <2> QED BY <2>2, <2>3 DEF ResumeInv
<1>2. CASE w.op = "update_profile"
  BY <1>2, EditKeeps DEF Cv!Write, Columns
<1>3. CASE w.op = "score"
  <2> DEFINE value == [of |-> w.id, score |-> w.score]
  <2>1. v1' = Cv!Edit(v1, w.id, "score", value)
    BY <1>3 DEF Cv!Write, Cv!Scored
  <2>2. value.of = w.id
    OBVIOUS
  <2> HIDE DEF value
  <2> QED BY <2>1, <2>2, EditKeeps DEF Columns
<1>4. CASE w.op = "delete_profile"
  <2>1. v1' = [i \in Profiles |-> IF Cv!IsLive(v1[i]) THEN [v1[i] EXCEPT !.live = FALSE]
                                                    ELSE v1[i]]
    BY <1>4 DEF Cv!Write
  <2>2. ASSUME NEW i \in Profiles, v1[i] # None
        PROVE  OwnScore(i, v1[i]) /\ OwnScore(i, [v1[i] EXCEPT !.live = FALSE])
    <3>1. OwnScore(i, v1[i])
      BY <2>2 DEF ResumeInv
    <3> DEFINE row == [v1[i] EXCEPT !.live = FALSE]
    <3>2. row = [k \in Columns |-> IF k = "live" THEN FALSE ELSE v1[i][k]]
      BY <3>1 DEF OwnScore
    <3> HIDE DEF row
    <3>3. OwnScore(i, row)
      BY <3>1, <3>2 DEF OwnScore, Columns
    <3> QED BY <3>1, <3>3 DEF row
  <2> QED BY <2>1, <2>2 DEF ResumeInv, Cv!IsLive
<1>5. CASE w.op \notin {"create_profile", "update_profile", "score", "delete_profile"}
  <2>1. UNCHANGED v1
    BY <1>5 DEF Cv!Write
  <2> QED BY <2>1 DEF ResumeInv
<1> QED BY <1>1, <1>2, <1>3, <1>4, <1>5

\* A score that is computed while its profile is deleted and replaced never ends
\* up on the successor (resume service Score, repository UpdateScore).
THEOREM ScoreIsItsOwnHolds == ServicesSpec => []ScoreIsItsOwn
<1> DEFINE Inv == service = "resume" => ResumeInv
<1>1. ServicesInit => Inv
  BY DEF ServicesInit, Cv!ResumeInit, ResumeInv
<1>2. ResumeInv /\ [Cv!ResumeNext]_(Cv!resumeVars) => ResumeInv'
  <2>1. ResumeInv /\ UNCHANGED v1 => ResumeInv'
    BY DEF ResumeInv
  <2>2. Cv!ResumeNext => UNCHANGED v1 \/ \E r \in Requests : Cv!Write(r)
    BY DEF Cv!ResumeNext, Cv!Read, Cv!UpsertProfile, Cv!DeleteProfile, Cv!Score,
           Cv!CreateProject, Cv!UpdateProject, Cv!DeleteProject, Cv!UploadFile, Cv!DeleteFile
  <2> QED BY <2>1, <2>2, WriteKeeps DEF Cv!resumeVars
<1>3. Inv /\ [ServicesNext]_vars => Inv'
  BY Zenon, <1>2, StepIs
<1>4. Inv => ScoreIsItsOwn
  BY DEF ScoreIsItsOwn, ResumeInv, OwnScore, Cv!ScoreIsItsOwn
<1> QED BY <1>1, <1>3, <1>4, PTL DEF ServicesSpec

-----------------------------------------------------------------------------
(***************************************************************************)
(* The AI features: v4, v6 and v7 are asking, cache and reply.  An answer  *)
(* that a request has, and one in the cache, is to the prompt it is kept   *)
(* under; and nothing is read any more once there may be an answer.        *)
(***************************************************************************)
AskColumns == {"ask", "read", "step", "answer"}
Answered(a) ==
  /\ a = [k \in AskColumns |-> a[k]]
  /\ a.ask.feature \in Features
  /\ a.step = "read" => a.answer = None
  /\ a.answer # None => a.answer.to = Ai!Prompt(a.ask, a.read)
CacheSound(cache) == \A k \in DOMAIN cache : cache[k] # None => cache[k].to = k[2]

AssistInv ==
  /\ v4 = [r \in Requests |-> v4[r]]
  /\ \A r \in Requests : v4[r] # None => Answered(v4[r])
  /\ CacheSound(v6)
  /\ Ai!AnswersTheQuestion

\* A text is the provider's only if there is one of its answers.
LEMMA ContentIs ==
  ASSUME NEW answer, NEW own, NEW content,
         content = Ai!Content(answer, own) \/ content = Ai!Suggestions(answer, own),
         content.by = "provider"
  PROVE  answer # None /\ content.to = answer.to
<1>1. ASSUME NEW a, content = Ai!Content(a, own) PROVE a # None /\ content.to = a.to
  BY <1>1 DEF Ai!Content
<1>2. CASE content = Ai!Content(answer, own)
  BY <1>1, <1>2
<1>3. CASE content = Ai!Suggestions(answer, own)
  BY <1>1, <1>3 DEF Ai!Suggestions
<1> QED BY <1>2, <1>3

\* The text of every reply is made by Content or Suggestions.
LEMMA ReplyIs ==
  ASSUME NEW ask, NEW read, NEW answer, ask.feature \in Features
  PROVE  \E own : \/ Ai!Reply(ask, read, answer).content = Ai!Content(answer, own)
                  \/ Ai!Reply(ask, read, answer).content = Ai!Suggestions(answer, own)
<1>1. \E own : Ai!Planner(ask, read, answer).content = Ai!Content(answer, own)
  BY DEF Ai!Planner
<1>2. \E own : Ai!Coach(ask, answer).content = Ai!Content(answer, own)
  BY DEF Ai!Coach
<1>3. \E own : Ai!DailyPlan(read, answer).content = Ai!Content(answer, own)
  BY DEF Ai!DailyPlan
<1>4. \E own : Ai!SDReview(ask, answer).content = Ai!Content(answer, own)
  BY DEF Ai!SDReview
<1>5. \E own : Ai!LLDReview(ask, answer).content = Ai!Content(answer, own)
  BY DEF Ai!LLDReview
<1>6. \E own : Ai!CodeReview(ask, answer).content = Ai!Content(answer, own)
  BY DEF Ai!CodeReview
<1>7. \E own : Ai!StoryImprove(ask, read, answer).content = Ai!Suggestions(answer, own)
  BY DEF Ai!StoryImprove
<1>8. \E own : Ai!ResumeReview(read, answer).content = Ai!Suggestions(answer, own)
  BY DEF Ai!ResumeReview
<1>9. \E own : Ai!WeaknessDetect(read, answer).content = Ai!Suggestions(answer, own)
  BY DEF Ai!WeaknessDetect
<1> QED BY Zenon, <1>1, <1>2, <1>3, <1>4, <1>5, <1>6, <1>7, <1>8, <1>9 DEF Ai!Reply, Features

\* A request goes on, or ends without a reply.
LEMMA AskGoesOn ==
  ASSUME AssistInv, NEW r \in Requests, NEW a, a # None => Answered(a),
         v4' = [v4 EXCEPT ![r] = a], v7' = None, CacheSound(v6)'
  PROVE  AssistInv'
BY DEF AssistInv, Ai!AnswersTheQuestion

\* It moves to another step, and has the answer of the cache or the provider.
LEMMA Moves ==
  ASSUME NEW a, Answered(a), NEW step, NEW answer, step # "read",
         answer # None => answer.to = Ai!Prompt(a.ask, a.read)
  PROVE  /\ Answered([a EXCEPT !.step = step, !.answer = answer])
         /\ Answered([a EXCEPT !.step = step])
<1>1. ASSUME NEW said, said # None => said.to = Ai!Prompt(a.ask, a.read), NEW b,
             b = [k \in AskColumns |-> IF k = "step" THEN step
                                       ELSE IF k = "answer" THEN said ELSE a[k]]
      PROVE  Answered(b)
  <2>1. /\ b.ask = a.ask /\ b.read = a.read /\ b.step = step /\ b.answer = said
        /\ b = [k \in AskColumns |-> b[k]] /\ b.ask.feature \in Features
    BY <1>1 DEF AskColumns, Answered
  <2> QED BY <1>1, <2>1 DEF Answered
<1>2. [a EXCEPT !.step = step, !.answer = answer] =
        [k \in AskColumns |-> IF k = "step" THEN step
                              ELSE IF k = "answer" THEN answer ELSE a[k]]
  BY DEF Answered, AskColumns
<1>3. [a EXCEPT !.step = step] =
        [k \in AskColumns |-> IF k = "step" THEN step
                              ELSE IF k = "answer" THEN a.answer ELSE a[k]]
  BY DEF Answered, AskColumns
<1>4. a.answer # None => a.answer.to = Ai!Prompt(a.ask, a.read)
  BY DEF Answered
<1>5. Answered([a EXCEPT !.step = step, !.answer = answer])
  BY <1>1, <1>2
<1>6. Answered([a EXCEPT !.step = step])
  BY <1>1, <1>3, <1>4
<1> QED BY <1>5, <1>6

LEMMA AskPreservesAnswers ==
  ASSUME AssistAssumption, AssistInv, NEW r \in Requests, NEW feature \in DOMAIN AskBodies,
         NEW body, Ai!Ask(r, [feature |-> feature, body |-> body])
  PROVE  AssistInv'
<1> DEFINE ask == [feature |-> feature, body |-> body]
           a == [ask |-> ask, read |-> <<>>, step |-> "read", answer |-> None]
<1>1. a.ask.feature \in Features /\ a.step = "read" /\ a.answer = None
  BY DEF AssistAssumption
<1>2. a = [k \in AskColumns |-> a[k]]
  BY DEF AskColumns
<1>3. /\ v4' = [v4 EXCEPT ![r] = a] /\ v7' = None /\ UNCHANGED v6
  BY DEF Ai!Ask
<1> HIDE DEF a
<1>4. Answered(a) /\ CacheSound(v6)'
  BY <1>1, <1>2, <1>3 DEF Answered, AssistInv, CacheSound
<1> QED BY <1>3, <1>4, AskGoesOn

LEMMA ReadPreservesAnswers ==
  ASSUME AssistInv, NEW r \in Requests, Ai!ReadSource(r)
  PROVE  AssistInv'
<1>1. v4[r] # None /\ Answered(v4[r]) /\ v4[r].step = "read" /\ v4[r].answer = None
  BY DEF AssistInv, Ai!ReadSource, Ai!At, Answered
<1>2. PICK read, a : /\ v4' = [v4 EXCEPT ![r] = a] /\ v7' = None /\ UNCHANGED v6
                     /\ a = None \/ a = [v4[r] EXCEPT !.read = read]
  BY DEF Ai!ReadSource
<1>3. [v4[r] EXCEPT !.read = read] =
        [k \in AskColumns |-> IF k = "read" THEN read ELSE v4[r][k]]
  BY <1>1 DEF Answered, AskColumns
<1>4. a # None => Answered(a)
  BY <1>1, <1>2, <1>3 DEF Answered, AskColumns
<1>5. CacheSound(v6)'
  BY <1>2 DEF AssistInv, CacheSound
<1> QED BY <1>2, <1>4, <1>5, AskGoesOn

LEMMA CompletePreservesAnswers ==
  ASSUME AssistInv, NEW r \in Requests, Ai!Lookup(r) \/ Ai!Complete(r) \/ Ai!StoreAnswer(r)
  PROVE  AssistInv'
<1>1. v4[r] # None /\ Answered(v4[r]) /\ v7' = None
  BY Zenon DEF AssistInv, Ai!Lookup, Ai!Complete, Ai!StoreAnswer, Ai!At
<1>2. ASSUME NEW step \in {"record", "complete"}, v4' = Ai!Goto(r, step), CacheSound(v6)'
      PROVE  AssistInv'
  <2>1. Answered([v4[r] EXCEPT !.step = step])
    <3>1. v4[r].answer # None => v4[r].answer.to = Ai!Prompt(v4[r].ask, v4[r].read)
      BY <1>1 DEF Answered
    <3> QED BY Zenon, <1>1, <3>1, Moves
  <2>2. v4' = [v4 EXCEPT ![r] = [v4[r] EXCEPT !.step = step]]
    BY <1>2 DEF Ai!Goto
  <2> QED BY <1>1, <1>2, <2>1, <2>2, AskGoesOn
<1>3. ASSUME NEW step \in {"record", "store"}, NEW answer,
             answer # None => answer.to = Ai!Prompt(v4[r].ask, v4[r].read),
             v4' = [v4 EXCEPT ![r] = [v4[r] EXCEPT !.step = step, !.answer = answer]],
             CacheSound(v6)'
      PROVE  AssistInv'
  <2>1. Answered([v4[r] EXCEPT !.step = step, !.answer = answer])
    BY Zenon, <1>1, <1>3, Moves
  <2> QED BY <1>1, <1>3, <2>1, AskGoesOn
<1>4. CacheSound(v6)
  BY DEF AssistInv
<1>5. CASE Ai!Lookup(r)
  <2>1. UNCHANGED v6
    BY <1>5 DEF Ai!Lookup
  <2>2. CASE v4' \in {Ai!Goto(r, "record"), Ai!Goto(r, "complete")}
    BY <1>2, <1>4, <2>1, <2>2 DEF CacheSound
  <2>3. CASE /\ Ai!Key(v4[r]) \in DOMAIN v6
             /\ v4' = [v4 EXCEPT ![r] =
                  [@ EXCEPT !.answer = v6[Ai!Key(v4[r])], !.step = "record"]]
    <3>1. PICK answer : answer = v6[Ai!Key(v4[r])]
      OBVIOUS
    <3>2. answer # None => answer.to = Ai!Prompt(v4[r].ask, v4[r].read)
      BY <1>4, <2>3, <3>1 DEF CacheSound, Ai!Key
    <3>3. v4' = [v4 EXCEPT ![r] = [v4[r] EXCEPT !.answer = answer, !.step = "record"]]
      BY <2>3, <3>1
    <3>4. [v4[r] EXCEPT !.answer = answer, !.step = "record"] =
            [v4[r] EXCEPT !.step = "record", !.answer = answer]
      BY <1>1 DEF Answered, AskColumns
    <3> QED BY Zenon, <1>3, <1>4, <2>1, <3>2, <3>3, <3>4 DEF CacheSound
  <2> QED BY <1>5, <2>2, <2>3 DEF Ai!Lookup
<1>6. CASE Ai!Complete(r)
  <2>1. UNCHANGED v6
    BY Zenon, <1>6 DEF Ai!Complete
  <2>2. CASE v4' = Ai!Goto(r, "record")
    BY <1>2, <1>4, <2>1, <2>2 DEF CacheSound
  <2>3. ASSUME NEW says,
               v4' = [v4 EXCEPT ![r] = [@ EXCEPT !.step = "store",
                 !.answer = [to |-> Ai!Prompt(v4[r].ask, v4[r].read), says |-> says]]]
        PROVE  AssistInv'
    <3>1. PICK answer : answer = [to |-> Ai!Prompt(v4[r].ask, v4[r].read), says |-> says]
      OBVIOUS
    <3>2. answer.to = Ai!Prompt(v4[r].ask, v4[r].read)
      BY <3>1
    <3>3. v4' = [v4 EXCEPT ![r] = [v4[r] EXCEPT !.step = "store", !.answer = answer]]
      BY <2>3, <3>1
    <3> QED BY Zenon, <1>3, <1>4, <2>1, <3>2, <3>3 DEF CacheSound
  <2> QED BY Zenon, <1>6, <2>2, <2>3 DEF Ai!Complete
<1>7. CASE Ai!StoreAnswer(r)
  <2> DEFINE key == Ai!Key(v4[r])
  <2>1. v4' = Ai!Goto(r, "record")
    BY <1>7 DEF Ai!StoreAnswer
  <2>2. key[2] = Ai!Prompt(v4[r].ask, v4[r].read)
    BY DEF Ai!Key
  <2>3. CASE UNCHANGED v6
    BY <1>2, <1>4, <2>1, <2>3 DEF CacheSound
  <2>4. CASE v6' = [k \in DOMAIN v6 \cup {key} |-> IF k = key THEN v4[r].answer ELSE v6[k]]
    <3>1. v4[r].answer # None => v4[r].answer.to = key[2]
      BY <1>1, <2>2 DEF Answered
    <3> HIDE DEF key
    <3>2. CacheSound(v6)'
      BY <1>4, <2>4, <3>1 DEF CacheSound
    <3> QED BY <1>2, <2>1, <3>2
  <2> QED BY <1>7, <2>3, <2>4 DEF Ai!StoreAnswer
<1> QED BY <1>5, <1>6, <1>7

LEMMA RecordPreservesAnswers ==
  ASSUME AssistInv, NEW r \in Requests, Ai!Record(r)
  PROVE  AssistInv'
<1>1. v4[r] # None /\ Answered(v4[r])
  BY DEF AssistInv, Ai!Record, Ai!At
<1>2. PICK is : /\ is = Ai!Reply(v4[r].ask, v4[r].read, v4[r].answer)
                /\ v7' = [ask |-> v4[r].ask, read |-> v4[r].read, is |-> is]
  BY DEF Ai!Record
<1>3. PICK own : \/ is.content = Ai!Content(v4[r].answer, own)
                 \/ is.content = Ai!Suggestions(v4[r].answer, own)
  BY <1>1, <1>2, ReplyIs DEF Answered
<1>4. is.content.by = "provider" => is.content.to = Ai!Prompt(v4[r].ask, v4[r].read)
  BY <1>1, <1>3, ContentIs DEF Answered
<1>5. Ai!AnswersTheQuestion'
  BY <1>2, <1>4 DEF Ai!AnswersTheQuestion
<1>6. v4' = [v4 EXCEPT ![r] = None] /\ UNCHANGED v6
  BY DEF Ai!Record
<1> QED BY <1>5, <1>6 DEF AssistInv, CacheSound

\* A text of the provider that reaches a client, fresh or from the cache, answers
\* the prompt made of this request and of what was read for it (ai tryComplete,
\* cacheKey).
THEOREM AnswersTheQuestionHolds ==
  ASSUME AssistAssumption
  PROVE  ServicesSpec => []AnswersTheQuestion
<1> DEFINE Inv == service = "assistant" => AssistInv
<1>1. ServicesInit => Inv
  BY DEF ServicesInit, Ai!AssistInit, AssistInv, CacheSound, Ai!AnswersTheQuestion
<1>2. AssistInv /\ [Ai!AssistNext]_(Ai!assistVars) => AssistInv'
  <2>1. AssistInv /\ UNCHANGED Ai!assistVars => AssistInv'
    BY DEF AssistInv, Ai!assistVars, CacheSound, Ai!AnswersTheQuestion
  <2>2. ASSUME AssistInv, NEW s, NEW value, Ai!ChangeWorld(s, value) PROVE AssistInv'
    BY <2>2 DEF AssistInv, Ai!ChangeWorld, CacheSound, Ai!AnswersTheQuestion
  <2>3. ASSUME AssistInv, NEW k, Ai!Expire(k) PROVE AssistInv'
    BY <2>3 DEF AssistInv, Ai!Expire, CacheSound, Ai!AnswersTheQuestion
  <2>4. ASSUME AssistInv, NEW r \in Requests,
               \/ \E feature \in DOMAIN AskBodies : \E body :
                    Ai!Ask(r, [feature |-> feature, body |-> body])
               \/ Ai!ReadSource(r) \/ Ai!Lookup(r) \/ Ai!Complete(r) \/ Ai!StoreAnswer(r)
               \/ Ai!Record(r)
        PROVE  AssistInv'
    BY <2>4, AskPreservesAnswers, ReadPreservesAnswers, CompletePreservesAnswers,
       RecordPreservesAnswers
  <2> QED BY <2>1, <2>2, <2>3, <2>4 DEF Ai!AssistNext
<1>3. Inv /\ [ServicesNext]_vars => Inv'
  BY Zenon, <1>2, StepIs
<1>4. Inv => AnswersTheQuestion
  BY DEF AnswersTheQuestion, AssistInv
<1> QED BY <1>1, <1>3, <1>4, PTL DEF ServicesSpec

-----------------------------------------------------------------------------
(***************************************************************************)
(* Practice: v1, v2 and v3 are today, problem and design.  Attempts and    *)
(* minutes are numbers, and a problem that is solved was once.             *)
(***************************************************************************)
Counted(row) == row.attempts \in Nat /\ row.minutes \in Nat
LogInv ==
  /\ v1 \in Nat /\ v2 = [p \in Problems |-> v2[p]]
  /\ \A p \in Problems : v2[p] # None =>
       Counted(v2[p]) /\ (v2[p].solved => v2[p].solvedAt # None)
DesignLogInv ==
  /\ v1 \in Nat /\ v3 = [d \in Designs |-> v3[d]]
  /\ \A d \in Designs : v3[d] # None => Counted(v3[d])

\* What an attempt keeps of the row it meets.
Continues(old, new) ==
  /\ Counted(new) /\ (new.solved => new.solvedAt # None)
  /\ old # None =>
       /\ new.attempts >= old.attempts /\ new.minutes >= old.minutes
       /\ Log!Kept(old.solvedAt, new.solvedAt)
       /\ \A x \in Parts : old.solution[x] # None => new.solution[x] # None

LEMMA AttemptContinues ==
  ASSUME PracticeAssumption, v1 \in Nat, NEW old, old # None => Counted(old),
         NEW solved \in BOOLEAN, NEW confidence, NEW minutes \in Nat, NEW parts
  PROVE  Continues(old, Log!Attempt(old, solved, confidence, minutes, parts))
<1>1. ASSUME NEW was, Counted(was), NEW new,
             /\ new.attempts = was.attempts + 1 /\ new.minutes = was.minutes + minutes
             /\ new.solved = solved /\ new.solvedAt = Log!Stamp(was.solvedAt, solved)
             /\ \A x \in Parts : new.solution[x] = IF x \in parts THEN v1 ELSE was.solution[x],
             old # None => was = old
      PROVE  Continues(old, new)
  BY <1>1 DEF Continues, Counted, Log!Kept, Log!Stamp, PracticeAssumption
<1> DEFINE New(was) ==
      [status |-> IF solved THEN "completed" ELSE "in_progress",
       confidence |-> confidence, attempts |-> was.attempts + 1, solved |-> solved,
       minutes |-> was.minutes + minutes, solvedAt |-> Log!Stamp(was.solvedAt, solved),
       solution |-> [x \in Parts |-> IF x \in parts THEN v1 ELSE was.solution[x]]]
<1>2. ASSUME NEW was, Counted(was), old # None => was = old
      PROVE  Continues(old, New(was))
  <2>1. PICK new : new = New(was)
    OBVIOUS
  <2>2. /\ new.attempts = was.attempts + 1 /\ new.minutes = was.minutes + minutes
        /\ new.solved = solved /\ new.solvedAt = Log!Stamp(was.solvedAt, solved)
        /\ \A x \in Parts : new.solution[x] = IF x \in parts THEN v1 ELSE was.solution[x]
    BY <2>1
  <2> HIDE DEF New
  <2> QED BY <1>1, <1>2, <2>1, <2>2
<1>3. CASE old # None
  <2>1. Log!Attempt(old, solved, confidence, minutes, parts) = New(old)
    BY <1>3 DEF Log!Attempt
  <2> HIDE DEF New
  <2> QED BY <1>2, <1>3, <2>1
<1>4. CASE old = None
  <2> DEFINE was == [attempts |-> 0, minutes |-> 0, solvedAt |-> None,
                     solution |-> [x \in Parts |-> None]]
  <2>1. Log!Attempt(old, solved, confidence, minutes, parts) = New(was)
    BY <1>4 DEF Log!Attempt
  <2>2. Counted(was)
    BY DEF Counted
  <2> HIDE DEF New, was
  <2> QED BY <1>2, <1>4, <2>1, <2>2
<1> QED BY <1>3, <1>4

LEMMA LogStep ==
  ASSUME PracticeAssumption, LogInv, [Log!PracticeNext]_(Log!practiceVars)
  PROVE  LogInv' /\ Log!Remembers
<1>1. ASSUME NEW p \in Problems, NEW solved \in BOOLEAN, NEW c, NEW n \in {0, 45}, NEW parts,
             NEW new, new = Log!Attempt(v2[p], solved, c, n, parts),
             v2' = [v2 EXCEPT ![p] = new], UNCHANGED v1
      PROVE  LogInv' /\ Log!Remembers
  <2>1. Continues(v2[p], new)
    BY <1>1, AttemptContinues DEF LogInv
  <2>2. /\ v2' = [v2 EXCEPT ![p] = new] /\ v2'[p] = new
        /\ \A q \in Problems \ {p} : v2'[q] = v2[q]
    BY <1>1 DEF LogInv
  <2>3. LogInv'
    BY <1>1, <2>1, <2>2 DEF LogInv, Continues, Counted
  <2>4. ASSUME NEW q \in Problems, v2[q] # None
        PROVE  Continues(v2[q], v2'[q])
    BY <2>1, <2>2, <2>4 DEF Continues, LogInv, Counted, Log!Kept
  <2> QED BY <2>3, <2>4 DEF Log!Remembers, Continues
<1>2. ASSUME v2' = v2 \/ (\E p \in Problems : v2' = [v2 EXCEPT ![p] = None]), v1' \in Nat
      PROVE  LogInv' /\ Log!Remembers
  <2>1. LogInv' /\ \A q \in Problems : v2'[q] # None => v2'[q] = v2[q]
    BY <1>2 DEF LogInv, Counted
  <2>2. ASSUME NEW q \in Problems, v2[q] # None, v2'[q] # None
        PROVE  Continues(v2[q], v2'[q])
    BY <2>1, <2>2 DEF Continues, LogInv, Counted, Log!Kept
  <2> QED BY <2>1, <2>2 DEF Log!Remembers, Continues
<1>3. v1 \in Nat
  BY DEF LogInv
<1>4. CASE UNCHANGED Log!practiceVars
  BY <1>2, <1>3, <1>4 DEF Log!practiceVars
<1>5. CASE Log!Midnight
  BY <1>2, <1>3, <1>5 DEF Log!Midnight
<1>6. ASSUME NEW p \in Problems, Log!Clear(p) PROVE LogInv' /\ Log!Remembers
  BY <1>2, <1>3, <1>6 DEF Log!Clear
<1>7. ASSUME NEW p \in Problems, NEW solved \in BOOLEAN, NEW c, NEW n \in Log!Minutes,
             NEW parts, Log!Save(p, solved, c, n, parts)
      PROVE  LogInv' /\ Log!Remembers
  <2>1. PICK new : new = Log!Attempt(v2[p], solved, c, n, parts)
    OBVIOUS
  <2>2. v2' = [v2 EXCEPT ![p] = new] /\ UNCHANGED v1
    BY <1>7, <2>1 DEF Log!Save
  <2>3. n \in {0, 45}
    BY DEF Log!Minutes
  <2> QED BY <1>1, <2>1, <2>2, <2>3
<1>8. ASSUME NEW p \in Problems, NEW c, NEW n \in Log!Minutes, Log!CompleteProblem(p, c, n)
      PROVE  LogInv' /\ Log!Remembers
  BY <1>1, <1>8 DEF Log!CompleteProblem, Log!Minutes
<1> QED BY <1>4, <1>5, <1>6, <1>7, <1>8 DEF Log!PracticeNext

LEMMA DesignLogStep ==
  ASSUME PracticeAssumption, DesignLogInv, [DesignLog!PracticeNext]_(DesignLog!practiceVars)
  PROVE  DesignLogInv' /\ DesignLog!Remembers
<1>1. ASSUME NEW d \in Designs, NEW status, NEW c, NEW n \in DesignLog!Minutes, NEW notes,
             DesignLog!SaveDesign(d, status, c, n, notes)
      PROVE  DesignLogInv' /\ DesignLog!Remembers
  <2>1. PICK was : /\ was = IF v3[d] # None THEN v3[d]
                            ELSE [attempts |-> 0, minutes |-> 0, firstCompletedAt |-> None]
                   /\ Counted(was)
    <3>1. CASE v3[d] # None
      BY <3>1 DEF DesignLogInv
    <3>2. CASE v3[d] = None
      <4>1. PICK was : was = [attempts |-> 0, minutes |-> 0, firstCompletedAt |-> None]
        OBVIOUS
      <4>2. Counted(was)
        BY <4>1 DEF Counted
      <4> QED BY <3>2, <4>1, <4>2
    <3> QED BY <3>1, <3>2
  <2>2. PICK new : new =
          [status |-> status, confidence |-> c, attempts |-> was.attempts + 1,
           minutes |-> was.minutes + n, notes |-> IF notes THEN v1 ELSE None,
           firstCompletedAt |-> DesignLog!Stamp(was.firstCompletedAt, status = "completed")]
    OBVIOUS
  <2>3. v3' = [v3 EXCEPT ![d] = new] /\ UNCHANGED v1
    BY <1>1, <2>1, <2>2 DEF DesignLog!SaveDesign
  <2>4. /\ new.attempts = was.attempts + 1 /\ new.minutes = was.minutes + n
        /\ new.firstCompletedAt = DesignLog!Stamp(was.firstCompletedAt, status = "completed")
    BY <2>2
  <2>5. /\ Counted(new)
        /\ v3[d] # None => /\ new.attempts >= v3[d].attempts
                           /\ DesignLog!Kept(v3[d].firstCompletedAt, new.firstCompletedAt)
    BY <2>1, <2>4 DEF Counted, DesignLog!Minutes, DesignLog!Kept, DesignLog!Stamp
  <2>6. v3'[d] = new /\ \A e \in Designs \ {d} : v3'[e] = v3[e]
    BY <2>3 DEF DesignLogInv
  <2>7. DesignLogInv'
    BY <2>3, <2>5, <2>6 DEF DesignLogInv
  <2> QED BY <2>5, <2>6, <2>7 DEF DesignLog!Remembers, DesignLogInv, Counted, DesignLog!Kept
<1>2. ASSUME v3' = v3 \/ (\E d \in Designs : v3' = [v3 EXCEPT ![d] = None]), v1' \in Nat
      PROVE  DesignLogInv' /\ DesignLog!Remembers
  BY <1>2 DEF DesignLogInv, Counted, DesignLog!Remembers, DesignLog!Kept
<1>3. v1 \in Nat
  BY DEF DesignLogInv
<1>4. CASE UNCHANGED DesignLog!practiceVars
  BY <1>2, <1>3, <1>4 DEF DesignLog!practiceVars
<1>5. CASE DesignLog!Midnight
  BY <1>2, <1>3, <1>5 DEF DesignLog!Midnight
<1>6. ASSUME NEW d \in Designs, DesignLog!ClearDesign(d)
      PROVE  DesignLogInv' /\ DesignLog!Remembers
  BY <1>2, <1>3, <1>6 DEF DesignLog!ClearDesign
<1> QED BY <1>1, <1>4, <1>5, <1>6 DEF DesignLog!PracticeNext

\* No writer of a progress row takes back what another one recorded (dsaprogress
\* Upsert, progress upsertProgress, designproblems Upsert).
THEOREM NothingForgottenHolds ==
  ASSUME PracticeAssumption
  PROVE  ServicesSpec => NothingForgotten
<1> DEFINE Inv == /\ service = "practice" => LogInv
                  /\ service = "design practice" => DesignLogInv
<1>1. ServicesInit => Inv
  <2>1. ASSUME ServicesInit, service = "practice" PROVE LogInv
    <3>1. Log!PracticeInit
      BY <2>1 DEF ServicesInit
    <3>2. v1 = 0 /\ v2 = [p \in Problems |-> None]
      BY <3>1, Zenon DEF Log!PracticeInit
    <3> QED BY <3>2 DEF LogInv
  <2>2. ASSUME ServicesInit, service = "design practice" PROVE DesignLogInv
    <3>1. DesignLog!PracticeInit
      BY Zenon, <2>2 DEF ServicesInit
    <3>2. v1 = 0 /\ v3 = [d \in Designs |-> None]
      BY <3>1, Zenon DEF DesignLog!PracticeInit
    <3> QED BY <3>2 DEF DesignLogInv
  <2> QED BY Zenon, <2>1, <2>2
<1>2. Inv /\ [ServicesNext]_vars => Inv'
  BY Zenon, StepIs, LogStep, DesignLogStep
<1>3. Inv /\ [ServicesNext]_vars =>
        /\ service = "practice" => Log!Remembers
        /\ service = "design practice" => DesignLog!Remembers
  BY Zenon, StepIs, LogStep, DesignLogStep
<1> QED BY <1>1, <1>2, <1>3, PTL DEF ServicesSpec, NothingForgotten

-----------------------------------------------------------------------------
(***************************************************************************)
(* Snapshots: v1 to v4 are today, overall, snapshot and recording.  What a *)
(* recording has estimated is what EstimatedReadyDate makes of the history *)
(* it has read; the rest is arithmetic: the days that remain are rounded   *)
(* up, to the first day that is late enough, or the next if that one is    *)
(* late enough to the point.                                               *)
(***************************************************************************)
RecordingColumns == {"step", "overall", "day", "history", "ready"}
Readings(history) ==
  /\ history = [d \in 0..TrendDays |-> history[d]]
  /\ \A d \in 0..TrendDays : history[d] # None => history[d].overall \in Nat
Estimated(w) ==
  /\ w = [k \in RecordingColumns |-> w[k]]
  /\ w.overall \in Levels
  /\ w.step = "estimated" =>
       /\ w.day \in Nat /\ Readings(w.history)
       /\ w.ready \in Trend!EstimatedReadyDate(w.day, w.overall, w.history)

TrendInv ==
  /\ v1 \in Nat /\ v2 \in Levels /\ Readings(v3)
  /\ v4 = [r \in Recordings |-> v4[r]]
  /\ \A r \in Recordings : v4[r] # None => Estimated(v4[r])

LEMMA RoundedUp ==
  ASSUME NEW a \in Nat, NEW gain \in Nat \ {0}
  PROVE  LET q == (a + gain - 1) \div gain
         IN q \in Nat /\ gain * q >= a /\ gain * q < a + gain
<1>1. PICK n \in Nat : n = a + gain - 1
  OBVIOUS
<1>2. n \div gain \in Nat /\ gain * (n \div gain) <= n /\ n < gain * (n \div gain) + gain
  BY <1>1
<1> QED BY <1>1, <1>2

LEMMA Extremes ==
  ASSUME NEW S \in SUBSET Nat, S # {}, NEW bound \in Nat, \A x \in S : x <= bound
  PROVE  /\ Trend!Max(S) \in S /\ \A x \in S : x <= Trend!Max(S)
         /\ Trend!Min(S) \in S /\ \A x \in S : Trend!Min(S) <= x
<1>1. \E m \in S : \A x \in S : x <= m
  BY GreatestNatural
<1>2. \E m \in S : \A x \in S : m <= x
  BY LeastNatural
<1>3. \E m \in S : \A x \in S : m >= x
  BY <1>1
<1> QED BY <1>1, <1>2, <1>3 DEF Trend!Max, Trend!Min

\* The window of a history: its first and last point, and the gain between them.
LEMMA PaceIs ==
  ASSUME TrendAssumption, NEW history, Readings(history), NEW day \in Nat,
         NEW points, points = Trend!InWindow(history, day), points # {}
  PROVE  /\ Trend!Max(points) \in Nat /\ Trend!Min(points) \in Nat
         /\ Trend!Min(points) <= Trend!Max(points)
         /\ history[Trend!Max(points)].overall \in Nat
         /\ history[Trend!Min(points)].overall \in Nat
<1>1. points \subseteq 0..TrendDays /\ \A d \in points : history[d] # None
  BY DEF Trend!InWindow, Readings
<1>2. points \in SUBSET Nat /\ TrendDays \in Nat /\ \A d \in points : d <= TrendDays
  BY <1>1 DEF TrendAssumption
<1>3. /\ Trend!Max(points) \in points /\ Trend!Min(points) \in points
      /\ Trend!Min(points) <= Trend!Max(points)
  BY <1>2, Extremes
<1>4. \A d \in points : history[d].overall \in Nat
  BY <1>1 DEF Readings, TrendAssumption
<1> QED BY <1>2, <1>3, <1>4

\* The day at which the estimate arrives
LEMMA EstimateIsReady ==
  ASSUME TrendAssumption, NEW w, Estimated(w), w.step = "estimated"
  PROVE  IF w.overall >= Target THEN w.ready = w.day
         ELSE IF w.ready = None THEN \A d : ~Trend!Reaches(w, d)
         ELSE /\ w.ready > w.day
              /\ Trend!Reaches(w, w.ready)
              /\ Trend!Ahead(w, w.ready - 1) <= 0
<1>1. PICK points : points = Trend!InWindow(w.history, w.day)
  OBVIOUS
<1>2. PICK last : last = Trend!Max(points)
  OBVIOUS
<1>3. PICK first : first = Trend!Min(points)
  OBVIOUS
<1>4. PICK gained : gained = w.history[last].overall - w.history[first].overall
  OBVIOUS
<1>5. w.overall \in Nat /\ w.day \in Nat /\ Target \in Nat /\ None \notin Int
  BY DEF Estimated, TrendAssumption
<1>6. points # {} => last \in Nat /\ first \in Nat /\ first <= last /\ gained \in Int
                     /\ (first = last => gained = 0)
  <2> SUFFICES ASSUME points # {}
      PROVE  last \in Nat /\ first \in Nat /\ first <= last /\ gained \in Int
             /\ (first = last => gained = 0)
    OBVIOUS
  <2>1. /\ last \in Nat /\ first \in Nat /\ first <= last
        /\ w.history[last].overall \in Nat /\ w.history[first].overall \in Nat
    BY <1>1, <1>2, <1>3, PaceIs DEF Estimated
  <2> QED BY <1>4, <2>1
<1>7. PICK pace : pace = Trend!Pace(w)
  OBVIOUS
<1>8. pace = IF points = {} THEN [gained |-> 0, over |-> 0]
             ELSE [gained |-> gained, over |-> last - first]
  BY <1>1, <1>2, <1>3, <1>4, <1>7 DEF Trend!Pace
<1>9. w.ready \in Trend!EstimatedReadyDate(w.day, w.overall, w.history)
  BY DEF Estimated
<1>10. PICK rate : rate = Trend!DailyGain(w.history, w.day)
  OBVIOUS
<1>11. rate = IF points = {} THEN [gain |-> 0, days |-> 0]
              ELSE [gain |-> gained, days |-> last - first]
  BY <1>1, <1>2, <1>3, <1>4, <1>10 DEF Trend!DailyGain
<1>12. w.ready \in IF w.overall >= Target THEN {w.day}
                   ELSE IF rate.days = 0 \/ rate.gain <= 0 THEN {None}
                   ELSE {w.day + n : n \in Trend!DaysRemaining(Target - w.overall, rate)}
  BY <1>9, <1>10 DEF Trend!EstimatedReadyDate
<1>13. CASE w.overall >= Target
  BY <1>12, <1>13
<1>14. CASE w.overall < Target /\ (points = {} \/ last = first \/ gained <= 0)
  <2>1. rate.days = 0 \/ rate.gain <= 0
    BY <1>6, <1>11, <1>14
  <2>2. w.ready = None
    BY <1>5, <1>12, <1>14, <2>1
  <2>3. ~(pace.gained > 0)
    BY <1>6, <1>8, <1>14
  <2>4. \A d : ~Trend!Reaches(w, d)
    BY <1>7, <2>3 DEF Trend!Reaches
  <2> QED BY <1>5, <1>14, <2>2, <2>4
<1>15. CASE w.overall < Target /\ points # {} /\ last # first /\ gained > 0
  <2>1. PICK days \in Nat \ {0} : days = last - first
    BY <1>6, <1>15
  <2>2. PICK missing \in Nat \ {0} : missing = Target - w.overall
    BY <1>5, <1>15
  <2>3. gained \in Nat \ {0}
    BY <1>6, <1>15
  <2>4. PICK a \in Nat : a = missing * days
    OBVIOUS
  <2>5. a > 0
    BY <2>1, <2>2, <2>4
  <2>6. PICK q : q = (a + gained - 1) \div gained
    OBVIOUS
  <2>7. q \in Nat /\ gained * q >= a /\ gained * q < a + gained
    BY <2>3, <2>4, <2>6, RoundedUp
  <2>8. PICK reached \in Nat : reached = gained * q
    BY <2>3, <2>7
  <2>9. q # 0
    BY <2>3, <2>5, <2>7
  <2>10. Trend!DaysRemaining(missing, rate) = IF reached = a THEN {q, q + 1} ELSE {q}
    <3>1. rate.gain = gained /\ rate.days = days
      BY <1>11, <1>15, <2>1
    <3>2. q * gained = reached
      BY <2>3, <2>7, <2>8
    <3> QED BY <2>4, <2>6, <3>1, <3>2 DEF Trend!DaysRemaining
  <2>11. w.ready \in {w.day + n : n \in Trend!DaysRemaining(missing, rate)}
    BY <1>5, <1>11, <1>12, <1>15, <2>1, <2>2, <2>3
  <2>12. PICK n : n \in Trend!DaysRemaining(missing, rate) /\ w.ready = w.day + n
    BY <2>11
  <2>13. n \in Nat /\ n > 0 /\ (n = q \/ (n = q + 1 /\ reached = a))
    BY <2>7, <2>9, <2>10, <2>12
  <2>14. ASSUME NEW m \in Int PROVE Trend!Ahead(w, w.day + m) = gained * m - a
    <3>1. pace.gained = gained /\ pace.over = days
      BY <1>8, <1>15, <2>1
    <3>2. (w.overall - Target) * days = 0 - a
      BY <1>5, <2>1, <2>2, <2>4
    <3>3. (w.day + m) - w.day = m
      BY <1>5
    <3>4. Trend!Ahead(w, w.day + m) = (0 - a) + gained * m
      BY <1>7, <3>1, <3>2, <3>3 DEF Trend!Ahead
    <3> QED BY <2>3, <2>4, <3>4
  <2>15. gained * n \in Nat /\ gained * n >= a /\ gained * (n - 1) <= a
    <3>1. CASE n = q
      <4>1. gained * (n - 1) = reached - gained
        BY <2>3, <2>7, <2>8, <3>1
      <4> QED BY <2>3, <2>4, <2>7, <2>8, <3>1, <4>1
    <3>2. CASE n = q + 1 /\ reached = a
      <4>1. gained * n = reached + gained /\ n - 1 = q
        BY <2>3, <2>7, <2>8, <3>2
      <4> QED BY <2>3, <2>4, <2>8, <3>2, <4>1
    <3> QED BY <2>13, <3>1, <3>2
  <2>16. Trend!Ahead(w, w.ready) >= 0
    BY <2>4, <2>12, <2>13, <2>14, <2>15
  <2>17. Trend!Ahead(w, w.ready - 1) <= 0
    <3>1. w.ready - 1 = w.day + (n - 1)
      BY <1>5, <2>12, <2>13
    <3>2. gained * (n - 1) \in Int
      BY <2>3, <2>13
    <3> QED BY <2>4, <2>13, <2>14, <2>15, <3>1, <3>2
  <2>18. Trend!Reaches(w, w.ready)
    <3>1. pace.gained > 0
      BY <1>8, <1>15
    <3> QED BY <1>7, <2>16, <3>1 DEF Trend!Reaches
  <2>19. w.ready \in Int /\ w.ready > w.day
    BY <1>5, <2>12, <2>13
  <2> QED BY <1>5, <1>15, <2>17, <2>18, <2>19
<1> QED BY <1>5, <1>6, <1>13, <1>14, <1>15

LEMMA TrendPreserves ==
  ASSUME TrendAssumption, TrendInv, [Trend!SnapshotNext]_(Trend!snapshotVars)
  PROVE  TrendInv'
<1>1. ASSUME NEW r \in Recordings, Trend!Compute(r) PROVE TrendInv'
  <2>1. PICK w : w = [step |-> "computed", overall |-> v2, day |-> None, history |-> None,
                      ready |-> None]
    OBVIOUS
  <2>2. w = [k \in RecordingColumns |-> w[k]] /\ w.overall = v2 /\ w.step = "computed"
    BY <2>1 DEF RecordingColumns
  <2>3. Estimated(w)
    BY <2>2 DEF Estimated, TrendInv
  <2>4. v4' = [v4 EXCEPT ![r] = w] /\ UNCHANGED <<v1, v2, v3>>
    BY <1>1, <2>1 DEF Trend!Compute
  <2> QED BY <2>3, <2>4 DEF TrendInv
<1>2. ASSUME NEW r \in Recordings, Trend!ReadHistory(r) PROVE TrendInv'
  <2>2. PICK old : old = v4[r]
    OBVIOUS
  <2>1. PICK estimate \in Trend!EstimatedReadyDate(v1, old.overall, v3) :
          v4' = [v4 EXCEPT ![r] = [old EXCEPT !.step = "estimated", !.day = v1, !.history = v3,
                                              !.ready = estimate]]
    BY <1>2, <2>2 DEF Trend!ReadHistory
  <2>3. PICK w : w = [old EXCEPT !.step = "estimated", !.day = v1, !.history = v3,
                                 !.ready = estimate]
    OBVIOUS
  <2>4. v4' = [v4 EXCEPT ![r] = w] /\ UNCHANGED <<v1, v2, v3>> /\ v4[r] # None
    BY <1>2, <2>1, <2>3 DEF Trend!ReadHistory, Trend!At
  <2>5. old = [k \in RecordingColumns |-> old[k]] /\ old.overall \in Levels
    BY <2>2, <2>4 DEF TrendInv, Estimated
  <2>6. /\ w = [k \in RecordingColumns |-> w[k]] /\ w.overall = old.overall
        /\ w.day = v1 /\ w.history = v3 /\ w.ready = estimate
    BY <2>3, <2>5 DEF RecordingColumns
  <2>7. Estimated(w)
    BY <2>1, <2>2, <2>5, <2>6 DEF Estimated, TrendInv
  <2> QED BY <2>4, <2>7 DEF TrendInv
<1>3. ASSUME NEW r \in Recordings, Trend!UpsertSnapshot(r) PROVE TrendInv'
  <2>5. PICK kept \in Trend!Rounded(v4[r].overall) :
          v3' = [v3 EXCEPT ![v1] = [overall |-> kept, ready |-> v4[r].ready]]
    BY <1>3 DEF Trend!UpsertSnapshot
  <2>1. PICK row : row = [overall |-> kept, ready |-> v4[r].ready]
    OBVIOUS
  <2>2. /\ v3' = [v3 EXCEPT ![v1] = row] /\ v4' = [v4 EXCEPT ![r] = None]
        /\ UNCHANGED <<v1, v2>> /\ v4[r] # None
    BY <1>3, <2>1, <2>5 DEF Trend!UpsertSnapshot, Trend!At
  <2>3. row.overall \in Nat
    <3>1. PICK level \in Nat : level = v4[r].overall
      BY <2>2 DEF TrendInv, Estimated, TrendAssumption
    <3>2. PICK down : down = Grain * (level \div Grain)
      OBVIOUS
    <3>3. Grain \in Nat \ {0} /\ level \div Grain \in Nat
      BY DEF TrendAssumption
    <3>4. down \in Nat /\ kept \in {down, down + Grain}
      BY <2>5, <3>1, <3>2, <3>3 DEF Trend!Rounded
    <3> QED BY <2>1, <3>3, <3>4
  <2>4. Readings(v3')
    BY <2>2, <2>3 DEF TrendInv, Readings
  <2> QED BY <2>2, <2>4 DEF TrendInv
<1>4. CASE Trend!Study
  BY <1>4 DEF Trend!Study, TrendInv
<1>5. CASE Trend!Midnight
  BY <1>5 DEF Trend!Midnight, TrendInv
<1>6. CASE UNCHANGED Trend!snapshotVars
  BY <1>6 DEF Trend!snapshotVars, TrendInv
<1> QED BY <1>1, <1>2, <1>3, <1>4, <1>5, <1>6 DEF Trend!SnapshotNext

\* The estimated ready date is the day on which the pace of the window reaches
\* the target, which it has not passed the day before (analytics
\* EstimatedReadyDate).
THEOREM EstimateIsReadyDayHolds ==
  ASSUME TrendAssumption
  PROVE  ServicesSpec => []EstimateIsReadyDay
<1> DEFINE Inv == service = "snapshots" => TrendInv
<1>1. ServicesInit => Inv
  <2> SUFFICES ASSUME ServicesInit, service = "snapshots" PROVE TrendInv
    OBVIOUS
  <2>1. Trend!SnapshotInit
    BY DEF ServicesInit
  <2>2. /\ v1 = 0 /\ v2 \in Levels /\ v3 = [d \in 0..TrendDays |-> None]
        /\ v4 = [r \in Recordings |-> None]
    BY <2>1, Zenon DEF Trend!SnapshotInit
  <2> QED BY <2>2 DEF TrendInv, Readings
<1>2. Inv /\ [ServicesNext]_vars => Inv'
  BY Zenon, StepIs, TrendPreserves
<1>3. Inv => EstimateIsReadyDay
  <2> SUFFICES ASSUME TrendInv, NEW r \in Recordings, Trend!At(r, "estimated")
      PROVE  LET recorded == v4[r]
                 ready == recorded.ready
             IN IF recorded.overall >= Target THEN ready = recorded.day
                ELSE IF ready = None
                THEN ~Trend!Reaches(recorded, recorded.day + Target * TrendWindow)
                ELSE /\ ready > recorded.day
                     /\ Trend!Reaches(recorded, ready)
                     /\ Trend!Ahead(recorded, ready - 1) <= 0
    BY DEF EstimateIsReadyDay, Trend!EstimateIsReadyDay
  <2>1. PICK w : w = v4[r]
    OBVIOUS
  <2>2. Estimated(w) /\ w.step = "estimated"
    BY <2>1 DEF TrendInv, Trend!At
  <2> QED BY <2>1, <2>2, EstimateIsReady
<1> QED BY <1>1, <1>2, <1>3, PTL DEF ServicesSpec

-----------------------------------------------------------------------------
(***************************************************************************)
(* The streak: v1 and v2 are dates and asOf.  The walk back from the       *)
(* anchor counts the members that precede it without a gap (Walk, in       *)
(* SetLemmas).  The scan visits the days in their order: a day comes at    *)
(* the place that is its rank, so the day before it in the sequence is     *)
(* the one before it in the set, and the run that the scan carries is what *)
(* the walk from there would count.                                        *)
(***************************************************************************)
Rank(D, d) == Cardinality({e \in D : e <= d})

LEMMA RankGrows ==
  ASSUME NEW D \in SUBSET Nat, IsFiniteSet(D)
  PROVE  /\ \A d \in D : Rank(D, d) \in 1..Cardinality(D)
         /\ \A d \in D, e \in D : d < e => Rank(D, d) < Rank(D, e)
<1>1. ASSUME NEW d \in D PROVE Rank(D, d) \in 1..Cardinality(D)
  <2>1. PICK A : A = {e \in D : e <= d}
    OBVIOUS
  <2>2. A \in SUBSET D /\ {d} \in SUBSET A
    BY <2>1
  <2>3. /\ IsFiniteSet(A) /\ Cardinality(A) \in Nat /\ Cardinality(D) \in Nat
        /\ Cardinality(A) <= Cardinality(D) /\ Cardinality({d}) <= Cardinality(A)
    BY <2>2, FS_Subset, FS_CardinalityType
  <2>4. Cardinality({d}) = 1
    BY FS_Singleton
  <2>5. Rank(D, d) = Cardinality(A)
    BY <2>1, Zenon DEF Rank
  <2> QED BY <2>3, <2>4, <2>5
<1>2. ASSUME NEW d \in D, NEW e \in D, d < e PROVE Rank(D, d) < Rank(D, e)
  <2>1. PICK A : A = {x \in D : x <= d}
    OBVIOUS
  <2>2. PICK B : B = {x \in D : x <= e}
    OBVIOUS
  <2>3. A \cup {e} \in SUBSET B /\ e \notin A /\ A \in SUBSET D /\ B \in SUBSET D
    <3>1. e \in Nat /\ \A x \in D : x \in Nat
      OBVIOUS
    <3>2. \A x \in A : x \in D /\ x <= d
      BY <2>1
    <3>3. \A x \in D : x <= e => x \in B
      BY <2>2
    <3>4. ASSUME NEW x \in A PROVE x <= e /\ x # e
      <4>1. x \in Nat /\ d \in Nat /\ x <= d
        BY <3>1, <3>2
      <4> QED BY <1>2, <3>1, <4>1
    <3>5. e \in B
      BY <3>1, <3>3
    <3>6. \A x \in B : x \in D
      BY <2>2
    <3> QED BY <3>2, <3>3, <3>4, <3>5, <3>6
  <2>4. IsFiniteSet(A) /\ IsFiniteSet(B) /\ Cardinality(A) \in Nat /\ Cardinality(B) \in Nat
    BY <2>3, FS_Subset, FS_CardinalityType
  <2>5. Cardinality(A \cup {e}) = Cardinality(A) + 1
    BY <2>3, <2>4, FS_AddElement
  <2>6. Cardinality(A \cup {e}) <= Cardinality(B)
    BY <2>3, <2>4, FS_Subset
  <2>7. Rank(D, d) = Cardinality(A) /\ Rank(D, e) = Cardinality(B)
    BY <2>1, <2>2, Zenon DEF Rank
  <2> QED BY <2>4, <2>5, <2>6, <2>7
<1> QED BY <1>1, <1>2

LEMMA RankNext ==
  ASSUME NEW D \in SUBSET Nat, IsFiniteSet(D), NEW e \in D
  PROVE  /\ (\A x \in D : e <= x) => Rank(D, e) = 1
         /\ \A d \in D : d < e /\ (\A x \in D : x <= d \/ e <= x)
                           => Rank(D, e) = Rank(D, d) + 1
<1>1. ASSUME \A x \in D : e <= x PROVE Rank(D, e) = 1
  <2>1. {x \in D : x <= e} = {e}
    <3>1. e \in Nat /\ \A x \in D : x \in Nat
      OBVIOUS
    <3>2. \A x \in D : x <= e <=> x = e
      BY <1>1, <3>1
    <3> QED BY <3>2, Zenon
  <2>2. Rank(D, e) = Cardinality({e})
    BY <2>1, Zenon DEF Rank
  <2> QED BY <2>2, FS_Singleton
<1>2. ASSUME NEW d \in D, d < e, \A x \in D : x <= d \/ e <= x
      PROVE  Rank(D, e) = Rank(D, d) + 1
  <2>1. PICK A : A = {x \in D : x <= d}
    OBVIOUS
  <2>2. {x \in D : x <= e} = A \cup {e} /\ e \notin A /\ A \in SUBSET D
    <3>1. e \in Nat /\ \A x \in D : x \in Nat
      OBVIOUS
    <3>2. \A x \in D : x <= e <=> x <= d \/ x = e
      BY <1>2, <3>1
    <3>3. ~(e <= d)
      BY <1>2, <3>1
    <3> QED BY <2>1, <3>2, <3>3, Zenon
  <2>3. IsFiniteSet(A)
    BY <2>2, FS_Subset
  <2>4. Cardinality(A \cup {e}) = Cardinality(A) + 1
    BY <2>2, <2>3, FS_AddElement
  <2>5. Rank(D, d) = Cardinality(A) /\ Rank(D, e) = Cardinality(A \cup {e})
    BY <2>1, <2>2, Zenon DEF Rank
  <2> QED BY <2>4, <2>5
<1> QED BY <1>1, <1>2

\* There is a day at every place.
LEMMA RankReaches ==
  ASSUME NEW D \in SUBSET Nat, IsFiniteSet(D)
  PROVE  \A i \in 1..Cardinality(D) : \E d \in D : Rank(D, d) = i
<1> DEFINE T == {k \in Nat : k + 1 <= Cardinality(D) => \E d \in D : Rank(D, d) = k + 1}
<1>0. Cardinality(D) \in Nat
  BY FS_CardinalityType
<1>1. 0 \in T
  <2> SUFFICES ASSUME 1 <= Cardinality(D) PROVE \E d \in D : Rank(D, d) = 1
    OBVIOUS
  <2>1. D # {}
    BY FS_EmptySet
  <2>2. PICK e \in D : \A x \in D : e <= x
    BY <2>1, LeastNatural
  <2> QED BY <2>2, RankNext
<1>2. ASSUME NEW k \in Nat, k \in T PROVE k + 1 \in T
  <2> SUFFICES ASSUME k + 2 <= Cardinality(D) PROVE \E d \in D : Rank(D, d) = k + 2
    OBVIOUS
  <2>1. PICK d \in D : Rank(D, d) = k + 1
    BY <1>0, <1>2
  <2>2. PICK later \in SUBSET Nat : later = {x \in D : d < x}
    OBVIOUS
  <2>3. later # {}
    <3> SUFFICES ASSUME later = {} PROVE FALSE
      OBVIOUS
    <3>1. {x \in D : x <= d} = D
      <4>1. d \in Nat /\ \A x \in D : x \in Nat
        OBVIOUS
      <4>2. \A x \in D : x \notin later
        OBVIOUS
      <4>3. \A x \in D : x <= d
        BY <2>2, <4>1, <4>2
      <4> QED BY <4>3, Zenon
    <3>2. Rank(D, d) = Cardinality(D)
      BY <3>1, Zenon DEF Rank
    <3> QED BY <1>0, <2>1, <3>2
  <2>4. PICK e \in later : \A x \in later : e <= x
    BY <2>3, LeastNatural
  <2>5. e \in D /\ d < e /\ \A x \in D : x <= d \/ e <= x
    BY <2>2, <2>4
  <2>6. Rank(D, e) = (k + 1) + 1
    BY <2>1, <2>5, RankNext
  <2> QED BY <2>5, <2>6
<1> HIDE DEF T
<1>3. \A k \in Nat : k \in T
  BY <1>1, <1>2, NaturalInduction
<1>4. ASSUME NEW i \in 1..Cardinality(D) PROVE \E d \in D : Rank(D, d) = i
  <2>1. i - 1 \in Nat /\ (i - 1) + 1 = i /\ i <= Cardinality(D)
    BY <1>0
  <2> QED BY <1>3, <2>1 DEF T
<1> QED BY <1>4

\* Norm lists the days in their order, each once.
LEMMA NormIs ==
  ASSUME NEW D \in SUBSET Nat, IsFiniteSet(D)
  PROVE  LET n == Cardinality(D)
             norm == Streak!Norm(D)
         IN /\ DOMAIN norm = 1..n /\ Len(norm) = n
            /\ \A i \in 1..n : norm[i] \in D /\ Rank(D, norm[i]) = i
            /\ \A d \in D : Rank(D, d) \in 1..n /\ norm[Rank(D, d)] = d
<1>1. PICK n \in Nat : n = Cardinality(D)
  BY FS_CardinalityType
<1>2. PICK norm : norm = Streak!Norm(D)
  OBVIOUS
<1>3. \A S : Streak!Cardinality(S) = Cardinality(S)
  BY DEF Streak!Cardinality, Cardinality
<1> DEFINE AtPlace(i, d) == Streak!Cardinality({e \in D : e <= d}) = i
           Place(i) == CHOOSE d \in D : AtPlace(i, d)
<1>4. \A i, d : AtPlace(i, d) <=> Rank(D, d) = i
  BY <1>3 DEF Rank
<1>5. norm = [i \in 1..n |-> Place(i)]
  <2>1. Streak!Cardinality(D) = n
    BY <1>1, <1>3
  <2> QED BY <1>2, <2>1 DEF Streak!Norm
<1> HIDE DEF AtPlace, Place
<1>6. ASSUME NEW i \in 1..n PROVE norm[i] \in D /\ Rank(D, norm[i]) = i
  <2>1. norm[i] = CHOOSE d \in D : AtPlace(i, d)
    BY <1>5 DEF Place
  <2>2. \E d \in D : AtPlace(i, d)
    BY <1>1, <1>4, RankReaches
  <2> QED BY <1>4, <2>1, <2>2
<1>7. ASSUME NEW d \in D PROVE Rank(D, d) \in 1..n /\ norm[Rank(D, d)] = d
  <2>1. PICK i : i = Rank(D, d)
    OBVIOUS
  <2>2. i \in 1..n
    BY <1>1, <2>1, RankGrows
  <2>3. PICK e \in D : e = norm[i]
    BY <1>6, <2>2
  <2>4. Rank(D, e) = i
    BY <1>6, <2>2, <2>3
  <2>5. ~(d < e) /\ ~(e < d)
    <3>1. Rank(D, d) \in Int
      BY <2>1, <2>2
    <3> QED BY <2>1, <2>4, <3>1, RankGrows
  <2> QED BY <2>1, <2>2, <2>3, <2>5
<1>8. DOMAIN norm = 1..n /\ Len(norm) = n
  <2>1. norm \in [1..n -> D]
    BY <1>6, <1>5
  <2>2. norm \in Seq(D)
    BY <2>1
  <2> QED BY <2>1, <2>2
<1> QED BY <1>1, <1>2, <1>6, <1>7, <1>8

\* Nothing lies before the first of the list or between two neighbours in it.
LEMMA NormSteps ==
  ASSUME NEW D \in SUBSET Nat, IsFiniteSet(D), NEW norm, norm = Streak!Norm(D),
         NEW i \in 1..Cardinality(D)
  PROVE  /\ norm[i] \in D
         /\ i = 1 => norm[i] - 1 \notin D
         /\ i # 1 => /\ norm[i - 1] \in D /\ norm[i - 1] < norm[i]
                     /\ norm[i] - 1 \in D => norm[i] - norm[i - 1] = 1
<1>0. Cardinality(D) \in Nat
  BY FS_CardinalityType
<1>1. PICK e \in D : e = norm[i] /\ Rank(D, e) = i
  BY NormIs
<1>2. ASSUME i = 1 PROVE e - 1 \notin D
  <2> SUFFICES ASSUME e - 1 \in D PROVE FALSE
    OBVIOUS
  <2>1. Rank(D, e - 1) < 1 /\ Rank(D, e - 1) \in 1..Cardinality(D)
    BY <1>1, <1>2, RankGrows
  <2> QED BY <1>0, <2>1
<1>3. ASSUME i # 1
      PROVE  /\ norm[i - 1] \in D /\ norm[i - 1] < e
             /\ e - 1 \in D => e - norm[i - 1] = 1
  <2>1. i - 1 \in 1..Cardinality(D)
    BY <1>0, <1>3
  <2>2. PICK d \in D : d = norm[i - 1] /\ Rank(D, d) = i - 1
    BY <2>1, NormIs
  <2>3. d < e
    <3>1. ~(e < d) /\ e # d
      BY <1>0, <1>1, <2>2, RankGrows
    <3> QED BY <3>1
  <2>4. ASSUME e - 1 \in D PROVE ~(d < e - 1)
    <3> SUFFICES ASSUME d < e - 1 PROVE FALSE
      OBVIOUS
    <3>1. Rank(D, d) < Rank(D, e - 1) /\ Rank(D, e - 1) < Rank(D, e)
      BY <2>4, RankGrows
    <3>2. Rank(D, e - 1) \in Int
      BY <1>0, <2>4, RankGrows
    <3> QED BY <1>0, <1>1, <2>2, <3>1, <3>2
  <2> QED BY <2>2, <2>3, <2>4
<1> QED BY <1>1, <1>2, <1>3

\* The scan of computeStreakFromDates, one place of the list at a time
ScanStep(norm, g, i) ==
  IF i = 1 THEN [run |-> 1, longest |-> 1]
  ELSE LET run == IF norm[i] - norm[i - 1] = 1 THEN g[i - 1].run + 1 ELSE 1
       IN [run |-> run,
           longest |-> IF run > g[i - 1].longest THEN run ELSE g[i - 1].longest]
Scan(norm) == CHOOSE g : g = [i \in 1..Len(norm) |-> ScanStep(norm, g, i)]

\* What the scan carries is the run that ends at each place, and the longest of
\* those up to it.
LEMMA ScanIs ==
  ASSUME NEW n \in Nat, NEW norm, Len(norm) = n,
         NEW b \in Nat, NEW R \in [1..n -> 0..b],
         \A i \in 1..n : R[i] = IF i = 1 THEN 1
                                ELSE IF norm[i] - norm[i - 1] = 1 THEN R[i - 1] + 1 ELSE 1
  PROVE  \A i \in 1..n :
           /\ \E j \in 1..i : Scan(norm)[i].longest = R[j]
           /\ \A j \in 1..i : R[j] <= Scan(norm)[i].longest
<1> DEFINE IsBest(i, m) == (\E j \in 1..i : m = R[j]) /\ \A j \in 1..i : R[j] <= m
           Best(i) == CHOOSE m \in Nat : IsBest(i, m)
           w == [i \in 1..n |-> [run |-> R[i], longest |-> Best(i)]]
<1>1. ASSUME NEW i \in 1..n PROVE Best(i) \in Nat /\ IsBest(i, Best(i))
  <2>1. PICK S \in SUBSET Nat : S = {R[j] : j \in 1..i}
    <3>1. \A j \in 1..i : R[j] \in Nat
      BY <1>1
    <3> QED BY <3>1
  <2>2. R[1] \in S /\ \A m \in S : m <= b
    <3>1. 1 \in 1..i /\ \A j \in 1..i : j \in 1..n
      BY <1>1
    <3> QED BY <2>1, <3>1
  <2>3. PICK m \in S : \A k \in S : k <= m
    BY <2>2, GreatestNatural
  <2>4. m \in Nat /\ IsBest(i, m)
    BY <2>1, <2>3
  <2> HIDE DEF IsBest
  <2> QED BY <2>4
<1>2. ASSUME NEW i \in 1..n, NEW m \in Nat, IsBest(i, m) PROVE m = Best(i)
  <2>1. PICK c \in Nat : c = Best(i)
    BY <1>1
  <2>2. IsBest(i, c)
    BY <1>1, <2>1
  <2>3. m <= c /\ c <= m
    BY <1>2, <2>2
  <2> QED BY <2>1, <2>3
<1>3. ASSUME NEW i \in 1..n PROVE w[i] = ScanStep(norm, w, i)
  <2>1. w[i] = [run |-> R[i], longest |-> Best(i)]
    OBVIOUS
  <2>2. CASE i = 1
    <3>1. R[1] = 1 /\ IsBest(1, 1)
      BY <2>2
    <3>2. Best(1) = 1
      BY <1>2, <2>2, <3>1
    <3> QED BY <2>1, <2>2, <3>1, <3>2 DEF ScanStep
  <2>3. CASE i # 1
    <3>1. i - 1 \in 1..n /\ R[i] \in Nat
      BY <2>3
    <3>2. PICK c \in Nat : c = Best(i - 1)
      BY <1>1, <3>1
    <3>3. IsBest(i - 1, c)
      BY <1>1, <3>1, <3>2
    <3>4. w[i - 1] = [run |-> R[i - 1], longest |-> c]
      BY <3>1, <3>2
    <3>5. PICK m \in Nat : m = IF R[i] > c THEN R[i] ELSE c
      BY <3>1
    <3>6. IsBest(i, m)
      <4>1. PICK j \in 1..(i - 1) : c = R[j]
        BY <3>3
      <4>2. j \in 1..i /\ i \in 1..i
        BY <4>1
      <4>3. \E k \in 1..i : m = R[k]
        BY <3>5, <4>1, <4>2
      <4>4. ASSUME NEW k \in 1..i PROVE R[k] <= m
        <5>1. k = i \/ k \in 1..(i - 1)
          BY <3>1
        <5>2. CASE k = i
          BY <3>1, <3>5, <5>2
        <5>3. CASE k \in 1..(i - 1)
          <6>1. R[k] <= c /\ R[k] \in Nat
            BY <3>1, <3>3, <5>3
          <6> QED BY <3>1, <3>5, <6>1
        <5> QED BY <5>1, <5>2, <5>3
      <4> QED BY <4>3, <4>4
    <3>7. Best(i) = m
      BY <1>2, <3>6
    <3>8. R[i] = IF norm[i] - norm[i - 1] = 1 THEN w[i - 1].run + 1 ELSE 1
      BY <2>3, <3>4
    <3>9. w[i - 1].longest = c
      <4>1. PICK prev : prev = [run |-> R[i - 1], longest |-> c]
        OBVIOUS
      <4>2. prev.longest = c
        BY <4>1
      <4> HIDE DEF w
      <4> QED BY <3>4, <4>1, <4>2
    <3> HIDE DEF w, Best
    <3> QED BY <2>1, <2>3, <3>5, <3>7, <3>8, <3>9 DEF ScanStep
  <2> QED BY <2>2, <2>3
<1>4. w = [i \in 1..n |-> ScanStep(norm, w, i)]
  <2>1. w = [i \in 1..n |-> w[i]]
    OBVIOUS
  <2> HIDE DEF w
  <2> QED BY <1>3, <2>1
<1>5. PICK g : g = Scan(norm)
  OBVIOUS
<1>6. g = [i \in 1..n |-> ScanStep(norm, g, i)]
  <2> HIDE DEF w
  <2> QED BY <1>4, <1>5 DEF Scan
<1> DEFINE T == {k \in Nat : k + 1 <= n => g[k + 1] = w[k + 1]}
<1>7. \A k \in Nat : k \in T
  <2>1. 0 \in T
    <3> SUFFICES ASSUME 1 <= n PROVE g[1] = w[1]
      OBVIOUS
    <3>1. 1 \in 1..n
      OBVIOUS
    <3> HIDE DEF w
    <3> QED BY <1>3, <1>6, <3>1 DEF ScanStep
  <2>2. ASSUME NEW k \in Nat, k \in T PROVE k + 1 \in T
    <3> SUFFICES ASSUME k + 2 <= n PROVE g[k + 2] = w[k + 2]
      OBVIOUS
    <3>1. k + 2 \in 1..n /\ k + 2 # 1 /\ (k + 2) - 1 = k + 1
      OBVIOUS
    <3>2. g[k + 1] = w[k + 1]
      BY <2>2
    <3> HIDE DEF w
    <3>3. ScanStep(norm, g, k + 2) = ScanStep(norm, w, k + 2)
      BY <3>1, <3>2 DEF ScanStep
    <3> QED BY <1>3, <1>6, <3>1, <3>3
  <2> HIDE DEF T
  <2> QED BY <2>1, <2>2, NaturalInduction
<1>8. ASSUME NEW i \in 1..n PROVE g[i].longest = Best(i)
  <2>1. i - 1 \in Nat /\ (i - 1) + 1 = i /\ i <= n
    OBVIOUS
  <2>2. g[i] = w[i]
    <3>1. i - 1 \in T
      BY <1>7, <2>1
    <3> HIDE DEF w
    <3> QED BY <2>1, <3>1
  <2> HIDE DEF Best
  <2> QED BY <2>2
<1> HIDE DEF Best
<1>9. ASSUME NEW i \in 1..n PROVE IsBest(i, Scan(norm)[i].longest)
  <2>1. Scan(norm)[i].longest = Best(i)
    BY <1>5, <1>8
  <2> HIDE DEF IsBest
  <2> QED BY <1>1, <2>1
<1> QED BY <1>9

\* The run that ends at a place of the list is what the walk from there counts.
LEMMA RunsAre ==
  ASSUME NEW D \in SUBSET Nat, IsFiniteSet(D), NEW norm, norm = Streak!Norm(D),
         NEW i \in 1..Cardinality(D)
  PROVE  Walk(D)[norm[i]] = IF i = 1 THEN 1
                            ELSE IF norm[i] - norm[i - 1] = 1 THEN Walk(D)[norm[i - 1]] + 1 ELSE 1
<1>1. PICK W : W = Walk(D)
  OBVIOUS
<1>2. D \in SUBSET Int
  OBVIOUS
<1>3. \A d \in Int : W[d] \in Nat /\ W[d] = IF d \in D THEN 1 + W[d - 1] ELSE 0
  BY <1>1, <1>2, WalkExists, WalkCounts DEF WalkStep
<1>4. PICK e \in D : e = norm[i]
  BY NormSteps
<1>5. e \in Int /\ e - 1 \in Int
  OBVIOUS
<1>6. W[e] = 1 + W[e - 1]
  BY <1>3, <1>5
<1>7. CASE i = 1
  <2>1. e - 1 \notin D
    BY <1>4, <1>7, NormSteps
  <2> QED BY <1>1, <1>3, <1>4, <1>5, <1>6, <1>7, <2>1
<1>8. CASE i # 1
  <2>1. PICK d \in D : d = norm[i - 1] /\ (e - 1 \in D => e - d = 1)
    BY <1>4, <1>8, NormSteps
  <2>2. CASE e - d = 1
    <3>1. d = e - 1 /\ W[e - 1] \in Nat
      BY <1>3, <1>5, <2>2
    <3> QED BY <1>1, <1>4, <1>6, <1>8, <2>1, <2>2, <3>1
  <2>3. CASE e - d # 1
    <3>1. W[e - 1] = 0
      BY <1>3, <1>5, <2>1, <2>3
    <3> QED BY <1>1, <1>4, <1>6, <1>8, <2>1, <2>3, <3>1
  <2> QED BY <2>2, <2>3
<1> QED BY <1>7, <1>8

\* A walk over days from the first on is no longer than there are days.
LEMMA WalkBound ==
  ASSUME NEW D \in SUBSET Nat, IsFiniteSet(D), NEW d \in Int, d >= -1
  PROVE  Walk(D)[d] \in 0..(d + 1)
<1>1. PICK n \in Nat : n = Walk(D)[d] /\ \A i \in 0..(n - 1) : d - i \in D
  <2>1. D \in SUBSET Int
    OBVIOUS
  <2> QED BY <2>1, WalkCounts
<1>2. ~(n > d + 1)
  <2> SUFFICES ASSUME n > d + 1 PROVE FALSE
    OBVIOUS
  <2>1. d + 1 \in 0..(n - 1) /\ d - (d + 1) = -1
    OBVIOUS
  <2>2. -1 \in D
    BY <1>1, <2>1
  <2> QED BY <2>2
<1> QED BY <1>1, <1>2

LEMMA LongestIs ==
  ASSUME NEW D \in SUBSET Nat, IsFiniteSet(D), D # {}, NEW last \in Nat, \A d \in D : d <= last
  PROVE  /\ \E d \in D : Streak!Longest(D) = Walk(D)[d]
         /\ \A d \in D : Walk(D)[d] <= Streak!Longest(D)
<1>1. PICK n \in Nat : n = Cardinality(D)
  BY FS_CardinalityType
<1>2. n # 0
  BY <1>1, FS_EmptySet
<1>3. PICK norm : norm = Streak!Norm(D)
  OBVIOUS
<1>4. /\ Len(norm) = n
      /\ \A i \in 1..n : norm[i] \in D
      /\ \A d \in D : Rank(D, d) \in 1..n /\ norm[Rank(D, d)] = d
  BY <1>1, <1>3, NormIs
<1>5. PICK W : W = Walk(D)
  OBVIOUS
<1>6. PICK R : R = [i \in 1..n |-> W[norm[i]]]
  OBVIOUS
<1> PICK b \in Nat : b = last + 1
  OBVIOUS
<1>7. R \in [1..n -> 0..b]
  <2>1. ASSUME NEW d \in D PROVE W[d] \in 0..b
    <3>1. d \in Int /\ d >= -1 /\ d <= last
      OBVIOUS
    <3>2. W[d] \in 0..(d + 1)
      BY <1>5, <3>1, WalkBound
    <3> QED BY <3>1, <3>2
  <2> QED BY <1>4, <1>6, <2>1
<1>8. \A i \in 1..n : R[i] = IF i = 1 THEN 1
                             ELSE IF norm[i] - norm[i - 1] = 1 THEN R[i - 1] + 1 ELSE 1
  <2> SUFFICES ASSUME NEW i \in 1..n
      PROVE  R[i] = IF i = 1 THEN 1
                    ELSE IF norm[i] - norm[i - 1] = 1 THEN R[i - 1] + 1 ELSE 1
    OBVIOUS
  <2>1. W[norm[i]] = IF i = 1 THEN 1
                     ELSE IF norm[i] - norm[i - 1] = 1 THEN W[norm[i - 1]] + 1 ELSE 1
    BY <1>1, <1>3, <1>5, RunsAre
  <2>2. R[i] = W[norm[i]] /\ (i # 1 => R[i - 1] = W[norm[i - 1]])
    BY <1>6
  <2> QED BY <2>1, <2>2
<1>9. /\ \E j \in 1..n : Scan(norm)[n].longest = R[j]
      /\ \A j \in 1..n : R[j] <= Scan(norm)[n].longest
  <2>1. n \in 1..n
    BY <1>2
  <2>2. \A i \in 1..n : /\ \E j \in 1..i : Scan(norm)[i].longest = R[j]
                        /\ \A j \in 1..i : R[j] <= Scan(norm)[i].longest
    BY <1>4, <1>7, <1>8, ScanIs
  <2> QED BY <2>1, <2>2
<1>10. Streak!Longest(D) = Scan(norm)[n].longest
  <2>1. Streak!RunScan(norm) = Scan(norm)[Len(norm)]
    BY Zenon DEF Streak!RunScan, Scan, ScanStep
  <2> QED BY <1>3, <1>4, <2>1 DEF Streak!Longest
<1>11. PICK best : best = Streak!Longest(D)
  OBVIOUS
<1>12. \E d \in D : best = Walk(D)[d]
  BY <1>4, <1>5, <1>6, <1>9, <1>10, <1>11
<1>13. ASSUME NEW d \in D PROVE Walk(D)[d] <= best
  <2>1. PICK j \in 1..n : norm[j] = d
    BY <1>4
  <2>2. R[j] = W[d]
    BY <1>6, <2>1
  <2> QED BY <1>5, <1>9, <1>10, <1>11, <2>2
<1> QED BY <1>11, <1>12, <1>13

\* The study days are some up to today.
StreakInv == v2 \in 0..StreakDays /\ v1 \in SUBSET (0..v2)

LEMMA StudyPreserves ==
  ASSUME StreakAssumption, StreakInv, [Streak!StudyNext]_(Streak!studyVars)
  PROVE  StreakInv'
<1>1. CASE Streak!Study
  BY <1>1 DEF StreakInv, Streak!Study
<1>2. CASE Streak!Midnight
  <2>1. v2 < StreakDays /\ v2' = v2 + 1 /\ v1' = v1
    BY <1>2 DEF Streak!Midnight
  <2>2. \A d \in 0..v2 : d \in 0..v2'
    BY <2>1 DEF StreakInv
  <2>3. v2' \in 0..StreakDays
    BY <2>1 DEF StreakInv, StreakAssumption
  <2> QED BY <2>1, <2>2, <2>3 DEF StreakInv
<1>3. CASE UNCHANGED Streak!studyVars
  BY <1>3 DEF StreakInv, Streak!studyVars
<1> QED BY <1>1, <1>2, <1>3 DEF Streak!StudyNext

LEMMA DaysAre ==
  ASSUME StreakAssumption, StreakInv
  PROVE  /\ v1 \in SUBSET Nat /\ v1 \in SUBSET Int /\ IsFiniteSet(v1)
         /\ v1 \in SUBSET (0..StreakDays)
<1>1. StreakDays \in Nat /\ v1 \in SUBSET (0..StreakDays)
  BY DEF StreakInv, StreakAssumption
<1>2. IsFiniteSet(v1)
  <2>1. IsFiniteSet(0..StreakDays)
    BY <1>1, FS_Interval
  <2> QED BY <1>1, <2>1, FS_Subset
<1> QED BY <1>1, <1>2

\* The walk from a day is the longest of the runs that end with it.
LEMMA WalkIsLongest ==
  ASSUME StreakAssumption, StreakInv, NEW d \in -1..StreakDays
  PROVE  /\ Walk(v1)[d] \in Streak!Lengths(d)
         /\ \A m \in Streak!Lengths(d) : m \in Nat /\ m <= Walk(v1)[d]
<1>1. StreakDays \in Nat /\ d \in Int /\ d >= -1 /\ d <= StreakDays
  BY DEF StreakAssumption
<1>2. PICK n : n = Walk(v1)[d]
  OBVIOUS
<1>3. n \in 0..(d + 1)
  BY <1>1, <1>2, DaysAre, WalkBound
<1>4. d - n \notin v1 /\ \A i \in 0..(n - 1) : d - i \in v1
  BY <1>1, <1>2, DaysAre, WalkCounts
<1>5. (d - n + 1)..d \subseteq v1
  <2> SUFFICES ASSUME NEW x \in (d - n + 1)..d PROVE x \in v1
    OBVIOUS
  <2>1. d - x \in 0..(n - 1) /\ d - (d - x) = x
    BY <1>1, <1>3
  <2> QED BY <1>4, <2>1
<1>6. n \in Streak!Lengths(d)
  <2>1. n \in 0..(StreakDays + 1)
    BY <1>1, <1>3
  <2> QED BY <1>5, <2>1 DEF Streak!Lengths, Streak!RunEndsAt
<1>7. ASSUME NEW m \in Streak!Lengths(d) PROVE m \in Nat /\ m <= n
  <2>1. m \in 0..(StreakDays + 1) /\ (d - m + 1)..d \subseteq v1
    BY <1>7 DEF Streak!Lengths, Streak!RunEndsAt
  <2>2. m \in Nat
    BY <1>1, <2>1
  <2>3. ~(m > n)
    <3> SUFFICES ASSUME m > n PROVE FALSE
      OBVIOUS
    <3>1. d - n \in (d - m + 1)..d
      BY <1>1, <1>3, <2>2
    <3> QED BY <1>4, <2>1, <3>1
  <2> QED BY <1>3, <2>2, <2>3
<1> QED BY <1>2, <1>6, <1>7

LEMMA GreatestIs ==
  ASSUME NEW S, S \subseteq Nat, NEW m \in S, \A k \in S : k <= m
  PROVE  Streak!Max(S) = m
<1>1. m \in Nat /\ \A k \in S : k \in Nat
  OBVIOUS
<1>2. \A k \in S : m >= k
  BY <1>1
<1>3. \A x \in S : (\A k \in S : x >= k) => x = m
  BY <1>1
<1> QED BY <1>2, <1>3 DEF Streak!Max

LEMMA StreakIs ==
  ASSUME StreakAssumption, StreakInv
  PROVE  Streak!StreakIsTheRun
<1>1. /\ v1 \in SUBSET Nat /\ v1 \in SUBSET Int /\ IsFiniteSet(v1)
      /\ v1 \in SUBSET (0..StreakDays) /\ StreakDays \in Nat /\ v2 \in 0..StreakDays
  BY DaysAre DEF StreakAssumption, StreakInv
<1>2. Streak!Current(v1, v2) = Streak!Max(Streak!Lengths(IF v2 \in v1 THEN v2 ELSE v2 - 1))
  <2>1. PICK a : a = IF v2 \in v1 THEN v2 ELSE v2 - 1
    OBVIOUS
  <2>2. a \in -1..StreakDays /\ a \in Int
    BY <1>1, <2>1
  <2>3. Streak!Current(v1, v2) = Walk(v1)[a]
    <3>1. CASE a \in v1
      <4>1. Streak!Anchors(v1, v2) = {a}
        BY <2>1, <3>1 DEF Streak!Anchors
      <4>2. Streak!WalkBack(v1, a) = Walk(v1)[a]
        BY DEF Streak!WalkBack, Walk, WalkStep
      <4>3. (CHOOSE x \in {a} : TRUE) = a /\ {a} # {}
        OBVIOUS
      <4> QED BY <4>1, <4>2, <4>3 DEF Streak!Current
    <3>2. CASE a \notin v1
      <4>1. Streak!Anchors(v1, v2) = {}
        BY <2>1, <3>2 DEF Streak!Anchors
      <4>2. Walk(v1)[a] = 0
        BY <1>1, <2>2, <3>2, WalkExists DEF WalkStep
      <4> QED BY <4>1, <4>2 DEF Streak!Current
    <3> QED BY <3>1, <3>2
  <2>4. PICK S : S = Streak!Lengths(a)
    OBVIOUS
  <2>5. Walk(v1)[a] \in S /\ \A m \in S : m \in Nat /\ m <= Walk(v1)[a]
    BY <2>2, <2>4, WalkIsLongest
  <2>6. S \subseteq Nat
    BY <2>5
  <2>7. Streak!Max(S) = Walk(v1)[a]
    BY <2>5, <2>6, GreatestIs
  <2> QED BY <2>1, <2>3, <2>4, <2>7
<1>3. Streak!Longest(v1) = Streak!Max(UNION {Streak!Lengths(d) : d \in 0..StreakDays})
  <2>1. PICK S : S = UNION {Streak!Lengths(d) : d \in 0..StreakDays}
    OBVIOUS
  <2>2. ASSUME NEW d \in 0..StreakDays
        PROVE  /\ Walk(v1)[d] \in Streak!Lengths(d)
               /\ \A m \in Streak!Lengths(d) : m \in Nat /\ m <= Walk(v1)[d]
    <3>1. d \in -1..StreakDays
      BY <1>1
    <3> QED BY <3>1, WalkIsLongest
  <2>3. S \subseteq Nat
    BY <2>1, <2>2
  <2>4. CASE v1 = {}
    <3>1. \A d \in 0..StreakDays : Walk(v1)[d] = 0
      BY <1>1, <2>4, WalkExists DEF WalkStep
    <3>2. 0 \in S
      <4>1. 0 \in 0..StreakDays
        BY <1>1
      <4> QED BY <2>1, <2>2, <3>1, <4>1
    <3>3. ASSUME NEW m \in S PROVE m <= 0
      <4>1. PICK d \in 0..StreakDays : m \in Streak!Lengths(d)
        BY <2>1
      <4> QED BY <2>2, <3>1, <4>1
    <3>4. Streak!Max(S) = 0
      BY <2>3, <3>2, <3>3, GreatestIs
    <3>5. Streak!Longest(v1) = 0
      BY <2>4 DEF Streak!Longest
    <3> QED BY <2>1, <3>4, <3>5
  <2>5. CASE v1 # {}
    <3>1. PICK m : m = Streak!Longest(v1)
      OBVIOUS
    <3>2. \A d \in v1 : d \in 0..StreakDays /\ d <= StreakDays
      BY <1>1
    <3>3. /\ \E d \in v1 : m = Walk(v1)[d]
          /\ \A d \in v1 : Walk(v1)[d] <= m
      BY <1>1, <2>5, <3>1, <3>2, LongestIs
    <3>4. m \in S
      BY <2>1, <2>2, <3>2, <3>3
    <3>5. ASSUME NEW k \in S PROVE k <= m
      <4>1. PICK d \in 0..StreakDays : k \in Streak!Lengths(d)
        BY <2>1
      <4>2. k \in Nat /\ k <= Walk(v1)[d] /\ Walk(v1)[d] \in Nat /\ m \in Nat
        BY <2>1, <2>2, <2>3, <3>4, <4>1
      <4>3. CASE d \in v1
        BY <3>3, <4>2, <4>3
      <4>4. CASE d \notin v1
        <5>1. Walk(v1)[d] = 0
          BY <1>1, <4>4, WalkExists DEF WalkStep
        <5> QED BY <4>2, <5>1
      <4> QED BY <4>3, <4>4
    <3>6. Streak!Max(S) = m
      BY <2>3, <3>4, <3>5, GreatestIs
    <3> QED BY <2>1, <3>1, <3>6
  <2> QED BY <2>4, <2>5
<1> QED BY <1>2, <1>3 DEF Streak!StreakIsTheRun

\* The current streak is the longest run of study days that ends today or
\* yesterday, and the longest streak the longest run there is (progress
\* repository computeStreakFromDates).
THEOREM StreakIsTheRunHolds ==
  ASSUME StreakAssumption
  PROVE  ServicesSpec => []StreakIsTheRun
<1> DEFINE Inv == service = "streak" => StreakInv
<1>1. ServicesInit => Inv
  BY DEF ServicesInit, Streak!StudyInit, StreakInv, StreakAssumption
<1>2. Inv /\ [ServicesNext]_vars => Inv'
  BY Zenon, StepIs, StudyPreserves
<1>3. Inv => StreakIsTheRun
  BY StreakIs DEF StreakIsTheRun
<1> QED BY <1>1, <1>2, <1>3, PTL DEF ServicesSpec

-----------------------------------------------------------------------------
(***************************************************************************)
(* The rate limiter: v1 to v6 are rdb, now, reading, bucket, lastGC and    *)
(* admitted.  A store remembers one window of a client, or one of each     *)
(* key; the invariant says what is true of those it has forgotten.         *)
(***************************************************************************)
Counts == [0..LastTick -> Nat]
Bucket == [count : Nat, end : Int]

\* How many requests with readings in lo..hi were let through
In(f, lo, hi) == SumFunctionOnSet(f, {at \in 0..LastTick : lo <= at /\ at <= hi})

LEMMA InIs ==
  ASSUME LimitAssumption, NEW f \in Counts
  PROVE  /\ \A lo, hi \in Int : In(f, lo, hi) \in Nat
         /\ \A lo, hi, lo2, hi2 \in Int :
              lo2 <= lo /\ hi <= hi2 => In(f, lo, hi) <= In(f, lo2, hi2)
         /\ \A lo, mid, hi \in Int : In(f, lo, hi) <= In(f, lo, mid) + In(f, mid + 1, hi)
         /\ \A lo, hi \in Int : hi < lo \/ LastTick < lo => In(f, lo, hi) = 0
<1> DEFINE S(lo, hi) == {at \in 0..LastTick : lo <= at /\ at <= hi}
<1>1. /\ \A at \in 0..LastTick : f[at] \in Nat /\ at \in Int
      /\ LastTick \in Nat /\ IsFiniteSet(0..LastTick)
  <2>1. LastTick \in Nat
    BY DEF LimitAssumption
  <2>2. IsFiniteSet(0..LastTick)
    BY <2>1, FS_Interval
  <2> QED BY <2>1, <2>2 DEF Counts
<1>2. \A lo, hi \in Int : S(lo, hi) \in SUBSET (0..LastTick)
  OBVIOUS
<1>3. \A lo, hi \in Int : IsFiniteSet(S(lo, hi))
  BY <1>1, <1>2, FS_Subset
<1>4. ASSUME NEW lo \in Int, NEW hi \in Int PROVE In(f, lo, hi) \in Nat
  <2>1. \A x \in S(lo, hi) : f[x] \in Nat
    BY <1>1
  <2> QED BY <1>3, <2>1, SumNat DEF In
<1>5. ASSUME NEW lo \in Int, NEW hi \in Int, NEW lo2 \in Int, NEW hi2 \in Int,
             lo2 <= lo, hi <= hi2
      PROVE  In(f, lo, hi) <= In(f, lo2, hi2)
  <2>1. S(lo, hi) \in SUBSET S(lo2, hi2)
    BY <1>1, <1>5
  <2>2. \A x \in S(lo2, hi2) : f[x] \in Nat /\ f[x] <= f[x]
    BY <1>1
  <2> HIDE DEF S
  <2>3. SumFunctionOnSet(f, S(lo, hi)) <= SumFunctionOnSet(f, S(lo2, hi2))
    BY <1>3, <2>1, <2>2, SumLess
  <2> QED BY <2>3 DEF In, S
<1>6. ASSUME NEW lo \in Int, NEW mid \in Int, NEW hi \in Int
      PROVE  In(f, lo, hi) <= In(f, lo, mid) + In(f, mid + 1, hi)
  <2>1. PICK A : A = S(lo, mid)
    OBVIOUS
  <2>2. PICK B : B = S(mid + 1, hi)
    OBVIOUS
  <2>3. S(lo, hi) \in SUBSET (A \cup B) /\ \A x \in A \cup B : f[x] \in Nat
    BY <1>1, <2>1, <2>2
  <2> HIDE DEF S
  <2>4. IsFiniteSet(A) /\ IsFiniteSet(B) /\ IsFiniteSet(A \cup B)
    <3>1. IsFiniteSet(A) /\ IsFiniteSet(B)
      BY <1>3, <2>1, <2>2
    <3> QED BY <3>1, FS_Union
  <2>5. SumFunctionOnSet(f, A \cup B) <= SumFunctionOnSet(f, A) + SumFunctionOnSet(f, B)
    BY <2>3, <2>4, SumUnion
  <2>6. SumFunctionOnSet(f, S(lo, hi)) <= SumFunctionOnSet(f, A \cup B)
    <3>1. \A x \in A \cup B : f[x] \in Nat /\ f[x] <= f[x]
      BY <2>3
    <3>2. \A x \in S(lo, hi) : f[x] \in Nat /\ f[x] <= f[x]
      BY <2>3, <3>1
    <3> QED BY <2>3, <2>4, <3>1, <3>2, SumLess
  <2>7. /\ SumFunctionOnSet(f, A \cup B) \in Nat /\ SumFunctionOnSet(f, A) \in Nat
        /\ SumFunctionOnSet(f, B) \in Nat /\ SumFunctionOnSet(f, S(lo, hi)) \in Nat
    <3>1. \A x \in S(lo, hi) : f[x] \in Nat
      BY <2>3
    <3>2. IsFiniteSet(S(lo, hi))
      BY <1>3
    <3> QED BY <2>3, <2>4, <3>1, <3>2, SumNat
  <2>8. SumFunctionOnSet(f, S(lo, hi)) <= SumFunctionOnSet(f, A) + SumFunctionOnSet(f, B)
    BY <2>5, <2>6, <2>7
  <2> QED BY <2>1, <2>2, <2>8 DEF In, S
<1>7. ASSUME NEW lo \in Int, NEW hi \in Int, hi < lo \/ LastTick < lo
      PROVE  In(f, lo, hi) = 0
  <2>1. S(lo, hi) = {}
    BY <1>1, <1>7
  <2> QED BY <2>1, SumEmpty DEF In
<1> HIDE DEF S
<1> QED BY <1>4, <1>5, <1>6, <1>7

LEMMA InLess ==
  ASSUME LimitAssumption, NEW f \in Counts, NEW g \in Counts,
         \A at \in 0..LastTick : g[at] <= f[at], NEW lo \in Int, NEW hi \in Int
  PROVE  In(g, lo, hi) <= In(f, lo, hi)
<1>1. PICK S : S = {at \in 0..LastTick : lo <= at /\ at <= hi}
  OBVIOUS
<1>2. IsFiniteSet(0..LastTick) /\ S \in SUBSET (0..LastTick)
  BY <1>1, FS_Interval DEF LimitAssumption
<1>3. IsFiniteSet(S) /\ S \in SUBSET S
  BY <1>2, FS_Subset
<1>4. \A x \in S : f[x] \in Nat /\ g[x] \in Nat /\ g[x] <= f[x]
  BY <1>2 DEF Counts
<1>5. SumFunctionOnSet(g, S) <= SumFunctionOnSet(f, S)
  BY <1>3, <1>4, SumLess
<1> QED BY <1>1, <1>5 DEF In

LEMMA InChanges ==
  ASSUME LimitAssumption, NEW f \in Counts, NEW g \in Counts, NEW at \in 0..LastTick,
         g[at] = f[at] + 1, \A x \in 0..LastTick : x # at => g[x] = f[x],
         NEW lo \in Int, NEW hi \in Int
  PROVE  In(g, lo, hi) = IF lo <= at /\ at <= hi THEN In(f, lo, hi) + 1 ELSE In(f, lo, hi)
<1>1. PICK S : S = {x \in 0..LastTick : lo <= x /\ x <= hi}
  OBVIOUS
<1>2. IsFiniteSet(0..LastTick) /\ S \in SUBSET (0..LastTick)
  BY <1>1, FS_Interval DEF LimitAssumption
<1>3. IsFiniteSet(S)
  BY <1>2, FS_Subset
<1>4. \A x \in S : f[x] \in Nat /\ g[x] \in Nat
  BY <1>2 DEF Counts
<1>5. In(f, lo, hi) = SumFunctionOnSet(f, S) /\ In(g, lo, hi) = SumFunctionOnSet(g, S)
  BY <1>1 DEF In
<1>6. CASE lo <= at /\ at <= hi
  <2>1. at \in S /\ \A x \in S \ {at} : f[x] = g[x]
    BY <1>1, <1>2, <1>6
  <2>2. SumFunctionOnSet(g, S) = SumFunctionOnSet(f, S) - f[at] + g[at]
    <3>1. IsFiniteSet(S \ {at}) /\ \A x \in S \ {at} : f[x] = g[x]
      BY <1>3, <2>1, FS_Subset
    <3>2. SumFunctionOnSet(f, S \ {at}) = SumFunctionOnSet(g, S \ {at})
      BY <3>1, SumSame
    <3>3. /\ SumFunctionOnSet(f, S) = f[at] + SumFunctionOnSet(f, S \ {at})
          /\ SumFunctionOnSet(f, S \ {at}) \in Nat
      <4>1. \A x \in S : f[x] \in Nat
        BY <1>4
      <4> QED BY <1>3, <2>1, <4>1, SumRemove, Zenon
    <3>4. SumFunctionOnSet(g, S) = g[at] + SumFunctionOnSet(g, S \ {at})
      <4>1. \A x \in S : g[x] \in Nat
        BY <1>4
      <4>2. \A x \in S : SumFunctionOnSet(g, S) = g[x] + SumFunctionOnSet(g, S \ {x})
        BY <1>3, <4>1, SumRemove
      <4> QED BY <2>1, <4>2
    <3> QED BY <1>4, <2>1, <3>2, <3>3, <3>4
  <2>3. SumFunctionOnSet(f, S) \in Nat /\ f[at] \in Nat
    BY <1>3, <1>4, <2>1, SumNat
  <2> QED BY <1>5, <1>6, <2>2, <2>3
<1>7. CASE ~(lo <= at /\ at <= hi)
  <2>1. \A x \in S : g[x] = f[x]
    BY <1>1, <1>2, <1>7
  <2>2. SumFunctionOnSet(g, S) = SumFunctionOnSet(f, S)
    BY <1>3, <2>1, SumSame
  <2> QED BY <1>5, <1>7, <2>2
<1> QED BY <1>6, <1>7

\* g counts one more request than f, with the reading at.
Adds(f, at, g) ==
  \A lo, hi \in Int : In(g, lo, hi) = IF lo <= at /\ at <= hi THEN In(f, lo, hi) + 1
                                                             ELSE In(f, lo, hi)
LEMMA InAdds ==
  ASSUME LimitAssumption, NEW f \in Counts, NEW at \in 0..LastTick, NEW g,
         g = [f EXCEPT ![at] = @ + 1]
  PROVE  g \in Counts /\ Adds(f, at, g)
<1>1. g \in Counts /\ g[at] = f[at] + 1 /\ \A x \in 0..LastTick : x # at => g[x] = f[x]
  BY DEF Counts
<1> QED BY <1>1, InChanges DEF Adds

\* What a bucket says was let through
Passed(b) == IF b = None THEN 0 ELSE IF b.count <= Limit THEN b.count ELSE Limit

LEMMA PassedIs ==
  ASSUME LimitAssumption, NEW b \in Bucket \cup {None}
  PROVE  Passed(b) \in Nat /\ Passed(b) <= Limit
BY DEF LimitAssumption, Bucket, Passed

\* A count goes up by the request, and it is refused if that exceeds the limit.
LEMMA CountedIs ==
  ASSUME LimitAssumption, NEW b \in Bucket, NEW count, count = Limiter!Counted(b.count),
         NEW b2 \in Bucket, b2.count = count
  PROVE  /\ count \in Nat
         /\ ~Limiter!Refused(count) => Passed(b2) = Passed(b) + 1
         /\ Limiter!Refused(count) => Passed(b) <= Passed(b2)
BY DEF LimitAssumption, Bucket, Passed, Limiter!Counted, Limiter!Refused

\* How many with readings later than e
After(f, e) == In(f, e + 1, LastTick)

LEMMA AfterIs ==
  ASSUME LimitAssumption, NEW f \in Counts
  PROVE  /\ \A e \in Int : After(f, e) \in Nat
         /\ \A e, e2 \in Int : e <= e2 => After(f, e2) <= After(f, e)
         /\ \A e, lo, hi \in Int : e < lo => In(f, lo, hi) <= After(f, e)
<1>1. LastTick \in Int
  BY DEF LimitAssumption
<1>2. ASSUME NEW e \in Int PROVE After(f, e) \in Nat
  <2>1. e + 1 \in Int
    OBVIOUS
  <2> QED BY <1>1, <2>1, InIs DEF After
<1>3. ASSUME NEW e \in Int, NEW e2 \in Int, e <= e2 PROVE After(f, e2) <= After(f, e)
  <2>1. e + 1 \in Int /\ e2 + 1 \in Int /\ e + 1 <= e2 + 1 /\ LastTick <= LastTick
    BY <1>1, <1>3
  <2> QED BY <1>1, <2>1, InIs DEF After
<1>4. ASSUME NEW e \in Int, NEW lo \in Int, NEW hi \in Int, e < lo
      PROVE  In(f, lo, hi) <= After(f, e)
  <2>1. PICK n \in Int : n = e + 1
    OBVIOUS
  <2>2. n <= lo /\ (hi <= LastTick => In(f, lo, hi) <= In(f, n, LastTick))
    BY <1>1, <1>4, <2>1, InIs
  <2>3. In(f, lo, hi) <= In(f, lo, LastTick) + In(f, LastTick + 1, hi)
    BY <1>1, InIs
  <2>4. LastTick + 1 \in Int /\ LastTick < LastTick + 1
    BY <1>1
  <2>5. In(f, LastTick + 1, hi) = 0
    BY <2>4, InIs
  <2>6. In(f, lo, LastTick) <= In(f, n, LastTick)
    <3>1. LastTick <= LastTick
      BY <1>1
    <3> QED BY <1>1, <2>2, <3>1, InIs
  <2>7. In(f, lo, LastTick) \in Nat /\ In(f, n, LastTick) \in Nat /\ In(f, lo, hi) \in Nat
    BY <1>1, InIs
  <2>8. In(f, lo, hi) <= In(f, n, LastTick)
    BY <2>3, <2>5, <2>6, <2>7
  <2> QED BY <2>1, <2>8 DEF After
<1> QED BY <1>2, <1>3, <1>4

LEMMA AfterLess ==
  ASSUME LimitAssumption, NEW f \in Counts, NEW g \in Counts,
         \A at \in 0..LastTick : g[at] <= f[at], NEW e \in Int
  PROVE  After(g, e) <= After(f, e)
<1>1. e + 1 \in Int /\ LastTick \in Int
  BY DEF LimitAssumption
<1> QED BY <1>1, InLess DEF After

LEMMA AfterAdds ==
  ASSUME LimitAssumption, NEW f, NEW g, NEW at \in 0..LastTick, Adds(f, at, g), NEW e \in Int
  PROVE  After(g, e) = IF e < at THEN After(f, e) + 1 ELSE After(f, e)
<1>1. LastTick \in Int /\ at \in Int /\ at <= LastTick
  BY DEF LimitAssumption
<1>2. PICK n \in Int : n = e + 1
  OBVIOUS
<1>3. In(g, n, LastTick) = IF n <= at /\ at <= LastTick THEN In(f, n, LastTick) + 1
                                                       ELSE In(f, n, LastTick)
  BY <1>1 DEF Adds
<1>4. n <= at <=> e < at
  BY <1>1, <1>2
<1> QED BY <1>1, <1>2, <1>3, <1>4 DEF After

\* In memory.  The windows of a client that the bucket has replaced ended at e1,
\* e2, e3 and earlier.  The next one can be opened up to MaxDelay before the
\* clock gets past the end of the last, so the ends lie at least Gap apart; no
\* reading is later than the end of its window, and those up to e3 share no
\* interval with one that is still to come.
Gap == LimitWindow + 1 - MaxDelay
Past(f, b, n, e1, e2, e3) ==
  /\ e1 < n /\ e2 + Gap <= e1 /\ e3 + Gap <= e2
  /\ After(f, e1) <= Passed(b)
  /\ After(f, e2) <= Limit + Passed(b)
  /\ After(f, e3) <= 2 * Limit + Passed(b)
  /\ b # None => e1 + Gap <= b.end /\ After(f, b.end) = 0
Thrice(f) == \A t \in Int : In(f, t, t + LimitWindow - 1) <= 3 * Limit
MemoryOk(f, b, n) == Thrice(f) /\ \E e1, e2, e3 \in Int : Past(f, b, n, e1, e2, e3)

LEMMA ThriceTicks ==
  ASSUME LimitAssumption, NEW f \in Counts, NEW g \in Counts,
         \A at \in 0..LastTick : g[at] <= f[at], Thrice(f)
  PROVE  Thrice(g)
<1> SUFFICES ASSUME NEW t \in Int PROVE In(g, t, t + LimitWindow - 1) <= 3 * Limit
  BY DEF Thrice
<1>1. PICK hi \in Int : hi = t + LimitWindow - 1
  BY DEF LimitAssumption
<1>2. In(g, t, hi) <= In(f, t, hi)
  BY InLess
<1>3. In(g, t, hi) \in Nat /\ In(f, t, hi) \in Nat /\ Limit \in Nat
  BY InIs DEF LimitAssumption
<1>4. In(f, t, hi) <= 3 * Limit
  BY <1>1 DEF Thrice
<1> QED BY <1>1, <1>2, <1>3, <1>4

LEMMA MemoryTicks ==
  ASSUME LimitAssumption, NEW f \in Counts, NEW g \in Counts,
         \A at \in 0..LastTick : g[at] <= f[at],
         NEW b \in Bucket \cup {None}, NEW n \in Int, NEW n2 \in Int, n <= n2, MemoryOk(f, b, n)
  PROVE  MemoryOk(g, b, n2)
<1>1. \A e \in Int : /\ After(g, e) <= After(f, e)
                     /\ After(g, e) \in Nat /\ After(f, e) \in Nat
  BY AfterLess, AfterIs
<1>2. Limit \in Nat /\ Passed(b) \in Nat /\ (b # None => b.end \in Int)
  BY PassedIs DEF LimitAssumption, Bucket
<1>3. PICK e1, e2, e3 \in Int : Past(f, b, n, e1, e2, e3)
  BY DEF MemoryOk
<1>4. Past(g, b, n2, e1, e2, e3)
  <2>1. e1 < n2
    BY <1>3 DEF Past
  <2>2. /\ After(g, e1) <= Passed(b)
        /\ After(g, e2) <= Limit + Passed(b)
        /\ After(g, e3) <= 2 * Limit + Passed(b)
    BY <1>1, <1>2, <1>3 DEF Past
  <2>3. b # None => After(g, b.end) = 0
    BY <1>1, <1>2, <1>3 DEF Past
  <2> QED BY <1>3, <2>1, <2>2, <2>3 DEF Past
<1> QED BY <1>4, ThriceTicks DEF MemoryOk

\* A window that is over is forgotten.
LEMMA MemoryCloses ==
  ASSUME LimitAssumption, NEW f \in Counts, NEW b \in Bucket, NEW n \in Int,
         b.end < n, MemoryOk(f, b, n)
  PROVE  MemoryOk(f, None, n)
<1>1. /\ b # None /\ b.end \in Int /\ Passed(b) \in Nat /\ Passed(b) <= Limit /\ Passed(None) = 0
      /\ Limit \in Nat
  BY PassedIs DEF LimitAssumption, Bucket, Passed
<1>2. PICK e1, e2, e3 \in Int : Past(f, b, n, e1, e2, e3)
  BY DEF MemoryOk
<1>3. After(f, b.end) \in Nat /\ After(f, e1) \in Nat /\ After(f, e2) \in Nat
  BY <1>1, AfterIs
<1>4. Past(f, None, n, b.end, e1, e2)
  BY <1>1, <1>2, <1>3 DEF Past
<1> QED BY <1>1, <1>4 DEF MemoryOk

\* The last three windows span more than one window and the delay.
LEMMA SpanIs ==
  ASSUME LimitAssumption, NEW n \in Int, NEW at \in Int, n - MaxDelay <= at,
         NEW e1 \in Int, NEW e2 \in Int, NEW e3 \in Int,
         e1 < n, e2 + Gap <= e1, e3 + Gap <= e2,
         NEW t \in Int, at < t + LimitWindow
  PROVE  e3 < t
BY DEF LimitAssumption, Gap

\* A request is let through in the window b2.
LEMMA MemoryAdmits ==
  ASSUME LimitAssumption, NEW f \in Counts, NEW g \in Counts, NEW at \in 0..LastTick,
         Adds(f, at, g),
         NEW b \in Bucket \cup {None}, NEW b2 \in Bucket, NEW n \in Int, Thrice(f),
         n - MaxDelay <= at, at <= b2.end, Passed(b2) = Passed(b) + 1,
         NEW e1 \in Int, NEW e2 \in Int, NEW e3 \in Int, Past(f, b, n, e1, e2, e3),
         e1 + Gap <= b2.end, After(f, b2.end) = 0
  PROVE  MemoryOk(g, b2, n)
<1>1. /\ Limit \in Nat /\ b2 # None /\ b2.end \in Int /\ at \in Int
      /\ Passed(b) \in Nat /\ Passed(b2) \in Nat /\ Passed(b2) <= Limit
  BY PassedIs DEF LimitAssumption, Bucket
<1>2. \A e \in Int : /\ After(g, e) = IF e < at THEN After(f, e) + 1 ELSE After(f, e)
                     /\ After(f, e) \in Nat /\ After(g, e) \in Nat
  BY AfterAdds, AfterIs
<1>3. Past(g, b2, n, e1, e2, e3)
  <2>1. After(g, b2.end) = 0
    BY <1>1, <1>2
  <2>2. /\ After(g, e1) <= After(f, e1) + 1 /\ After(f, e1) \in Nat /\ After(g, e1) \in Nat
        /\ After(g, e2) <= After(f, e2) + 1 /\ After(f, e2) \in Nat /\ After(g, e2) \in Nat
        /\ After(g, e3) <= After(f, e3) + 1 /\ After(f, e3) \in Nat /\ After(g, e3) \in Nat
    BY <1>2
  <2>3. /\ After(f, e1) <= Passed(b)
        /\ After(f, e2) <= Limit + Passed(b)
        /\ After(f, e3) <= 2 * Limit + Passed(b)
        /\ e1 < n /\ e2 + Gap <= e1 /\ e3 + Gap <= e2
    BY DEF Past
  <2>4. /\ After(g, e1) <= Passed(b2)
        /\ After(g, e2) <= Limit + Passed(b2)
        /\ After(g, e3) <= 2 * Limit + Passed(b2)
    BY <1>1, <2>2, <2>3
  <2> QED BY <2>1, <2>3, <2>4 DEF Past
<1>4. ASSUME NEW t \in Int PROVE In(g, t, t + LimitWindow - 1) <= 3 * Limit
  <2>1. PICK hi \in Int : hi = t + LimitWindow - 1
    BY DEF LimitAssumption
  <2>2. CASE ~(t <= at /\ at <= hi)
    <3>1. In(g, t, hi) = In(f, t, hi)
      BY <2>1, <2>2 DEF Adds
    <3> QED BY <2>1, <3>1 DEF Thrice
  <2>3. CASE t <= at /\ at <= hi
    <3>1. e1 < n /\ e2 + Gap <= e1 /\ e3 + Gap <= e2
      BY DEF Past
    <3>2. at < t + LimitWindow
      BY <1>1, <2>1, <2>3 DEF LimitAssumption
    <3>3. e3 < t
      BY <1>1, <3>1, <3>2, SpanIs
    <3>4. In(g, t, hi) <= After(g, e3)
      BY <3>3, AfterIs
    <3>5. After(g, e3) <= 2 * Limit + Passed(b2)
      BY <1>3 DEF Past
    <3>6. In(g, t, hi) \in Nat /\ After(g, e3) \in Nat
      BY <1>2, InIs
    <3>7. In(g, t, hi) <= 3 * Limit
      BY <1>1, <3>4, <3>5, <3>6
    <3> QED BY <2>1, <3>7
  <2> QED BY <2>2, <2>3
<1> QED BY <1>3, <1>4 DEF MemoryOk, Thrice

\* A window is opened.
LEMMA MemoryOpens ==
  ASSUME LimitAssumption, NEW f \in Counts, NEW g \in Counts, NEW at \in 0..LastTick,
         Adds(f, at, g), NEW b2 \in Bucket, b2.count = 1, b2.end = at + LimitWindow,
         NEW n \in Int, n - MaxDelay <= at, MemoryOk(f, None, n)
  PROVE  MemoryOk(g, b2, n)
<1>1. PICK e1, e2, e3 \in Int : Past(f, None, n, e1, e2, e3)
  BY DEF MemoryOk
<1>2. Passed(b2) = Passed(None) + 1 /\ Passed(None) = 0
  BY DEF Passed, LimitAssumption, Bucket
<1>3. at <= b2.end /\ e1 + Gap <= b2.end /\ e1 <= b2.end /\ b2.end \in Int
  <2>1. e1 < n
    BY <1>1 DEF Past
  <2> QED BY <2>1 DEF LimitAssumption, Gap
<1>4. After(f, b2.end) = 0
  <2>1. After(f, e1) <= 0
    BY <1>1, <1>2 DEF Past
  <2>2. /\ After(f, b2.end) <= After(f, e1)
        /\ After(f, b2.end) \in Nat /\ After(f, e1) \in Nat
    BY <1>3, AfterIs
  <2> QED BY <2>1, <2>2
<1>5. Thrice(f) /\ None \in Bucket \cup {None}
  BY DEF MemoryOk
<1> QED BY <1>1, <1>2, <1>3, <1>4, <1>5, MemoryAdmits

\* A request is counted in the window there is.
LEMMA MemoryCounts ==
  ASSUME LimitAssumption, NEW f \in Counts, NEW g \in Counts, NEW at \in 0..LastTick,
         NEW b \in Bucket, NEW b2 \in Bucket,
         b2.count = Limiter!Counted(b.count), b2.end = b.end,
         IF Limiter!Refused(b2.count) THEN g = f ELSE Adds(f, at, g),
         NEW n \in Int, n - MaxDelay <= at, at <= b.end, MemoryOk(f, b, n)
  PROVE  MemoryOk(g, b2, n)
<1>1. PICK e1, e2, e3 \in Int : Past(f, b, n, e1, e2, e3)
  BY DEF MemoryOk
<1>2. /\ ~Limiter!Refused(b2.count) => Passed(b2) = Passed(b) + 1
      /\ Limiter!Refused(b2.count) => Passed(b) <= Passed(b2)
  BY CountedIs
<1>3. b # None /\ b2 # None /\ b.end \in Int
  BY DEF LimitAssumption, Bucket
<1>4. e1 + Gap <= b2.end /\ After(f, b2.end) = 0
  BY <1>1, <1>3 DEF Past
<1>5. CASE ~Limiter!Refused(b2.count)
  <2>1. Adds(f, at, g) /\ Passed(b2) = Passed(b) + 1 /\ Thrice(f) /\ at <= b2.end
    BY <1>2, <1>5 DEF MemoryOk
  <2>2. b \in Bucket \cup {None}
    OBVIOUS
  <2> QED BY <1>1, <1>4, <2>1, <2>2, MemoryAdmits
<1>6. CASE Limiter!Refused(b2.count)
  <2>1. g = f /\ Passed(b) <= Passed(b2)
    BY <1>2, <1>6
  <2>2. Limit \in Nat /\ Passed(b) \in Nat /\ Passed(b2) \in Nat
    BY PassedIs DEF LimitAssumption
  <2>3. After(f, e1) \in Nat /\ After(f, e2) \in Nat /\ After(f, e3) \in Nat
    BY AfterIs
  <2>4. Past(f, b2, n, e1, e2, e3)
    <3>1. /\ e1 < n /\ e2 + Gap <= e1 /\ e3 + Gap <= e2
          /\ After(f, e1) <= Passed(b)
          /\ After(f, e2) <= Limit + Passed(b)
          /\ After(f, e3) <= 2 * Limit + Passed(b)
      BY <1>1 DEF Past
    <3>2. /\ After(f, e1) <= Passed(b2)
          /\ After(f, e2) <= Limit + Passed(b2)
          /\ After(f, e3) <= 2 * Limit + Passed(b2)
      BY <2>1, <2>2, <2>3, <3>1
    <3> QED BY <1>4, <3>1, <3>2 DEF Past
  <2>5. Thrice(g) /\ Past(g, b2, n, e1, e2, e3)
    BY <2>1, <2>4 DEF MemoryOk
  <2> QED BY <2>5 DEF MemoryOk
<1> QED BY <1>5, <1>6

\* In Redis.  The key of the window that begins with first has been counted in
\* once, or it has expired, after a last use at m, and been counted in again, up
\* to a window and the delay after its beginning, which it then survives.  What
\* was let through the second time has readings close to the end of the window.
Last(first) == first + LimitWindow - 1
Once(f, b, n, first) ==
  /\ In(f, first, Last(first)) <= Passed(b)
  /\ b # None => /\ first <= b.end - LimitWindow /\ b.end - LimitWindow <= n
                 /\ In(f, b.end - LimitWindow + 1, Last(first)) = 0
Again(f, b, n, first, m) ==
  /\ first <= m /\ m <= Last(first) /\ m + LimitWindow <= n
  /\ In(f, first, m) <= Limit
  /\ \A t \in Int : t <= Last(first) /\ t < m + LimitWindow - MaxDelay => In(f, m + 1, t) = 0
  /\ In(f, m + 1, Last(first)) <= IF n < first + 2 * LimitWindow THEN Passed(b) ELSE Limit
  /\ b # None => first + 2 * LimitWindow <= b.end
RedisOk(f, b, n, first) == Once(f, b, n, first) \/ \E m \in Int : Again(f, b, n, first, m)

LEMMA LastIs ==
  ASSUME LimitAssumption, NEW first \in Int
  PROVE  /\ Last(first) \in Int /\ first <= Last(first) /\ Last(first) < first + LimitWindow
         /\ LimitWindow \in Nat /\ Limit \in Nat /\ MaxDelay \in Nat
         /\ Last(first) + MaxDelay < first + 2 * LimitWindow
BY DEF LimitAssumption, Last

\* It says nothing of other windows.
LEMMA RedisLess ==
  ASSUME LimitAssumption, NEW f \in Counts, NEW g \in Counts, NEW first \in Int,
         \A lo, hi \in Int : first <= lo /\ hi <= Last(first) => In(g, lo, hi) <= In(f, lo, hi),
         NEW b \in Bucket \cup {None}, NEW n \in Int, RedisOk(f, b, n, first)
  PROVE  RedisOk(g, b, n, first)
<1>1. \A lo, hi \in Int : In(g, lo, hi) \in Nat /\ In(f, lo, hi) \in Nat
  BY InIs
<1>2. Last(first) \in Int /\ LimitWindow \in Nat /\ Limit \in Nat /\ Passed(b) \in Nat
      /\ first <= Last(first)
  BY LastIs, PassedIs
<1>3. CASE Once(f, b, n, first)
  <2>1. In(g, first, Last(first)) <= Passed(b)
    <3>1. In(g, first, Last(first)) <= In(f, first, Last(first))
      BY <1>2
    <3>2. In(f, first, Last(first)) <= Passed(b)
      BY <1>3 DEF Once
    <3>3. In(g, first, Last(first)) \in Nat /\ In(f, first, Last(first)) \in Nat
      BY <1>1, <1>2
    <3> QED BY <1>2, <3>1, <3>2, <3>3
  <2>2. ASSUME b # None PROVE In(g, b.end - LimitWindow + 1, Last(first)) = 0
    <3>1. PICK x \in Int : x = b.end - LimitWindow + 1
      BY <1>2, <2>2 DEF Bucket
    <3>2. first <= x /\ In(f, x, Last(first)) = 0
      BY <1>2, <1>3, <2>2, <3>1 DEF Once, Bucket
    <3>3. In(g, x, Last(first)) <= In(f, x, Last(first))
      BY <1>2, <3>2
    <3>4. In(g, x, Last(first)) \in Nat
      BY <1>1, <1>2
    <3>5. In(g, x, Last(first)) = 0
      BY <3>2, <3>3, <3>4
    <3> QED BY <3>1, <3>5
  <2> QED BY <1>3, <2>1, <2>2 DEF Once, RedisOk
<1>4. ASSUME NEW m \in Int, Again(f, b, n, first, m) PROVE Again(g, b, n, first, m)
  <2>1. first <= m /\ m <= Last(first) /\ m + 1 \in Int /\ first <= m + 1
    BY <1>4 DEF Again
  <2>2. In(g, first, m) <= Limit
    <3>1. In(g, first, m) <= In(f, first, m) /\ In(f, first, m) <= Limit
      BY <1>4, <2>1 DEF Again
    <3> QED BY <1>1, <1>2, <3>1
  <2>3. ASSUME NEW t \in Int, t <= Last(first), t < m + LimitWindow - MaxDelay
        PROVE  In(g, m + 1, t) = 0
    <3>1. In(g, m + 1, t) <= In(f, m + 1, t) /\ In(f, m + 1, t) = 0
      BY <1>4, <2>1, <2>3 DEF Again
    <3>2. In(g, m + 1, t) \in Nat
      BY <1>1, <2>1
    <3> QED BY <3>1, <3>2
  <2>4. In(g, m + 1, Last(first)) <= IF n < first + 2 * LimitWindow THEN Passed(b) ELSE Limit
    <3>1. PICK k \in Nat : k = IF n < first + 2 * LimitWindow THEN Passed(b) ELSE Limit
      BY <1>2
    <3>2. In(f, m + 1, Last(first)) <= k
      BY <1>4, <3>1 DEF Again
    <3>3. In(g, m + 1, Last(first)) <= In(f, m + 1, Last(first))
      BY <1>2, <2>1
    <3>4. In(g, m + 1, Last(first)) \in Nat /\ In(f, m + 1, Last(first)) \in Nat
      BY <1>1, <1>2, <2>1
    <3>5. In(g, m + 1, Last(first)) <= k
      BY <3>2, <3>3, <3>4
    <3> QED BY <3>1, <3>5
  <2> QED BY <1>4, <2>2, <2>3, <2>4 DEF Again
<1> QED BY <1>3, <1>4 DEF RedisOk

\* The clock ticks, and the key may expire.
LEMMA RedisTicks ==
  ASSUME LimitAssumption, NEW f \in Counts, NEW first \in Int,
         NEW b \in Bucket \cup {None}, NEW n \in Int, NEW n2 \in Int, n <= n2,
         RedisOk(f, b, n, first)
  PROVE  RedisOk(f, IF b # None /\ n2 >= b.end THEN None ELSE b, n2, first)
<1>1. /\ Last(first) \in Int /\ LimitWindow \in Nat /\ Limit \in Nat
      /\ first <= Last(first) /\ MaxDelay \in Nat
  BY LastIs
<1>2. /\ Passed(b) \in Nat /\ Passed(b) <= Limit /\ Passed(None) = 0
  BY PassedIs DEF Passed
<1>3. CASE Once(f, b, n, first) /\ ~(b # None /\ n2 >= b.end)
  <2>1. b # None => b.end - LimitWindow \in Int
    BY <1>1 DEF Bucket
  <2> QED BY <1>3, <2>1 DEF Once, RedisOk
<1>4. CASE Once(f, b, n, first) /\ b # None /\ n2 >= b.end
  <2>1. PICK used \in Int : used = b.end - LimitWindow
    BY <1>1, <1>4 DEF Bucket
  <2>2. /\ first <= used /\ In(f, used + 1, Last(first)) = 0
        /\ In(f, first, Last(first)) <= Passed(b)
    BY <1>4, <2>1 DEF Once
  <2>3. PICK m \in Int : m = IF used <= Last(first) THEN used ELSE Last(first)
    BY <1>1
  <2>4. first <= m /\ m <= Last(first) /\ m + LimitWindow <= n2 /\ m <= used /\ m + 1 \in Int
    BY <1>1, <1>4, <2>1, <2>2, <2>3 DEF Bucket
  <2>5. In(f, first, m) <= Limit
    <3>1. In(f, first, m) <= In(f, first, Last(first))
      BY <1>1, <2>4, InIs
    <3>2. In(f, first, m) \in Nat /\ In(f, first, Last(first)) \in Nat
      BY <1>1, InIs
    <3> QED BY <1>1, <1>2, <2>2, <3>1, <3>2
  <2>6. ASSUME NEW t \in Int, t <= Last(first) PROVE In(f, m + 1, t) = 0
    <3>1. CASE t < m + 1
      BY <2>4, <3>1, InIs
    <3>2. CASE m + 1 <= t
      <4>1. m = used
        BY <1>1, <2>3, <2>6, <3>2
      <4>2. In(f, used + 1, t) <= In(f, used + 1, Last(first))
        <5>1. used + 1 \in Int /\ used + 1 <= used + 1
          OBVIOUS
        <5> QED BY <1>1, <2>6, <5>1, InIs
      <4>3. In(f, used + 1, t) \in Nat
        <5>1. used + 1 \in Int
          OBVIOUS
        <5> QED BY <5>1, InIs
      <4> QED BY <2>2, <4>1, <4>2, <4>3
    <3> QED BY <3>1, <3>2
  <2>7. In(f, m + 1, Last(first)) = 0
    BY <1>1, <2>6
  <2>8. Again(f, None, n2, first, m)
    BY <1>1, <1>2, <2>4, <2>5, <2>6, <2>7 DEF Again
  <2> QED BY <1>4, <2>8 DEF RedisOk
<1>5. ASSUME NEW m \in Int, Again(f, b, n, first, m)
      PROVE  Again(f, IF b # None /\ n2 >= b.end THEN None ELSE b, n2, first, m)
  <2>1. PICK x \in Nat : x = In(f, m + 1, Last(first))
    <3>1. m + 1 \in Int
      OBVIOUS
    <3> QED BY <1>1, <3>1, InIs
  <2>2. PICK end \in Int : end = first + 2 * LimitWindow
    BY <1>1
  <2>3. /\ x <= IF n < end THEN Passed(b) ELSE Limit
        /\ b # None => end <= b.end
    BY <1>5, <2>1, <2>2 DEF Again
  <2>4. PICK b2 : b2 = IF b # None /\ n2 >= b.end THEN None ELSE b
    OBVIOUS
  <2>5. CASE b # None /\ n2 >= b.end
    <3>1. b2 = None /\ ~(n2 < end) /\ x <= Limit
      BY <1>1, <1>2, <2>3, <2>4, <2>5 DEF Bucket
    <3>2. m + LimitWindow <= n2
      BY <1>1, <1>5 DEF Again
    <3>3. Again(f, b2, n2, first, m)
      BY <1>5, <2>1, <2>2, <3>1, <3>2 DEF Again
    <3> QED BY <2>4, <3>3
  <2>6. CASE ~(b # None /\ n2 >= b.end)
    <3>1. b2 = b /\ x <= IF n2 < end THEN Passed(b) ELSE Limit
      BY <1>1, <1>2, <2>3, <2>4, <2>6
    <3>2. m + LimitWindow <= n2
      BY <1>1, <1>5 DEF Again
    <3>3. Again(f, b, n2, first, m)
      BY <1>5, <2>1, <2>2, <3>1, <3>2 DEF Again
    <3> QED BY <2>4, <3>1, <3>3
  <2> QED BY <2>5, <2>6
<1> QED BY <1>3, <1>4, <1>5 DEF RedisOk

\* A request of the window is counted, and let through or not.
LEMMA RedisCounts ==
  ASSUME LimitAssumption, NEW f \in Counts, NEW g \in Counts, NEW first \in Int,
         NEW at \in 0..LastTick, first <= at, at <= Last(first),
         NEW b \in Bucket \cup {None}, NEW b2 \in Bucket, NEW n \in Int,
         n - MaxDelay <= at, at <= n, b2.end = n + LimitWindow,
         \/ Adds(f, at, g) /\ Passed(b2) = Passed(b) + 1
         \/ g = f /\ Passed(b) <= Passed(b2),
         RedisOk(f, b, n, first)
  PROVE  RedisOk(g, b2, n, first)
<1>1. /\ Last(first) \in Int /\ LimitWindow \in Nat /\ Limit \in Nat
      /\ first <= Last(first) /\ MaxDelay \in Nat /\ MaxDelay < LimitWindow
      /\ Last(first) + MaxDelay < first + 2 * LimitWindow
  BY LastIs DEF LimitAssumption
<1>2. /\ Passed(b) \in Nat /\ Passed(b2) \in Nat /\ b2 # None /\ b2.end - LimitWindow = n
      /\ at \in Int
  BY <1>1, PassedIs DEF Bucket, LimitAssumption
<1>3. ASSUME NEW lo \in Int, NEW hi \in Int
      PROVE  /\ In(f, lo, hi) \in Nat /\ In(g, lo, hi) \in Nat
             /\ In(f, lo, hi) <= Passed(b) => In(g, lo, hi) <= Passed(b2)
             /\ ~(lo <= at /\ at <= hi) => In(g, lo, hi) = In(f, lo, hi)
  <2>1. In(f, lo, hi) \in Nat /\ In(g, lo, hi) \in Nat
    BY InIs
  <2>2. \/ /\ Passed(b2) = Passed(b) + 1
           /\ In(g, lo, hi) = IF lo <= at /\ at <= hi THEN In(f, lo, hi) + 1 ELSE In(f, lo, hi)
        \/ In(g, lo, hi) = In(f, lo, hi) /\ Passed(b) <= Passed(b2)
    BY DEF Adds
  <2> QED BY <1>2, <2>1, <2>2
<1>4. CASE Once(f, b, n, first)
  <2>1. In(g, first, Last(first)) <= Passed(b2)
    <3>1. In(f, first, Last(first)) <= Passed(b)
      BY <1>4 DEF Once
    <3> QED BY <1>1, <1>3, <3>1
  <2>2. PICK x \in Int : x = n + 1
    OBVIOUS
  <2>3. In(f, x, Last(first)) = 0
    <3>1. In(f, x, Last(first)) \in Nat
      BY <1>1, InIs
    <3>2. CASE b = None
      <4>1. first <= x /\ In(f, first, Last(first)) <= 0
        BY <1>4, <2>2, <3>2 DEF Once, Passed
      <4>2. In(f, x, Last(first)) <= In(f, first, Last(first)) /\ In(f, first, Last(first)) \in Nat
        BY <1>1, <4>1, InIs
      <4> QED BY <3>1, <4>1, <4>2
    <3>3. CASE b # None
      <4>1. PICK y \in Int : y = b.end - LimitWindow + 1
        BY <1>1, <3>3 DEF Bucket
      <4>2. y <= x /\ In(f, y, Last(first)) = 0
        BY <1>1, <1>4, <2>2, <3>3, <4>1 DEF Once, Bucket
      <4>3. In(f, x, Last(first)) <= In(f, y, Last(first))
        BY <1>1, <4>2, InIs
      <4> QED BY <3>1, <4>2, <4>3
    <3> QED BY <3>2, <3>3
  <2>4. In(g, x, Last(first)) = 0
    <3>1. ~(x <= at)
      BY <1>2, <2>2
    <3> QED BY <1>1, <1>3, <2>3, <3>1
  <2>5. Once(g, b2, n, first)
    BY <1>2, <2>1, <2>2, <2>4 DEF Once
  <2> QED BY <2>5 DEF RedisOk
<1>5. ASSUME NEW m \in Int, Again(f, b, n, first, m) PROVE Again(g, b2, n, first, m)
  <2>1. first <= m /\ m <= Last(first) /\ m + LimitWindow <= n
    BY <1>5 DEF Again
  <2>2. m + LimitWindow - MaxDelay <= at /\ n < first + 2 * LimitWindow /\ m < at
    BY <1>1, <1>2, <2>1
  <2>3. In(g, first, m) <= Limit
    <3>1. In(f, first, m) <= Limit /\ ~(at <= m)
      BY <1>2, <1>5, <2>2 DEF Again
    <3> QED BY <1>3, <3>1
  <2>4. PICK x \in Int : x = m + 1
    OBVIOUS
  <2>5. ASSUME NEW t \in Int, t <= Last(first), t < m + LimitWindow - MaxDelay
        PROVE  In(g, x, t) = 0
    <3>1. In(f, x, t) = 0
      BY <1>5, <2>4, <2>5 DEF Again
    <3>2. ~(at <= t)
      BY <1>1, <1>2, <2>2, <2>5
    <3> QED BY <1>3, <3>1, <3>2
  <2>6. In(g, x, Last(first)) <= Passed(b2)
    <3>1. In(f, x, Last(first)) <= Passed(b)
      BY <1>5, <2>2, <2>4 DEF Again
    <3> QED BY <1>1, <1>3, <3>1
  <2>7. first + 2 * LimitWindow <= b2.end
    BY <1>1, <1>2, <2>1
  <2> QED BY <2>1, <2>2, <2>3, <2>4, <2>5, <2>6, <2>7 DEF Again
<1> QED BY <1>4, <1>5 DEF RedisOk

\* What two successive windows, first and first2, let through of an interval of
\* a window's length that begins in the first at t and ends in the second at hi.
LEMMA RedisPartIs ==
  ASSUME LimitAssumption, NEW f \in Counts, NEW first \in Int,
         NEW b \in Bucket \cup {None}, NEW n \in Int, RedisOk(f, b, n, first),
         NEW lo \in Int, NEW hi \in Int, first <= lo, hi <= Last(first)
  PROVE  \/ In(f, lo, hi) <= Limit
         \/ \E m \in Int :
              /\ In(f, lo, hi) <= 2 * Limit
              /\ lo <= m /\ first <= m /\ m + LimitWindow - MaxDelay <= hi
<1>1. /\ Last(first) \in Int /\ LimitWindow \in Nat /\ Limit \in Nat
      /\ first <= Last(first) /\ MaxDelay \in Nat
  BY LastIs
<1>2. Passed(b) \in Nat /\ Passed(b) <= Limit
  BY PassedIs
<1>3. PICK x \in Nat : x = In(f, lo, hi)
  BY InIs
<1>4. CASE Once(f, b, n, first)
  <2>1. In(f, first, Last(first)) <= Passed(b)
    BY <1>4 DEF Once
  <2>2. In(f, lo, hi) <= In(f, first, Last(first)) /\ In(f, first, Last(first)) \in Nat
    BY <1>1, InIs
  <2>3. x <= Limit
    BY <1>1, <1>2, <1>3, <2>1, <2>2
  <2> QED BY <1>3, <2>3
<1>5. ASSUME NEW m \in Int, Again(f, b, n, first, m)
      PROVE  x <= Limit \/ (x <= 2 * Limit /\ lo <= m /\ m + LimitWindow - MaxDelay <= hi)
  <2>1. PICK y \in Int : y = m + 1
    OBVIOUS
  <2>2. first <= m /\ m <= Last(first) /\ In(f, first, m) <= Limit /\ In(f, first, m) \in Nat
    BY <1>5, InIs DEF Again
  <2>3. In(f, y, Last(first)) <= Limit
    <3>1. In(f, y, Last(first)) \in Nat
      BY <1>1, InIs
    <3>2. In(f, y, Last(first)) <= Passed(b) \/ In(f, y, Last(first)) <= Limit
      BY <1>5, <2>1 DEF Again
    <3> QED BY <1>1, <1>2, <3>1, <3>2
  <2>4. In(f, y, hi) <= Limit /\ In(f, y, hi) \in Nat
    <3>1. In(f, y, hi) <= In(f, y, Last(first)) /\ In(f, y, Last(first)) \in Nat
          /\ In(f, y, hi) \in Nat
      BY <1>1, InIs
    <3> QED BY <1>1, <2>3, <3>1
  <2>5. x <= In(f, lo, m) + In(f, y, hi)
    BY <1>3, <2>1, InIs
  <2>6. In(f, lo, m) <= Limit /\ In(f, lo, m) \in Nat
    <3>1. In(f, lo, m) <= In(f, first, m) /\ In(f, lo, m) \in Nat
      <4>1. m <= m
        OBVIOUS
      <4> QED BY <4>1, InIs
    <3> QED BY <1>1, <2>2, <3>1
  <2>7. CASE hi < m + LimitWindow - MaxDelay
    <3>1. In(f, y, hi) = 0
      BY <1>5, <2>1, <2>7 DEF Again
    <3> QED BY <1>1, <2>5, <2>6, <3>1
  <2>8. CASE m < lo
    <3>1. In(f, lo, m) = 0
      BY <2>8, InIs
    <3> QED BY <1>1, <2>4, <2>5, <3>1
  <2> QED BY <1>1, <2>4, <2>5, <2>6, <2>7, <2>8
<1>6. ASSUME NEW m \in Int, Again(f, b, n, first, m) PROVE first <= m
  BY <1>6 DEF Again
<1> QED BY <1>3, <1>4, <1>5, <1>6 DEF RedisOk

LEMMA RedisBound ==
  ASSUME LimitAssumption, NEW f \in Counts, NEW first \in Int, NEW second \in Int,
         second = first + LimitWindow,
         NEW b \in Bucket \cup {None}, NEW n \in Int, RedisOk(f, b, n, first),
         NEW b2 \in Bucket \cup {None},
         RedisOk(f, b2, n, second) \/ LastTick < second,
         NEW t \in Int, first <= t, t <= Last(first)
  PROVE  In(f, t, t + LimitWindow - 1) <= 3 * Limit
<1>1. /\ Last(first) \in Int /\ LimitWindow \in Nat /\ Limit \in Nat /\ MaxDelay \in Nat
      /\ Last(first) + 1 = second /\ second + LimitWindow - 1 = Last(second)
  BY LastIs DEF Last
<1>2. PICK hi \in Int : hi = t + LimitWindow - 1
  BY <1>1
<1>3. PICK x \in Nat : x = In(f, t, Last(first))
  BY <1>1, InIs
<1>4. PICK y \in Nat : y = In(f, second, hi)
  BY InIs
<1>5. In(f, t, hi) \in Nat /\ In(f, t, hi) <= x + y
  BY <1>1, <1>3, <1>4, InIs
<1>6. \/ x <= Limit
      \/ \E m \in Int : /\ x <= 2 * Limit
                        /\ t <= m /\ first <= m /\ m + LimitWindow - MaxDelay <= Last(first)
  <2>1. Last(first) <= Last(first)
    BY <1>1
  <2> QED BY <1>1, <1>3, <2>1, RedisPartIs
<1>7. \/ y <= Limit
      \/ \E m \in Int : /\ y <= 2 * Limit
                        /\ second <= m /\ m + LimitWindow - MaxDelay <= hi
  <2>1. CASE LastTick < second
    <3>1. y = 0
      BY <1>4, <2>1, InIs
    <3> QED BY <1>1, <3>1
  <2>2. CASE RedisOk(f, b2, n, second)
    <3>1. second <= second /\ hi <= Last(second)
      BY <1>1, <1>2
    <3> QED BY <1>1, <1>4, <2>2, <3>1, RedisPartIs
  <2> QED BY <2>1, <2>2
<1>8. x <= Limit \/ y <= Limit
  <2> SUFFICES ASSUME ~(x <= Limit), ~(y <= Limit) PROVE FALSE
    OBVIOUS
  <2>1. PICK m \in Int : t <= m /\ m + LimitWindow - MaxDelay <= Last(first)
    BY <1>6
  <2>2. PICK m2 \in Int : second <= m2 /\ m2 + LimitWindow - MaxDelay <= hi
    BY <1>7
  <2> QED BY <1>1, <1>2, <2>1, <2>2 DEF LimitAssumption
<1>9. x <= 2 * Limit /\ y <= 2 * Limit
  BY <1>1, <1>6, <1>7
<1>10. x + y <= 3 * Limit
  BY <1>1, <1>8, <1>9
<1> QED BY <1>1, <1>2, <1>5, <1>10

LEMMA WindowIs ==
  ASSUME LimitAssumption, NEW at \in 0..LastTick, NEW k, k = at \div LimitWindow
  PROVE  /\ k \in Nat /\ k \in Limiter!Windows
         /\ k * LimitWindow \in Int
         /\ k * LimitWindow <= at /\ at <= Last(k * LimitWindow)
<1>1. LimitWindow \in Nat /\ LimitWindow > 0 /\ LastTick \in Nat /\ at \in Nat /\ at <= LastTick
  BY DEF LimitAssumption
<1>2. /\ k \in Int /\ at = LimitWindow * k + (at % LimitWindow)
      /\ at % LimitWindow \in Int /\ 0 <= at % LimitWindow /\ at % LimitWindow < LimitWindow
  BY <1>1
<1>3. k \in Nat
  <2>1. at \div LimitWindow \in Nat
    BY <1>1
  <2> QED BY <2>1
<1>4. k <= LastTick \div LimitWindow /\ LastTick \div LimitWindow \in Nat
  <2>1. PICK q \in Nat : q = LastTick \div LimitWindow
    BY <1>1
  <2>2. LastTick < LimitWindow * q + LimitWindow
    BY <1>1, <2>1
  <2>3. ASSUME q < k PROVE FALSE
    <3>1. PICK d \in Nat : k = q + 1 + d
      <4>1. k - q - 1 \in Nat /\ k = q + 1 + (k - q - 1)
        BY <1>3, <2>3
      <4> QED BY <4>1
    <3>2. LimitWindow * k = LimitWindow * q + LimitWindow + LimitWindow * d
      BY <1>1, <3>1
    <3>3. LimitWindow * d \in Nat /\ LimitWindow * q \in Nat
      BY <1>1
    <3> QED BY <1>1, <1>2, <2>2, <3>2, <3>3
  <2> QED BY <1>3, <2>1, <2>3
<1>5. k * LimitWindow = LimitWindow * k /\ LimitWindow * k \in Int
  BY <1>1, <1>3
<1> QED BY <1>1, <1>2, <1>3, <1>4, <1>5 DEF Limiter!Windows, Last

LEMMA WindowsEnd ==
  ASSUME LimitAssumption, NEW k \in Nat, k \notin Limiter!Windows
  PROVE  LastTick < k * LimitWindow
<1>1. LimitWindow \in Nat /\ LimitWindow > 0 /\ LastTick \in Nat
  BY DEF LimitAssumption
<1>2. PICK q \in Nat : q = LastTick \div LimitWindow
  BY <1>1
<1>3. LastTick < LimitWindow * q + LimitWindow
  BY <1>1, <1>2
<1>4. PICK d \in Nat : k = q + 1 + d
  <2>1. q < k
    BY <1>2 DEF Limiter!Windows
  <2>2. k - q - 1 \in Nat /\ k = q + 1 + (k - q - 1)
    BY <2>1
  <2> QED BY <2>2
<1>5. k * LimitWindow = LimitWindow * q + LimitWindow + LimitWindow * d
  BY <1>1, <1>4
<1>6. LimitWindow * d \in Nat /\ LimitWindow * q \in Nat
  BY <1>1
<1> QED BY <1>1, <1>3, <1>5, <1>6

\* Where nothing is counted
LEMMA InZero ==
  ASSUME LimitAssumption, NEW f \in Counts, \A at \in 0..LastTick : f[at] = 0
  PROVE  \A lo, hi \in Int : In(f, lo, hi) = 0
<1> SUFFICES ASSUME NEW lo \in Int, NEW hi \in Int PROVE In(f, lo, hi) = 0
  OBVIOUS
<1>1. PICK S : S = {at \in 0..LastTick : lo <= at /\ at <= hi}
  OBVIOUS
<1>2. IsFiniteSet(S) /\ \A x \in S : f[x] = 0
  <2>1. IsFiniteSet(0..LastTick) /\ S \in SUBSET (0..LastTick)
    BY <1>1, FS_Interval DEF LimitAssumption
  <2> QED BY <2>1, FS_Subset
<1> DEFINE P == {A \in SUBSET S : SumFunctionOnSet(f, A) = 0}
<1>3. {} \in P
  BY SumEmpty
<1>4. ASSUME NEW A \in SUBSET S, NEW x \in S, A \in P, x \notin A PROVE A \cup {x} \in P
  <2>1. IsFiniteSet(A) /\ f[x] = 0 /\ \A y \in A : f[y] \in Nat
    BY <1>2, FS_Subset
  <2>2. f[x] \in Nat
    BY <2>1
  <2>3. SumFunctionOnSet(f, A \cup {x}) = f[x] + SumFunctionOnSet(f, A)
    BY <1>4, <2>1, <2>2, SumAdd
  <2> QED BY <1>4, <2>1, <2>3
<1> HIDE DEF P
<1>5. S \in P
  BY <1>2, <1>3, <1>4, SubsetInduction
<1> QED BY <1>1, <1>5 DEF In, P

LEMMA WindowNat ==
  ASSUME LimitAssumption
  PROVE  /\ 0 \in Limiter!Windows
         /\ \A j \in Limiter!Windows : j \in Nat /\ j * LimitWindow \in Nat
<1>1. LimitWindow \in Nat /\ LimitWindow > 0 /\ LastTick \in Nat
  BY DEF LimitAssumption
<1>2. LastTick \div LimitWindow \in Nat
  BY <1>1
<1> QED BY <1>1, <1>2 DEF Limiter!Windows

\* Keys of different windows count different readings.
LEMMA WindowsApart ==
  ASSUME LimitAssumption, NEW j \in Int, NEW k \in Int, j # k,
         NEW at \in Int, k * LimitWindow <= at, at <= Last(k * LimitWindow)
  PROVE  /\ j * LimitWindow \in Int /\ ~(j * LimitWindow <= at /\ at <= Last(j * LimitWindow))
<1>1. LimitWindow \in Nat /\ LimitWindow > 0
  BY DEF LimitAssumption
<1>2. PICK x \in Int, y \in Int : x = j * LimitWindow /\ y = k * LimitWindow
  BY <1>1
<1>3. CASE j < k
  <2>1. PICK d \in Nat : k = j + 1 + d
    <3>1. k - j - 1 \in Nat /\ k = j + 1 + (k - j - 1)
      BY <1>3
    <3> QED BY <3>1
  <2>2. y = x + LimitWindow + d * LimitWindow /\ d * LimitWindow \in Nat
    BY <1>1, <1>2, <2>1
  <2> QED BY <1>1, <1>2, <2>2 DEF Last
<1>4. CASE k < j
  <2>1. PICK d \in Nat : j = k + 1 + d
    <3>1. j - k - 1 \in Nat /\ j = k + 1 + (j - k - 1)
      BY <1>4
    <3> QED BY <3>1
  <2>2. x = y + LimitWindow + d * LimitWindow /\ d * LimitWindow \in Nat
    BY <1>1, <1>2, <2>1
  <2> QED BY <1>1, <1>2, <2>2 DEF Last
<1> QED BY <1>3, <1>4

StoreOk(c) ==
  /\ ~v1 => MemoryOk(v6[c], v4[<<c, 0>>], v2)
  /\ v1 => \A j \in Limiter!Windows : RedisOk(v6[c], v4[<<c, j>>], v2, j * LimitWindow)
LimitTypes ==
  /\ v2 \in 0..LastTick
  /\ v3 = [r \in Requests |-> v3[r]]
  /\ \A r \in Requests : v3[r] # None => /\ v3[r].client \in Clients /\ v3[r].at \in 0..v2
                                         /\ v2 <= v3[r].at + MaxDelay
  /\ v4 \in [Clients \X Limiter!Windows -> Bucket \cup {None}]
  /\ v6 \in [Clients -> Counts]
LimitInv == LimitTypes /\ \A c \in Clients : StoreOk(c)

LEMMA LimitStarts ==
  ASSUME LimitAssumption, Limiter!LimitInit
  PROVE  LimitInv
<1>1. LimitTypes
  BY DEF LimitAssumption, LimitTypes, Limiter!LimitInit, Limiter!Ticks, Counts
<1> SUFFICES ASSUME NEW c \in Clients PROVE StoreOk(c)
  BY <1>1 DEF LimitInv
<1>2. v6[c] \in Counts /\ v2 = 0 /\ \A j \in Limiter!Windows : v4[<<c, j>>] = None
  BY <1>1 DEF LimitTypes, Limiter!LimitInit
<1>3. \A lo, hi \in Int : In(v6[c], lo, hi) = 0
  <2>1. \A at \in 0..LastTick : v6[c][at] = 0
    BY DEF Limiter!LimitInit, Limiter!Ticks
  <2> QED BY <1>2, <2>1, InZero
<1>4. Passed(None) = 0 /\ Limit \in Nat /\ LimitWindow \in Nat /\ MaxDelay \in Nat
  BY DEF Passed, LimitAssumption
<1>5. \A lo, hi \in Int : In(v6[c], lo, hi) <= 3 * Limit
  BY <1>3, <1>4
<1>6. Thrice(v6[c])
  <2>1. \A t \in Int : t + LimitWindow - 1 \in Int
    BY <1>4
  <2> QED BY <1>5, <2>1 DEF Thrice
<1>7. MemoryOk(v6[c], None, 0)
  <2>1. PICK e2, e3 \in Int : e2 + Gap <= -1 /\ e3 + Gap <= e2
    <3>1. PICK gap \in Int : gap = Gap
      BY <1>4 DEF Gap
    <3>2. /\ -1 - gap \in Int /\ -1 - 2 * gap \in Int
          /\ (-1 - gap) + gap <= -1 /\ (-1 - 2 * gap) + gap <= -1 - gap
      OBVIOUS
    <3> QED BY <3>1, <3>2
  <2>2. \A e \in Int : After(v6[c], e) = 0
    <3>1. \A e \in Int : e + 1 \in Int /\ LastTick \in Int
      BY DEF LimitAssumption
    <3> QED BY <1>3, <3>1 DEF After
  <2>3. PICK e1 \in Int : e1 = -1
    OBVIOUS
  <2>4. Past(v6[c], None, 0, e1, e2, e3)
    BY <1>4, <2>1, <2>2, <2>3 DEF Past
  <2> QED BY <1>6, <2>4 DEF MemoryOk
<1>8. ASSUME NEW j \in Limiter!Windows PROVE RedisOk(v6[c], None, 0, j * LimitWindow)
  <2>1. PICK first \in Int : first = j * LimitWindow
    BY WindowNat
  <2>2. Last(first) \in Int
    BY <2>1, LastIs
  <2>3. In(v6[c], first, Last(first)) <= Passed(None)
    BY <1>3, <1>4, <2>1, <2>2
  <2> QED BY <2>1, <2>3 DEF Once, RedisOk
<1>9. v4[<<c, 0>>] = None /\ \A j \in Limiter!Windows : v4[<<c, j>>] = None
  BY <1>2, WindowNat
<1>10. \A j \in Limiter!Windows : RedisOk(v6[c], v4[<<c, j>>], v2, j * LimitWindow)
  BY <1>2, <1>8, <1>9, Zenon
<1>11. MemoryOk(v6[c], v4[<<c, 0>>], v2)
  BY <1>2, <1>7, <1>9, Zenon
<1> QED BY <1>10, <1>11, Zenon DEF StoreOk

LEMMA LimitTicks ==
  ASSUME LimitAssumption, LimitInv, Limiter!Tick
  PROVE  LimitInv'
<1>1. /\ v2' = v2 + 1 /\ v2' \in 0..LastTick /\ v2 \in Int /\ v2' \in Int /\ v2 <= v2'
      /\ UNCHANGED <<v1, v3>>
  BY DEF LimitInv, LimitTypes, Limiter!Tick, LimitAssumption
<1>2. ASSUME NEW c \in Clients, NEW j \in Limiter!Windows
      PROVE  /\ v4[<<c, j>>] \in Bucket \cup {None}
             /\ v4'[<<c, j>>] = IF v1 /\ v4[<<c, j>>] # None /\ v2' >= v4[<<c, j>>].end
                                THEN None ELSE v4[<<c, j>>]
  BY <1>1 DEF LimitInv, LimitTypes, Limiter!Tick
<1>3. v4' \in [Clients \X Limiter!Windows -> Bucket \cup {None}]
  BY DEF LimitInv, LimitTypes, Limiter!Tick
<1>4. ASSUME NEW c \in Clients
      PROVE  /\ v6[c] \in Counts /\ v6'[c] \in Counts
             /\ \A at \in 0..LastTick : v6'[c][at] <= v6[c][at]
  <2>1. v6[c] \in Counts
    BY DEF LimitInv, LimitTypes
  <2>2. v6'[c] = [at \in 0..LastTick |->
                    IF at > v2' - MaxDelay - LimitWindow THEN v6[c][at] ELSE 0]
    BY DEF Limiter!Tick, Limiter!Ticks
  <2>3. \A at \in 0..LastTick : v6[c][at] \in Nat
    BY <2>1 DEF Counts
  <2>4. v6'[c] \in Counts
    BY <2>2, <2>3 DEF Counts
  <2>5. \A at \in 0..LastTick : v6'[c][at] <= v6[c][at]
    BY <2>2, <2>3
  <2> QED BY <2>1, <2>4, <2>5
<1>5. v6' \in [Clients -> Counts]
  <2>1. v6' = [c \in Clients |-> v6'[c]]
    BY DEF Limiter!Tick
  <2> QED BY <1>4, <2>1
<1>6. \A r \in Requests : v3[r] # None =>
        /\ v3[r].client \in Clients /\ v3[r].at \in 0..v2' /\ v2' <= v3[r].at + MaxDelay
  <2>1. \A r \in Requests : v3[r] # None =>
          /\ v3[r].client \in Clients /\ v3[r].at \in 0..v2 /\ v2' <= v3[r].at + MaxDelay
    BY DEF LimitInv, LimitTypes, Limiter!Tick
  <2> QED BY <1>1, <2>1
<1>7. LimitTypes'
  <2>1. v3' = [r \in Requests |-> v3'[r]]
    BY <1>1 DEF LimitInv, LimitTypes
  <2> QED BY <1>1, <1>3, <1>5, <1>6, <2>1 DEF LimitTypes
<1>8. ASSUME NEW c \in Clients PROVE StoreOk(c)'
  <2>1. StoreOk(c)
    BY DEF LimitInv
  <2>2. ASSUME ~v1 PROVE MemoryOk(v6'[c], v4'[<<c, 0>>], v2')
    <3>1. MemoryOk(v6[c], v4[<<c, 0>>], v2) /\ v4'[<<c, 0>>] = v4[<<c, 0>>]
          /\ v4[<<c, 0>>] \in Bucket \cup {None}
      BY <1>2, <2>1, <2>2, WindowNat DEF StoreOk
    <3> QED BY <1>1, <1>4, <3>1, MemoryTicks
  <2>3. ASSUME v1, NEW j \in Limiter!Windows
        PROVE  RedisOk(v6'[c], v4'[<<c, j>>], v2', j * LimitWindow)
    <3>1. PICK first \in Int : first = j * LimitWindow
      BY WindowNat
    <3>2. PICK b \in Bucket \cup {None} : b = v4[<<c, j>>]
      BY <1>2
    <3>3. RedisOk(v6[c], b, v2, first)
      BY <2>1, <2>3, <3>1, <3>2 DEF StoreOk
    <3>4. \A lo, hi \in Int : In(v6'[c], lo, hi) <= In(v6[c], lo, hi)
      BY <1>4, InLess
    <3>5. RedisOk(v6'[c], b, v2, first)
      BY <1>1, <1>4, <3>3, <3>4, RedisLess
    <3>6. RedisOk(v6'[c], IF b # None /\ v2' >= b.end THEN None ELSE b, v2', first)
      BY <1>1, <1>4, <3>5, RedisTicks
    <3>7. v4'[<<c, j>>] = IF b # None /\ v2' >= b.end THEN None ELSE b
      BY <1>2, <2>3, <3>2
    <3> QED BY <3>1, <3>6, <3>7
  <2> QED BY <1>1, <2>2, <2>3 DEF StoreOk
<1> QED BY <1>7, <1>8 DEF LimitInv

\* What a request that got to the counter does to the counts of its client
LEMMA AnswerIs ==
  ASSUME LimitAssumption, LimitInv, NEW r \in Requests, v3[r] # None,
         NEW allowed \in BOOLEAN, Limiter!Answer(r, allowed)
  PROVE  LET c == v3[r].client
             at == v3[r].at
         IN /\ c \in Clients /\ at \in 0..LastTick /\ at <= v2 /\ v2 - MaxDelay <= at
            /\ v6[c] \in Counts /\ v6'[c] \in Counts
            /\ IF allowed THEN Adds(v6[c], at, v6'[c]) ELSE v6'[c] = v6[c]
            /\ \A d \in Clients \ {c} : v6'[d] = v6[d]
            /\ v6' \in [Clients -> Counts]
            /\ UNCHANGED <<v1, v2>>
            /\ v3' = [q \in Requests |-> v3'[q]]
            /\ \A q \in Requests : v3'[q] = None \/ v3'[q] = v3[q]
<1>1. PICK c : c = v3[r].client
  OBVIOUS
<1>2. PICK at : at = v3[r].at
  OBVIOUS
<1>3. c \in Clients /\ at \in 0..LastTick /\ at <= v2 /\ v2 - MaxDelay <= at /\ v6[c] \in Counts
  BY <1>1, <1>2 DEF LimitInv, LimitTypes, LimitAssumption
<1>4. v6 \in [Clients -> Counts] /\ v3 = [q \in Requests |-> v3[q]]
  BY DEF LimitInv, LimitTypes
<1>5. /\ v3' = [v3 EXCEPT ![r] = None] /\ UNCHANGED <<v1, v2>>
      /\ v6' = IF allowed THEN [v6 EXCEPT ![c][at] = @ + 1] ELSE v6
  BY <1>1, <1>2 DEF Limiter!Answer
<1>6. PICK g : g = [v6[c] EXCEPT ![at] = @ + 1]
  OBVIOUS
<1>7. g \in Counts /\ Adds(v6[c], at, g)
  BY <1>3, <1>6, InAdds
<1>8. allowed => v6' = [v6 EXCEPT ![c] = g]
  BY <1>5, <1>6
<1>9. /\ allowed => v6'[c] = g
      /\ ~allowed => v6' = v6
      /\ \A d \in Clients \ {c} : v6'[d] = v6[d]
      /\ v6' \in [Clients -> Counts]
  BY <1>3, <1>4, <1>5, <1>7, <1>8
<1>10. /\ v3' = [q \in Requests |-> v3'[q]]
       /\ \A q \in Requests : v3'[q] = None \/ v3'[q] = v3[q]
  BY <1>4, <1>5
<1>11. v6'[c] \in Counts /\ IF allowed THEN Adds(v6[c], at, v6'[c]) ELSE v6'[c] = v6[c]
  BY <1>3, <1>7, <1>9
<1> QED BY <1>1, <1>2, <1>3, <1>5, <1>9, <1>10, <1>11

LEMMA BucketIs ==
  ASSUME NEW n \in Nat, NEW e \in Int
  PROVE  /\ \E b2 \in Bucket : b2 = [count |-> n, end |-> e] /\ b2.count = n /\ b2.end = e
         /\ \A b \in Bucket : \E b2 \in Bucket :
              b2 = [b EXCEPT !.count = n] /\ b2.count = n /\ b2.end = b.end
<1>1. [count |-> n, end |-> e] \in Bucket
  BY DEF Bucket
<1>2. \A b \in Bucket : [b EXCEPT !.count = n] \in Bucket /\ [b EXCEPT !.count = n].end = b.end
                       /\ [b EXCEPT !.count = n].count = n
  BY DEF Bucket
<1> QED BY <1>1, <1>2

LEMMA MemoryAllows ==
  ASSUME LimitAssumption, LimitInv, NEW r \in Requests, Limiter!MemoryAllow(r)
  PROVE  LimitInv'
<1>1. PICK c : c = v3[r].client
  OBVIOUS
<1>2. PICK at : at = v3[r].at
  OBVIOUS
<1>3. PICK kept : kept = Limiter!Collected(at)
  OBVIOUS
<1>4. PICK b : b = kept[<<c, 0>>]
  OBVIOUS
<1>5. PICK allowed \in BOOLEAN :
        /\ Limiter!Answer(r, allowed)
        /\ \/ /\ Limiter!Over(b, at) /\ allowed
              /\ v4' = [kept EXCEPT ![<<c, 0>>] = [count |-> 1, end |-> at + LimitWindow]]
           \/ /\ ~Limiter!Over(b, at) /\ allowed = ~Limiter!Refused(Limiter!Counted(b.count))
              /\ v4' = [kept EXCEPT ![<<c, 0>>].count = Limiter!Counted(@)]
  <2>1. CASE Limiter!Over(b, at)
    <3>1. /\ Limiter!Answer(r, TRUE)
          /\ v4' = [kept EXCEPT ![<<c, 0>>] = [count |-> 1, end |-> at + LimitWindow]]
      BY <1>1, <1>2, <1>3, <1>4, <2>1 DEF Limiter!MemoryAllow
    <3> QED BY <2>1, <3>1
  <2>2. CASE ~Limiter!Over(b, at)
    <3>1. PICK a \in BOOLEAN : a = ~Limiter!Refused(Limiter!Counted(b.count))
      BY DEF Limiter!Refused
    <3>2. /\ Limiter!Answer(r, a)
          /\ v4' = [kept EXCEPT ![<<c, 0>>].count = Limiter!Counted(@)]
      BY <1>1, <1>2, <1>3, <1>4, <2>2, <3>1 DEF Limiter!MemoryAllow
    <3> QED BY <2>2, <3>1, <3>2
  <2> QED BY <2>1, <2>2
<1>6. ~v1 /\ v3[r] # None
  BY DEF Limiter!MemoryAllow
<1>7. /\ c \in Clients /\ at \in 0..LastTick /\ at <= v2 /\ v2 - MaxDelay <= at
      /\ v6[c] \in Counts /\ v6'[c] \in Counts
      /\ IF allowed THEN Adds(v6[c], at, v6'[c]) ELSE v6'[c] = v6[c]
      /\ \A d \in Clients \ {c} : v6'[d] = v6[d]
      /\ v6' \in [Clients -> Counts] /\ UNCHANGED <<v1, v2>>
      /\ v3' = [q \in Requests |-> v3'[q]]
      /\ \A q \in Requests : v3'[q] = None \/ v3'[q] = v3[q]
  BY <1>1, <1>2, <1>5, <1>6, AnswerIs
<1>8. v2 \in Int /\ v2 \in 0..LastTick /\ v4 \in [Clients \X Limiter!Windows -> Bucket \cup {None}]
  BY DEF LimitInv, LimitTypes, LimitAssumption
<1>9. /\ kept \in [Clients \X Limiter!Windows -> Bucket \cup {None}]
      /\ \A k \in Clients \X Limiter!Windows :
           kept[k] = v4[k] \/ (kept[k] = None /\ v4[k] \in Bucket /\ v4[k].end < at)
  <2>1. \/ kept = v4
        \/ kept = [k \in Clients \X Limiter!Windows |->
                     IF Limiter!Over(v4[k], at) THEN None ELSE v4[k]]
    BY <1>3, <1>8 DEF Limiter!Collected
  <2>2. \A k \in Clients \X Limiter!Windows : v4[k] \in Bucket \cup {None}
    BY <1>8
  <2>3. \A k \in Clients \X Limiter!Windows :
          Limiter!Over(v4[k], at) => v4[k] = None \/ (v4[k] \in Bucket /\ v4[k].end < at)
    BY <1>7, <2>2 DEF Limiter!Over, Bucket
  <2> QED BY <1>8, <2>1, <2>2, <2>3
<1>10. ASSUME NEW d \in Clients PROVE MemoryOk(v6[d], kept[<<d, 0>>], v2)
  <2>1. <<d, 0>> \in Clients \X Limiter!Windows
    BY WindowNat
  <2>2. MemoryOk(v6[d], v4[<<d, 0>>], v2) /\ v6[d] \in Counts
    BY <1>6 DEF LimitInv, StoreOk, LimitTypes
  <2>3. CASE kept[<<d, 0>>] = v4[<<d, 0>>]
    BY <2>2, <2>3
  <2>4. CASE kept[<<d, 0>>] = None /\ v4[<<d, 0>>] \in Bucket /\ v4[<<d, 0>>].end < at
    <3>1. v4[<<d, 0>>].end < v2
      BY <1>7, <1>8, <2>4 DEF Bucket
    <3> QED BY <1>8, <2>2, <2>4, <3>1, MemoryCloses
  <2> QED BY <1>9, <2>1, <2>3, <2>4
<1>11. <<c, 0>> \in Clients \X Limiter!Windows /\ b \in Bucket \cup {None}
  BY <1>4, <1>7, <1>9, WindowNat
<1>12. MemoryOk(v6[c], b, v2)
  BY <1>4, <1>7, <1>10
<1>13. PICK b2 \in Bucket : /\ v4' = [kept EXCEPT ![<<c, 0>>] = b2]
                            /\ MemoryOk(v6'[c], b2, v2)
  <2>1. CASE /\ Limiter!Over(b, at) /\ allowed
             /\ v4' = [kept EXCEPT ![<<c, 0>>] = [count |-> 1, end |-> at + LimitWindow]]
    <3>1. PICK b2 \in Bucket : /\ b2 = [count |-> 1, end |-> at + LimitWindow]
                               /\ b2.count = 1 /\ b2.end = at + LimitWindow
      <4>1. PICK e \in Int : e = at + LimitWindow
        BY <1>7 DEF LimitAssumption
      <4>2. PICK n \in Nat : n = 1
        OBVIOUS
      <4>3. \E b2 \in Bucket : b2 = [count |-> n, end |-> e] /\ b2.count = n /\ b2.end = e
        BY BucketIs
      <4> QED BY <4>1, <4>2, <4>3
    <3>2. MemoryOk(v6[c], None, v2)
      <4>1. CASE b = None
        BY <1>12, <4>1
      <4>2. CASE b # None
        <5>1. b \in Bucket /\ b.end < v2
          BY <1>7, <1>8, <1>11, <2>1, <4>2 DEF Limiter!Over, Bucket
        <5> QED BY <1>7, <1>8, <1>12, <5>1, MemoryCloses
      <4> QED BY <4>1, <4>2
    <3>3. Adds(v6[c], at, v6'[c])
      BY <1>7, <2>1
    <3>4. MemoryOk(v6'[c], b2, v2)
      BY <1>7, <1>8, <3>1, <3>2, <3>3, MemoryOpens
    <3> QED BY <2>1, <3>1, <3>4
  <2>2. CASE /\ ~Limiter!Over(b, at) /\ allowed = ~Limiter!Refused(Limiter!Counted(b.count))
             /\ v4' = [kept EXCEPT ![<<c, 0>>].count = Limiter!Counted(@)]
    <3>1. b \in Bucket /\ at <= b.end
      BY <1>7, <1>11, <2>2 DEF Limiter!Over, Bucket
    <3>2. PICK n \in Nat : n = Limiter!Counted(b.count)
      BY <3>1 DEF Limiter!Counted, Bucket
    <3>3. PICK b2 \in Bucket : b2 = [b EXCEPT !.count = n] /\ b2.count = n /\ b2.end = b.end
      <4>1. b.end \in Int
        BY <3>1 DEF Bucket
      <4> QED BY <3>1, <4>1, BucketIs
    <3>4. v4' = [kept EXCEPT ![<<c, 0>>] = b2]
      BY <1>4, <2>2, <3>2, <3>3
    <3>5. IF Limiter!Refused(b2.count) THEN v6'[c] = v6[c] ELSE Adds(v6[c], at, v6'[c])
      BY <1>7, <2>2, <3>2, <3>3
    <3>6. b2.count = Limiter!Counted(b.count)
      BY <3>2, <3>3
    <3>7. MemoryOk(v6'[c], b2, v2)
      BY <1>7, <1>8, <1>12, <3>1, <3>3, <3>5, <3>6, MemoryCounts
    <3> QED BY <3>4, <3>7
  <2> QED BY <1>5, <2>1, <2>2
<1>14. LimitTypes'
  <2>1. v4' \in [Clients \X Limiter!Windows -> Bucket \cup {None}]
    BY <1>9, <1>11, <1>13
  <2>2. \A q \in Requests : v3'[q] # None =>
          /\ v3'[q].client \in Clients /\ v3'[q].at \in 0..v2' /\ v2' <= v3'[q].at + MaxDelay
    BY <1>7 DEF LimitInv, LimitTypes
  <2> QED BY <1>7, <1>8, <2>1, <2>2 DEF LimitTypes
<1>15. ASSUME NEW d \in Clients PROVE StoreOk(d)'
  <2>1. CASE d = c
    <3>1. v4'[<<c, 0>>] = b2
      BY <1>9, <1>11, <1>13
    <3> QED BY <1>6, <1>7, <1>13, <2>1, <3>1 DEF StoreOk
  <2>2. CASE d # c
    <3>1. v4'[<<d, 0>>] = kept[<<d, 0>>] /\ v6'[d] = v6[d]
      <4>1. <<d, 0>> \in Clients \X Limiter!Windows /\ <<d, 0>> # <<c, 0>>
        BY <2>2, WindowNat
      <4> QED BY <1>7, <1>9, <1>13, <2>2, <4>1
    <3> QED BY <1>6, <1>7, <1>10, <3>1 DEF StoreOk
  <2> QED BY <2>1, <2>2
<1> QED BY <1>14, <1>15 DEF LimitInv

LEMMA RedisAllows ==
  ASSUME LimitAssumption, LimitInv, NEW r \in Requests, Limiter!RedisAllow(r)
  PROVE  LimitInv'
<1>1. PICK c : c = v3[r].client
  OBVIOUS
<1>2. PICK at : at = v3[r].at
  OBVIOUS
<1>3. PICK k : k = at \div LimitWindow
  OBVIOUS
<1>4. PICK b : b = v4[<<c, k>>]
  OBVIOUS
<1>5. PICK count : count = IF b = None THEN 1 ELSE Limiter!Counted(b.count)
  OBVIOUS
<1>6. PICK allowed \in BOOLEAN : allowed = ~Limiter!Refused(count)
  BY DEF Limiter!Refused
<1>7. /\ v1 /\ v3[r] # None /\ Limiter!Answer(r, allowed)
      /\ v4' = [v4 EXCEPT ![<<c, k>>] = [count |-> count, end |-> v2 + LimitWindow]]
  BY <1>1, <1>2, <1>3, <1>4, <1>5, <1>6 DEF Limiter!RedisAllow
<1>8. /\ c \in Clients /\ at \in 0..LastTick /\ at <= v2 /\ v2 - MaxDelay <= at
      /\ v6[c] \in Counts /\ v6'[c] \in Counts
      /\ IF allowed THEN Adds(v6[c], at, v6'[c]) ELSE v6'[c] = v6[c]
      /\ \A d \in Clients \ {c} : v6'[d] = v6[d]
      /\ v6' \in [Clients -> Counts] /\ UNCHANGED <<v1, v2>>
      /\ v3' = [q \in Requests |-> v3'[q]]
      /\ \A q \in Requests : v3'[q] = None \/ v3'[q] = v3[q]
  BY <1>1, <1>2, <1>7, AnswerIs
<1>9. v2 \in Int /\ v2 \in 0..LastTick /\ v4 \in [Clients \X Limiter!Windows -> Bucket \cup {None}]
  BY DEF LimitInv, LimitTypes, LimitAssumption
<1>10. /\ k \in Nat /\ k \in Limiter!Windows /\ k * LimitWindow \in Int
       /\ k * LimitWindow <= at /\ at <= Last(k * LimitWindow)
  BY <1>3, <1>8, WindowIs
<1>11. <<c, k>> \in Clients \X Limiter!Windows /\ b \in Bucket \cup {None}
  BY <1>4, <1>8, <1>9, <1>10
<1>12. /\ count \in Nat
       /\ \A b2 \in Bucket : b2.count = count =>
            IF allowed THEN Passed(b2) = Passed(b) + 1 ELSE Passed(b) <= Passed(b2)
  <2>1. CASE b = None
    <3>1. count = 1 /\ allowed
      <4>1. count = 1
        BY <1>5, <2>1
      <4>2. ~Limiter!Refused(count)
        BY <4>1 DEF Limiter!Refused, LimitAssumption
      <4> QED BY <1>6, <4>1, <4>2
    <3> QED BY <2>1, <3>1 DEF Passed, LimitAssumption, Bucket
  <2>2. CASE b # None
    <3>1. b \in Bucket /\ count = Limiter!Counted(b.count)
      BY <1>5, <1>11, <2>2
    <3>2. count \in Nat
      BY <3>1 DEF Limiter!Counted, Bucket
    <3> QED BY <1>6, <3>1, <3>2, CountedIs
  <2> QED BY <2>1, <2>2
<1>13. PICK b2 \in Bucket : /\ v4' = [v4 EXCEPT ![<<c, k>>] = b2]
                            /\ b2.count = count /\ b2.end = v2 + LimitWindow
  <2>1. v2 + LimitWindow \in Int
    BY <1>9 DEF LimitAssumption
  <2>2. PICK b2 \in Bucket : /\ b2 = [count |-> count, end |-> v2 + LimitWindow]
                             /\ b2.count = count /\ b2.end = v2 + LimitWindow
    BY <1>12, <2>1, BucketIs
  <2> QED BY <1>7, <2>2
<1>14. \A j \in Limiter!Windows : RedisOk(v6[c], v4[<<c, j>>], v2, j * LimitWindow)
  BY <1>7, <1>8 DEF LimitInv, StoreOk
<1>15. RedisOk(v6'[c], b2, v2, k * LimitWindow)
  <2>1. PICK first \in Int : first = k * LimitWindow
    BY <1>10
  <2>2. /\ first <= at /\ at <= Last(first) /\ RedisOk(v6[c], b, v2, first)
        /\ v2 - MaxDelay <= at /\ at <= v2 /\ b2.end = v2 + LimitWindow
    BY <1>4, <1>8, <1>10, <1>13, <1>14, <2>1
  <2>3. \/ Adds(v6[c], at, v6'[c]) /\ Passed(b2) = Passed(b) + 1
        \/ v6'[c] = v6[c] /\ Passed(b) <= Passed(b2)
    BY <1>8, <1>12, <1>13
  <2>4. RedisOk(v6'[c], b2, v2, first)
    BY <1>8, <1>9, <1>11, <2>2, <2>3, RedisCounts
  <2> QED BY <2>1, <2>4
<1>16. ASSUME NEW j \in Limiter!Windows, j # k
       PROVE  RedisOk(v6'[c], v4[<<c, j>>], v2, j * LimitWindow)
  <2>1. PICK first \in Int : first = j * LimitWindow
    BY WindowNat
  <2>2. PICK b3 \in Bucket \cup {None} : b3 = v4[<<c, j>>]
    BY <1>8, <1>9
  <2>3. RedisOk(v6[c], b3, v2, first)
    BY <1>14, <2>1, <2>2
  <2>4. ~(first <= at /\ at <= Last(first))
    <3>1. j \in Int /\ k \in Int /\ at \in Int
      BY <1>8, <1>10, WindowNat DEF LimitAssumption
    <3> QED BY <1>10, <1>16, <2>1, <3>1, WindowsApart
  <2>5. ASSUME NEW lo \in Int, NEW hi \in Int, first <= lo, hi <= Last(first)
        PROVE  In(v6'[c], lo, hi) <= In(v6[c], lo, hi)
    <3>1. ~(lo <= at /\ at <= hi)
      <4>1. at \in Int /\ Last(first) \in Int
        BY <1>8, LastIs DEF LimitAssumption
      <4> QED BY <2>4, <2>5, <4>1
    <3>2. In(v6'[c], lo, hi) = In(v6[c], lo, hi)
      BY <1>8, <3>1 DEF Adds
    <3>3. In(v6[c], lo, hi) \in Nat
      BY <1>8, InIs
    <3> QED BY <3>2, <3>3
  <2>6. RedisOk(v6'[c], b3, v2, first)
    BY <1>8, <1>9, <2>3, <2>5, RedisLess
  <2> QED BY <2>1, <2>2, <2>6
<1>17. LimitTypes'
  <2>1. v4' \in [Clients \X Limiter!Windows -> Bucket \cup {None}]
    BY <1>9, <1>11, <1>13
  <2>2. \A q \in Requests : v3'[q] # None =>
          /\ v3'[q].client \in Clients /\ v3'[q].at \in 0..v2' /\ v2' <= v3'[q].at + MaxDelay
    BY <1>8 DEF LimitInv, LimitTypes
  <2> QED BY <1>8, <1>9, <2>1, <2>2 DEF LimitTypes
<1>18. ASSUME NEW d \in Clients, NEW j \in Limiter!Windows
       PROVE  RedisOk(v6'[d], v4'[<<d, j>>], v2, j * LimitWindow)
  <2>1. CASE d = c /\ j = k
    <3>1. v4'[<<c, k>>] = b2
      BY <1>9, <1>11, <1>13
    <3> QED BY <1>15, <2>1, <3>1
  <2>2. CASE ~(d = c /\ j = k)
    <3>1. v4'[<<d, j>>] = v4[<<d, j>>]
      <4>1. <<d, j>> \in Clients \X Limiter!Windows /\ <<d, j>> # <<c, k>>
        BY <2>2
      <4> QED BY <1>9, <1>13, <4>1
    <3>2. CASE d = c
      BY <1>16, <2>2, <3>1, <3>2
    <3>3. CASE d # c
      <4>1. RedisOk(v6[d], v4[<<d, j>>], v2, j * LimitWindow)
        BY <1>7 DEF LimitInv, StoreOk
      <4>2. v6'[d] = v6[d]
        BY <1>8, <3>3
      <4> QED BY <3>1, <4>1, <4>2
    <3> QED BY <3>2, <3>3
  <2> QED BY <2>1, <2>2
<1>19. ASSUME NEW d \in Clients PROVE StoreOk(d)'
  BY <1>7, <1>8, <1>18, Zenon DEF StoreOk
<1> QED BY <1>17, <1>19 DEF LimitInv

LEMMA LimitPreserves ==
  ASSUME LimitAssumption, LimitInv, [Limiter!LimitNext]_(Limiter!limitVars)
  PROVE  LimitInv'
<1>1. CASE Limiter!Tick
  BY <1>1, LimitTicks
<1>2. ASSUME NEW r \in Requests, NEW c \in Clients, Limiter!ReadClock(r, c) PROVE LimitInv'
  <2>1. UNCHANGED <<v1, v2, v4, v6>>
    BY <1>2 DEF Limiter!ReadClock
  <2>2. LimitTypes'
    <3>1. v2 \in 0..LastTick /\ v2 <= v2 + MaxDelay
      BY DEF LimitInv, LimitTypes, LimitAssumption
    <3>2. v3' = [v3 EXCEPT ![r] = [client |-> c, at |-> v2]]
      BY <1>2 DEF Limiter!ReadClock
    <3>3. v2 \in 0..v2
      BY <3>1 DEF LimitAssumption
    <3>4. \A q \in Requests : v3'[q] = v3[q] \/ (v3'[q].client = c /\ v3'[q].at = v2)
      BY <3>2 DEF LimitInv, LimitTypes
    <3>5. \A q \in Requests : v3'[q] # None =>
            /\ v3'[q].client \in Clients /\ v3'[q].at \in 0..v2 /\ v2 <= v3'[q].at + MaxDelay
      BY <3>1, <3>3, <3>4 DEF LimitInv, LimitTypes
    <3>6. v3' = [q \in Requests |-> v3'[q]]
      BY <3>2 DEF LimitInv, LimitTypes
    <3> QED BY <2>1, <3>5, <3>6 DEF LimitInv, LimitTypes
  <2>3. \A d \in Clients : StoreOk(d)'
    BY <2>1, Zenon DEF LimitInv, StoreOk
  <2> QED BY <2>2, <2>3 DEF LimitInv
<1>3. ASSUME NEW r \in Requests, Limiter!MemoryAllow(r) PROVE LimitInv'
  BY <1>3, MemoryAllows
<1>4. ASSUME NEW r \in Requests, Limiter!RedisAllow(r) PROVE LimitInv'
  BY <1>4, RedisAllows
<1>5. ASSUME NEW r \in Requests, Limiter!RedisFails(r) PROVE LimitInv'
  <2>1. UNCHANGED <<v1, v2, v4, v6>> /\ v3' = [v3 EXCEPT ![r] = None]
    BY <1>5 DEF Limiter!RedisFails
  <2>2. LimitTypes'
    BY <2>1 DEF LimitInv, LimitTypes
  <2>3. \A d \in Clients : StoreOk(d)'
    BY <2>1, Zenon DEF LimitInv, StoreOk
  <2> QED BY <2>2, <2>3 DEF LimitInv
<1>6. CASE UNCHANGED Limiter!limitVars
  <2>1. UNCHANGED <<v1, v2, v3, v4, v6>>
    BY <1>6 DEF Limiter!limitVars
  <2>2. LimitTypes'
    BY <2>1 DEF LimitInv, LimitTypes
  <2>3. \A d \in Clients : StoreOk(d)'
    BY <2>1, Zenon DEF LimitInv, StoreOk
  <2> QED BY <2>2, <2>3 DEF LimitInv
<1> QED BY <1>1, <1>2, <1>3, <1>4, <1>5, <1>6 DEF Limiter!LimitNext

LEMMA LimitIsThree ==
  ASSUME LimitAssumption, LimitInv
  PROVE  Limiter!AtMostThrice
<1> SUFFICES ASSUME NEW c \in Clients, NEW t \in 0..LastTick
             PROVE  Limiter!SumFunctionOnSet(v6[c], Limiter!Within(t)) <= 3 * Limit
  BY DEF Limiter!AtMostThrice, Limiter!Ticks
<1>1. Limiter!SumFunctionOnSet(v6[c], Limiter!Within(t)) = In(v6[c], t, t + LimitWindow - 1)
  <2>1. Limiter!Within(t) = {at \in 0..LastTick : t <= at /\ at <= t + LimitWindow - 1}
    BY DEF Limiter!Within, Limiter!Ticks, LimitAssumption
  <2>2. ASSUME NEW f, NEW S PROVE Limiter!SumFunctionOnSet(f, S) = SumFunctionOnSet(f, S)
    BY DEF Limiter!SumFunctionOnSet, Limiter!FoldFunctionOnSet, SumFunctionOnSet,
           FoldFunctionOnSet, Limiter!MapThenFoldSet, MapThenFoldSet
  <2> QED BY <2>1, <2>2 DEF In
<1>2. v6[c] \in Counts /\ t \in Int
  BY DEF LimitInv, LimitTypes, LimitAssumption
<1>3. CASE ~v1
  <2>1. Thrice(v6[c])
    BY <1>3 DEF LimitInv, StoreOk, MemoryOk
  <2> QED BY <1>1, <1>2, <2>1 DEF Thrice
<1>4. CASE v1
  <2>1. PICK k : k = t \div LimitWindow
    OBVIOUS
  <2>2. /\ k \in Nat /\ k \in Limiter!Windows
        /\ k * LimitWindow <= t /\ t <= Last(k * LimitWindow)
    BY <2>1, WindowIs
  <2>3. \A j \in Limiter!Windows : /\ RedisOk(v6[c], v4[<<c, j>>], v2, j * LimitWindow)
                                   /\ v4[<<c, j>>] \in Bucket \cup {None}
    BY <1>4 DEF LimitInv, StoreOk, LimitTypes
  <2>4. PICK first \in Int : first = k * LimitWindow
    BY <2>2, WindowNat
  <2>5. PICK second \in Int : second = (k + 1) * LimitWindow /\ second = first + LimitWindow
    <3>1. (k + 1) * LimitWindow = k * LimitWindow + LimitWindow /\ LimitWindow \in Int
      BY <2>2 DEF LimitAssumption
    <3> QED BY <2>4, <3>1
  <2>6. \E b2 \in Bucket \cup {None} : RedisOk(v6[c], b2, v2, second) \/ LastTick < second
    <3>1. CASE k + 1 \in Limiter!Windows
      BY <2>3, <2>5, <3>1
    <3>2. CASE k + 1 \notin Limiter!Windows
      BY <2>2, <2>5, <3>2, WindowsEnd
    <3> QED BY <3>1, <3>2
  <2>7. v2 \in Int
    BY DEF LimitInv, LimitTypes, LimitAssumption
  <2>8. RedisOk(v6[c], v4[<<c, k>>], v2, first) /\ v4[<<c, k>>] \in Bucket \cup {None}
        /\ first <= t /\ t <= Last(first)
    BY <2>2, <2>3, <2>4
  <2> QED BY <1>1, <1>2, <2>5, <2>6, <2>7, <2>8, RedisBound
<1> QED BY <1>3, <1>4

\* No client gets more than three windows' worth of requests through in the length
\* of one window, however late they reach their counters, in memory or in Redis
\* (server ratelimit Allow).
THEOREM AtMostThriceHolds ==
  ASSUME LimitAssumption
  PROVE  ServicesSpec => []AtMostThrice
<1> DEFINE Inv == service = "rate limit" => LimitInv
<1>1. ServicesInit => Inv
  BY Zenon, LimitStarts DEF ServicesInit
<1>2. Inv /\ [ServicesNext]_vars => Inv'
  BY Zenon, StepIs, LimitPreserves
<1>3. Inv => AtMostThrice
  BY Zenon, LimitIsThree DEF AtMostThrice
<1> QED BY <1>1, <1>2, <1>3, PTL DEF ServicesSpec
=============================================================================
