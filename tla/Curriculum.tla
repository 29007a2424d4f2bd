------------------------------ MODULE Curriculum ------------------------------
(***************************************************************************)
(* The plan engine (backend/internal/curriculum): from a catalogue and a   *)
(* profile to the tasks of every day.                                      *)
(*                                                                         *)
(* The engine emits the tasks of each topic, divides the hours between the *)
(* pillars, picks topics within each pillar's share, deals the picked      *)
(* topics out to the weeks, one of every pillar per round, and then the    *)
(* tasks of a week to its days.  Each placement is a step here.            *)
(*                                                                         *)
(* Topics are numbered in the order of the seed (sort_order, then id).     *)
(* Hours are minutes, weights and multipliers integers: the code's floats  *)
(* are exact here.  Titles, themes and dates are left out; a day is its    *)
(* number within the week, and rest days come after the study days.        *)
(***************************************************************************)
EXTENDS Ranking, FiniteSetsExt, SequencesExt

CONSTANTS
  Topics,      \* numbers
  Pillars,     \* the pillars of the track, in its order
  Inputs,      \* catalogues with a profile: see CurriculumInit
  Hours, Weeks, ActiveDays,     \* HoursPerWeek, TargetWeeks, study days a week
  None

VARIABLES
  input,     \* [topic, pillar, company]: the catalogue row of each topic, the
             \* weight, company multiplier and self-assessment of each pillar,
             \* and whether the profile has a target company
  stage,     \* "load", "emit", "select", "sequence", "pack" or "done"
  tasks,     \* Topics -> the minutes of each of its tasks, in order
  load,      \* Topics -> their sum
  picked,    \* pillar -> its selected topics, in order
  round,     \* the week this round starts to look for room in
  turn,      \* index into Order of the pillar whose turn it is
  cursor,    \* pillar -> how many of its topics are placed
  week,      \* 1..Weeks -> the topics of the week, in order
  minutes,   \* 1..Weeks -> the load of those topics
  packing,   \* the week whose tasks are being packed
  queue,     \* those still to pack: <<topic, index>>
  day        \* 1..Weeks -> 1..ActiveDays -> [tasks, planned]

curriculumVars == <<input, stage, tasks, load, picked, round, turn, cursor, week, minutes,
          packing, queue, day>>
selection == <<tasks, load, picked>>
sequencing == <<round, turn, cursor, week, minutes>>

AllWeeks == 1..Weeks
Days == 1..ActiveDays
Cap == 66 * Hours                 \* a week's minutes within budgetTolerance
MaxProblemsPerTopic == 4
MaxResourcesPerTopic == 2
MaxResourceMinutes == 60

CurriculumInit ==
  /\ input \in Inputs
  /\ stage = "load"
  /\ tasks = [t \in Topics |-> <<>>] /\ load = [t \in Topics |-> 0]
  /\ picked = [p \in Range(Pillars) |-> <<>>]
  /\ round = 1 /\ turn = 1 /\ cursor = [p \in Range(Pillars) |-> 0]
  /\ week = [w \in AllWeeks |-> <<>>] /\ minutes = [w \in AllWeeks |-> 0]
  /\ packing = 1 /\ queue = <<>>
  /\ day = [w \in AllWeeks |-> [d \in Days |-> [tasks |-> <<>>, planned |-> 0]]]

Lesser(a, b) == IF a < b THEN a ELSE b
Sum(s) == SumFunctionOnSet(s, DOMAIN s)

-----------------------------------------------------------------------------
(***************************************************************************)
(* What the engine is given.  A resource may have no length, and a topic   *)
(* may be of a pillar that is not planned.                                 *)
(***************************************************************************)
Problem == [minutes : Int, company : Nat, frequency : Int, difficulty : Int, order : Int]
Resource(Length) == [minutes : Length, primary : BOOLEAN, order : Int]
AnyPillar == Range(Pillars) \cup {None} \cup {i.topic[t].pillar : i \in Inputs, t \in Topics}
Row(Length) ==
  [pillar : AnyPillar, deleted : BOOLEAN, estimate : Int, priority : Int, difficulty : Int,
   prerequisites : Seq(Topics), problems : Seq(Problem), resources : Seq(Resource(Length))]
Standing == [weight : Int, company : Int, strength : Int]
Input == [topic : [Topics -> Row(Int \cup {None})], pillar : [Range(Pillars) -> Standing],
          company : BOOLEAN]

\* What is proved of the engine: a profile has a week to plan and a day to study.
CurriculumAssumption ==
  /\ Topics \in SUBSET Nat /\ IsFiniteSet(Topics)
  /\ Pillars \in Seq(Range(Pillars))
  /\ Inputs \subseteq Input
  /\ Hours \in Nat /\ Weeks \in Nat \ {0} /\ ActiveDays \in Nat \ {0}

-----------------------------------------------------------------------------
(***************************************************************************)
(* Reading the catalogue: a deleted topic belongs to no pillar, a resource *)
(* of unknown length takes half an hour, problems come without the order   *)
(* that the engine would look at, and nothing is asked more or counts more *)
(* at a company the profile does not name.                                 *)
(***************************************************************************)
LoadProblem(p) == [p EXCEPT !.order = 0, !.company = IF input.company THEN @ ELSE 0]
LoadTopic(row) ==
  [row EXCEPT !.pillar = IF row.deleted THEN None ELSE @,
              !.problems = [i \in DOMAIN @ |-> LoadProblem(@[i])],
              !.resources = [i \in DOMAIN @ |->
                 IF @[i].minutes = None THEN [@[i] EXCEPT !.minutes = 30] ELSE @[i]]]
LoadPillar(row) == IF input.company THEN row ELSE [row EXCEPT !.company = 0]

\* LoadEngineInput
Load ==
  /\ stage = "load" /\ stage' = "emit"
  /\ input' = [input EXCEPT
       !.topic = [t \in Topics |-> LoadTopic(@[t])],
       !.pillar = [p \in Range(Pillars) |-> LoadPillar(@[p])]]
  /\ UNCHANGED <<selection, sequencing, packing, queue, day>>

-----------------------------------------------------------------------------
(***************************************************************************)
(* Emission.  A definition named Bug_... is a plausible slip in the one    *)
(* after it; no specification uses it.                                     *)
(***************************************************************************)
\* Some 60% of a topic's hours go into theory, at least half an hour of them.
Theory(estimate) ==
  LET study == IF estimate <= 0 THEN 60 ELSE estimate
      part == (study * 6) \div 10
  IN IF part < 30 THEN Lesser(study, 30) ELSE part

\* problemLess: asked most by the company, asked most, easiest, first; the rows
\* are listed by id.
ProblemKey(p, i) == <<-p.company, -p.frequency, p.difficulty, p.order, i>>
OrDefault(m) == IF m <= 0 THEN 30 ELSE m
Solve(problems) ==
  LET sorted == Ranked([i \in DOMAIN problems |-> ProblemKey(problems[i], i)])
  IN [k \in 1..Lesser(Len(problems), MaxProblemsPerTopic) |->
        OrDefault(problems[sorted[k]].minutes)]

\* resourceLess: the primary ones come first, and no other is used.  A task is
\* one session of a resource, however long that is.
Study(resources) ==
  LET primary == {i \in DOMAIN resources : resources[i].primary}
      sorted == Ranked([i \in primary |-> <<resources[i].order, i>>])
  IN [k \in 1..Lesser(Cardinality(primary), MaxResourcesPerTopic) |->
        Lesser(OrDefault(resources[sorted[k]].minutes), MaxResourceMinutes)]

\* emitTopicTasks
Emitted(t) ==
  LET row == input.topic[t]
  IN <<Theory(row.estimate)>> \o Solve(row.problems) \o Study(row.resources)

\* emitAllTopicTasks
Emit ==
  /\ stage = "emit" /\ stage' = "select"
  /\ tasks' = [t \in Topics |-> Emitted(t)]
  /\ load' = [t \in Topics |-> Sum(tasks'[t])]
  /\ UNCHANGED <<input, picked, sequencing, packing, queue, day>>

-----------------------------------------------------------------------------
(***************************************************************************)
(* Selection                                                               *)
(***************************************************************************)
\* allocatePillarHours: base * company * (0.6 + 0.4 * gap), 25 times over.
Score(p) ==
  LET row == input.pillar[p]
      weight == IF row.weight <= 0 THEN 1 ELSE row.weight
      company == IF row.company <= 0 THEN 1 ELSE row.company
      strength == IF row.strength \in 1..5 THEN row.strength ELSE 3
  IN weight * company * (27 - 2 * strength)
Total == MapThenSumSet(Score, Range(Pillars))
\* m minutes are more than the share of pillar p in the whole budget.
Exceeds(m, p) == m * Total > Score(p) * Hours * 60 * Weeks

\* The pair <<a, b>> after step has taken it with each of the topics within ts in
\* turn.
InTurn(step, ts, a, b, topics) ==
  FoldLeft(LAMBDA acc, t : IF t \in ts THEN step[<<t, acc[1], acc[2]>>] ELSE acc,
           <<a, b>>, topics)

\* topoSort: depth first through the prerequisites within the set, from the
\* first topic of the seed on; at is <<topic, those done, those begun>>.
TopoSort(ts) ==
  LET visit[at \in ts \X Seq(ts) \X SUBSET ts] ==
        LET t == at[1]
            below == InTurn(visit, ts, at[2], at[3] \cup {t}, input.topic[t].prerequisites)
        IN IF t \in at[3] THEN <<at[2], at[3]>> ELSE <<Append(below[1], t), below[2]>>
  IN InTurn(visit, ts, <<>>, {}, Ranked([t \in ts |-> <<t>>]))[1]

Index(s, x) == CHOOSE i \in DOMAIN s : s[i] = x

\* topicCompanyFrequency
CompanyFrequency(t) ==
  Max({0} \cup {p.company : p \in Range(input.topic[t].problems)})

\* selectTopics, for one pillar: those that fit, in the order of their rank,
\* and the first one whether it fits or not.
Selected(p) ==
  LET ordered == TopoSort({t \in Topics : input.topic[t].pillar = p})
      Rank(t) == <<-input.topic[t].priority, -CompanyFrequency(t),
                   input.topic[t].difficulty, Index(ordered, t)>>
      take == [at \in Topics \X (SUBSET Topics) \X Nat |->
                 IF at[2] # {} /\ Exceeds(at[3] + load[at[1]], p) THEN <<at[2], at[3]>>
                 ELSE <<at[2] \cup {at[1]}, at[3] + load[at[1]]>>]
  IN TopoSort(InTurn(take, Range(ordered), {}, 0, Ranked([t \in Range(ordered) |-> Rank(t)]))[1])

Select ==
  /\ stage = "select" /\ stage' = "sequence"
  /\ picked' = [p \in Range(Pillars) |-> Selected(p)]
  /\ UNCHANGED <<input, tasks, load, sequencing, packing, queue, day>>

-----------------------------------------------------------------------------
(***************************************************************************)
(* Sequencing                                                              *)
(***************************************************************************)
\* The pillars with topics, in the order of the track.
Order ==
  LET at == Ranked([i \in {j \in DOMAIN Pillars : picked[Pillars[j]] # <<>>} |-> <<i>>])
  IN [k \in DOMAIN at |-> Pillars[at[k]]]

\* The week for t: the first with room from this round's on, else the first
\* with room before it, else the first of those with the least to do.
Bug_Room(t) == {w \in AllWeeks : minutes[w] <= Cap}
Room(t) == {w \in AllWeeks : minutes[w] + load[t] <= Cap}
LeastLoaded ==
  CHOOSE w \in AllWeeks : \A v \in AllWeeks : /\ minutes[w] <= minutes[v]
                                              /\ v < w => minutes[w] < minutes[v]
WeekFor(t) ==
  IF Room(t) \cap round..Weeks # {} THEN Min(Room(t) \cap round..Weeks)
  ELSE IF Room(t) # {} THEN Min(Room(t))
  ELSE LeastLoaded

Place ==
  /\ stage = "sequence" /\ turn <= Len(Order)
  /\ LET p == Order[turn] IN
     /\ cursor[p] < Len(picked[p])
     /\ LET t == picked[p][cursor[p] + 1]
            w == WeekFor(t)
        IN /\ week' = [week EXCEPT ![w] = Append(@, t)]
           /\ minutes' = [minutes EXCEPT ![w] = @ + load[t]]
     /\ cursor' = [cursor EXCEPT ![p] = @ + 1]
  /\ turn' = turn + 1
  /\ UNCHANGED <<input, stage, selection, round, packing, queue, day>>

Exhausted ==
  /\ stage = "sequence" /\ turn <= Len(Order)
  /\ cursor[Order[turn]] = Len(picked[Order[turn]])
  /\ turn' = turn + 1
  /\ UNCHANGED <<input, stage, selection, round, cursor, week, minutes, packing, queue, day>>

\* The next round starts a week later.
Remaining == \E p \in Range(Pillars) : cursor[p] < Len(picked[p])
TasksOf(ts) ==
  LET at == Ranked([x \in UNION {{k} \X DOMAIN tasks[ts[k]] : k \in DOMAIN ts} |-> x])
  IN [n \in DOMAIN at |-> <<ts[at[n][1]], at[n][2]>>]

NextRound ==
  /\ stage = "sequence" /\ turn > Len(Order)
  /\ round' = Lesser(round + 1, Weeks)
  /\ turn' = 1
  /\ IF Remaining THEN UNCHANGED <<stage, queue>>
     ELSE stage' = "pack" /\ queue' = TasksOf(week[1])
  /\ UNCHANGED <<input, selection, cursor, week, minutes, packing, day>>

-----------------------------------------------------------------------------
(***************************************************************************)
(* Packing                                                                 *)
(***************************************************************************)
\* packTasks: the study day with the least to do, the first of them on a tie.
Lightest ==
  CHOOSE d \in Days : \A e \in Days :
    /\ day[packing][d].planned <= day[packing][e].planned
    /\ e < d => day[packing][d].planned < day[packing][e].planned

Pack ==
  /\ stage = "pack" /\ queue # <<>>
  /\ day' = [day EXCEPT ![packing][Lightest] =
               [tasks |-> Append(@.tasks, Head(queue)),
                planned |-> @.planned + tasks[Head(queue)[1]][Head(queue)[2]]]]
  /\ queue' = Tail(queue)
  /\ UNCHANGED <<input, stage, selection, sequencing, packing>>

\* buildWeek, for the next week
Bug_FromWeek(w) == TasksOf(week[w - 1])
FromWeek(w) == TasksOf(week[w])
NextWeek ==
  /\ stage = "pack" /\ queue = <<>>
  /\ IF packing = Weeks THEN stage' = "done" /\ UNCHANGED <<packing, queue>>
     ELSE /\ packing' = packing + 1 /\ queue' = FromWeek(packing + 1)
          /\ UNCHANGED stage
  /\ UNCHANGED <<input, selection, sequencing, day>>

CurriculumNext == Load \/ Emit \/ Select \/ Place \/ Exhausted \/ NextRound \/ Pack \/ NextWeek

-----------------------------------------------------------------------------
\* A week is planned over its budget only when one of its topics has room in no
\* other week either (sequenceWeeks; the code's own claim, that then a single
\* topic or the whole selection is too much, is not so).
OverflowOnlyWhenFull ==
  \A w \in AllWeeks : minutes[w] > Cap =>
    \E t \in Range(week[w]) : \A v \in AllWeeks \ {w} : minutes[v] + load[t] > Cap

\* Nothing picked is lost or planned twice: in the end the days hold every task
\* of every picked topic exactly once (Generate).
InDays == UNION {{<<w, d, i>> : i \in DOMAIN day[w][d].tasks} : w \in AllWeeks, d \in Days}
EveryTaskOnce ==
  stage = "done" =>
    \A p \in Range(Pillars) : \A t \in Range(picked[p]) : \A i \in DOMAIN tasks[t] :
      \E slot \in InDays : \A other \in InDays :
        day[other[1]][other[2]].tasks[other[3]] = <<t, i>> <=> other = slot
=============================================================================
