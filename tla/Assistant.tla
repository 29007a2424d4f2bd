------------------------------ MODULE Assistant ------------------------------
(***************************************************************************)
(* The AI features (backend/internal/ai): each reads what it needs of the  *)
(* user's data, asks the provider if that is configured and has not been   *)
(* asked the same before, and otherwise, or when the provider fails,       *)
(* answers with a deterministic engine.                                    *)
(*                                                                         *)
(* The reads are not in a transaction, and the data changes between them,  *)
(* as between the prompt and the answer.  A prompt is known by the data    *)
(* printed in it, and a text by what the engines tell apart in it and by   *)
(* any further fields of its record that set it apart from another.        *)
(***************************************************************************)
EXTENDS AtsScorer

CONSTANTS
  Requests,              \* handlers at work at once
  Bodies,                \* [features -> sets of bodies a client may send]
  Data,                  \* [Sources -> sets of values], what a read may find
  None,                  \* nothing, or a read that failed
  Areas, AreaRank,       \* of the mock findings, see Weakness
  MaxAsks, MaxChanges    \* bounds on the requests and on the changes of the data

VARIABLES
  active,    \* whether the provider is configured
  world,     \* Sources -> what is stored, "day" by date
  changes,
  asking,    \* Requests -> [ask, read, step, answer], or None
  asked,
  cache,     \* keys -> the text stored under it
  reply      \* the reply that was just sent, with its ask and what was read for it

assistVars == <<active, world, changes, asking, asked, cache, reply>>

Star == INSTANCE Improver
Mock == INSTANCE Weakness WITH Severities <- {}

Sources == {"profile", "roadmap", "day", "design", "story", "resume", "topics", "findings"}

-----------------------------------------------------------------------------
(***************************************************************************)
(* The deterministic answers (features.go).  Each takes the body of the    *)
(* ask and a source that was read.                                         *)
(***************************************************************************)
First(n, seq) == SubSeq(seq, 1, IF n < Len(seq) THEN n ELSE Len(seq))
Sorted(S, Before(_, _)) == SortSeq(SetToSeq(S), Before)
Pct(S, n) == (100 * Cardinality(S)) \div n
Map(seq, F(_)) == [i \in DOMAIN seq |-> F(seq[i])]

\* The three pillars rated lowest; strength is [pillar -> 1..5], rank their
\* order by name.
WeakestPillars(p) ==
  First(3, Sorted(DOMAIN p.strength,
    LAMBDA a, b : \/ p.strength[a] < p.strength[b]
                  \/ p.strength[a] = p.strength[b] /\ p.rank[a] < p.rank[b]))
PlannerFallback(body, profile) ==
  IF body.focus # <<>> THEN body.focus
  ELSE IF profile # None /\ DOMAIN profile.strength # {} THEN WeakestPillars(profile)
  ELSE <<"dsa", "system_design", "behavioral">>

\* The first subject of these that the message mentions
CoachFallback(body) ==
  LET subjects == SelectSeq(<<"design", "behavioral", "coding">>, LAMBDA s : s \in body.mentions)
  IN IF subjects = <<>> THEN "general" ELSE Head(subjects)

\* A stable sort: by priority, then the longer one.
PriorityRank == [critical |-> 4, high |-> 3, medium |-> 2, low |-> 1]
DailyPlanFallback(tasks) ==
  LET Key(i) == <<-PriorityRank[tasks[i].priority], -tasks[i].minutes, i>>
      Before(i, j) == \E n \in 1..3 :
        Key(i)[n] < Key(j)[n] /\ \A m \in 1..(n - 1) : Key(i)[m] = Key(j)[m]
  IN Map(Sorted(DOMAIN tasks, Before), LAMBDA i : tasks[i])
DailyStructured(tasks) ==
  [planned |-> FoldLeft(LAMBDA n, t : n + t.minutes, 0, tasks),
   pending |-> Len(SelectSeq(tasks, LAMBDA t : t.status \in {"pending", "in_progress"}))]

\* The dimensions of a rubric that the keywords of an answer touch.
SdRubric == {"requirements", "capacity", "api", "components", "scaling", "trade_offs", "failure"}
LldRubric == {"classes", "responsibilities", "patterns", "relationships", "extensibility"}
Rubric(dims, rubric) == [missing |-> rubric \ dims, pct |-> Pct(dims \cap rubric, Cardinality(rubric))]

\* analyzeCode: what the regular expressions find, and the five verdicts
CodeRubric == {"algorithm", "edges", "complexity", "readable", "tested"}
AnalyzeCode(code) ==
  (code.finds \cap {"complexity", "readable", "tested"})
  \cup (IF code.loops > 0 \/ code.finds \cap {"recursion", "structure"} # {} THEN {"algorithm"} ELSE {})
  \cup (IF {"bounds", "branch"} \subseteq code.finds THEN {"edges"} ELSE {})
ComplexityHint(code) ==
  IF code.loops >= 2 THEN "nested?" ELSE IF code.loops = 1 THEN "linear"
  ELSE IF "recursion" \in code.finds THEN "recurrence" ELSE "constant"

\* A section of the body wins over the one stored; only a stored story has a
\* title and metrics.
Merged(body, story) ==
  [s \in Star!Sections |-> IF Star!Has(body.section, s) \/ story = None
                           THEN body.section[s] ELSE story[s]]

\* Up to five topics that are not complete, then areas of mock findings up to
\* six; with neither there is a line that says so.
WeaknessFallbackTasks(topics, areas) ==
  LET weak == First(5, SelectSeq(topics, LAMBDA t : t.pct < 100))
      tasks == weak \o First(6 - Len(weak), areas)
  IN IF tasks = <<>> THEN <<"none">> ELSE tasks

-----------------------------------------------------------------------------
(***************************************************************************)
(* What each feature reads, in order, and the prompt it makes of it.       *)
(***************************************************************************)
Reads(ask) ==
  CASE ask.feature = "planner" -> <<"profile", "roadmap">>
    [] ask.feature = "coach" -> <<"profile">>
    [] ask.feature = "daily_plan" -> <<"day", "profile">>
    [] ask.feature = "sd_review" -> <<"design">>
    [] ask.feature = "story_improve" -> IF ask.body.byId THEN <<"story">> ELSE <<>>
    [] ask.feature = "resume_review" -> <<"resume">>
    [] ask.feature = "weakness_detect" -> <<"topics", "findings">>
    [] OTHER -> <<>>
Required == {"story", "resume"}      \* a 404 without

\* The topics are those with a progress row, the weakest eight.
ReadTopics(rows) ==
  LET Key(t) == <<t.pct, IF t.confidence = None THEN 0 ELSE t.confidence, t.name>>
  IN First(8, Sorted(IF rows = None THEN {} ELSE rows, LAMBDA t, u :
       \E n \in 1..3 : Key(t)[n] < Key(u)[n] /\ \A m \in 1..(n - 1) : Key(t)[m] = Key(u)[m]))
Listed(value) == IF value = None THEN <<>> ELSE value
Story(ask, read) == Merged(ask.body, IF ask.body.byId THEN read["story"] ELSE None)
Titled(ask, read) == IF ask.body.byId THEN read["story"]["title"] ELSE None

\* What a prompt says of the candidate: nothing when the profile was not found.
\* Experience is in tenths of a year, and printed in years (%.0f, a half to the
\* even side).
Years(tenths) ==
  LET down == tenths \div 10
      half == tenths - 10 * down
  IN IF half > 5 \/ (half = 5 /\ down % 2 = 1) THEN down + 1 ELSE down
Of(profile, fields) == IF profile = None THEN None ELSE Restrict(profile, fields)
Experience(profile) == IF profile = None THEN None ELSE Years(profile.years)

WeakAreas(read) == Mock!Weaknesses(Listed(read["findings"]))
AreaLine(read, a) ==
  LET found == read["findings"] IN <<a, Mock!Count(found, a), Mock!MaxSeverity(found, a)>>

\* What the provider is asked: the instructions of the feature, and a prompt made
\* of the body and what was read.
Prompt(ask, read) ==
  <<ask.feature>> \o
  (CASE ask.feature = "planner" ->
          <<ask.body, Of(read["profile"], {"role", "hours", "weeks", "strength"}), read["roadmap"]>>
     [] ask.feature = "coach" ->
          <<ask.body, Of(read["profile"], {"role"}), Experience(read["profile"])>>
     [] ask.feature = "daily_plan" ->
          <<ask.body.date, Of(read["profile"], {"hours"}), Listed(read["day"])>>
     [] ask.feature = "sd_review" -> <<ask.body, read["design"]>>
     [] ask.feature = "story_improve" -> <<Titled(ask, read), Story(ask, read)>>
     [] ask.feature = "resume_review" ->
          <<read["resume"].text, read["resume"].in, read["resume"].bullets>>
     [] ask.feature = "weakness_detect" ->
          <<Map(ReadTopics(read["topics"]), LAMBDA t : <<t.name, t.pct>>),
            Map(WeakAreas(read), LAMBDA a : AreaLine(read, a))>>
     [] OTHER -> <<ask.body>>)

Content(answer, own) ==
  IF answer # None THEN [by |-> "provider", to |-> answer.to] ELSE [by |-> "engine", text |-> own]
\* splitLines: a text may have no line that says anything.
Suggestions(answer, own) == Content(IF answer # None /\ answer.says THEN answer ELSE None, own)

\* The replies: the content is the provider's or the engine's, the rest always
\* the engine's; a review has a rubric only without the provider.
Planner(ask, read, answer) ==
  [content |-> Content(answer, PlannerFallback(ask.body, read["profile"]))]
Coach(ask, answer) == [content |-> Content(answer, CoachFallback(ask.body))]
DailyPlan(read, answer) ==
  LET tasks == Listed(read["day"]) IN
  [content |-> Content(answer, DailyPlanFallback(tasks)), structured |-> DailyStructured(tasks)]
Offline(answer, rubric) == IF answer # None THEN None ELSE rubric
SDReview(ask, answer) ==
  LET rubric == Rubric(ask.body.dims, SdRubric) IN
  [content |-> Content(answer, rubric.missing), structured |-> Offline(answer, rubric)]
LLDReview(ask, answer) ==
  LET rubric == Rubric(ask.body.dims, LldRubric) IN
  [content |-> Content(answer, rubric.missing), structured |-> Offline(answer, rubric)]
CodeReview(ask, answer) ==
  [content |-> Content(answer, ComplexityHint(ask.body)),
   structured |-> Offline(answer, Rubric(AnalyzeCode(ask.body), CodeRubric))]
StoryImprove(ask, read, answer) ==
  LET det == Star!Analysis(Story(ask, read), ask.body.byId) IN
  [content |-> Suggestions(answer, det.suggestions), improved |-> det.improved,
   score |-> det.score]
ResumeReview(read, answer) ==
  LET in == read["resume"].in
      bullets == read["resume"].bullets
  IN [content |-> Suggestions(answer, ATSAdvice(in, bullets, read["resume"].projects)),
      score |-> ATSScore(in, bullets, read["resume"].projects), matches |-> Matches(in, bullets)]
WeaknessDetect(read, answer) ==
  LET topics == ReadTopics(read["topics"]) IN
  [content |-> Suggestions(answer, WeaknessFallbackTasks(topics, WeakAreas(read))),
   topics |-> topics]

Reply(ask, read, answer) ==
  CASE ask.feature = "planner" -> Planner(ask, read, answer)
    [] ask.feature = "coach" -> Coach(ask, answer)
    [] ask.feature = "daily_plan" -> DailyPlan(read, answer)
    [] ask.feature = "sd_review" -> SDReview(ask, answer)
    [] ask.feature = "lld_review" -> LLDReview(ask, answer)
    [] ask.feature = "code_review" -> CodeReview(ask, answer)
    [] ask.feature = "story_improve" -> StoryImprove(ask, read, answer)
    [] ask.feature = "resume_review" -> ResumeReview(read, answer)
    [] ask.feature = "weakness_detect" -> WeaknessDetect(read, answer)

-----------------------------------------------------------------------------
(***************************************************************************)
(* A request, step by step (service.go tryComplete and record).            *)
(***************************************************************************)
AssistInit ==
  /\ active \in BOOLEAN
  /\ world \in {[s \in Sources |-> CHOOSE v \in Data[s] : TRUE]}
  /\ changes = 0 /\ asked = 0
  /\ asking = [r \in Requests |-> None]
  /\ cache = <<>>
  /\ reply = None

Goto(r, step) == [asking EXCEPT ![r].step = step]
At(r, step) == asking[r] # None /\ asking[r].step = step
ToRead(r) == SelectSeq(Reads(asking[r].ask), LAMBDA s : s \notin DOMAIN asking[r].read)

\* The rest of the system, and other sessions of the user.
ChangeWorld(s, value) ==
  /\ changes < MaxChanges /\ changes' = changes + 1
  /\ world[s] # value /\ world' = [world EXCEPT ![s] = value]
  /\ reply' = None /\ UNCHANGED <<active, asking, asked, cache>>

\* A plan of no date is for the day the clock shows.
Settled(feature, body) ==
  IF feature = "daily_plan" /\ body.date = None
  THEN {[body EXCEPT !.date = d] : d \in DOMAIN world["day"]} ELSE {body}

\* The handler refuses a body without the text it needs.
Ask(r, ask) ==
  /\ asked < MaxAsks /\ asked' = asked + 1
  /\ asking[r] = None
  /\ asking' = [asking EXCEPT ![r] =
       [ask |-> ask, read |-> <<>>, step |-> "read", answer |-> None]]
  /\ reply' = None /\ UNCHANGED <<active, world, changes, cache>>

\* The tasks are those of the date that was asked for.
Found(ask, s) == IF s = "day" THEN world[s][ask.body.date] ELSE world[s]
ReadSource(r) ==
  /\ At(r, "read") /\ ToRead(r) # <<>>
  /\ LET s == Head(ToRead(r)) IN
     \E value \in {Found(asking[r].ask, s), None} :
       asking' = [asking EXCEPT ![r] =
         IF value = None /\ s \in Required THEN None
         ELSE [@ EXCEPT !.read = @ @@ (s :> value)]]
  /\ reply' = None /\ UNCHANGED <<active, world, changes, asked, cache>>

\* The key is the hash of model, instructions and prompt under the feature.
Bug_Key(a) == <<a.ask.feature, a.ask.body>>
Key(a) == <<a.ask.feature, Prompt(a.ask, a.read)>>

\* A cache that fails is a cache without the key.
Lookup(r) ==
  /\ At(r, "read") /\ ToRead(r) = <<>>
  /\ \/ ~active /\ asking' = Goto(r, "record")
     \/ active /\ asking' = Goto(r, "complete")
     \/ /\ active /\ Key(asking[r]) \in DOMAIN cache
        /\ asking' = [asking EXCEPT ![r] =
             [@ EXCEPT !.answer = cache[Key(asking[r])], !.step = "record"]]
  /\ reply' = None /\ UNCHANGED <<active, world, changes, asked, cache>>

\* The provider answers the prompt, or fails.
Complete(r) ==
  /\ At(r, "complete")
  /\ \/ \E says \in BOOLEAN :
          asking' = [asking EXCEPT ![r] =
            [@ EXCEPT !.step = "store",
                      !.answer = [to |-> Prompt(asking[r].ask, asking[r].read), says |-> says]]]
     \/ asking' = Goto(r, "record")
  /\ reply' = None /\ UNCHANGED <<active, world, changes, asked, cache>>

StoreAnswer(r) ==
  /\ At(r, "store")
  /\ asking' = Goto(r, "record")
  /\ LET key == Key(asking[r]) IN
     \/ cache' = [k \in DOMAIN cache \cup {key} |->
                   IF k = key THEN asking[r].answer ELSE cache[k]]
     \/ cache' = cache
  /\ reply' = None /\ UNCHANGED <<active, world, changes, asked>>

Expire(k) ==
  /\ cache' = [j \in DOMAIN cache \ {k} |-> cache[j]]
  /\ reply' = None /\ UNCHANGED <<active, world, changes, asking, asked>>

\* The ai_invocations row of the call, on which nothing depends, is left out.
Record(r) ==
  /\ At(r, "record")
  /\ LET a == asking[r] IN
     reply' = [ask |-> a.ask, read |-> a.read, is |-> Reply(a.ask, a.read, a.answer)]
  /\ asking' = [asking EXCEPT ![r] = None]
  /\ UNCHANGED <<active, world, changes, asked, cache>>

AssistNext ==
  \/ \E s \in Sources : \E value \in Data[s] : ChangeWorld(s, value)
  \/ \E r \in Requests :
       \/ \E feature \in DOMAIN Bodies : \E body \in Bodies[feature] :
          \E settled \in Settled(feature, body) :
            Ask(r, [feature |-> feature, body |-> settled])
       \/ ReadSource(r) \/ Lookup(r) \/ Complete(r) \/ StoreAnswer(r) \/ Record(r)
  \/ \E k \in DOMAIN cache : Expire(k)

-----------------------------------------------------------------------------
\* A text of the provider that reaches a client, fresh or from the cache, is
\* its answer to the prompt of this very request, made of the same reading of
\* the data as the scores and tables beside it; an outdated reading does not
\* bring back an old answer to another question (service.go tryComplete,
\* cache.go cacheKey).
AnswersTheQuestion ==
  reply # None /\ reply.is.content.by = "provider" =>
    reply.is.content.to = Prompt(reply.ask, reply.read)
=============================================================================
