----------------------------- MODULE MCServices -----------------------------
(***************************************************************************)
(* Services on small instances.                                            *)
(***************************************************************************)
EXTENDS Services, TLC

CONSTANTS r1, r2, c1, c2

Two == {r1, r2}      \* handlers at work at once

\* No definition tells one handler, or one client of the limiter, from the other.
Symmetry == Permutations(Two) \cup Permutations({c1, c2})

-----------------------------------------------------------------------------
(* The plan engine: three topics of one pillar and one of another, long    *)
(* and short, in any chain of prerequisites (a cycle too), for two hours a *)
(* week and three weeks of two study days.                                 *)
TwoPillars == <<"dsa", "lld">>
Problem == [minutes |-> 0, company |-> 40, frequency |-> 10, difficulty |-> 1, order |-> 2]
Easier == [minutes |-> 20, company |-> 40, frequency |-> 10, difficulty |-> 0, order |-> 3]
Course == [minutes |-> None, primary |-> TRUE, order |-> 2]
Book == [minutes |-> 600, primary |-> TRUE, order |-> 1]
Blog == [minutes |-> 10, primary |-> FALSE, order |-> 0]
Prerequisites ==
  {[t \in PlanTopics |-> <<>>],
   [t \in PlanTopics |-> IF t \in {2, 3} THEN <<t - 1>> ELSE <<>>],
   [t \in PlanTopics |-> IF t \in {1, 2} THEN <<t + 1>> ELSE <<>>],
   [t \in PlanTopics |-> IF t \in {1, 2, 3} THEN <<1 + (t % 3)>> ELSE <<>>]}
Catalogues ==
  {[topic |-> [t \in PlanTopics |->
       [pillar |-> IF t < 4 THEN "dsa" ELSE "lld", deleted |-> t = gone,
        estimate |-> estimate[t],
        priority |-> IF t = first THEN 3 ELSE 1, difficulty |-> t % 3,
        prerequisites |-> chain[t],
        problems |-> IF t = solved THEN <<Problem, Easier>> ELSE <<>>,
        resources |-> IF t = 4 THEN <<Course, Book, Blog>> ELSE <<>>]],
    company |-> strength = 1,
    pillar |-> [p \in {"dsa", "lld"} |->
       [weight |-> IF p = "dsa" THEN 3 ELSE 0, company |-> 2,
        strength |-> IF p = "dsa" THEN strength ELSE 5]]] :
   estimate \in [PlanTopics -> {20, 80, 180}], chain \in Prerequisites,
   first \in {1, 3}, solved \in {2, 4}, strength \in {0, 1}, gone \in {0, 2}}

-----------------------------------------------------------------------------
(* Readiness: a topic and a problem of one pillar or of two; two rungs,     *)
(* three days and two recalls.                                             *)
BothPillars == {"dsa", "lld"}
OneWeighs == {[dsa |-> 3, lld |-> 0]}
Rungs == <<1, 3>>

-----------------------------------------------------------------------------
(* Stories: a good draft, a rambling one, one without action and one that  *)
(* is refused.                                                             *)
Passage(words, number, mine) == [words |-> words, number |-> number, weak |-> ~mine, mine |-> mine]
Draft(action, result, rest) ==
  [titled |-> TRUE, themed |-> TRUE, oversized |-> FALSE,
   section |-> [s \in {"situation", "task", "action", "result", "metrics"} |->
      IF s = "action" THEN action ELSE IF s = "result" THEN result ELSE rest]]
Good == Passage(20, FALSE, TRUE)
Long == Passage(200, TRUE, FALSE)
Blank == Passage(0, FALSE, TRUE)
StoryDrafts ==
  {Draft(Good, Good, Good), Draft(Long, Long, Blank), Draft(Blank, Good, Good),
   [Draft(Good, Good, Good) EXCEPT !.themed = FALSE]}
-----------------------------------------------------------------------------
(* Resumes: one input, two profiles one after the other, one project.      *)
Bullet(words, verb, mentions) == [words |-> words, number |-> TRUE, verb |-> verb, mentions |-> mentions]
OneProfile == {[headline |-> TRUE, summary |-> FALSE, skills |-> {}, targets |-> {"go"}]}
TwoProjects == {<<Bullet(20, TRUE, {"go"})>>, <<Bullet(20, TRUE, {"go"}), Bullet(2, FALSE, {})>>}

-----------------------------------------------------------------------------
(* Mock interviews: a mock with three findings in two areas, one plan.     *)
TwoAreas == {"arrays", "graphs"}
ByName == [arrays |-> 1, graphs |-> 2]

-----------------------------------------------------------------------------
(* The AI features: two asks at once and one change of the data meanwhile; *)
(* two dates of the same tasks, two lengths of experience, one finding in  *)
(* an area or two.                                                         *)
Section(given) == [s \in {"situation", "task", "action", "result", "metrics"} |-> given]
Candidate(tenths) ==
  [role |-> "sde3", years |-> tenths, hours |-> 10, weeks |-> 12,
   strength |-> [dsa |-> 1, lld |-> 3], rank |-> [dsa |-> 1, lld |-> 2]]
Scored(projects) ==
  [text |-> "backend engineer",
   in |-> [headline |-> TRUE, summary |-> TRUE, skills |-> {"go"}, targets |-> {"go", "sql"}],
   bullets |-> <<>>, projects |-> projects]
Titled(sections) == sections @@ ("title" :> "outage")
Readable ==
  [profile |-> {Candidate(44), Candidate(55)},
   roadmap |-> {12},
   day |-> {[date \in {1, 2} |->
              <<[id |-> 1, priority |-> "low", minutes |-> 30, status |-> "pending"],
                [id |-> 2, priority |-> "high", minutes |-> 30, status |-> "completed"]>>]},
   design |-> {"url_shortener"},
   story |-> {Titled([Section(Good) EXCEPT !["result"] = None])},
   resume |-> {Scored(1)},
   topics |-> {{[name |-> 1, pct |-> 50, confidence |-> None],
                [name |-> 2, pct |-> 100, confidence |-> 3]}},
   findings |-> {[f \in 1..n |-> [area |-> "arrays", severity |-> "minor"]] : n \in {1, 2}}]
Askable ==
  [planner |-> {[focus |-> <<>>]}, coach |-> {[mentions |-> {"coding"}]},
   daily_plan |-> {[date |-> d] : d \in {1, 2, None}}, sd_review |-> {[dims |-> {"api"}]},
   lld_review |-> {[dims |-> {"classes"}]},
   code_review |-> {[loops |-> 1, finds |-> {"bounds", "branch"}]},
   story_improve |-> {[byId |-> TRUE, section |-> [Section(None) EXCEPT !["task"] = Good]],
                      [byId |-> FALSE, section |-> [Section(Good) EXCEPT !["metrics"] = None]]},
   resume_review |-> {[all |-> TRUE]}, weakness_detect |-> {[all |-> TRUE]}]
-----------------------------------------------------------------------------
(* Code execution: programs that loop or not, in a language of each kind.  *)
SomePrograms ==
  [language : {"python", "go", "cpp", "java", "lua"}, builds : BOOLEAN,
   forks : BOOLEAN, loops : BOOLEAN]

(* The catalogue: two slugs, of which the seeder has one.                  *)
Body(slug, tags, flaws) == [slug |-> slug, tags |-> tags, flaws |-> flaws]
AdminBodies == {Body("x", {"p"}, {}), Body("y", {"q"}, {}), Body("y", {"p"}, {"unknown pattern"})}
SeederBodies == {Body("x", {"s"}, {})}

(* The intake form: two that are complete and one that is refused, two     *)
(* companies and one that there is no more.                                *)
Form(form, target, flaws) == [form |-> form, target |-> target, flaws |-> flaws]
IntakeForms == {Form("a", None, {}), Form("b", "acme", {}), Form("b", "nowhere", {"start_date"})}
=============================================================================
