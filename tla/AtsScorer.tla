------------------------------ MODULE AtsScorer ------------------------------
(***************************************************************************)
(* The rule-based ATS scorer (backend/internal/resume/scorer.go), in       *)
(* hundredths of a point, and what it advises.                             *)
(*                                                                         *)
(* Texts are known by what the rules look for in them.  A resume is        *)
(* [headline, summary: BOOLEAN, skills, targets: sets of words]; a bullet  *)
(* is [words: Nat, number, verb: BOOLEAN, mentions: a set of words].       *)
(***************************************************************************)
EXTENDS Integers, Sequences, FiniteSets, FiniteSetsExt, SequencesExt

\* round2(n / total * max)
Share(n, total, max) == IF total = 0 THEN 0 ELSE (200 * max * n + total) \div (2 * total)
How(bullets, Good(_)) == Len(SelectSeq(bullets, Good))

Matches(in, bullets) ==
  in.targets \cap (in.skills \cup UNION {b.mentions : b \in ToSet(bullets)})
ScoreKeywords(in, bullets) ==
  Share(Cardinality(Matches(in, bullets)), Cardinality(in.targets), 35)

Quantified(bullets) == How(bullets, LAMBDA b : b.number)
ScoreQuantified(bullets) == Share(Quantified(bullets), Len(bullets), 20)

WithVerb(bullets) == How(bullets, LAMBDA b : b.verb)
ScoreActionVerbs(bullets) == Share(WithVerb(bullets), Len(bullets), 15)

Present(in, projects) ==
  {s \in {"headline", "summary"} : in[s]}
  \cup (IF in.skills # {} THEN {"skills"} ELSE {})
  \cup (IF projects > 0 THEN {"projects"} ELSE {})
ScoreSections(in, projects) == Share(Cardinality(Present(in, projects)), 4, 15)

Ideal(bullets) == How(bullets, LAMBDA b : b.words \in 8..30)
ScoreBulletLength(bullets) == Share(Ideal(bullets), Len(bullets), 15)

ATSScore(in, bullets, projects) ==
  ScoreKeywords(in, bullets) + ScoreQuantified(bullets) + ScoreActionVerbs(bullets)
  + ScoreSections(in, projects) + ScoreBulletLength(bullets)

\* What each rule suggests; without bullets only one of them does.
ATSAdvice(in, bullets, projects) ==
  (IF Matches(in, bullets) # in.targets \/ in.targets = {} THEN {"keywords"} ELSE {})
  \cup (IF 2 * Quantified(bullets) < Len(bullets) \/ bullets = <<>> THEN {"quantify"} ELSE {})
  \cup (IF 5 * WithVerb(bullets) < 3 * Len(bullets) THEN {"verbs"} ELSE {})
  \cup (IF Cardinality(Present(in, projects)) < 4 THEN {"sections"} ELSE {})
  \cup (IF 5 * Ideal(bullets) < 3 * Len(bullets) THEN {"length"} ELSE {})
=============================================================================
