SPECIFICATION ServicesSpec
CONSTANTS
  None = None
  Gone = Gone
  Nil = Nil
  r1 = r1
  r2 = r2
  c1 = c1
  c2 = c2
  Requests <- Two
  PlanTopics = {1, 2, 3, 4}
  Track <- TwoPillars
  PlanInputs <- Catalogues
  HoursPerWeek = 2
  TargetWeeks = 3
  ActiveDays = 2
  StreakDays = 8
  Problems = {"two_sum"}
  Designs = {"url_shortener"}
  Parts = {"code", "notes"}
  PracticeDays = 2
  MaxAttempts = 3
  Topics = {"arrays"}
  Pillars <- BothPillars
  Weights <- OneWeighs
  Intervals <- Rungs
  Ratings = {1, 5}
  Scores = {4}
  ReadyDays = 2
  MaxAnswers = 2
  Whole = 8000
  Recordings = {"r"}
  Levels = {67900, 69000, 69004, 80000}
  Grain = 10
  Target = 80000
  TrendWindow = 2
  TrendDays = 3
  Clients = {c1, c2}
  Limit = 1
  LimitWindow = 3
  MaxDelay = 2
  LastTick = 4
  Stories = {"s1", "s2"}
  Drafts <- StoryDrafts
  Profiles = {1, 2}
  Projects = {"p1"}
  ProfileInputs <- OneProfile
  ProjectInputs <- TwoProjects
  MaxUploads = 1
  Mocks = {"m1"}
  Findings = {"f1", "f2", "f3"}
  Tasks = {"t1"}
  Areas <- TwoAreas
  AreaRank <- ByName
  Types = {"coding"}
  Outcomes = {"hire"}
  Severities = {"minor", "blocker"}
  MaxPlans = 1
  AskBodies <- Askable
  Data <- Readable
  MaxAsks = 2
  MaxChanges = 1
  Runs = {"r"}
  Toolchains = {"python", "go", "cpp"}
  Programs <- SomePrograms
  Ids = {1, 2}
  Tables = {"problem", "topic", "design", "lld"}
  Bodies <- AdminBodies
  SeedBodies <- SeederBodies
  Forms <- IntakeForms
  Companies = {"acme", "globex", "gone"}
  Known = {"acme", "globex"}
SYMMETRY Symmetry
CHECK_DEADLOCK FALSE
INVARIANTS
  StreakIsTheRun
  OverflowOnlyWhenFull
  EveryTaskOnce
  EstimateIsReadyDay
  AtMostThrice
  FeedbackMatchesStory
  ScoreIsItsOwn
  LinkSound
  AnswersTheQuestion
  NoSilentKill
  AssociationsOfOneWrite
  AnswerShowsTheWrite
PROPERTIES
  FindingCounts
  NothingForgotten
  ReadinessIsEarned
