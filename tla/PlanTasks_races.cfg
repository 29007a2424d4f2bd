SPECIFICATION Spec
CONSTANTS
  None = None
  t1 = t1
  t2 = t2
  topic = topic
  problem = problem
  Planned = {t1}
  Items = {topic}
  Reqs = {r1, r2, r3}
  PlanOf <- MCPlanOf
  ItemType <- MCItemType
  Dates = {1, 2}
  PlanDates = {1}
  Minutes = {20, 30}
  DailyGoal = 30
  OneRequestPerTask = FALSE
SYMMETRY Symmetry
CHECK_DEADLOCK FALSE
INVARIANTS
  TypeOK
  CompletedHasSession
  AnswerCountsTheDay
  GoalMetIsMarked
  MovedHasClone
  DueAfterStudy
