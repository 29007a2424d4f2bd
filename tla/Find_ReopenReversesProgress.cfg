SPECIFICATION Spec
CONSTANTS
  None = None
  t1 = t1
  t2 = t2
  topic = topic
  problem = problem
  Planned = {t1, t2}
  Items = {topic, problem}
  Reqs = {r1, r2}
  PlanOf <- MCPlanOf
  ItemType <- MCItemType
  Dates = {1, 2}
  PlanDates = {1, 2}
  Minutes = {20}
  DailyGoal = 30
  OneRequestPerTask = TRUE
CHECK_DEADLOCK FALSE
INVARIANTS
  ReopenReversesProgress
