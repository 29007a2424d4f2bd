SPECIFICATION FairSpec
CONSTANTS
  None = None
  t1 = t1
  t2 = t2
  topic = topic
  problem = problem
  Planned = {t1}
  Items = {topic}
  Reqs = {r1, r2}
  PlanOf <- MCPlanOf
  ItemType <- MCItemType
  Dates = {1, 2}
  PlanDates = {1}
  Minutes = {30}
  DailyGoal = 30
  OneRequestPerTask = FALSE
CHECK_DEADLOCK FALSE
PROPERTIES
  EventuallyScheduled
