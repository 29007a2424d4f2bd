SPECIFICATION Spec
CONSTANTS
  None = None
  t1 = t1
  t2 = t2
  topic = topic
  problem = problem
  Planned = {t1, t2}
  Items = {topic, problem}
  Reqs = {r1, r2, r3}
  PlanOf <- MCPlanOf
  ItemType <- MCItemType
  Dates = {1, 2}
  PlanDates = {1, 2}
  Minutes = {20}
  DailyGoal = 30
  OneRequestPerTask = TRUE
SYMMETRY Symmetry
CHECK_DEADLOCK FALSE
INVARIANTS
  DayLedger
  StreakNeverUndercounts
  StandingDayHasStreakRow
PROPERTIES
  ImplementsLifecycle
