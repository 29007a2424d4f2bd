SPECIFICATION FairSpec
CONSTANTS
  topic = topic
  problem = problem
  resource = resource
  Items = {topic, problem}
  ItemType <- MCItemType
  Plans <- MCPlans
  Gens = {g1, g2, g3}
INVARIANTS
  RefusedHasPlan
PROPERTIES
  ImplementsPlan
  CarriedOver
  GenerateAnswered
CHECK_DEADLOCK FALSE
