SPECIFICATION Spec
CONSTANTS
  topic = topic
  problem = problem
  resource = resource
  Items = {resource}
  ItemType <- MCItemType
  Plans <- MCPlans
  Gens = {g1, g2}
PROPERTY RegenerationPreserves
CHECK_DEADLOCK FALSE
