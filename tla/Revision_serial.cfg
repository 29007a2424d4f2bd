SPECIFICATION Spec
CONSTANTS
  None = None
  Items = {topic, problem}
  Schedulable = {topic, problem}
  Handlers = {h1, h2}
  Intervals <- ShortLadder
  OneRecallPerItem = TRUE
  LastDay = 2
  MaxReviews = 3
SYMMETRY Symmetry
PROPERTIES
  ImplementsLadder
