SPECIFICATION Spec
CONSTANTS
  None = None
  Items = {topic, doc}
  Schedulable = {topic}
  Handlers = {h1, h2}
  Intervals <- GALadder
  OneRecallPerItem = FALSE
  LastDay = 2
  MaxReviews = 5
SYMMETRY Symmetry
INVARIANTS
  FieldsAgree
  StageIsEarned
PROPERTIES
  DueUntilRecalled
