SPECIFICATION Spec
CONSTANTS
  None = None
  Browsers = {b1, b2}
  Handlers = {h1, h2}
  MaxUsers = 1
  MaxTokens = 3
  MaxResets = 1
SYMMETRY Symmetry
CHECK_DEADLOCK FALSE
INVARIANTS
  EndedStaysEnded
  SignedInStaysIn
  LinkNotBurned
