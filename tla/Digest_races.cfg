SPECIFICATION Spec
CONSTANTS
  None = None
  Tasks = {t1}
  DayOf <- OneTaskADay
  LastDay = 2
  Monday = 1
  Levels = {0, 28}
  Wired <- FourPorts
  Handlers = {h1, h2}
  OneAtATime = TRUE
INVARIANTS
  MissedWasMissed
  MilestoneNoted
PROPERTIES
  ReadStaysRead
SYMMETRY Symmetry
