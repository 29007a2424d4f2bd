SPECIFICATION CodeSpec
CONSTANTS
  Requests = {r1}
  Programs <- MCPrograms
  Toolchains = {"python", "go", "cpp"}
  None = None
CHECK_DEADLOCK FALSE
PROPERTY
  RunAnswered
