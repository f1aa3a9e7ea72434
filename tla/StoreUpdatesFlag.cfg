SPECIFICATION Spec
CONSTANTS
  Apps = {a, b}
  Blocks = {p}
  Outcomes = {"Succeed"}
  Faults = {}
  MaxCalls = 2
  MaxChecks = 0
  MaxReports = 1
  None = None
INVARIANT UpdatingIsTrue
CHECK_DEADLOCK FALSE
