SPECIFICATION FairSpec
CONSTANTS
  Apps = {a, b}
  Blocks = {p, q}
  Outcomes = {"Succeed", "Failed"}
  Faults = {"network", "records", "threads", "refuse", "vanish"}
  MaxCalls = 2
  MaxChecks = 1
  MaxReports = 1
  None = None
INVARIANTS TypeOK OneOwner CheckIsPending ListInBlock
PROPERTIES LosesNamedItem CheckEnds
CHECK_DEADLOCK FALSE
