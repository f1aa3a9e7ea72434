SPECIFICATION Spec
CONSTANTS
  Ops = {a, b, c}
  Foreign = {}
  Asking = {}
  Outcomes = {"Failed"}
  MaxTasks = 2
  Faults = {"nomatch", "vanish"}
  HasInteractionCb = FALSE
  None = None
INVARIANTS BindsOwn LastWordIsOutcome
CHECK_DEADLOCK FALSE
SYMMETRY Symmetry
