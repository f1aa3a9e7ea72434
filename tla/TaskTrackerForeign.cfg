SPECIFICATION Spec
CONSTANTS
  Ops = {a, b}
  Foreign = {f}
  Asking = {}
  Outcomes = {"Failed"}
  MaxTasks = 1
  Faults = {}
  HasInteractionCb = FALSE
  None = None
INVARIANT BindsOwn
CHECK_DEADLOCK FALSE
