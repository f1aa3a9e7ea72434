SPECIFICATION Spec
CONSTANTS
  Ops = {a, b}
  Foreign = {f}
  Asking = {a, b}
  Outcomes = {"Failed"}
  MaxTasks = 2
  Faults = {"oom", "nomatch", "timeout", "vanish"}
  HasInteractionCb = FALSE
  None = None
INVARIANTS TypeOK OneHome
PROPERTY SilentOnceEnded
CHECK_DEADLOCK FALSE
SYMMETRY Symmetry
