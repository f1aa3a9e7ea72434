SPECIFICATION FairSpec
CONSTANTS
  Ops = {a, b}
  Foreign = {f}
  Asking = {}
  Outcomes = {"Failed"}
  MaxTasks = 1
  Faults = {"timeout", "vanish"}
  HasInteractionCb = FALSE
  None = None
INVARIANT NoneForgotten
PROPERTIES KeepsLifecycle EveryRequestEnds
CHECK_DEADLOCK FALSE
