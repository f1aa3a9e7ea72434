SPECIFICATION FairSpec
CONSTANTS
  Ops = {a, b}
  Foreign = {}
  Asking = {a}
  Outcomes = {"Failed"}
  MaxTasks = 1
  Faults = {}
  HasInteractionCb = TRUE
  None = None
PROPERTY QuestionsAnswered
CHECK_DEADLOCK FALSE
