SPECIFICATION Spec
CONSTANTS
  Gap = 12
  Padding = 16
  Navs = {"all", "ranking", "updates", "games"}
  Tabs = {"all", "games"}
  Windows <- MCWindows
  Total = 40
  Installed = 20
  MaxTyped = 1
  MaxThreads = 3
  MaxTroubles = 2
INVARIANTS TypeOK ShownIsSelected PageIsTrue WindowIsFilled RankingIsSelected SleepsDrawn LoadingHasReason
PROPERTY AsksForSelected
CHECK_DEADLOCK FALSE
