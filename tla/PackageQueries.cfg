SPECIFICATION Spec
CONSTANTS
  app = app
  tool = tool
  other = other
  Packages <- MCPackages
  NoVersion = NoVersion
  Develop = "develop"
  Requests = {r1, r2}
  OtherJobs = {j}
  RepoArgs <- MCRepoArgs
  Configurations <- MCConfigurations
  Results <- MCResults
  Nothing = Nothing
  Blank = Blank
  Unborn = Unborn
  Current = Current
  Stable = "stable"
  MaxCrashes = 1
  Ids = {app, tool, other}
  SafeIds = {app, tool}
  Documents <- MCDocuments
  Empty <- MCEmpty
  Garbage <- MCGarbage
  Mixtures <- MCMixtures
  Missing = Missing
  Absent = Absent
  Local = "local"
  MaxWrites = 2
INVARIANTS TypeOK AnsweredOnce AnswerIsOwn NewestKept ResultIsSnapshot
PROPERTIES EverySearchAnswered
CHECK_DEADLOCK FALSE
