SPECIFICATION FairSpec
CONSTANTS
  Threads = {t1, t2, t3}
  PoolSize = 2
  Handles = {h1, h2, h3}
  None = None
INVARIANTS TypeOK Alive NoHandleLost InUseHasUser
PROPERTIES LendsExclusively PostReturns
CHECK_DEADLOCK FALSE
