CONSTANTS
  h1 = h1
  h2 = h2
  t1 = t1
  t2 = t2
  Hosts = {h1, h2}
  Threads = {t1, t2}
  NoThread = NoThread
  MaxCalls = 2
SPECIFICATION FairSpec
INVARIANTS TypeOK ClientNotShared NoLateCommand ClosedAtExit
PROPERTIES UnreachableStays CallEnds
CHECK_DEADLOCK FALSE
