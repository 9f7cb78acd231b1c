CONSTANTS
  Threads = {t1, t2}
  C1 = C1
  F1 = F1
  F2 = F2
  Classes = {C1}
  Names = {F1, F2}
  Items <- MCItems
  MaxOps = 2
  MaxCalls = 1
  MaxClusters = 2
  NoThread = NoThread
SPECIFICATION FairSpec
INVARIANTS TypeOK LoadedInOneOperation SettledAnswer FreshAnswer
PROPERTIES SharedData CallsReturn
CHECK_DEADLOCK FALSE
