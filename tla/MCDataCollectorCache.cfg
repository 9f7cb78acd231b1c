CONSTANTS
  Validators = {v1, v2}
  Hosts = {h1}
  Requests = {r1, r2}
  HandleError = {r1}
  MaxOps = 2
  MaxCalls = 1
  MaxFlows = 2
  NoWorker = NoWorker
SPECIFICATION FairSpec
INVARIANTS TypeOK LoadedOnce OneAnswer WholeAnswer FreshAnswer
PROPERTIES CollectOnce FlowsEnd
CHECK_DEADLOCK FALSE
