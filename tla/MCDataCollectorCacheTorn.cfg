CONSTANTS
  Validators = {v1, v2}
  Hosts = {h1}
  Requests = {r1}
  HandleError = {r1}
  MaxOps = 1
  MaxCalls = 1
  MaxFlows = 1
  NoWorker = NoWorker
SPECIFICATION Spec
INVARIANT NoWorkerDies
CHECK_DEADLOCK FALSE
