SPECIFICATION MCSpec
CONSTANTS
  uc = uc
  hyp = hyp
  compute = compute
  Hosts = {uc, hyp, compute}
  SingleType = {uc, hyp}
  NoName = NoName
  Chosen = {uc, compute}
  manager = uc
  finalHost = hyp
  None = None
  Half = Half
  MaxRuns = 2
  MaxFaults = 1
INVARIANTS TypeOK OldLogsTraced CollectedIsDelivered
\* The flow ends.
CHECK_DEADLOCK FALSE
