CONSTANTS
  c0 = c0
  h1 = h1
  h2 = h2
  Hosts = {c0, h1, h2}
  SingleType = {c0}
  Flow <- MCFlow
  NoName = NoName
SPECIFICATION Spec
INVARIANTS DependsOnThisHost
CHECK_DEADLOCK FALSE
