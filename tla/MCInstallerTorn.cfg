SPECIFICATION Spec
CONSTANTS
  None = None
  Versions <- MCVersions
  Sites <- MCSites
  MaxRuns = 3
  MaxFaults = 1
INVARIANT SparedBackUpIsWhole
\* The runs are bounded.
CHECK_DEADLOCK FALSE
