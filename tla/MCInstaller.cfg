SPECIFICATION Spec
CONSTANTS
  None = None
  Versions <- MCVersions
  Sites <- MCSites
  MaxRuns = 3
  MaxFaults = 2
INVARIANTS TypeOK InstalledIsWhole RollbackRestores ImageOfPackage OldKeyTraceless
PROPERTIES LastCopyKept NewerKept
\* The runs are bounded.
CHECK_DEADLOCK FALSE
