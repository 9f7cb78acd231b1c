SPECIFICATION Spec
CONSTANTS
  manager = manager
  node = node
  conf = conf
  dir = dir
  resource = resource
  command = command
  Hosts = {manager, node}
  Items = {conf, dir, resource, command}
  HostOf <- MCHostOf
  KindOf <- MCKindOf
  a = a
  b = b
  Contents = {a, b}
  Absent = Absent
  Unreadable = Unreadable
  NoDirectory = NoDirectory
  NoSnapshot = NoSnapshot
  NoFile = NoFile
  Truncated = Truncated
  SizeLimit = 1
  Backups = 1
  MaxEdits = 2
  MaxFaults = 0
SYMMETRY SymmetricContents
INVARIANT NoDiffNoChanges
\* A locked tracker does nothing until someone removes the lock file.
CHECK_DEADLOCK FALSE
