SPECIFICATION Spec
CONSTANTS
  p1 = p1  p2 = p2  p3 = p3
  v1 = v1  v2 = v2  v3 = v3
  NoLock = NoLock
  Unread = Unread
  Aged = Aged
  Procs <- ThreeProcs
  Vault <- ThreeVaults
  Standing <- AllStanding
  LocksAge = FALSE
  Leaving <- ThreeProcs
  MaxFaults = 0
CHECK_DEADLOCK FALSE
PROPERTIES UpdatesAreExclusive
