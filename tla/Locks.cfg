SPECIFICATION LocksSpec
CONSTANTS
  p1 = p1  p2 = p2  p3 = p3  t1 = t1
  Procs <- ThreeProcs
  Terminals <- OneTerminal
  ApprovesUnnamed = FALSE
  MaxCreated = 4
  MaxFaults = 2
  Older <- OneProc
  NoText = NoText
  MaxTexts = 4
  MaxWriterFaults = 2
  Registrars <- ThreeProcs
  Vault <- VaultOf
  Standing <- AllPaths
  NoLock = NoLock
  Unread = Unread
  Aged = Aged
  LocksAge = TRUE
  Leaving <- ThreeProcs
  MaxIndexFaults = 3
  here = here  there = there  yonder = yonder
CHECK_DEADLOCK FALSE
INVARIANTS MutualExclusion OneWriter
PROPERTIES LiveLockIsKept EntriesStay
