SPECIFICATION FairSpec
CONSTANTS
  p1 = p1
  p2 = p2
  a = a
  b = b
  NoDigest = NoDigest
  Procs <- BothProcs
  Interactive <- OneAtTerminal
  Digests <- TwoDigests
  Starts <- AnyStart
  Faults <- AnyFault
  MaxFaults = 1
  MaxOps = 2
  MaxSeq = 5

INVARIANTS
   ChainNeverBroken LineageHasSnapshots
PROPERTIES
  HistoryIsKept LockIsReleased
ACTION_CONSTRAINT LiveLocksAreKept
CHECK_DEADLOCK FALSE
