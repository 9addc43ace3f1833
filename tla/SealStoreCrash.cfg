SPECIFICATION SmallSpec
CONSTANTS
  p1 = p1
  p2 = p2
  r1 = r1
  a = a
  b = b
  NoDigest = NoDigest
  Procs <- BothProcs
  Readers <- OneReader
  Interactive <- OneAtTerminal
  Digests <- TwoDigests
  Starts <- SealedStarts
  Faults <- Failures
  MaxFaults = 2
  MaxOps = 3
  MaxSeq = 6
SYMMETRY DigestSymmetry
INVARIANTS
  MutualExclusion
  InterruptedSealKeepsContract
  RecoverFinishesInterruptedSeal
  OneSealCannotBreakARead
  ReadReturnsALinkedContract
CHECK_DEADLOCK FALSE
PROPERTIES
  SealReplacesWhatWasRead
  IndexFollowsLineage
  KeepsHistory
