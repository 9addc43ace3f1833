SPECIFICATION Spec
CONSTANTS
  a = a  b = b  c = c
  m = m  e1 = e1  e2 = e2  e3 = e3
  Digests <- TwoContracts
  NoDigest = NoDigest
  First = a
  Loosening <- BackwardsLoosens
  Sessions <- OneEvaluator
  Quorum = 1
  StallLimit = 1
  PerDay = 1
  PerWeek = 1
  WeekTicks = 2
  Uses <- AnyUse
  BusyOwner = TRUE
  Faults <- NoFaults
  MaxRequests = 1
  MaxSeals = 3
  MaxDay = 0
  MaxFaults = 0
SYMMETRY SessionSymmetry
CHECK_DEADLOCK FALSE
INVARIANTS SealFollowsItsParent
