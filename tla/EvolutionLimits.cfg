SPECIFICATION LimitsSpec
CONSTANTS
  a = a  b = b  c = c  x = x  y = y
  m = m  e1 = e1
  NoDigest = NoDigest
  Digests <- ThreeContracts
  First = a
  Loosening <- BackwardsLoosens
  Sessions <- OneEvaluator
  Quorum = 1
  StallLimit = 1
  PerDay = 1
  PerWeek = 1
  WeekTicks = 2
  Uses <- AnyUse
  BusyOwner = TRUE
  Faults <- Failures
  MaxRequests = 1
  MaxSeals = 2
  MaxDay = 1
  MaxFaults = 1
SYMMETRY SessionSymmetry
CHECK_DEADLOCK FALSE
INVARIANTS NeverLoosensAlone RateIsKept RunsEnd
PROPERTIES ClosedIsNeverSealed
