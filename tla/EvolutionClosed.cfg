SPECIFICATION Spec
CONSTANTS
  a = a  b = b  c = c
  m = m  e1 = e1  e2 = e2  e3 = e3
  Digests <- TwoContracts
  NoDigest = NoDigest
  First = a
  Loosening <- BackwardsLoosens
  Sessions <- ThreeEvaluators
  Quorum = 3
  StallLimit = 1
  PerDay = 1
  PerWeek = 1
  WeekTicks = 2
  Uses <- AnyUse
  BusyOwner = FALSE
  Faults <- Failures
  MaxRequests = 1
  MaxSeals = 3
  MaxDay = 1
  MaxFaults = 2
CONSTRAINT DayOrFault
SYMMETRY SessionSymmetry
CHECK_DEADLOCK FALSE
INVARIANTS InterruptedSealIsAttributed QuorumBehindEverySeal
PROPERTIES ClosedStaysClosed
